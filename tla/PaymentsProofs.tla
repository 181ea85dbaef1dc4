--------------------------- MODULE PaymentsProofs ---------------------------
(***************************************************************************)
(* The gateway's payment surfaces for any number of requests, transfers,    *)
(* processes, counters and faults: types, what money a spend row or a       *)
(* channel stands for, and the replay guard.                                *)
(***************************************************************************)
EXTENDS Gateway, FaucetProofs, FiniteSums, TLAPS

-----------------------------------------------------------------------------
(* The limited counters of a request                                        *)

\* A set of numbers up to N has a least one.
LEMMA LeastNumber ==
    ASSUME NEW N \in Nat, NEW T \in SUBSET (0 .. N), T # {}
    PROVE  \E x \in T : \A y \in T : x <= y
<1> DEFINE U == {1 .. x : x \in T}
<1>1. PICK S : S = 1 .. N
  OBVIOUS
<1>2. PICK u \in U : \A v \in U : ~(v \subseteq u /\ u # v)
  <2>1. IsFiniteSet(S)
    BY <1>1, FS_Interval
  <2>2. \A x \in T : x \in Int /\ x <= N /\ (1 .. x) \in SUBSET S
    BY <1>1
  <2>3. U \in SUBSET (SUBSET S) /\ U # {}
    BY <2>2
  <2> HIDE DEF U
  <2> QED BY <2>1, <2>3, LeastBad
<1>3. PICK x \in T : u = 1 .. x
  BY <1>2 DEF U
<1>4. ASSUME NEW y \in T, ~(x <= y) PROVE FALSE
  <2>1. (1 .. y) \in U /\ (1 .. y) \subseteq (1 .. x) /\ x \in 1 .. x /\ x \notin 1 .. y
    BY <1>4 DEF U
  <2> QED BY <1>2, <1>3, <2>1
<1> QED BY <1>4

\* One step of LimitedAmong's recursion, and a function that follows it up to n.
LimitedStep(b, g, n) ==
    IF n = 0 THEN <<>>
    ELSE IF Limit[Windows[b][n]] = NoLimit THEN g[n - 1]
    ELSE Append(g[n - 1], Windows[b][n])

FollowsTo(b, g, n) == g = [i \in 0 .. n |-> LimitedStep(b, g, i)]

\* The recursion defines a function for as many counters as the request has.
LEMMA LimitedDefined ==
    ASSUME NEW b \in Buys
    PROVE  /\ DOMAIN LimitedAmong(b) = 0 .. Len(Windows[b])
           /\ \A n \in 0 .. Len(Windows[b]) :
                 LimitedAmong(b)[n] = LimitedStep(b, LimitedAmong(b), n)
<1> DEFINE N == Len(Windows[b])
           T == {n \in 0 .. N : ~ \E g : FollowsTo(b, g, n)}
<1>0. N \in Nat
  BY BudgetConstants
<1> HIDE DEF N
<1>1. ASSUME T # {} PROVE FALSE
  <2>1. PICK x \in T : \A y \in T : x <= y
    <3>1. T \in SUBSET (0 .. N)
      OBVIOUS
    <3> HIDE DEF T
    <3> QED BY <1>0, <1>1, <3>1, LeastNumber
  <2>2. CASE x = 0
    <3> DEFINE g0 == [i \in 0 .. 0 |-> <<>>]
    <3>1. FollowsTo(b, g0, 0)
      BY DEF FollowsTo, LimitedStep
    <3> QED BY <2>1, <2>2, <3>1
  <2>3. CASE x # 0
    <3>1. x - 1 \in 0 .. N /\ x - 1 \notin T /\ x \in 0 .. N
      BY <1>0, <2>1, <2>3
    <3>2. PICK g0 : FollowsTo(b, g0, x - 1)
      BY <3>1
    <3> DEFINE g1 == [i \in 0 .. x |-> IF i < x THEN g0[i] ELSE LimitedStep(b, g0, x)]
    <3>3. g1 = [i \in 0 .. x |-> g1[i]]
      OBVIOUS
    <3>4. ASSUME NEW i \in 0 .. x PROVE g1[i] = LimitedStep(b, g1, i)
      <4>1. i # 0 => g1[i - 1] = g0[i - 1]
        BY <1>0, <3>1
      <4>2. LimitedStep(b, g1, i) = LimitedStep(b, g0, i)
        BY <1>0, <3>1, <4>1 DEF LimitedStep
      <4>3. i < x => g0[i] = LimitedStep(b, g0, i)
        BY <1>0, <3>1, <3>2 DEF FollowsTo
      <4> HIDE DEF LimitedStep
      <4> QED BY <1>0, <3>1, <4>2, <4>3
    <3>5. FollowsTo(b, g1, x)
      <4> HIDE DEF g1
      <4> QED BY <3>3, <3>4 DEF FollowsTo
    <3> QED BY <2>1, <3>5
  <2> QED BY <2>2, <2>3
<1>2. PICK g : FollowsTo(b, g, N)
  BY <1>0, <1>1
<1>3. g = [n \in 0 .. N |-> IF n = 0 THEN <<>>
                            ELSE IF Limit[Windows[b][n]] = NoLimit THEN g[n - 1]
                            ELSE Append(g[n - 1], Windows[b][n])]
  BY <1>2 DEF FollowsTo, LimitedStep
<1>4. LimitedAmong(b) = [n \in 0 .. N |-> IF n = 0 THEN <<>>
                            ELSE IF Limit[Windows[b][n]] = NoLimit THEN LimitedAmong(b)[n - 1]
                            ELSE Append(LimitedAmong(b)[n - 1], Windows[b][n])]
  BY <1>3 DEF LimitedAmong, N
<1> SUFFICES ASSUME NEW h,
                    h = [n \in 0 .. N |-> IF n = 0 THEN <<>>
                            ELSE IF Limit[Windows[b][n]] = NoLimit THEN h[n - 1]
                            ELSE Append(h[n - 1], Windows[b][n])]
             PROVE  DOMAIN h = 0 .. N /\ \A n \in 0 .. N : h[n] = LimitedStep(b, h, n)
  BY <1>4 DEF N
<1> QED BY DEF LimitedStep

\* Limited(b) names the limited ones of the request's counters, each once.
LEMMA LimitedFacts ==
    ASSUME NEW b \in Buys
    PROVE  /\ Limited(b) \in Seq(Counters)
           /\ \A k \in DOMAIN Limited(b) :
                 /\ Limit[Limited(b)[k]] # NoLimit
                 /\ \E j \in DOMAIN Windows[b] : Limited(b)[k] = Windows[b][j]
           /\ \A k, l \in DOMAIN Limited(b) : Limited(b)[k] = Limited(b)[l] => k = l
<1> DEFINE N == Len(Windows[b])
<1>0. /\ N \in Nat /\ Windows[b] \in Seq(Counters) /\ DOMAIN Windows[b] = 1 .. N
      /\ \A i \in 1 .. N : Windows[b][i] \in Counters
      /\ \A i, j \in 1 .. N : Windows[b][i] = Windows[b][j] => i = j
  BY BudgetConstants
<1> HIDE DEF N
<1>1. PICK W : W = Windows[b]
  OBVIOUS
<1>2. PICK q : q = LimitedAmong(b)
  OBVIOUS
<1>3. \A n \in 0 .. N : q[n] = IF n = 0 THEN <<>>
                               ELSE IF Limit[W[n]] = NoLimit THEN q[n - 1]
                               ELSE Append(q[n - 1], W[n])
  BY <1>1, <1>2, LimitedDefined DEF LimitedStep, N
<1> DEFINE Names(n) == \A k \in DOMAIN q[n] :
                 /\ Limit[q[n][k]] # NoLimit
                 /\ \E j \in 1 .. n : q[n][k] = W[j]
           Once(n) == \A k, l \in DOMAIN q[n] : q[n][k] = q[n][l] => k = l
           Good(n) == q[n] \in Seq(Counters) /\ Names(n) /\ Once(n)
           T == {n \in 0 .. N : ~Good(n)}
<1>4. ASSUME T # {} PROVE FALSE
  <2>1. PICK x \in T : \A y \in T : x <= y
    <3>1. T \in SUBSET (0 .. N)
      OBVIOUS
    <3> HIDE DEF T
    <3> QED BY <1>0, <1>4, <3>1, LeastNumber
  <2>2. CASE x = 0
    <3>1. q[0] = <<>>
      BY <1>0, <1>3
    <3>2. Good(0)
      BY <3>1
    <3> QED BY <2>1, <2>2, <3>2
  <2>3. CASE x # 0
    <3>1. x - 1 \in 0 .. N /\ x - 1 \notin T /\ x \in 1 .. N
      BY <1>0, <2>1, <2>3
    <3>2. PICK p : p = q[x - 1]
      OBVIOUS
    <3>3. /\ p \in Seq(Counters) /\ \A k, l \in DOMAIN p : p[k] = p[l] => k = l
          /\ \A k \in DOMAIN p : Limit[p[k]] # NoLimit /\ \E j \in 1 .. x - 1 : p[k] = W[j]
      BY <3>1, <3>2
    <3>4. CASE Limit[W[x]] = NoLimit
      <4>1. q[x] = p
        BY <1>0, <1>3, <3>1, <3>2, <3>4
      <4>2. Good(x)
        BY <3>1, <3>3, <4>1
      <4> QED BY <2>1, <4>2
    <3>5. CASE Limit[W[x]] # NoLimit
      <4>0. x \in 0 .. N /\ x # 0
        BY <1>0, <3>1
      <4>1. q[x] = Append(p, W[x])
        BY <1>3, <3>2, <3>5, <4>0, Zenon
      <4>2. W[x] \in Counters
        BY <1>0, <1>1, <3>1
      <4>3. /\ q[x] \in Seq(Counters) /\ DOMAIN p = 1 .. Len(p) /\ Len(p) \in Nat
            /\ DOMAIN q[x] = 1 .. Len(p) + 1
            /\ q[x][Len(p) + 1] = W[x]
            /\ \A k \in DOMAIN p : q[x][k] = p[k]
        BY <3>3, <4>1, <4>2
      <4>4. \A k \in DOMAIN q[x] : k \in DOMAIN p \/ k = Len(p) + 1
        BY <4>3
      <4>5. Names(x)
        BY <3>1, <3>3, <3>5, <4>3, <4>4
      <4>6. \A k \in DOMAIN p : p[k] # W[x]
        BY <1>0, <1>1, <3>1, <3>3
      <4>7. Once(x)
        BY <3>3, <4>3, <4>4, <4>6
      <4> QED BY <2>1, <4>3, <4>5, <4>7
    <3> QED BY <3>4, <3>5
  <2> QED BY <2>2, <2>3
<1>5. Good(N)
  BY <1>0, <1>4
<1>6. Limited(b) = q[N]
  BY <1>2 DEF Limited, N
<1> QED BY <1>0, <1>1, <1>5, <1>6

-----------------------------------------------------------------------------
(* What one step may do to one request                                      *)

\* The stages a surface has.
TaskStages ==
    {"intake", "lock", "recheck", "mark", "markSave", "verify", "serve", "book", "finish",
     "finishSave", "revert", "revertSave", "release", "done"}
SettleFirst == {"proxy", "search", "price"}

StagesOf(p) ==
    IF p = "chat"
    THEN {"guard", "budget", "reserve", "verify", "serve", "send", "confirm", "book", "return",
          "done"}
    ELSE IF p \in SettleFirst
    THEN {"guard", "verify", "send", "confirm", "book", "serve", "return", "done"}
    ELSE IF p = "a2a" THEN TaskStages \cup {"guard", "send", "confirm"}
    ELSE IF p = "voucher" THEN TaskStages \cup {"persist"}
    ELSE {"intake", "lock", "recheck", "cancel", "cancelSave", "release", "done"}

AllStages ==
    TaskStages \cup {"guard", "budget", "reserve", "send", "confirm", "persist", "return",
                     "cancel", "cancelSave"}

StageInv ==
    /\ stage \in [Buys -> AllStages]
    /\ \A b \in Buys : stage[b] \in StagesOf(Path[b])

\* The order of the steps, as Then gives it.
LEMMA ThenFacts ==
    /\ Then["chat"]["guard"] = "budget" /\ Then["chat"]["reserve"] = "verify"
    /\ Then["chat"]["verify"] = "serve" /\ Then["chat"]["serve"] = "send"
    /\ Then["chat"]["send"] = "confirm" /\ Then["chat"]["confirm"] = "book"
    /\ Then["chat"]["book"] = "done"
    /\ \A p \in SettleFirst :
          /\ Then[p]["guard"] = "verify" /\ Then[p]["verify"] = "send"
          /\ Then[p]["send"] = "confirm" /\ Then[p]["confirm"] = "book"
          /\ Then[p]["book"] = "serve" /\ Then[p]["serve"] = "done"
    /\ Then["a2a"]["guard"] = "verify" /\ Then["a2a"]["verify"] = "send"
    /\ Then["a2a"]["send"] = "confirm" /\ Then["a2a"]["confirm"] = "serve"
    /\ Then["a2a"]["serve"] = "book" /\ Then["a2a"]["book"] = "finish"
    /\ Then["voucher"]["verify"] = "serve" /\ Then["voucher"]["serve"] = "persist"
    /\ Then["voucher"]["persist"] = "book" /\ Then["voucher"]["book"] = "finish"
<1>1. /\ Then["chat"] = ChatSteps /\ Then["a2a"] = TaskSteps /\ Then["voucher"] = VoucherSteps
      /\ \A p \in SettleFirst : Then[p] = ProxySteps
  BY DEF Then, SettleFirst, SearchSteps, PriceSteps
<1> QED BY <1>1 DEF ChatSteps, ProxySteps, TaskSteps, VoucherSteps

\* A request's stage is one of its surface's, and where it goes when it proceeds.
After(p, l) ==
    IF l = "guard" THEN IF p = "chat" THEN "budget" ELSE "verify"
    ELSE IF l = "reserve" THEN "verify"
    ELSE IF l = "verify" THEN IF p \in {"chat", "voucher"} THEN "serve" ELSE "send"
    ELSE IF l = "send" THEN "confirm"
    ELSE IF l = "confirm" THEN IF p = "a2a" THEN "serve" ELSE "book"
    ELSE IF l = "persist" THEN "book"
    ELSE IF l = "serve"
    THEN IF p = "chat" THEN "send" ELSE IF p = "a2a" THEN "book"
         ELSE IF p = "voucher" THEN "persist" ELSE "done"
    ELSE IF p = "chat" THEN "done" ELSE IF p \in SettleFirst THEN "serve" ELSE "finish"

\* Going on is going to the next stage of the surface's table.
LEMMA ProceedGoes ==
    ASSUME StageInv, NEW b \in Buys, Proceed(b),
           stage[b] \in {"guard", "reserve", "verify", "send", "confirm", "persist", "serve", "book"}
    PROVE  stage' = [stage EXCEPT ![b] = After(Path[b], stage[b])]
<1>1. Path[b] \in Paths /\ stage[b] \in StagesOf(Path[b])
  BY PaymentConstants DEF StageInv
<1>2. Then[Path[b]][stage[b]] = After(Path[b], stage[b])
  <2>1. CASE Path[b] = "chat"
    BY <1>1, <2>1, ThenFacts DEF After, StagesOf, SettleFirst
  <2>2. CASE Path[b] \in SettleFirst
    BY <1>1, <2>2, ThenFacts DEF After, StagesOf, SettleFirst
  <2>3. CASE Path[b] = "a2a"
    BY <1>1, <2>3, ThenFacts DEF After, StagesOf, SettleFirst, TaskStages
  <2>4. CASE Path[b] = "voucher"
    BY <1>1, <2>4, ThenFacts DEF After, StagesOf, SettleFirst, TaskStages
  <2>5. CASE Path[b] = "cancel"
    BY <1>1, <2>5 DEF StagesOf, SettleFirst
  <2> QED BY <1>1, <2>1, <2>2, <2>3, <2>4, <2>5 DEF Paths, SettleFirst
<1> QED BY <1>2 DEF Proceed, Step

\* The moves that neither admit, settle, serve nor book the request.
Quiet(p, l, m) ==
    \/ m = "done"
    \/ /\ m = "revert" /\ p \in TaskPaths
       /\ l \in {"guard", "verify", "send", "confirm", "serve"} /\ ~(p = "a2a" /\ l = "serve")
    \/ m = "return" /\ p \notin TaskPaths /\ l # "done"
    \/ l = "budget" /\ m \in {"reserve", "verify"}
    \/ l \in {"reserve", "verify"} /\ m = After(p, l)
    \/ l = "serve" /\ p = "a2a" /\ m = "book"
    \/ /\ p \in TaskPaths
       /\ \/ l = "intake" /\ m = "lock"
          \/ l = "lock" /\ m = "recheck"
          \/ l = "recheck" /\ m \in {IF p = "cancel" THEN "cancel" ELSE "mark", "release"}
          \/ l = "mark" /\ m \in {"markSave", "release"}
          \/ l = "markSave" /\ m \in {IF p = "voucher" THEN "verify" ELSE "guard", "release"}
          \/ l = "cancel" /\ m \in {"cancelSave", "release"}
          \/ l = "cancelSave" /\ m = "release"
          \/ l = "revert" /\ m \in {"revertSave", "release"}
          \/ l = "revertSave" /\ m = "release"
          \/ l \in {"persist", "book"} /\ m = "finish"
          \/ l = "finish" /\ m = "finishSave"

\* What a request has got so far.
SameFlags(c) ==
    /\ c \in paid' <=> c \in paid
    /\ c \in served' <=> c \in served
    /\ c \in booked' <=> c \in booked
    /\ store'[c] = store[c]

StoresOf(c) == {Redis, Fallback(Host[c]), Local(Host[c], Path[c])}

Admits(c) ==
    /\ stage[c] = "guard" /\ c \in posted
    /\ store'[c] \in StoresOf(c) /\ ~(seen[store'[c]][Pays[c]] > now)
    /\ c \in paid' <=> c \in paid
    /\ c \in served' <=> c \in served
    /\ c \in booked' <=> c \in booked

Sends(c) ==
    stage[c] = "send" /\ chain[Pays[c]] \in {"unseen", "pool"} /\ SameFlags(c)

Settles(c) ==
    /\ stage[c] = "confirm" /\ chain[Pays[c]] = "landed"
    /\ c \in paid' /\ store'[c] = store[c]
    /\ c \in served' <=> c \in served
    /\ c \in booked' <=> c \in booked

Persists(c) ==
    /\ stage[c] = "persist" /\ c \in paid' /\ store'[c] = store[c]
    /\ c \in served' <=> c \in served
    /\ c \in booked' <=> c \in booked

Serves(c) ==
    /\ stage[c] = "serve" /\ c \in served' /\ store'[c] = store[c]
    /\ c \in paid' <=> c \in paid
    /\ c \in booked' <=> c \in booked

Books(c) ==
    /\ stage[c] = "book" /\ c \in booked' /\ store'[c] = store[c]
    /\ c \in paid' <=> c \in paid
    /\ c \in served' <=> c \in served

\* A rollback has something to return, a reservation something to reserve.
Enters(c, m) ==
    /\ m = "return" => hold[c] # <<>>
    /\ m = "reserve" => todo'[c] # <<>>

RequestMoves(c) ==
    \/ /\ SameFlags(c)
       /\ \/ stage'[c] = stage[c]
          \/ Quiet(Path[c], stage[c], stage'[c]) /\ Enters(c, stage'[c])
    \/ /\ Admits(c) \/ Sends(c) \/ Settles(c) \/ Persists(c) \/ Serves(c) \/ Books(c)
       /\ stage'[c] = After(Path[c], stage[c])
    \/ Persists(c) /\ stage'[c] = "finish"

BudgetTypes ==
    /\ epoch \in [Counters -> Epochs]
    /\ counter \in [Counters -> [Epochs -> Int]]
    /\ hold \in [Buys -> Seq(Counters \X Epochs)]
    /\ at \in [Buys -> [Counters -> Epochs]]
    /\ todo \in [Buys -> Seq(Counters)]

ReqTypes == StageInv /\ store \in [Buys -> Stores \cup {NoStore}] /\ BudgetTypes

\* A step of request b is seen by the others as nothing.
LEMMA QuietStep ==
    ASSUME ReqTypes, NEW b \in Buys, NEW m, Step(b, m),
           Quiet(Path[b], stage[b], m), Enters(b, m),
           UNCHANGED <<store, paid, served, booked>>, NEW c \in Buys
    PROVE  RequestMoves(c)
<1>1. stage'[c] = IF c = b THEN m ELSE stage[c]
  BY DEF ReqTypes, StageInv, Step
<1> QED BY <1>1 DEF RequestMoves, SameFlags

\* An error answer.
LEMMA RefuseGoes ==
    ASSUME ReqTypes, NEW b \in Buys, Refuse(b),
           stage[b] \notin {"guard", "verify", "send", "confirm", "serve"} => Path[b] \notin TaskPaths,
           ~(Path[b] = "a2a" /\ stage[b] = "serve"), stage[b] # "done"
    PROVE  \E m : Step(b, m) /\ Quiet(Path[b], stage[b], m)
                  /\ Enters(b, m)
  BY DEF Refuse, Quiet, Enters

\* Verification, sending, settlement, service and booking.
LEMMA SettlementMoves ==
    ASSUME ReqTypes, NEW b \in Buys, b \in posted, NEW c \in Buys,
           \/ VerifyPayment(b) \/ SendPayment(b) \/ SendPaymentLost(b)
           \/ PaymentConfirmed(b) \/ PaymentUnconfirmed(b)
           \/ Serve(b) \/ ServeFails(b) \/ Book(b) \/ BookSkipped(b)
    PROVE  RequestMoves(c)
<1>s. stage \in [Buys -> AllStages]
  BY DEF ReqTypes, StageInv
<1>g. ASSUME Proceed(b),
             stage[b] \in {"guard", "reserve", "verify", "send", "confirm", "persist", "serve", "book"}
      PROVE  Step(b, After(Path[b], stage[b])) /\ stage'[b] = After(Path[b], stage[b])
             /\ (c # b => stage'[c] = stage[c])
  BY <1>s, <1>g, ProceedGoes DEF ReqTypes, Step
<1>1. CASE /\ Refuse(b) /\ UNCHANGED <<store, paid, served, booked>>
           /\ stage[b] \in {"verify", "send", "confirm", "serve"}
           /\ ~(Path[b] = "a2a" /\ stage[b] = "serve")
  BY <1>1, RefuseGoes, QuietStep
<1>2. CASE VerifyPayment(b) /\ Proceed(b)
  <2>1. Quiet(Path[b], stage[b], After(Path[b], stage[b])) /\ Enters(b, After(Path[b], stage[b]))
    BY <1>2 DEF VerifyPayment, Quiet, After, Enters
  <2> QED BY <1>2, <1>g, <2>1, QuietStep DEF VerifyPayment
<1>3. CASE SendPayment(b) /\ Proceed(b) /\ chain[Pays[b]] \in {"unseen", "pool"}
  BY <1>3, <1>g DEF SendPayment, RequestMoves, Sends, SameFlags
<1>4. CASE PaymentConfirmed(b)
  BY <1>4, <1>g DEF PaymentConfirmed, RequestMoves, Settles, SameFlags
<1>5. CASE Serve(b)
  BY <1>5, <1>g DEF Serve, RequestMoves, Serves, SameFlags
<1>6. CASE Book(b)
  BY <1>6, <1>g DEF Book, RequestMoves, Books, SameFlags
<1>7. CASE ServeFails(b) /\ Path[b] = "a2a"
  <2>1. /\ Quiet(Path[b], stage[b], After(Path[b], stage[b])) /\ stage[b] = "serve"
        /\ Enters(b, After(Path[b], stage[b]))
        /\ UNCHANGED <<store, paid, served, booked>> /\ Proceed(b)
    BY <1>7 DEF ServeFails, Quiet, After, Enters
  <2> QED BY <1>g, <2>1, QuietStep
<1>8. CASE VerifyPayment(b) /\ ~Proceed(b)
  BY <1>1, <1>8 DEF VerifyPayment
<1>9. CASE SendPayment(b) /\ chain[Pays[b]] \notin {"unseen", "pool"}
  BY <1>1, <1>9 DEF SendPayment, SettleFailed
<1>10. CASE SendPaymentLost(b) \/ PaymentUnconfirmed(b)
  BY <1>1, <1>10 DEF SendPaymentLost, PaymentUnconfirmed, SettleFailed
<1>11. CASE ServeFails(b) /\ Path[b] # "a2a"
  BY <1>1, <1>11 DEF ServeFails
<1>12. SendPayment(b) /\ chain[Pays[b]] \in {"unseen", "pool"} => Proceed(b)
  BY DEF SendPayment
<1>13. CASE BookSkipped(b)
  <2>1. stage[b] = "book" /\ Proceed(b) /\ UNCHANGED <<store, paid, served, booked>>
    BY <1>13 DEF BookSkipped, payOnly
  <2>2. Path[b] \in {"chat", "a2a", "voucher"}
    BY <1>13 DEF BookSkipped
  <2>3. Quiet(Path[b], stage[b], After(Path[b], stage[b])) /\ Enters(b, After(Path[b], stage[b]))
    BY <2>1, <2>2 DEF Quiet, After, Enters, TaskPaths, SettleFirst
  <2> QED BY <1>g, <2>1, <2>3, QuietStep
<1> QED BY <1>2, <1>3, <1>4, <1>5, <1>6, <1>7, <1>8, <1>9, <1>10, <1>11, <1>12, <1>13

\* The replay guard.
LEMMA GuardMoves ==
    ASSUME ReqTypes, NEW b \in Buys, b \in posted, NEW c \in Buys,
           Guard(b) \/ GuardWithoutRedis(b) \/ GuardAnswerLost(b)
    PROVE  RequestMoves(c)
<1>s. stage \in [Buys -> AllStages] /\ store \in [Buys -> Stores \cup {NoStore}]
      /\ stage[b] = "guard"
  BY DEF ReqTypes, StageInv, Guard, GuardWithoutRedis, GuardAnswerLost
<1>1. UNCHANGED <<paid, served, booked>>
  BY DEF Guard, GuardWithoutRedis, GuardAnswerLost
<1>2. CASE Refuse(b) /\ UNCHANGED store
  BY <1>s, <1>1, <1>2, RefuseGoes, QuietStep
<1>3. ASSUME NEW s \in StoresOf(b), ~(seen[s][Pays[b]] > now),
             store' = [store EXCEPT ![b] = s], Proceed(b)
      PROVE  RequestMoves(c)
  <2>1. stage' = [stage EXCEPT ![b] = After(Path[b], stage[b])]
    BY <1>s, <1>3, ProceedGoes DEF ReqTypes
  <2>2. CASE c = b
    BY <1>s, <1>1, <1>3, <2>1, <2>2 DEF RequestMoves, Admits
  <2>3. CASE c # b
    BY <1>s, <1>1, <1>3, <2>1, <2>3 DEF RequestMoves, SameFlags
  <2> QED BY <2>2, <2>3
<1>4. \/ Refuse(b) /\ UNCHANGED store
      \/ \E s \in StoresOf(b) : /\ ~(seen[s][Pays[b]] > now)
                                /\ store' = [store EXCEPT ![b] = s] /\ Proceed(b)
  BY DEF Guard, GuardWithoutRedis, GuardAnswerLost, CheckAndRecord, StoresOf
<1> QED BY <1>2, <1>3, <1>4

\* Reservation, rollback, logging and a dropped handler.
LEMMA BudgetMoves ==
    ASSUME ReqTypes, NEW b \in Buys, b \in posted, NEW c \in Buys,
           \/ StartBudget(b) \/ Reserve(b) \/ Deny(b) \/ DenyOnError(b)
           \/ GiveBack(b) \/ GiveBackLost(b) \/ Log(b) \/ LogLost(b) \/ Disconnect(b)
    PROVE  RequestMoves(c)
<1>s. stage \in [Buys -> AllStages] /\ stage[b] \in StagesOf(Path[b]) /\ Path[b] \in Paths
  BY PaymentConstants DEF ReqTypes, StageInv
<1>1. UNCHANGED <<store, paid, served, booked>>
  BY DEF StartBudget, Reserve, Deny, DenyOnError, GiveBack, GiveBackLost, Log, LogLost,
     Disconnect, payOnly, payFaulty
<1>2. CASE UNCHANGED stage
  BY <1>1, <1>2 DEF RequestMoves, SameFlags
<1>3. CASE Refuse(b) /\ stage[b] \in {"budget", "reserve"}
  <2>1. Path[b] = "chat"
    BY <1>s, <1>3 DEF StagesOf, TaskStages, SettleFirst
  <2>2. Path[b] \notin TaskPaths
    BY <2>1 DEF TaskPaths
  <2> QED BY <1>1, <1>3, <2>1, <2>2, RefuseGoes, QuietStep
<1>4. CASE Step(b, "done")
  BY <1>1, <1>4, QuietStep DEF Quiet, Enters
<1>5. CASE stage[b] = "budget" /\ \E m \in {"reserve", "verify"} : Step(b, m) /\ Enters(b, m)
  BY <1>1, <1>5, QuietStep DEF Quiet
<1>6. CASE stage[b] = "reserve" /\ Proceed(b)
  <2>1. /\ Step(b, After(Path[b], stage[b])) /\ Quiet(Path[b], stage[b], After(Path[b], stage[b]))
        /\ Enters(b, After(Path[b], stage[b]))
    BY <1>6, ProceedGoes DEF ReqTypes, Step, Quiet, Enters, After
  <2> QED BY <1>1, <2>1, QuietStep
<1>7. \/ UNCHANGED stage \/ Step(b, "done")
      \/ Refuse(b) /\ stage[b] \in {"budget", "reserve"}
      \/ stage[b] = "budget" /\ \E m \in {"reserve", "verify"} : Step(b, m) /\ Enters(b, m)
      \/ stage[b] = "reserve" /\ Proceed(b)
  <2>1. ASSUME CheckBudget(b), Step(b, IF Limited(b) = <<>> THEN "verify" ELSE "reserve")
        PROVE  \E m \in {"reserve", "verify"} : Step(b, m) /\ Enters(b, m)
    BY <2>1 DEF CheckBudget, Enters, ReqTypes, BudgetTypes
  <2>2. StartBudget(b) => \/ Refuse(b) /\ stage[b] \in {"budget", "reserve"}
                          \/ /\ stage[b] = "budget" /\ CheckBudget(b)
                             /\ Step(b, IF Limited(b) = <<>> THEN "verify" ELSE "reserve")
    BY DEF StartBudget
  <2>3. ~StartBudget(b) =>
            \/ UNCHANGED stage \/ Step(b, "done")
            \/ Refuse(b) /\ stage[b] \in {"budget", "reserve"}
            \/ stage[b] = "reserve" /\ Proceed(b)
    BY DEF Reserve, Deny, DenyOnError, GiveBack, GiveBackLost, Log, LogLost, Disconnect
  <2> QED BY <2>1, <2>2, <2>3
<1> QED BY <1>2, <1>3, <1>4, <1>5, <1>6, <1>7

\* The task handlers, but for the two that debit a channel.
LEMMA TaskControl ==
    ASSUME ReqTypes, NEW b \in TaskRequests, TaskStep(b),
           ~PersistVoucher(b), ~DeliverFree(b)
    PROVE  /\ UNCHANGED <<chain, channels, pc, posted, now, seen, store, paid, served, booked, budgetVars>>
           /\ \E m : Step(b, m) /\ Quiet(Path[b], stage[b], m) /\ Enters(b, m)
<1> USE DEF Enters
<1>1. b \in Buys /\ Path[b] \in TaskPaths
  BY DEF TaskRequests
<1>2. CASE Intake(b)
  BY <1>1, <1>2 DEF Intake, Quiet, payRest, vars
<1>3. CASE AcquireLock(b)
  BY <1>1, <1>3 DEF AcquireLock, Quiet, payRest, vars
<1>4. CASE AcquireFails(b)
  BY <1>1, <1>4 DEF AcquireFails, RedisError, Quiet
<1>5. CASE Recheck(b)
  BY <1>1, <1>5 DEF Recheck, Quiet, payRest, vars
<1>6. CASE RecheckFails(b)
  BY <1>1, <1>6 DEF RecheckFails, RedisError, Quiet
<1>7. CASE Mark(b)
  BY <1>1, <1>7 DEF Mark, LoadFor, Quiet, payRest, vars
<1>8. CASE MarkSave(b)
  BY <1>1, <1>8 DEF MarkSave, Quiet, payRest, vars
<1>9. CASE MarkSaveFails(b)
  BY <1>1, <1>9 DEF MarkSaveFails, RedisError, Quiet
<1>10. CASE Cancel(b)
  BY <1>1, <1>10 DEF Cancel, LoadFor, Quiet, payRest, vars
<1>11. CASE CancelSave(b)
  BY <1>1, <1>11 DEF CancelSave, Quiet, payRest, vars
<1>12. CASE CancelSaveFails(b)
  BY <1>1, <1>12 DEF CancelSaveFails, RedisError, Quiet
<1>13. CASE Revert(b)
  BY <1>1, <1>13 DEF Revert, LoadFor, Quiet, payRest, vars
<1>14. CASE RevertSave(b)
  BY <1>1, <1>14 DEF RevertSave, Quiet, payRest, vars
<1>15. CASE RevertFails(b)
  BY <1>1, <1>15 DEF RevertFails, RedisError, Quiet
<1>16. CASE Release(b)
  BY <1>1, <1>16 DEF Release, Quiet, payRest, vars
<1>17. CASE ReleaseFails(b)
  BY <1>1, <1>17 DEF ReleaseFails, RedisError, Quiet
<1>18. CASE Finish(b)
  BY <1>1, <1>18 DEF Finish, LoadFor, Quiet, payRest, vars
<1>19. CASE FinishSave(b)
  BY <1>1, <1>19 DEF FinishSave, Quiet, payRest, vars
<1>20. CASE FinishFails(b)
  BY <1>1, <1>20 DEF FinishFails, RedisError, Quiet
<1> QED BY <1>2, <1>3, <1>4, <1>5, <1>6, <1>7, <1>8, <1>9, <1>10, <1>11, <1>12, <1>13, <1>14,
           <1>15, <1>16, <1>17, <1>18, <1>19, <1>20 DEF TaskStep

\* persist_voucher_and_advance.
LEMMA PersistMoves ==
    ASSUME ReqTypes, NEW b \in TaskRequests, PersistVoucher(b) \/ DeliverFree(b), NEW c \in Buys
    PROVE  /\ RequestMoves(c)
           /\ UNCHANGED <<chain, channels, pc, posted, now, seen, served, booked, store, budgetVars>>
<1>s. stage \in [Buys -> AllStages] /\ b \in Buys /\ stage[b] = "persist" /\ Path[b] \in TaskPaths
  BY DEF ReqTypes, StageInv, TaskRequests, PersistVoucher, DeliverFree
<1>0. UNCHANGED <<chain, channels, pc, posted, now, seen, served, booked, store, budgetVars>>
  BY DEF PersistVoucher, DeliverFree, vars
<1>1. CASE PersistVoucher(b)
  <2>1. stage' = [stage EXCEPT ![b] = After(Path[b], stage[b])]
    BY <1>s, <1>1, ProceedGoes DEF ReqTypes, PersistVoucher
  <2> QED BY <1>s, <1>0, <1>1, <2>1 DEF PersistVoucher, RequestMoves, Persists, SameFlags
<1>2. CASE DeliverFree(b) /\ UNCHANGED paid
  <2>1. Quiet(Path[b], stage[b], "finish") /\ Enters(b, "finish")
    BY <1>s DEF Quiet, Enters
  <2> QED BY <1>s, <1>0, <1>2, <2>1, QuietStep DEF DeliverFree
<1>3. CASE DeliverFree(b) /\ paid' = paid \cup {b}
  <2>1. stage' = [stage EXCEPT ![b] = "finish"]
    BY <1>3 DEF DeliverFree, Step
  <2>2. CASE c = b
    BY <1>s, <1>0, <1>3, <2>1, <2>2 DEF RequestMoves, Persists
  <2>3. CASE c # b
    BY <1>s, <1>0, <1>3, <2>1, <2>3 DEF RequestMoves, SameFlags
  <2> QED BY <2>2, <2>3
<1>4. DeliverFree(b) => UNCHANGED paid \/ paid' = paid \cup {b}
  BY DEF DeliverFree
<1> QED BY <1>1, <1>2, <1>3, <1>4

\* The steps of a gateway, sorted by whom they are about.
gatewayVars == <<taskSystem, faucetVars>>

Elsewhere ==
    \/ /\ \E w \in Charged : Rollover(w) /\ UNCHANGED <<payOnly, stage>>
       /\ UNCHANGED taskVars
    \/ /\ \/ \E o \in posted \cap Opens : OpenStep(o) \/ Abandon(o) \/ SendAnswerLost(o)
          \/ \E f \in Presented : Execute(f) \/ Expire(f)
       /\ UNCHANGED <<payVars, taskVars>>
    \/ \E t \in Tasks : NewRequest(t) \/ LockLapses(t) \/ TaskLapses(t)
    \/ UNCHANGED taskSystem

\* A step of the gateway is one request's, a restart, the clock's, or leaves every
\* request where it is.
LEMMA GatewayCases ==
    ASSUME [GatewayNext]_gatewayVars
    PROVE  \/ \E b \in posted \cap Buys : BuyStep(b) /\ UNCHANGED taskVars
           \/ \E b \in posted \cap TaskRequests : TaskStep(b)
           \/ \E i : Restart(i) /\ UNCHANGED taskVars
           \/ Tick /\ UNCHANGED taskVars
           \/ Elsewhere
<1>1. CASE UNCHANGED gatewayVars
  BY <1>1 DEF gatewayVars, Elsewhere
<1>2. CASE FaucetStep /\ UNCHANGED taskSystem
  BY <1>2 DEF Elsewhere
<1>3. CASE \E t \in {Task[b] : b \in posted \cap TaskRequests} :
              NewRequest(t) \/ LockLapses(t) \/ TaskLapses(t)
  <2>1. {Task[b] : b \in posted \cap TaskRequests} \subseteq Tasks
    BY TaskConstants
  <2> QED BY <1>3, <2>1 DEF Elsewhere
<1>4. CASE \E b \in posted \cap TaskRequests : TaskStep(b)
  BY <1>4
<1>5. CASE PayNext /\ UNCHANGED taskVars
  BY <1>5 DEF PayNext, Elsewhere
<1> QED BY <1>1, <1>2, <1>3, <1>4, <1>5 DEF GatewayNext, TaskNext

\* Rolling periods, opens, the cluster, lapses and the faucet touch no request.
LEMMA ElsewhereFrame ==
    ASSUME Elsewhere
    PROVE  UNCHANGED <<posted, now, seen, stage, store, sent, paid, served, booked>>
<1>1. CASE \E w \in Charged : Rollover(w) /\ UNCHANGED <<payOnly, stage>>
  BY <1>1 DEF payOnly
<1>2. CASE UNCHANGED payVars
  BY <1>2 DEF payVars
<1>3. CASE \E t \in Tasks : NewRequest(t) \/ LockLapses(t) \/ TaskLapses(t)
  BY <1>3 DEF NewRequest, LockLapses, TaskLapses, payVars
<1>4. CASE UNCHANGED taskSystem
  BY <1>4 DEF taskSystem, payVars
<1> QED BY <1>1, <1>2, <1>3, <1>4 DEF Elsewhere

\* Whatever the step, each request moves as its surface allows, or not at all.
LEMMA EveryMove ==
    ASSUME ReqTypes, [GatewayNext]_gatewayVars, NEW c \in Buys
    PROVE  RequestMoves(c) /\ UNCHANGED posted
<1>1. ASSUME NEW b \in posted \cap Buys, BuyStep(b) PROVE RequestMoves(c) /\ UNCHANGED posted
  <2>1. RequestMoves(c)
    BY <1>1, GuardMoves, SettlementMoves, BudgetMoves DEF BuyStep
  <2>2. UNCHANGED posted
    BY <1>1 DEF BuyStep, Guard, GuardWithoutRedis, GuardAnswerLost, VerifyPayment, SendPayment,
       SendPaymentLost, PaymentConfirmed, PaymentUnconfirmed, Serve, ServeFails, Book, BookSkipped, Disconnect,
       StartBudget, Reserve, Deny, DenyOnError, GiveBack, GiveBackLost, Log, LogLost, payOnly,
       payFaulty
  <2> QED BY <2>1, <2>2
<1>2. ASSUME NEW b \in posted \cap TaskRequests, TaskStep(b)
      PROVE  RequestMoves(c) /\ UNCHANGED posted
  <2>1. CASE PersistVoucher(b) \/ DeliverFree(b)
    BY <2>1, PersistMoves
  <2>2. CASE ~PersistVoucher(b) /\ ~DeliverFree(b)
    <3>1. b \in Buys
      BY DEF TaskRequests
    <3> QED BY <1>2, <2>2, <3>1, TaskControl, QuietStep
  <2> QED BY <2>1, <2>2
<1>3. ASSUME NEW i, Restart(i) PROVE RequestMoves(c) /\ UNCHANGED posted
  BY <1>3 DEF Restart, RequestMoves, SameFlags, Quiet, Enters
<1>4. CASE Tick
  BY <1>4 DEF Tick, RequestMoves, SameFlags
<1>5. CASE Elsewhere
  BY <1>5, ElsewhereFrame DEF RequestMoves, SameFlags
<1> QED BY <1>1, <1>2, <1>3, <1>4, <1>5, GatewayCases

\* The scenario does not change.
LEMMA SamePosted == ASSUME ReqTypes, [GatewayNext]_gatewayVars PROVE posted' = posted
<1>1. CASE \E b \in Buys : TRUE
  BY <1>1, EveryMove
<1>2. CASE Buys = {}
  <2>1. TaskRequests = {}
    BY <1>2 DEF TaskRequests
  <2>2. (\E i : Restart(i)) \/ Tick \/ Elsewhere
    BY <1>2, <2>1, GatewayCases
  <2> QED BY <2>2, ElsewhereFrame DEF Restart, Tick
<1> QED BY <1>1, <1>2

\* A stage is followed by a stage of the same surface.
LEMMA StageKeeps ==
    ASSUME ReqTypes, NEW c \in Buys, RequestMoves(c)
    PROVE  stage'[c] \in StagesOf(Path[c])
<1>1. Path[c] \in Paths /\ stage[c] \in StagesOf(Path[c])
  BY PaymentConstants DEF ReqTypes, StageInv
<1>2. ASSUME Quiet(Path[c], stage[c], stage'[c]) PROVE stage'[c] \in StagesOf(Path[c])
  BY <1>1, <1>2 DEF Quiet, StagesOf, After, TaskStages, SettleFirst, Paths, TaskPaths
<1>3. ASSUME stage[c] \in {"guard", "send", "confirm", "persist", "serve", "book"},
             stage'[c] = After(Path[c], stage[c])
      PROVE  stage'[c] \in StagesOf(Path[c])
  BY <1>1, <1>3 DEF StagesOf, After, TaskStages, SettleFirst, Paths
<1>4. ASSUME stage[c] = "persist", stage'[c] = "finish" PROVE stage'[c] \in StagesOf(Path[c])
  BY <1>1, <1>4 DEF StagesOf, TaskStages, SettleFirst, Paths
<1> QED BY <1>1, <1>2, <1>3, <1>4 DEF RequestMoves, Admits, Sends, Settles, Persists, Serves, Books

-----------------------------------------------------------------------------
(* The counters                                                             *)

\* The steps of a request that touch a counter, a reservation or a period.
BudgetStep(b) ==
    \/ StartBudget(b) \/ Reserve(b) \/ Deny(b) \/ DenyOnError(b)
    \/ GiveBack(b) \/ GiveBackLost(b) \/ Book(b) \/ Log(b) \/ LogLost(b)

\* Who touches the counters.
LEMMA BudgetCases ==
    ASSUME [GatewayNext]_gatewayVars
    PROVE  \/ \E b \in posted \cap Buys : BudgetStep(b)
           \/ \E i : Restart(i)
           \/ \E w \in Charged : Rollover(w) /\ UNCHANGED <<payOnly, stage>>
           \/ UNCHANGED <<budgetVars, booked>>
<1>1. ASSUME NEW b \in posted \cap Buys, BuyStep(b)
      PROVE  BudgetStep(b) \/ UNCHANGED <<budgetVars, booked>>
  BY <1>1 DEF BuyStep, BudgetStep, Guard, GuardWithoutRedis, GuardAnswerLost, VerifyPayment,
     SendPayment, SendPaymentLost, PaymentConfirmed, PaymentUnconfirmed, Serve, ServeFails,
     BookSkipped, Disconnect, payOnly
<1>2. ASSUME NEW b \in posted \cap TaskRequests, TaskStep(b)
      PROVE  UNCHANGED <<budgetVars, booked>>
  BY <1>2 DEF TaskStep, Intake, AcquireLock, AcquireFails, Recheck, RecheckFails, Mark, MarkSave,
     MarkSaveFails, Cancel, CancelSave, CancelSaveFails, Revert, RevertSave, RevertFails, Release,
     ReleaseFails, PersistVoucher, DeliverFree, Finish, FinishSave, FinishFails, LoadFor,
     RedisError, payRest
<1>3. Tick => UNCHANGED <<budgetVars, booked>>
  BY DEF Tick
<1>4. ASSUME Elsewhere
      PROVE  \/ \E w \in Charged : Rollover(w) /\ UNCHANGED <<payOnly, stage>>
             \/ UNCHANGED <<budgetVars, booked>>
  BY <1>4 DEF Elsewhere, payVars, taskSystem, NewRequest, LockLapses, TaskLapses
<1> QED BY <1>1, <1>2, <1>3, <1>4, GatewayCases

\* A request is booked at the end of its way.
BookedStage ==
    \A b \in booked :
        /\ \/ stage[b] \in {"done", "return", "finish", "finishSave"}
           \/ stage[b] = "serve" /\ Path[b] \in SettleFirst
        /\ Path[b] = "chat" => stage[b] = "done"

BudgetStage ==
    \A b \in Buys : /\ stage[b] = "reserve" => todo[b] # <<>>
                    /\ stage[b] = "return" => hold[b] # <<>>

\* A booked request stays at the end of its way.
LEMMA BookedKeeps ==
    ASSUME ReqTypes, BookedStage, NEW c \in Buys, RequestMoves(c), c \in booked'
    PROVE  /\ \/ stage'[c] \in {"done", "return", "finish", "finishSave"}
              \/ stage'[c] = "serve" /\ Path[c] \in SettleFirst
           /\ Path[c] = "chat" => stage'[c] = "done"
<1>1. Path[c] \in Paths /\ stage[c] \in StagesOf(Path[c])
  BY PaymentConstants DEF ReqTypes, StageInv
<1>2. CASE Books(c) /\ stage'[c] = After(Path[c], stage[c])
  BY <1>1, <1>2 DEF Books, After, StagesOf, SettleFirst, TaskStages, Paths
<1>3. CASE ~(Books(c) /\ stage'[c] = After(Path[c], stage[c]))
  <2>1. c \in booked
    BY <1>3 DEF RequestMoves, SameFlags, Admits, Sends, Settles, Persists, Serves
  <2>2. /\ \/ stage[c] \in {"done", "return", "finish", "finishSave"}
           \/ stage[c] = "serve" /\ Path[c] \in SettleFirst
        /\ Path[c] = "chat" => stage[c] = "done"
    BY <2>1 DEF BookedStage
  <2>3. CASE stage'[c] = stage[c]
    BY <2>2, <2>3
  <2>4. CASE Quiet(Path[c], stage[c], stage'[c])
    BY <2>2, <2>4 DEF Quiet, SettleFirst, TaskPaths
  <2>5. CASE Serves(c) /\ stage'[c] = After(Path[c], stage[c])
    BY <2>2, <2>5 DEF Serves, After, SettleFirst
  <2>6. ~Admits(c) /\ ~Sends(c) /\ ~Settles(c) /\ ~Persists(c)
    BY <2>2 DEF Admits, Sends, Settles, Persists
  <2> QED BY <1>3, <2>3, <2>4, <2>5, <2>6 DEF RequestMoves
<1> QED BY <1>2, <1>3

\* Every step leaves the counters, reservations and periods well formed.
LEMMA BudgetKeeps ==
    ASSUME ReqTypes, BookedStage, BudgetStage, [GatewayNext]_gatewayVars
    PROVE  BudgetTypes'
<1> USE DEF ReqTypes, BudgetTypes
<1>t. /\ epoch \in [Counters -> Epochs] /\ counter \in [Counters -> [Epochs -> Int]]
      /\ hold \in [Buys -> Seq(Counters \X Epochs)]
      /\ at \in [Buys -> [Counters -> Epochs]] /\ todo \in [Buys -> Seq(Counters)]
  OBVIOUS
<1>l. ASSUME NEW x \in Int, NEW y \in Int, NEW w \in Counters, NEW e \in Epochs, Incr(w, e, x)
      PROVE  counter' \in [Counters -> [Epochs -> Int]]
  BY <1>t, <1>l DEF Incr
<1>e. \A b \in Buys : Estimate[b] \in Int /\ -Estimate[b] \in Int /\ Cost[b] \in Int
                      /\ Cost[b] - Estimate[b] \in Int
  BY BudgetConstants
<1>w. \A b \in Buys : Limited(b) \in Seq(Counters) /\ Windows[b] \in Seq(Counters)
  BY LimitedFacts, BudgetConstants
<1>0. ASSUME NEW b \in Buys, todo' = [todo EXCEPT ![b] = <<>>] PROVE todo' \in [Buys -> Seq(Counters)]
  <2>1. <<>> \in Seq(Counters)
    OBVIOUS
  <2>2. PICK q : q = <<>>
    OBVIOUS
  <2> QED BY <1>t, <1>0, <2>1, <2>2
<1>1. ASSUME NEW b \in Buys, todo[b] # <<>>
      PROVE  /\ Head(todo[b]) \in Counters /\ Tail(todo[b]) \in Seq(Counters)
             /\ at[b][Head(todo[b])] \in Epochs
  BY <1>t, <1>1
<1>2. ASSUME NEW b \in Buys, hold[b] # <<>>
      PROVE  /\ Head(hold[b])[1] \in Counters /\ Head(hold[b])[2] \in Epochs
             /\ Tail(hold[b]) \in Seq(Counters \X Epochs)
  <2>1. Head(hold[b]) \in Counters \X Epochs /\ Tail(hold[b]) \in Seq(Counters \X Epochs)
    BY <1>t, <1>2
  <2> QED BY <2>1
<1>3. ASSUME NEW b \in Buys, StartBudget(b) PROVE BudgetTypes'
  BY <1>t, <1>w, <1>3 DEF StartBudget, CheckBudget, budgetVars
<1>4. ASSUME NEW b \in Buys, Reserve(b) PROVE BudgetTypes'
  <2>1. todo[b] # <<>>
    BY <1>4 DEF Reserve, BudgetStage
  <2>2. PICK w \in Counters, e \in Epochs : w = Head(todo[b]) /\ e = at[b][w]
    BY <1>1, <2>1
  <2>3. /\ Incr(w, e, Estimate[b]) /\ todo' = [todo EXCEPT ![b] = Tail(@)]
        /\ hold' = [hold EXCEPT ![b] = Append(@, <<w, e>>)] /\ UNCHANGED <<epoch, at>>
    BY <1>4, <2>2 DEF Reserve, Commit, CommitUnchecked, NextWindow
  <2>4. counter' \in [Counters -> [Epochs -> Int]]
    BY <1>e, <1>l, <2>2, <2>3
  <2>5. todo' \in [Buys -> Seq(Counters)]
    BY <1>t, <1>1, <2>1, <2>3
  <2>6. Append(hold[b], <<w, e>>) \in Seq(Counters \X Epochs)
    BY <1>t
  <2>7. hold' \in [Buys -> Seq(Counters \X Epochs)]
    BY <1>t, <2>3, <2>6
  <2> QED BY <1>t, <2>3, <2>4, <2>5, <2>7
<1>5. ASSUME NEW b \in Buys, Deny(b) PROVE BudgetTypes'
  BY <1>t, <1>0, <1>5 DEF Deny, Exceeded, Rejected
<1>6. ASSUME NEW b \in Buys, DenyOnError(b) PROVE BudgetTypes'
  <2>1. todo[b] # <<>> /\ CommitFails(b)
    BY <1>6 DEF DenyOnError, BudgetStage
  <2>2. PICK w \in Counters, e \in Epochs : w = Head(todo[b]) /\ e = at[b][w]
    BY <1>1, <2>1
  <2>3. /\ UNCHANGED counter \/ Incr(w, e, Estimate[b])
        /\ todo' = [todo EXCEPT ![b] = <<>>] /\ UNCHANGED <<epoch, hold, at>>
    BY <2>1, <2>2 DEF CommitFails
  <2>4. counter' \in [Counters -> [Epochs -> Int]]
    BY <1>t, <1>e, <1>l, <2>2, <2>3
  <2> QED BY <1>t, <1>0, <2>3, <2>4
<1>7. ASSUME NEW b \in Buys, GiveBack(b) PROVE BudgetTypes'
  <2>1. hold[b] # <<>> /\ Return(b)
    BY <1>7 DEF GiveBack, BudgetStage
  <2>2. PICK w \in Counters, e \in Epochs : w = Head(hold[b])[1] /\ e = Head(hold[b])[2]
    BY <1>2, <2>1
  <2>3. /\ Incr(w, e, -Estimate[b])
        /\ hold' = [hold EXCEPT ![b] = Tail(@)] /\ UNCHANGED <<epoch, at, todo>>
    BY <2>1, <2>2 DEF Return
  <2>4. counter' \in [Counters -> [Epochs -> Int]]
    BY <1>e, <1>l, <2>2, <2>3
  <2> QED BY <1>t, <1>2, <2>1, <2>3, <2>4
<1>8. ASSUME NEW b \in Buys, GiveBackLost(b) PROVE BudgetTypes'
  BY <1>t, <1>2, <1>8 DEF GiveBackLost, ReturnLost, BudgetStage
<1>9. ASSUME NEW b \in Buys, Book(b) PROVE BudgetTypes'
  BY <1>t, <1>w, <1>9 DEF Book, LogSpend
<1>10. ASSUME NEW b \in Buys, Log(b) PROVE BudgetTypes'
  <2>1. todo[b] # <<>> /\ LogWindow(b)
    BY <1>10 DEF Log
  <2>2. PICK w \in Counters, e \in Epochs : w = Head(todo[b]) /\ e = at[b][w]
    BY <1>1, <2>1
  <2>3. /\ Incr(w, e, WindowAmount(b, w)) /\ todo' = [todo EXCEPT ![b] = Tail(@)]
        /\ UNCHANGED <<epoch, hold, at>>
    BY <2>1, <2>2 DEF LogWindow, NextWindow
  <2>4. WindowAmount(b, w) \in Int
    BY <1>e DEF WindowAmount
  <2>5. counter' \in [Counters -> [Epochs -> Int]]
    BY <1>l, <2>2, <2>3, <2>4
  <2> QED BY <1>t, <1>1, <2>1, <2>3, <2>5
<1>11. ASSUME NEW b \in Buys, LogLost(b) PROVE BudgetTypes'
  BY <1>t, <1>1, <1>11 DEF LogLost, LogWindowLost, NextWindow
<1>12. ASSUME NEW i, Restart(i) PROVE BudgetTypes'
  BY <1>t, <1>12 DEF Restart
<1>13. ASSUME NEW w \in Counters, Rollover(w) PROVE BudgetTypes'
  BY <1>t, <1>13, BudgetConstants DEF Rollover, Epochs
<1>14. CASE UNCHANGED budgetVars
  BY <1>t, <1>14 DEF budgetVars
<1>15. Charged \subseteq Counters
  BY BudgetConstants DEF Charged
<1> QED BY <1>3, <1>4, <1>5, <1>6, <1>7, <1>8, <1>9, <1>10, <1>11, <1>12, <1>13, <1>14, <1>15,
           BudgetCases DEF BudgetStep

\* A sequence that grew is not empty, nor is one that had two members and lost one.
LEMMA NotEmpty ==
    ASSUME NEW S, NEW q \in Seq(S)
    PROVE  /\ \A x \in S : Append(q, x) # <<>>
           /\ q # <<>> /\ Len(q) # 1 => Tail(q) # <<>>
<1>1. Len(<<>>) = 0 /\ Len(q) \in Nat
  OBVIOUS
<1>2. ASSUME NEW x \in S PROVE Len(Append(q, x)) = Len(q) + 1
  OBVIOUS
<1>3. q # <<>> => Len(Tail(q)) = Len(q) - 1 /\ Len(q) # 0
  OBVIOUS
<1>4. ASSUME NEW x \in S, Append(q, x) = <<>> PROVE FALSE
  <2>1. Len(Append(q, x)) = 0
    BY <1>1, <1>4
  <2> QED BY <1>1, <1>2, <2>1
<1>5. ASSUME q # <<>>, Len(q) # 1, Tail(q) = <<>> PROVE FALSE
  <2>1. Len(Tail(q)) = 0
    BY <1>1, <1>5
  <2> QED BY <1>1, <1>3, <1>5, <2>1
<1> QED BY <1>4, <1>5

\* A request that is reserving has a counter to go on with, one that is returning
\* a reservation to return.
LEMMA BudgetStageKeeps ==
    ASSUME ReqTypes, BookedStage, BudgetStage, [GatewayNext]_gatewayVars
    PROVE  BudgetStage'
<1> SUFFICES ASSUME NEW c \in Buys
             PROVE  /\ stage'[c] = "reserve" => todo'[c] # <<>>
                    /\ stage'[c] = "return" => hold'[c] # <<>>
  BY DEF BudgetStage
<1>t. /\ hold \in [Buys -> Seq(Counters \X Epochs)] /\ todo \in [Buys -> Seq(Counters)]
      /\ stage \in [Buys -> AllStages]
  BY DEF ReqTypes, BudgetTypes, StageInv
<1>s. /\ stage[c] = "reserve" => todo[c] # <<>>
      /\ stage[c] = "return" => hold[c] # <<>>
  BY DEF BudgetStage
<1>m. RequestMoves(c)
  BY EveryMove
<1>n. /\ stage'[c] = "reserve" /\ stage[c] # "reserve" => todo'[c] # <<>>
      /\ stage'[c] = "return" => hold[c] # <<>>
  <2>1. After(Path[c], stage[c]) \notin {"reserve", "return"}
    BY DEF After
  <2> QED BY <1>s, <1>m, <2>1 DEF RequestMoves, Enters
<1>1. CASE hold'[c] = hold[c] /\ todo'[c] = todo[c]
  BY <1>s, <1>n, <1>1
<1>2. ASSUME NEW b \in Buys, BudgetStep(b), c # b PROVE hold'[c] = hold[c] /\ todo'[c] = todo[c]
  BY <1>t, <1>2 DEF BudgetStep, StartBudget, Reserve, Deny, DenyOnError, GiveBack, GiveBackLost,
     Book, Log, LogLost, CheckBudget, Commit, CommitUnchecked, Exceeded, Rejected, CommitFails,
     Return, ReturnLost, LogSpend, LogWindow, LogWindowLost, NextWindow, budgetVars
<1>3. CASE StartBudget(c) \/ Deny(c) \/ DenyOnError(c) \/ Book(c)
  <2>1. UNCHANGED hold
    BY <1>3 DEF StartBudget, Deny, DenyOnError, Book, CheckBudget, Exceeded, Rejected,
       CommitFails, LogSpend, budgetVars
  <2>2. stage[c] # "reserve" \/ stage'[c] # "reserve"
    BY <1>t, <1>3 DEF StartBudget, Deny, DenyOnError, Book, Refuse, Step
  <2> QED BY <1>n, <2>1, <2>2
<1>4. CASE Reserve(c)
  <2>0. todo[c] # <<>> /\ at[c] \in [Counters -> Epochs]
    BY <1>s, <1>4 DEF Reserve, ReqTypes, BudgetTypes
  <2>1. Append(hold[c], <<Head(todo[c]), at[c][Head(todo[c])]>>) # <<>>
    <3>1. <<Head(todo[c]), at[c][Head(todo[c])]>> \in Counters \X Epochs
      BY <1>t, <2>0
    <3> QED BY <1>t, <3>1, NotEmpty
  <2>2. hold'[c] # <<>>
    BY <1>t, <1>4, <2>1 DEF Reserve, Commit, CommitUnchecked
  <2>3. stage[c] = "reserve" /\ todo[c] # <<>> /\ todo'[c] = Tail(todo[c])
    BY <1>t, <1>s, <1>4 DEF Reserve, Commit, CommitUnchecked, NextWindow
  <2>4. CASE Len(todo[c]) = 1
    <3>1. stage'[c] = "verify"
      BY <1>t, <1>4, <2>3, <2>4, ProceedGoes DEF Reserve, ReqTypes, After
    <3> QED BY <3>1
  <2>5. CASE Len(todo[c]) # 1
    <3>1. todo'[c] # <<>>
      BY <1>t, <2>3, <2>5, NotEmpty
    <3> QED BY <2>2, <3>1
  <2> QED BY <2>4, <2>5
<1>5. CASE GiveBack(c) \/ GiveBackLost(c)
  <2>1. stage[c] = "return" /\ hold'[c] = Tail(hold[c]) /\ hold[c] # <<>>
    BY <1>t, <1>s, <1>5 DEF GiveBack, GiveBackLost, Return, ReturnLost
  <2>2. IF Len(hold[c]) = 1 THEN stage'[c] = "done" ELSE UNCHANGED stage
    BY <1>t, <1>5 DEF GiveBack, GiveBackLost, Step
  <2>3. CASE Len(hold[c]) # 1
    <3>1. Tail(hold[c]) # <<>>
      BY <1>t, <2>1, <2>3, NotEmpty
    <3> QED BY <2>1, <2>2, <2>3, <3>1
  <2> QED BY <2>2, <2>3
<1>6. CASE Log(c) \/ LogLost(c)
  <2>1. c \in booked /\ UNCHANGED <<hold, stage>>
    BY <1>6 DEF Log, LogLost, LogWindow, LogWindowLost
  <2>2. stage[c] # "reserve"
    BY <2>1 DEF BookedStage
  <2> QED BY <1>n, <2>1, <2>2
<1>7. ASSUME NEW i, Restart(i), Host[c] = i PROVE stage'[c] \in {"done", "guard", "intake"}
  BY <1>7 DEF Restart, First
<1>8. ASSUME NEW i, Restart(i), Host[c] # i PROVE hold'[c] = hold[c] /\ todo'[c] = todo[c]
  BY <1>8 DEF Restart
<1>9. ASSUME NEW w, Rollover(w) PROVE hold'[c] = hold[c] /\ todo'[c] = todo[c]
  BY <1>9 DEF Rollover
<1>10. UNCHANGED budgetVars => hold'[c] = hold[c] /\ todo'[c] = todo[c]
  BY DEF budgetVars
<1>11. BudgetStep(c) => /\ stage'[c] = "reserve" => todo'[c] # <<>>
                        /\ stage'[c] = "return" => hold'[c] # <<>>
  BY <1>3, <1>4, <1>5, <1>6 DEF BudgetStep
<1> QED BY <1>1, <1>2, <1>7, <1>8, <1>9, <1>10, <1>11, BudgetCases

-----------------------------------------------------------------------------
(* The cluster, seen from the gateway                                       *)

\* A handler that is about to insert its row saw a transaction that landed, and
\* nothing undoes a landing.
OpenInv ==
    /\ TypeOK
    /\ CreditedMeansLanded
    /\ \A o \in Opens : pc[o] = "create" => chain[Funding[o]] = "landed"

\* Without requests and rows there is nothing to show.
LEMMA OpenInit == Init => OpenInv
  BY OpenConstants DEF Init, OpenInv, TypeOK, CreditedMeansLanded, Fate

\* Verify, settle, confirm and create, with every failure and every step of the
\* cluster, keep the invariant.
LEMMA OpenNext == OpenInv /\ [Next]_vars => OpenInv'
<1> SUFFICES ASSUME OpenInv, [Next]_vars PROVE OpenInv'
  OBVIOUS
<1> USE OpenConstants DEF OpenInv, TypeOK, CreditedMeansLanded, Fate, Goto
<1>1. ASSUME NEW o \in Opens, Verify(o) PROVE OpenInv'
  BY <1>1 DEF Verify
<1>2. ASSUME NEW o \in Opens, SettleSend(o) PROVE OpenInv'
  BY <1>2 DEF SettleSend
<1>3. ASSUME NEW o \in Opens, ConfirmLanded(o) PROVE OpenInv'
  BY <1>3 DEF ConfirmLanded
<1>4. ASSUME NEW o \in Opens, ConfirmFails(o) PROVE OpenInv'
  BY <1>4 DEF ConfirmFails
<1>5. ASSUME NEW o \in Opens, Create(o) PROVE OpenInv'
  <2>0. pc[o] = "create" /\ UNCHANGED <<chain, faults>>
    BY <1>5 DEF Create
  <2>1. chain[Funding[o]] = "landed" /\ Funding[o] \in Fundings
    BY <2>0
  <2>2. \A f \in Fundings : channels'[f] = channels[f] \/ (f = Funding[o] /\ channels'[f] = 1)
    BY <1>5 DEF Create, CreateChannel
  <2>3. channels' \in [Fundings -> {0, 1}] /\ pc' = [pc EXCEPT ![o] = "idle"]
    BY <1>5 DEF Create, CreateChannel
  <2> QED BY <2>0, <2>1, <2>2, <2>3
<1>6. ASSUME NEW o \in Opens, Abandon(o) PROVE OpenInv'
  BY <1>6 DEF Abandon, Fault
<1>7. ASSUME NEW o \in Opens, SendAnswerLost(o) PROVE OpenInv'
  BY <1>7 DEF SendAnswerLost, Fault
<1>8. ASSUME NEW f \in Fundings, Execute(f) \/ Expire(f) PROVE OpenInv'
  BY <1>8 DEF Execute, Expire
<1>9. CASE UNCHANGED vars
  BY <1>9 DEF vars
<1> QED BY <1>1, <1>2, <1>3, <1>4, <1>5, <1>6, <1>7, <1>8, <1>9 DEF Next, OpenStep

\* However many requests present a funding transaction, a channel row means that
\* the money arrived, and there is one row for it.
THEOREM CreditsAreFunded == Spec => [](TypeOK /\ CreditedMeansLanded)
<1>1. OpenInv => TypeOK /\ CreditedMeansLanded
  BY DEF OpenInv
<1> QED BY <1>1, OpenInit, OpenNext, PTL DEF Spec

\* The cluster and the opens see a purchase as a broadcast, a failure or nothing.
Outside ==
    /\ UNCHANGED <<channels, pc>>
    /\ UNCHANGED faults \/ Fault
    /\ \/ UNCHANGED chain
       \/ \E f \in Fundings : /\ chain[f] \in {"unseen", "pool"}
                              /\ chain' = [chain EXCEPT ![f] = "pool"]

\* Seen from the cluster, a step of the gateway is one of channel open or a send.
LEMMA ClusterMoves ==
    ASSUME [GatewayNext]_gatewayVars
    PROVE  [Next]_vars \/ Outside
<1>1. ASSUME NEW b \in posted \cap Buys, BuyStep(b) PROVE Outside
  <2>1. Pays[b] \in Fundings
    BY PaymentConstants
  <2>2. CASE SendPayment(b) \/ SendPaymentLost(b)
    BY <2>1, <2>2 DEF SendPayment, SendPaymentLost, Outside
  <2>3. CASE ~(SendPayment(b) \/ SendPaymentLost(b))
    BY <1>1, <2>3 DEF BuyStep, Guard, GuardWithoutRedis, GuardAnswerLost, VerifyPayment,
       PaymentConfirmed, PaymentUnconfirmed, Serve, ServeFails, Book, BookSkipped, Disconnect, StartBudget,
       Reserve, Deny, DenyOnError, GiveBack, GiveBackLost, Log, LogLost, payOnly, payFaulty,
       Outage, Outside, vars
  <2> QED BY <2>2, <2>3
<1>2. ASSUME NEW b \in posted \cap TaskRequests, TaskStep(b) PROVE Outside
  BY <1>2 DEF TaskStep, Intake, AcquireLock, AcquireFails, Recheck, RecheckFails, Mark, MarkSave,
     MarkSaveFails, Cancel, CancelSave, CancelSaveFails, Revert, RevertSave, RevertFails, Release,
     ReleaseFails, PersistVoucher, DeliverFree, Finish, FinishSave, FinishFails, LoadFor,
     RedisError, payRest, Outside, vars
<1>3. ASSUME NEW i, Restart(i) PROVE Outside
  BY <1>3 DEF Restart, Outside
<1>4. Tick => Outside
  BY DEF Tick, Outside, vars
<1>5. ASSUME Elsewhere PROVE [Next]_vars
  <2>1. ASSUME NEW o \in Opens, OpenStep(o) \/ Abandon(o) \/ SendAnswerLost(o) PROVE Next
    BY <2>1 DEF Next
  <2>2. ASSUME NEW f \in Presented, Execute(f) \/ Expire(f) PROVE Next
    <3>1. f \in Fundings
      BY OpenConstants, PaymentConstants DEF Presented, Presenters
    <3> QED BY <2>2, <3>1 DEF Next
  <2> QED BY <1>5, <2>1, <2>2 DEF Elsewhere, NewRequest, LockLapses, TaskLapses, taskSystem,
             payOnly
<1> QED BY <1>1, <1>2, <1>3, <1>4, <1>5, GatewayCases

\* So the opens are as safe among the purchases as alone.
LEMMA OpenKeeps ==
    ASSUME OpenInv, [GatewayNext]_gatewayVars
    PROVE  OpenInv'
<1>1. CASE Outside
  BY <1>1, OpenConstants DEF Outside, OpenInv, TypeOK, CreditedMeansLanded, Fate, Fault
<1> QED BY <1>1, ClusterMoves, OpenNext

\* A transfer that landed, failed or expired stays so.
LEMMA SettledStays ==
    ASSUME OpenInv, [GatewayNext]_gatewayVars, NEW f \in Fundings,
           chain[f] \notin {"unseen", "pool"}
    PROVE  chain'[f] = chain[f]
<1>t. chain \in [Fundings -> Fate]
  BY DEF OpenInv, TypeOK
<1>1. CASE Outside
  BY <1>t, <1>1 DEF Outside
<1>2. CASE [Next]_vars
  BY <1>t, <1>2, OpenConstants DEF Next, OpenStep, Verify, SettleSend, ConfirmLanded, ConfirmFails,
     Create, Abandon, SendAnswerLost, Execute, Expire, vars
<1> QED BY <1>1, <1>2, ClusterMoves

-----------------------------------------------------------------------------
(* The replay records, the tasks' records and the faucet                    *)

\* Who reads and writes the replay records, and who moves the clock.
LEMMA GuardCases ==
    ASSUME [GatewayNext]_gatewayVars
    PROVE  \/ /\ UNCHANGED now
              /\ \E b \in posted \cap Buys : Guard(b) \/ GuardWithoutRedis(b) \/ GuardAnswerLost(b)
           \/ UNCHANGED <<now, store>> /\ \E i : Restart(i)
           \/ UNCHANGED <<seen, store>> /\ Tick
           \/ UNCHANGED <<now, seen, store>>
<1>1. ASSUME NEW b \in posted \cap Buys, BuyStep(b)
      PROVE  \/ /\ UNCHANGED now
                /\ Guard(b) \/ GuardWithoutRedis(b) \/ GuardAnswerLost(b)
             \/ UNCHANGED <<now, seen, store>>
  <2>1. CASE Guard(b) \/ GuardWithoutRedis(b) \/ GuardAnswerLost(b)
    BY <2>1 DEF Guard, GuardWithoutRedis, GuardAnswerLost
  <2>2. CASE ~(Guard(b) \/ GuardWithoutRedis(b) \/ GuardAnswerLost(b))
    BY <1>1, <2>2 DEF BuyStep, VerifyPayment, SendPayment, SendPaymentLost, PaymentConfirmed,
       PaymentUnconfirmed, Serve, ServeFails, Book, BookSkipped, Disconnect, StartBudget,
       Reserve, Deny, DenyOnError, GiveBack, GiveBackLost, Log, LogLost, payOnly, payFaulty
  <2> QED BY <2>1, <2>2
<1>2. ASSUME NEW b \in posted \cap TaskRequests, TaskStep(b) PROVE UNCHANGED <<now, seen, store>>
  BY <1>2 DEF TaskStep, Intake, AcquireLock, AcquireFails, Recheck, RecheckFails, Mark, MarkSave,
     MarkSaveFails, Cancel, CancelSave, CancelSaveFails, Revert, RevertSave, RevertFails, Release,
     ReleaseFails, PersistVoucher, DeliverFree, Finish, FinishSave, FinishFails, LoadFor,
     RedisError, payRest
<1>3. ASSUME NEW i, Restart(i) PROVE UNCHANGED <<now, store>>
  BY <1>3 DEF Restart
<1>4. Tick => UNCHANGED <<seen, store>>
  BY DEF Tick
<1>5. Elsewhere => UNCHANGED <<now, seen, store>>
  BY ElsewhereFrame
<1> QED BY <1>1, <1>2, <1>3, <1>4, <1>5, GatewayCases

\* The stores a request may be recorded in are stores, and none of them is NoStore.
LEMMA StoreFacts ==
    ASSUME NEW b \in Buys
    PROVE  /\ StoresOf(b) \subseteq Stores /\ Redis \in Stores /\ Fallback(Host[b]) \in Stores
           /\ NoStore \notin StoresOf(b)
<1>1. StoresOf(b) \subseteq Stores /\ Redis \in Stores /\ Fallback(Host[b]) \in Stores
  BY PaymentConstants DEF StoresOf, Stores, Redis, Fallback, Local
<1>2. Path[b] \in Paths /\ "none" \notin Paths
  BY PaymentConstants DEF Paths
<1>3. NoStore \notin StoresOf(b)
  BY <1>2 DEF StoresOf, NoStore, Redis, Fallback, Local
<1> QED BY <1>1, <1>3

SeenTypes ==
    /\ now \in 0 .. MaxTime
    /\ seen \in [Stores -> [Fundings -> Nat]]
    /\ \A b \in Buys : store[b] \in {NoStore} \cup StoresOf(b)

\* A record is kept for a time that is a number.
LEMMA UntilType ==
    ASSUME now \in 0 .. MaxTime, NEW s
    PROVE  Until(s) \in Nat /\ Until(s) > now
  BY PaymentConstants DEF Until

\* What a guard's step does: it refuses, or it records the transfer in one of the
\* request's stores; with an answer lost the key of Redis exists as well.
GuardWrites(b, s) ==
    LET f == Pays[b] IN
    /\ s \in StoresOf(b)
    /\ \A r \in Stores, g \in Fundings :
          \/ seen'[r][g] = seen[r][g]
          \/ g = f /\ ~(seen[r][f] > now) /\ seen'[r][g] = Until(r)
    /\ \/ Refuse(b) /\ UNCHANGED store
       \/ /\ ~(seen[s][f] > now) /\ seen'[s][f] = Until(s)
          /\ store' = [store EXCEPT ![b] = s] /\ Proceed(b)

\* The three outcomes of the guard write and decide as GuardWrites says.
LEMMA GuardDoes ==
    ASSUME SeenTypes, NEW b \in Buys, Guard(b) \/ GuardWithoutRedis(b) \/ GuardAnswerLost(b)
    PROVE  /\ \E s : GuardWrites(b, s)
           /\ seen' \in [Stores -> [Fundings -> Nat]]
<1>t. /\ now \in 0 .. MaxTime /\ seen \in [Stores -> [Fundings -> Nat]] /\ Pays[b] \in Fundings
  BY PaymentConstants DEF SeenTypes
<1>1. ASSUME NEW s \in StoresOf(b), CheckAndRecord(b, s)
      PROVE  GuardWrites(b, s) /\ seen' \in [Stores -> [Fundings -> Nat]]
  <2>1. s \in Stores /\ Until(s) \in Nat
    BY <1>t, StoreFacts, UntilType
  <2>2. CASE seen[s][Pays[b]] > now
    BY <1>t, <1>1, <2>2 DEF CheckAndRecord, GuardWrites
  <2>3. CASE ~(seen[s][Pays[b]] > now)
    <3>1. /\ seen' = [seen EXCEPT ![s][Pays[b]] = Until(s)]
          /\ store' = [store EXCEPT ![b] = s] /\ Proceed(b)
      BY <1>1, <2>3 DEF CheckAndRecord
    <3>2. /\ seen' \in [Stores -> [Fundings -> Nat]] /\ seen'[s][Pays[b]] = Until(s)
          /\ \A r \in Stores, g \in Fundings :
                seen'[r][g] = seen[r][g] \/ (r = s /\ g = Pays[b] /\ seen'[r][g] = Until(r))
      BY <1>t, <2>1, <3>1
    <3> QED BY <1>t, <1>1, <2>1, <2>3, <3>1, <3>2 DEF GuardWrites
  <2> QED BY <2>2, <2>3
<1>2. CASE GuardAnswerLost(b)
  <2> DEFINE l == Fallback(Host[b])
             f == Pays[b]
  <2>0. l \in StoresOf(b) /\ l \in Stores /\ Redis \in Stores
    BY StoreFacts DEF StoresOf
  <2>1. Until(l) \in Nat /\ Until(Redis) \in Nat
    BY <1>t, UntilType
  <2> DEFINE key == IF seen[Redis][f] > now THEN seen[Redis][f] ELSE Until(Redis)
  <2>2. key \in Nat
    BY <1>t, <2>0, <2>1
  <2>3. \/ /\ seen' = [seen EXCEPT ![Redis][f] = key]
           /\ Refuse(b) /\ UNCHANGED store
        \/ /\ ~(seen[l][f] > now)
           /\ seen' = [seen EXCEPT ![Redis][f] = key, ![l][f] = Until(l)]
           /\ store' = [store EXCEPT ![b] = l]
           /\ Proceed(b)
    BY <1>2 DEF GuardAnswerLost
  <2>4. key = seen[Redis][f] \/ (~(seen[Redis][f] > now) /\ key = Until(Redis))
    OBVIOUS
  <2> HIDE DEF key, l, f
  <2>5. f \in Fundings
    BY <1>t DEF f
  <2>6. CASE seen' = [seen EXCEPT ![Redis][f] = key] /\ Refuse(b) /\ UNCHANGED store
    <3>1. /\ seen' \in [Stores -> [Fundings -> Nat]]
          /\ \A r \in Stores, g \in Fundings :
                seen'[r][g] = seen[r][g] \/ (r = Redis /\ g = f /\ seen'[r][g] = key)
      BY <1>t, <2>0, <2>2, <2>5, <2>6
    <3> QED BY <2>0, <2>4, <2>6, <3>1 DEF GuardWrites, f
  <2>7. CASE /\ ~(seen[l][f] > now)
             /\ seen' = [seen EXCEPT ![Redis][f] = key, ![l][f] = Until(l)]
             /\ store' = [store EXCEPT ![b] = l]
             /\ Proceed(b)
    <3>1. /\ seen' \in [Stores -> [Fundings -> Nat]] /\ seen'[l][f] = Until(l)
          /\ \A r \in Stores, g \in Fundings :
                \/ seen'[r][g] = seen[r][g]
                \/ r = Redis /\ g = f /\ seen'[r][g] = key
                \/ r = l /\ g = f /\ seen'[r][g] = Until(l)
      BY <1>t, <2>0, <2>1, <2>2, <2>5, <2>7
    <3>2. GuardWrites(b, l)
      BY <2>0, <2>4, <2>7, <3>1 DEF GuardWrites, f
    <3> QED BY <3>1, <3>2
  <2> QED BY <2>3, <2>6, <2>7
<1>3. ASSUME Guard(b) \/ GuardWithoutRedis(b) PROVE \E s \in StoresOf(b) : CheckAndRecord(b, s)
  BY <1>3 DEF Guard, GuardWithoutRedis, StoresOf
<1> QED BY <1>1, <1>2, <1>3

\* Every step leaves the replay records well formed.
LEMMA SeenKeeps ==
    ASSUME SeenTypes, ReqTypes, [GatewayNext]_gatewayVars
    PROVE  SeenTypes'
<1>t. /\ now \in 0 .. MaxTime /\ seen \in [Stores -> [Fundings -> Nat]]
      /\ store \in [Buys -> Stores \cup {NoStore}]
      /\ \A b \in Buys : store[b] \in {NoStore} \cup StoresOf(b)
  BY DEF SeenTypes, ReqTypes
<1>1. \A b \in Buys : store'[b] \in {NoStore} \cup StoresOf(b)
  <2> SUFFICES ASSUME NEW b \in Buys PROVE store'[b] \in {NoStore} \cup StoresOf(b)
    OBVIOUS
  <2>1. RequestMoves(b)
    BY EveryMove
  <2> QED BY <1>t, <2>1 DEF RequestMoves, SameFlags, Admits, Sends, Settles, Persists, Serves, Books
<1>2. now' \in 0 .. MaxTime
  BY <1>t, GuardCases, PaymentConstants DEF Tick
<1>3. ASSUME NEW i, Restart(i) PROVE seen' \in [Stores -> [Fundings -> Nat]]
  BY <1>t, <1>3 DEF Restart
<1>4. seen' \in [Stores -> [Fundings -> Nat]]
  BY <1>t, <1>3, GuardCases, GuardDoes
<1> QED BY <1>1, <1>2, <1>4 DEF SeenTypes

\* Only requests are paid, served and booked.
LEMMA FlagsKeep ==
    ASSUME paid \subseteq Buys, served \subseteq Buys, booked \subseteq Buys,
           [GatewayNext]_gatewayVars
    PROVE  paid' \subseteq Buys /\ served' \subseteq Buys /\ booked' \subseteq Buys
<1>1. ASSUME NEW b \in posted \cap Buys, BuyStep(b)
      PROVE  /\ paid' = paid \/ paid' = paid \cup {b}
             /\ served' = served \/ served' = served \cup {b}
             /\ booked' = booked \/ booked' = booked \cup {b}
  BY <1>1 DEF BuyStep, Guard, GuardWithoutRedis, GuardAnswerLost, VerifyPayment, SendPayment,
     SendPaymentLost, PaymentConfirmed, PaymentUnconfirmed, Serve, ServeFails, Book, BookSkipped, Disconnect,
     StartBudget, Reserve, Deny, DenyOnError, GiveBack, GiveBackLost, Log, LogLost, payOnly,
     payFaulty
<1>2. ASSUME NEW b \in posted \cap TaskRequests, TaskStep(b)
      PROVE  (paid' = paid \/ paid' = paid \cup {b}) /\ UNCHANGED <<served, booked>> /\ b \in Buys
  BY <1>2 DEF TaskStep, Intake, AcquireLock, AcquireFails, Recheck, RecheckFails, Mark, MarkSave,
     MarkSaveFails, Cancel, CancelSave, CancelSaveFails, Revert, RevertSave, RevertFails, Release,
     ReleaseFails, PersistVoucher, DeliverFree, Finish, FinishSave, FinishFails, LoadFor,
     RedisError, payRest, TaskRequests
<1>3. ASSUME NEW i, Restart(i) PROVE UNCHANGED <<paid, served, booked>>
  BY <1>3 DEF Restart
<1>4. Tick => UNCHANGED <<paid, served, booked>>
  BY DEF Tick
<1>5. Elsewhere => UNCHANGED <<paid, served, booked>>
  BY ElsewhereFrame
<1> QED BY <1>1, <1>2, <1>3, <1>4, <1>5, GatewayCases

\* What a request knows of its transfer: the cluster took it, or it is disowned with
\* an error answer.
SendTaken(b) ==
    /\ stage[b] = "send" /\ stage'[b] = "confirm"
    /\ sent' = [sent EXCEPT ![b] = "taken"]

SendDisowned(b) ==
    /\ stage[b] \in {"send", "confirm"} /\ Refuse(b)
    /\ sent' = [sent EXCEPT ![b] = "disowned"]

\* Nothing else touches it.
LEMMA SentMoves ==
    ASSUME ReqTypes, [GatewayNext]_gatewayVars
    PROVE  UNCHANGED sent \/ \E b \in posted \cap Buys : SendTaken(b) \/ SendDisowned(b)
<1>1. ASSUME NEW b \in posted \cap Buys, BuyStep(b)
      PROVE  UNCHANGED sent \/ SendTaken(b) \/ SendDisowned(b)
  <2>1. CASE SendPayment(b)
    <3>1. CASE UNCHANGED sent
      BY <3>1
    <3>2. CASE ~UNCHANGED sent
      <4>1. stage[b] = "send" /\ Proceed(b) /\ sent' = [sent EXCEPT ![b] = "taken"]
        BY <2>1, <3>2 DEF SendPayment
      <4>2. stage'[b] = "confirm"
        BY <4>1, ProceedGoes DEF ReqTypes, StageInv, After
      <4> QED BY <4>1, <4>2 DEF SendTaken
    <3> QED BY <3>1, <3>2
  <2>2. CASE SendPaymentLost(b) \/ PaymentUnconfirmed(b)
    BY <2>2 DEF SendPaymentLost, PaymentUnconfirmed, SettleFailed, Disown, SendDisowned
  <2>3. CASE ~SendPayment(b) /\ ~SendPaymentLost(b) /\ ~PaymentUnconfirmed(b)
    BY <1>1, <2>3 DEF BuyStep, Guard, GuardWithoutRedis, GuardAnswerLost, VerifyPayment,
       PaymentConfirmed, Serve, ServeFails, Book, BookSkipped, Disconnect, StartBudget,
       Reserve, Deny, DenyOnError, GiveBack, GiveBackLost, Log, LogLost, payOnly, payFaulty
  <2> QED BY <2>1, <2>2, <2>3
<1>2. ASSUME NEW b \in posted \cap TaskRequests, TaskStep(b) PROVE UNCHANGED sent
  BY <1>2 DEF TaskStep, Intake, AcquireLock, AcquireFails, Recheck, RecheckFails, Mark, MarkSave,
     MarkSaveFails, Cancel, CancelSave, CancelSaveFails, Revert, RevertSave, RevertFails, Release,
     ReleaseFails, PersistVoucher, DeliverFree, Finish, FinishSave, FinishFails, LoadFor,
     RedisError, payRest
<1>3. ASSUME NEW i, Restart(i) PROVE UNCHANGED sent
  BY <1>3 DEF Restart
<1>4. Tick => UNCHANGED sent
  BY DEF Tick
<1>5. Elsewhere => UNCHANGED sent
  BY ElsewhereFrame
<1> QED BY <1>1, <1>2, <1>3, <1>4, <1>5, GatewayCases

\* A step of one request moves no other.
LEMMA OwnStage ==
    ASSUME ReqTypes, SeenTypes, NEW b \in Buys,
           BuyStep(b) \/ (b \in TaskRequests /\ TaskStep(b))
    PROVE  /\ stage' = stage \/ \E m : stage' = [stage EXCEPT ![b] = m]
           /\ store' = store \/ \E m : store' = [store EXCEPT ![b] = m]
<1>1. CASE BuyStep(b)
  <2>1. \/ UNCHANGED store /\ (UNCHANGED stage \/ Refuse(b) \/ Proceed(b) \/ \E m : Step(b, m))
        \/ \E s : GuardWrites(b, s)
    <3>1. CASE Guard(b) \/ GuardWithoutRedis(b) \/ GuardAnswerLost(b)
      BY <3>1, GuardDoes
    <3>2. CASE VerifyPayment(b) \/ SendPayment(b) \/ SendPaymentLost(b) \/ PaymentConfirmed(b)
               \/ PaymentUnconfirmed(b) \/ Serve(b) \/ ServeFails(b) \/ Book(b)
               \/ BookSkipped(b) \/ Disconnect(b)
      BY <3>2 DEF VerifyPayment, SendPayment, SendPaymentLost, PaymentConfirmed,
         PaymentUnconfirmed, Serve, ServeFails, Book, BookSkipped, Disconnect, SettleFailed, payOnly
    <3>3. CASE StartBudget(b) \/ Reserve(b) \/ Deny(b) \/ DenyOnError(b) \/ GiveBack(b)
               \/ GiveBackLost(b) \/ Log(b) \/ LogLost(b)
      BY <3>3 DEF StartBudget, Reserve, Deny, DenyOnError, GiveBack, GiveBackLost, Log, LogLost,
         payOnly, payFaulty
    <3> QED BY <1>1, <3>1, <3>2, <3>3 DEF BuyStep
  <2> QED BY <2>1 DEF GuardWrites, Refuse, Proceed, Step
<1>2. CASE b \in TaskRequests /\ TaskStep(b)
  <2>1. CASE PersistVoucher(b) \/ DeliverFree(b)
    BY <2>1 DEF PersistVoucher, DeliverFree, Proceed, Step
  <2>2. CASE ~PersistVoucher(b) /\ ~DeliverFree(b)
    BY <1>2, <2>2, TaskControl DEF Step
  <2> QED BY <2>1, <2>2
<1> QED BY <1>1, <1>2

\* A step of a request leaves stage and store functions on the requests.
LEMMA FunctionsKeep ==
    ASSUME ReqTypes, SeenTypes, [GatewayNext]_gatewayVars
    PROVE  stage' \in [Buys -> AllStages] /\ store' \in [Buys -> Stores \cup {NoStore}]
<1>t. stage \in [Buys -> AllStages] /\ store \in [Buys -> Stores \cup {NoStore}]
  BY DEF ReqTypes, StageInv
<1>1. \A b \in Buys : StagesOf(Path[b]) \subseteq AllStages
  BY PaymentConstants DEF StagesOf, AllStages, TaskStages, SettleFirst
<1>2. \A b \in Buys : stage'[b] \in AllStages /\ store'[b] \in Stores \cup {NoStore}
  <2> SUFFICES ASSUME NEW b \in Buys
               PROVE  stage'[b] \in AllStages /\ store'[b] \in Stores \cup {NoStore}
    OBVIOUS
  <2>1. stage'[b] \in AllStages
    BY <1>1, EveryMove, StageKeeps
  <2>2. store'[b] \in {NoStore} \cup StoresOf(b)
    BY SeenKeeps DEF SeenTypes
  <2> QED BY <2>1, <2>2, StoreFacts
<1>3. stage' = [b \in Buys |-> stage'[b]] /\ store' = [b \in Buys |-> store'[b]]
  <2>1. ASSUME NEW b \in posted \cap Buys, BuyStep(b)
        PROVE  /\ stage' = stage \/ \E m : stage' = [stage EXCEPT ![b] = m]
               /\ store' = store \/ \E m : store' = [store EXCEPT ![b] = m]
    BY <2>1, OwnStage
  <2>2. ASSUME NEW b \in posted \cap TaskRequests, TaskStep(b)
        PROVE  /\ stage' = stage \/ \E m : stage' = [stage EXCEPT ![b] = m]
               /\ store' = store \/ \E m : store' = [store EXCEPT ![b] = m]
    BY <2>2, OwnStage DEF TaskRequests
  <2>3. ASSUME NEW i, Restart(i)
        PROVE  /\ stage' = [b \in Buys |-> IF Host[b] = i /\ stage[b] # First(b)
                                        THEN "done" ELSE stage[b]]
               /\ UNCHANGED store
    BY <2>3 DEF Restart
  <2>4. Tick \/ Elsewhere => UNCHANGED <<stage, store>>
    BY ElsewhereFrame DEF Tick
  <2>5. CASE \E b \in posted \cap Buys : BuyStep(b)
    BY <1>t, <2>1, <2>5
  <2>6. CASE \E b \in posted \cap TaskRequests : TaskStep(b)
    BY <1>t, <2>2, <2>6
  <2>7. CASE \E i : Restart(i)
    BY <1>t, <2>3, <2>7
  <2>8. CASE Tick \/ Elsewhere
    BY <1>t, <2>4, <2>8
  <2> QED BY <2>5, <2>6, <2>7, <2>8, GatewayCases
<1> QED BY <1>2, <1>3

\* A task's record and lock.
TaskTypes ==
    /\ task \in [Tasks -> TaskState \cup {"None"}]
    /\ lock \in [Tasks -> Buys \cup {Free}]

\* Every step leaves the tasks' records and locks well formed.
LEMMA TasksKeep ==
    ASSUME TaskTypes, [GatewayNext]_gatewayVars
    PROVE  TaskTypes'
<1> USE DEF TaskTypes, TaskState
<1>1. ASSUME NEW b \in posted \cap TaskRequests, TaskStep(b) PROVE TaskTypes'
  <2>1. Task[b] \in Tasks /\ b \in Buys
    BY TaskConstants DEF TaskRequests
  <2>2. UNCHANGED task \/ \E s \in TaskState : Save(b, s)
    BY <1>1 DEF TaskStep, Intake, AcquireLock, AcquireFails, Recheck, RecheckFails, Mark, MarkSave,
       MarkSaveFails, Cancel, CancelSave, CancelSaveFails, Revert, RevertSave, RevertFails,
       Release, ReleaseFails, PersistVoucher, DeliverFree, Finish, FinishSave, FinishFails,
       LoadFor, taskVars, Outcome
  <2>3. UNCHANGED lock \/ \E h \in {b, Free} : lock' = [lock EXCEPT ![Task[b]] = h]
    BY <1>1 DEF TaskStep, Intake, AcquireLock, AcquireFails, Recheck, RecheckFails, Mark, MarkSave,
       MarkSaveFails, Cancel, CancelSave, CancelSaveFails, Revert, RevertSave, RevertFails,
       Release, ReleaseFails, PersistVoucher, DeliverFree, Finish, FinishSave, FinishFails,
       LoadFor, taskVars
  <2> QED BY <2>1, <2>2, <2>3 DEF Save
<1>2. CASE UNCHANGED taskVars
  BY <1>2 DEF taskVars
<1>3. ASSUME NEW t \in Tasks, NewRequest(t) \/ LockLapses(t) \/ TaskLapses(t) PROVE TaskTypes'
  BY <1>3 DEF NewRequest, LockLapses, TaskLapses
<1>4. CASE Elsewhere
  <2>1. \/ UNCHANGED taskVars \/ \E t \in Tasks : NewRequest(t) \/ LockLapses(t) \/ TaskLapses(t)
    BY <1>4 DEF Elsewhere, taskSystem
  <2> QED BY <1>2, <1>3, <2>1
<1> QED BY <1>1, <1>2, <1>4, GatewayCases

-----------------------------------------------------------------------------
(* Types                                                                    *)

\* The types, with what they rest on: which stages a surface has, what a request
\* holds at each, and the faucet's own invariant.
GatewayInv ==
    /\ ReqTypes /\ BookedStage /\ BudgetStage
    /\ OpenInv
    /\ SeenTypes
    /\ TaskTypes
    /\ sent \in [Buys -> Sendings]
    /\ paid \subseteq Buys /\ served \subseteq Buys /\ booked \subseteq Buys
    /\ posted \in Scenarios
    /\ FaucetInv

\* The invariant gives the type invariant the run checks.
LEMMA InvIsTyped == GatewayInv => GatewayTypeOK
<1> SUFFICES ASSUME GatewayInv PROVE GatewayTypeOK
  OBVIOUS
<1>1. TypeOK
  BY DEF GatewayInv, OpenInv
<1>2. BudgetTypeOK
  <2>1. ASSUME NEW b \in Buys, NEW i \in DOMAIN hold[b] PROVE hold[b][i] \in Counters \X Epochs
    <3>1. hold[b] \in Seq(Counters \X Epochs)
      BY DEF GatewayInv, ReqTypes, BudgetTypes
    <3> QED BY <2>1, <3>1
  <2> QED BY <2>1 DEF GatewayInv, ReqTypes, BudgetTypes, BudgetTypeOK
<1>3. DOMAIN store = Buys /\ \A b \in Buys : store[b] \in {NoStore, Redis, Fallback(Host[b]), Local(Host[b], Path[b])}
  BY DEF GatewayInv, ReqTypes, SeenTypes, StoresOf
<1>4. PayTypeOK
  BY <1>1, <1>2, <1>3 DEF PayTypeOK, GatewayInv, SeenTypes
<1>5. FaucetTypeOK
  BY DEF GatewayInv, FaucetInv
<1> QED BY <1>4, <1>5 DEF GatewayTypeOK, TaskTypeOK, GatewayInv, TaskTypes

\* It holds at the start ...
LEMMA GatewayStart == GatewayInit => GatewayInv
<1> SUFFICES ASSUME GatewayInit PROVE GatewayInv
  OBVIOUS
<1> USE DEF GatewayInit, TaskInit, PayInit
<1>1. OpenInv /\ FaucetInv
  BY OpenInit, FaucetStart
<1>2. StageInv
  <2>1. \A b \in Buys : Path[b] \in Paths
    BY PaymentConstants
  <2> QED BY <2>1 DEF StageInv, AllStages, TaskStages, StagesOf, TaskPaths, SettleFirst, Paths, First
<1>3. BudgetTypes
  <2>1. 0 \in Epochs /\ 0 \in Int
    BY BudgetConstants DEF Epochs
  <2>2. <<>> \in Seq(Counters) /\ <<>> \in Seq(Counters \X Epochs)
    OBVIOUS
  <2> QED BY <2>1, <2>2 DEF BudgetInit, BudgetTypes
<1>4. SeenTypes
  BY PaymentConstants DEF SeenTypes
<1>5. TaskTypes
  BY DEF TaskTypes
<1>6. BookedStage /\ BudgetStage
  BY DEF BookedStage, BudgetStage, First
<1>7. sent \in [Buys -> Sendings]
  BY DEF Sendings
<1> QED BY <1>1, <1>2, <1>3, <1>4, <1>5, <1>6, <1>7 DEF GatewayInv, ReqTypes

\* ... and every step keeps it.
LEMMA GatewayStep == GatewayInv /\ [GatewayNext]_gatewayVars => GatewayInv'
<1> SUFFICES ASSUME GatewayInv, [GatewayNext]_gatewayVars PROVE GatewayInv'
  OBVIOUS
<1>0. /\ ReqTypes /\ BookedStage /\ BudgetStage /\ OpenInv /\ SeenTypes /\ TaskTypes
      /\ paid \subseteq Buys /\ served \subseteq Buys /\ booked \subseteq Buys
      /\ posted \in Scenarios /\ FaucetInv /\ sent \in [Buys -> Sendings]
  BY DEF GatewayInv
<1>1. BudgetTypes' /\ BudgetStage'
  BY <1>0, BudgetKeeps, BudgetStageKeeps
<1>2. StageInv'
  BY <1>0, FunctionsKeep, EveryMove, StageKeeps DEF StageInv
<1>3. ReqTypes'
  BY <1>0, <1>1, <1>2, FunctionsKeep DEF ReqTypes
<1>4. paid' \subseteq Buys /\ served' \subseteq Buys /\ booked' \subseteq Buys
  BY <1>0, FlagsKeep
<1>5. BookedStage'
  <2>1. ASSUME NEW c \in booked'
        PROVE  /\ \/ stage'[c] \in {"done", "return", "finish", "finishSave"}
                  \/ stage'[c] = "serve" /\ Path[c] \in SettleFirst
               /\ Path[c] = "chat" => stage'[c] = "done"
    BY <1>0, <1>4, EveryMove, BookedKeeps
  <2> QED BY <2>1 DEF BookedStage
<1>6. OpenInv' /\ SeenTypes' /\ TaskTypes'
  BY <1>0, OpenKeeps, SeenKeeps, TasksKeep
<1>7. posted' = posted
  BY <1>0, SamePosted
<1>8. FaucetInv'
  <2>1. [FaucetNext]_faucetVars
    BY DEF GatewayNext, FaucetStep, FaucetNext, gatewayVars
  <2> QED BY <1>0, <2>1, FaucetNextKeeps
<1>9. sent' \in [Buys -> Sendings]
  BY <1>0, SentMoves DEF SendTaken, SendDisowned, Sendings
<1> QED BY <1>0, <1>1, <1>3, <1>4, <1>5, <1>6, <1>7, <1>8, <1>9 DEF GatewayInv

\* Every state of the gateway is well typed, whatever the scenario, the number of
\* requests, processes, counters and tasks, and the faults that occur.
THEOREM GatewayTyped == GatewaySpec => []GatewayTypeOK
  BY GatewayStart, GatewayStep, InvIsTyped, PTL DEF GatewaySpec, gatewayVars

\* Beside purchases and tasks that present the same transfers a channel row still
\* means that its money arrived.
THEOREM CreditsStayFunded == GatewaySpec => []CreditedMeansLanded
<1>1. GatewayInv => CreditedMeansLanded
  BY DEF GatewayInv, OpenInv
<1> QED BY <1>1, GatewayStart, GatewayStep, PTL DEF GatewaySpec, gatewayVars

-----------------------------------------------------------------------------
(* Money                                                                    *)

\* A request that is settled by a transfer is booked, and on the settle-first
\* surfaces served, after its settlement was confirmed and never before.
PaidInv(c) ==
    /\ c \in paid => /\ stage[c] \in {"book", "serve", "finish", "finishSave", "return", "done"}
                     /\ Path[c] # "cancel" /\ ~(Path[c] = "chat" /\ stage[c] = "serve")
    /\ \/ stage[c] = "book" \/ c \in booked
       \/ Path[c] # "chat" /\ (stage[c] = "serve" \/ c \in served)
       => c \in paid

\* Admitted by the guard, and not yet settled, refused or dropped.
Live(c) ==
    \/ stage[c] \in {"budget", "reserve", "verify", "send", "confirm"}
    \/ stage[c] = "serve" /\ Path[c] = "chat"

\* A request's move keeps the order of settlement, service and booking.
LEMMA PaidKeeps ==
    ASSUME ReqTypes, NEW c \in Buys, Path[c] # "voucher", PaidInv(c), RequestMoves(c)
    PROVE  PaidInv(c)'
<1>1. Path[c] \in Paths \ {"voucher"} /\ stage[c] \in StagesOf(Path[c])
  BY PaymentConstants DEF ReqTypes, StageInv
<1>2. stage[c] # "persist" /\ (stage[c] = "confirm" => Path[c] # "cancel")
  BY <1>1 DEF StagesOf, SettleFirst, TaskStages
<1>3. CASE SameFlags(c) /\ stage'[c] = stage[c]
  BY <1>3 DEF PaidInv, SameFlags
<1>4. CASE SameFlags(c) /\ Quiet(Path[c], stage[c], stage'[c])
  <2>1. ASSUME stage[c] \in {"book", "serve", "finish", "finishSave", "return", "done"},
               ~(stage[c] = "serve" /\ Path[c] \in {"voucher", "cancel"})
        PROVE  stage'[c] \in {"book", "serve", "finish", "finishSave", "return", "done"}
    BY <1>1, <1>4, <2>1 DEF Quiet, TaskPaths, Paths
  <2>2. stage'[c] = "book" => stage[c] = "serve" /\ Path[c] = "a2a"
    BY <1>1, <1>4 DEF Quiet, After, TaskPaths
  <2>3. stage'[c] = "serve" => Path[c] = "chat"
    BY <1>1, <1>4 DEF Quiet, After, TaskPaths
  <2>4. stage'[c] = "serve" => stage[c] = "verify"
    BY <1>1, <1>4 DEF Quiet, After, TaskPaths
  <2> QED BY <1>1, <1>4, <2>1, <2>2, <2>3, <2>4 DEF PaidInv, SameFlags
<1>5. CASE Settles(c) /\ stage'[c] = After(Path[c], stage[c])
  BY <1>1, <1>2, <1>5 DEF PaidInv, Settles, After
<1>6. CASE Serves(c) /\ stage'[c] = After(Path[c], stage[c])
  BY <1>1, <1>6 DEF PaidInv, Serves, After, Paths
<1>7. CASE Books(c) /\ stage'[c] = After(Path[c], stage[c])
  BY <1>1, <1>7 DEF PaidInv, Books, After, SettleFirst, Paths
<1>8. CASE (Admits(c) \/ Sends(c)) /\ stage'[c] = After(Path[c], stage[c])
  BY <1>1, <1>8 DEF PaidInv, Admits, Sends, SameFlags, After
<1>9. ~Persists(c)
  BY <1>2 DEF Persists
<1> QED BY <1>3, <1>4, <1>5, <1>6, <1>7, <1>8, <1>9 DEF RequestMoves

\* Only the guard brings a request among those.
LEMMA LiveKeeps ==
    ASSUME ReqTypes, NEW c \in Buys, Path[c] # "voucher", RequestMoves(c), Live(c)'
    PROVE  \/ Live(c) /\ store'[c] = store[c]
           \/ Admits(c) /\ stage'[c] = After(Path[c], stage[c])
<1>1. Path[c] \in Paths \ {"voucher"} /\ stage[c] \in StagesOf(Path[c])
  BY PaymentConstants DEF ReqTypes, StageInv
<1>2. stage[c] # "persist" /\ (stage[c] = "book" => Path[c] # "cancel")
  BY <1>1 DEF StagesOf, SettleFirst, TaskStages
<1>3. CASE SameFlags(c) /\ stage'[c] = stage[c]
  BY <1>3 DEF Live, SameFlags
<1>4. CASE SameFlags(c) /\ Quiet(Path[c], stage[c], stage'[c])
  BY <1>1, <1>4 DEF Live, SameFlags, Quiet, After, TaskPaths
<1>5. CASE Admits(c) /\ stage'[c] = After(Path[c], stage[c])
  BY <1>5
<1>6. CASE (Sends(c) \/ Settles(c) \/ Serves(c) \/ Books(c)) /\ stage'[c] = After(Path[c], stage[c])
  BY <1>1, <1>6 DEF Live, SameFlags, Sends, Settles, Serves, Books, After, SettleFirst, Paths
<1>9. ~Persists(c)
  BY <1>2 DEF Persists
<1> QED BY <1>3, <1>4, <1>5, <1>6, <1>9 DEF RequestMoves

\* How long the record of a live request lasts: at least until its transfer is
\* dead.
Kept(n) == n \in Nat /\ (n >= ReplayTTL \/ n > MaxTime)

\* A record that is written now is kept so long.
LEMMA UntilKept == ASSUME SeenTypes, NEW s PROVE Kept(Until(s))
  BY PaymentConstants DEF SeenTypes, Until, Kept

\* The record of a request under way stays: only a restart of its own process
\* forgets it, and that ends the request.
LEMMA RecordKeeps ==
    ASSUME SeenTypes, NEW c \in Buys, [GatewayNext]_gatewayVars, NEW s \in StoresOf(c),
           stage'[c] \notin {"done", "guard", "intake"}, Kept(seen[s][Pays[c]])
    PROVE  Kept(seen'[s][Pays[c]])
<1>1. s \in Stores /\ Pays[c] \in Fundings
  BY StoreFacts, PaymentConstants
<1>2. ASSUME NEW i, Restart(i) PROVE seen'[s] = seen[s]
  <2>1. Host[c] # i
    BY <1>2 DEF Restart, First
  <2>2. s = Redis \/ s[1] = Host[c]
    BY DEF StoresOf, Fallback, Local
  <2> QED BY <1>1, <1>2, <2>1, <2>2 DEF Restart
<1>3. ASSUME NEW b \in Buys, NEW r, GuardWrites(b, r)
      PROVE  seen'[s][Pays[c]] = seen[s][Pays[c]] \/ seen'[s][Pays[c]] = Until(s)
  BY <1>1, <1>3 DEF GuardWrites
<1> QED BY <1>2, <1>3, GuardCases, GuardDoes, UntilKept

-----------------------------------------------------------------------------

Settled(f) == chain[f] \notin {"unseen", "pool"}

\* A request that was, or may still be, settled by its transfer.
CanPay(c) == c \in paid \/ stage[c] = "confirm" \/ (Live(c) /\ ~Settled(Pays[c]))

\* The requests settled by a transfer, the records they are admitted by and the
\* clock the records are compared with.
MoneyInv ==
    /\ GatewayInv
    /\ \A c \in Buys : Path[c] # "voucher" =>
          /\ PaidInv(c)
          /\ c \in paid => chain[Pays[c]] = "landed" /\ store[c] # NoStore
          /\ Live(c) => store[c] # NoStore /\ Kept(seen[store[c]][Pays[c]])
    /\ now > 0 /\ now >= Lifetime => \A f \in Presented : Settled(f)
    /\ \A b, c \in Buys :
          /\ b # c /\ Pays[b] = Pays[c] /\ store[b] = store[c] /\ store[c] # NoStore
          /\ Path[b] # "voucher" /\ Path[c] # "voucher"
          => ~(CanPay(b) /\ CanPay(c))

\* At the start nothing is paid.
LEMMA MoneyStart == GatewayInit => MoneyInv
<1> SUFFICES ASSUME GatewayInit PROVE MoneyInv
  OBVIOUS
<1>1. GatewayInv
  BY GatewayStart
<1>2. /\ paid = {} /\ booked = {} /\ served = {} /\ now = 0
      /\ \A c \in Buys : stage[c] \in {"intake", "guard"} /\ store[c] = NoStore
  BY DEF GatewayInit, TaskInit, PayInit, First
<1> QED BY <1>1, <1>2 DEF MoneyInv, PaidInv, Live

\* A request passes the guard by its own step, which records its transfer.
LEMMA AdmitStep ==
    ASSUME ReqTypes, SeenTypes, [GatewayNext]_gatewayVars, NEW c \in Buys,
           stage[c] = "guard", stage'[c] \in {"budget", "verify"}
    PROVE  /\ store'[c] \in StoresOf(c) /\ Kept(seen'[store'[c]][Pays[c]])
           /\ \A d \in Buys : d # c => stage'[d] = stage[d]
<1>t. stage \in [Buys -> AllStages] /\ store \in [Buys -> Stores \cup {NoStore}]
  BY DEF ReqTypes, StageInv
<1>1. ~(\E i : Restart(i)) /\ ~Tick /\ ~Elsewhere
  BY ElsewhereFrame DEF Restart, Tick
<1>2. PICK b \in Buys : BuyStep(b) \/ (b \in TaskRequests /\ TaskStep(b))
  BY <1>1, GatewayCases DEF TaskRequests
<1>3. b = c /\ \A d \in Buys : d # c => stage'[d] = stage[d]
  BY <1>t, <1>2, OwnStage
<1>4. ~(c \in TaskRequests /\ TaskStep(c))
  BY DEF TaskStep, Intake, AcquireLock, AcquireFails, Recheck, RecheckFails, Mark, MarkSave,
     MarkSaveFails, Cancel, CancelSave, CancelSaveFails, Revert, RevertSave, RevertFails, Release,
     ReleaseFails, PersistVoucher, DeliverFree, Finish, FinishSave, FinishFails
<1>5. Guard(c) \/ GuardWithoutRedis(c) \/ GuardAnswerLost(c)
  <2>1. BuyStep(c)
    BY <1>2, <1>3, <1>4
  <2>2. ~Disconnect(c) /\ ~Log(c) /\ ~LogLost(c)
    BY <1>t DEF Disconnect, Log, LogLost, Step
  <2> QED BY <2>1, <2>2 DEF BuyStep, VerifyPayment, SendPayment, SendPaymentLost, PaymentConfirmed,
       PaymentUnconfirmed, Serve, ServeFails, Book, BookSkipped, StartBudget,
       Reserve, Deny, DenyOnError, GiveBack, GiveBackLost
<1>6. PICK s : GuardWrites(c, s)
  BY <1>5, GuardDoes
<1>7. ~Refuse(c)
  BY <1>t DEF Refuse, Step
<1>8. s \in StoresOf(c) /\ store' = [store EXCEPT ![c] = s] /\ seen'[s][Pays[c]] = Until(s)
  BY <1>6, <1>7 DEF GuardWrites
<1> QED BY <1>t, <1>3, <1>8, UntilKept

\* Who can pay could pay before, or passes the guard now.
LEMMA CanPayKeeps ==
    ASSUME MoneyInv, [GatewayNext]_gatewayVars, NEW c \in Buys, Path[c] # "voucher", CanPay(c)'
    PROVE  \/ CanPay(c) /\ store'[c] = store[c]
           \/ /\ Admits(c) /\ stage'[c] = After(Path[c], stage[c]) /\ Live(c)'
              /\ ~Settled(Pays[c])' /\ ~Settled(Pays[c])
<1>0. GatewayInv /\ ReqTypes /\ SeenTypes /\ OpenInv /\ PaidInv(c) /\ Pays[c] \in Fundings
  BY PaymentConstants DEF MoneyInv, GatewayInv
<1>1. RequestMoves(c)
  BY <1>0, EveryMove
<1>2. stage[c] # "persist"
  <2>1. stage[c] \in StagesOf(Path[c])
    BY <1>0 DEF ReqTypes, StageInv
  <2> QED BY <2>1 DEF StagesOf, SettleFirst, TaskStages
<1>3. ~Settled(Pays[c])' => ~Settled(Pays[c])
  BY <1>0, SettledStays DEF Settled
<1>4. CASE c \in paid'
  <2>1. CASE c \in paid
    <3>1. stage[c] # "guard"
      BY <1>0, <2>1 DEF PaidInv
    <3>2. store'[c] = store[c]
      BY <1>1, <3>1 DEF RequestMoves, SameFlags, Admits, Sends, Settles, Persists, Serves, Books
    <3> QED BY <2>1, <3>2 DEF CanPay
  <2>2. CASE c \notin paid
    <3>1. Settles(c)
      BY <1>1, <1>2, <1>4, <2>2 DEF RequestMoves, SameFlags, Admits, Sends, Persists, Serves, Books
    <3> QED BY <3>1 DEF Settles, CanPay
  <2> QED BY <2>1, <2>2
<1>5. CASE c \notin paid'
  <2>1. Live(c)'
    BY <1>5 DEF CanPay, Live
  <2>2. \/ Live(c) /\ store'[c] = store[c]
        \/ Admits(c) /\ stage'[c] = After(Path[c], stage[c])
    BY <1>0, <1>1, <2>1, LiveKeeps
  <2>3. CASE stage'[c] = "confirm"
    <3>1. stage[c] = "confirm" \/ ~Settled(Pays[c])
      <4>1. CASE SameFlags(c)
        <5>1. ~Quiet(Path[c], stage[c], "confirm")
          BY DEF Quiet, After
        <5>2. CASE Sends(c)
          BY <5>2 DEF Sends, Settled
        <5> QED BY <1>1, <1>2, <2>3, <5>1, <5>2 DEF RequestMoves, Admits, Settles, Persists, Serves,
                   Books, After
      <4>2. CASE ~SameFlags(c)
        BY <1>1, <1>2, <2>3, <4>2 DEF RequestMoves, Admits, Sends, Settles, Persists, Serves, Books,
           After, Settled
      <4> QED BY <4>1, <4>2
    <3>2. ~(Admits(c) /\ stage'[c] = After(Path[c], stage[c]))
      BY <2>3 DEF Admits, After
    <3> QED BY <2>2, <3>1, <3>2 DEF CanPay
  <2>4. CASE stage'[c] # "confirm"
    <3>1. ~Settled(Pays[c])'
      BY <1>5, <2>4 DEF CanPay
    <3> QED BY <1>3, <2>1, <2>2, <3>1 DEF CanPay
  <2> QED BY <2>3, <2>4
<1> QED BY <1>4, <1>5

\* A second request of the same transfer passes the same store only when the
\* transfer is dead.
LEMMA AdmitsOne ==
    ASSUME MoneyInv, [GatewayNext]_gatewayVars, NEW b \in Buys, NEW c \in Buys,
           Path[b] # "voucher", Path[c] # "voucher", Pays[b] = Pays[c],
           CanPay(b), store[b] = store'[c], Admits(c), stage'[c] = After(Path[c], stage[c])
    PROVE  Settled(Pays[c])
<1>1. CASE b \in paid
  BY <1>1 DEF MoneyInv, Settled
<1>2. CASE b \notin paid /\ (stage[b] = "confirm" \/ Live(b))
  <2>1. Live(b)
    BY <1>2 DEF Live
  <2>2. Kept(seen[store'[c]][Pays[c]])
    BY <2>1 DEF MoneyInv
  <2>3. ~(seen[store'[c]][Pays[c]] > now) /\ c \in posted /\ stage[c] = "guard"
    BY DEF Admits
  <2>4. now \in Nat /\ now <= MaxTime
    BY PaymentConstants DEF MoneyInv, GatewayInv, SeenTypes
  <2>5. now >= ReplayTTL
    BY <2>2, <2>3, <2>4, PaymentConstants DEF Kept
  <2>6. now > 0 /\ now >= Lifetime
    BY <2>4, <2>5, PaymentConstants
  <2>7. Path[c] \notin {"voucher", "cancel"}
    <3>1. stage[c] \in StagesOf(Path[c])
      BY DEF MoneyInv, GatewayInv, ReqTypes, StageInv
    <3> QED BY <2>3, <3>1 DEF StagesOf, SettleFirst, TaskStages
  <2>8. Pays[c] \in Presented
    BY <2>3, <2>7 DEF Presented, Presenters
  <2> QED BY <2>6, <2>8 DEF MoneyInv
<1> QED BY <1>1, <1>2 DEF CanPay

\* Every step keeps the payments' invariant.
LEMMA MoneyNext == MoneyInv /\ [GatewayNext]_gatewayVars => MoneyInv'
<1> SUFFICES ASSUME MoneyInv, [GatewayNext]_gatewayVars PROVE MoneyInv'
  OBVIOUS
<1>0. GatewayInv /\ GatewayInv' /\ ReqTypes /\ SeenTypes /\ OpenInv
  BY GatewayStep DEF MoneyInv, GatewayInv
<1>1. ASSUME NEW c \in Buys, Path[c] # "voucher"
      PROVE  /\ PaidInv(c)'
             /\ c \in paid' => chain'[Pays[c]] = "landed" /\ store'[c] # NoStore
             /\ Live(c)' => store'[c] # NoStore /\ Kept(seen'[store'[c]][Pays[c]])
  <2>0. /\ PaidInv(c) /\ Pays[c] \in Fundings
        /\ c \in paid => chain[Pays[c]] = "landed" /\ store[c] # NoStore
        /\ Live(c) => store[c] # NoStore /\ Kept(seen[store[c]][Pays[c]])
    BY <1>1, PaymentConstants DEF MoneyInv
  <2>1. RequestMoves(c)
    BY <1>0, EveryMove
  <2>2. PaidInv(c)'
    BY <1>0, <1>1, <2>0, <2>1, PaidKeeps
  <2>3. ASSUME c \in paid' PROVE chain'[Pays[c]] = "landed" /\ store'[c] # NoStore
    <3>1. stage[c] # "persist"
      <4>1. stage[c] \in StagesOf(Path[c])
        BY <1>0 DEF ReqTypes, StageInv
      <4> QED BY <1>1, <4>1 DEF StagesOf, SettleFirst, TaskStages
    <3>2. chain[Pays[c]] = "landed" => chain'[Pays[c]] = "landed"
      BY <1>0, <2>0, SettledStays
    <3>3. CASE c \in paid
      <4>1. stage[c] # "guard"
        BY <2>0, <3>3 DEF PaidInv
      <4>2. store'[c] = store[c]
        BY <2>1, <4>1 DEF RequestMoves, SameFlags, Admits, Sends, Settles, Persists, Serves, Books
      <4> QED BY <2>0, <3>2, <3>3, <4>2
    <3>4. CASE c \notin paid
      <4>1. Settles(c)
        BY <2>1, <2>3, <3>1, <3>4 DEF RequestMoves, SameFlags, Admits, Sends, Persists, Serves, Books
      <4>2. Live(c)
        BY <4>1 DEF Settles, Live
      <4> QED BY <2>0, <3>2, <4>1, <4>2 DEF Settles
    <3> QED BY <3>3, <3>4
  <2>4. ASSUME Live(c)' PROVE store'[c] # NoStore /\ Kept(seen'[store'[c]][Pays[c]])
    <3>1. CASE Live(c) /\ store'[c] = store[c]
      <4>1. store[c] \in StoresOf(c)
        BY <1>0, <2>0, <3>1 DEF SeenTypes
      <4>2. stage'[c] \notin {"done", "guard", "intake"}
        BY <2>4 DEF Live
      <4> QED BY <1>0, <2>0, <3>1, <4>1, <4>2, RecordKeeps
    <3>2. CASE Admits(c) /\ stage'[c] = After(Path[c], stage[c])
      <4>1. stage[c] = "guard" /\ stage'[c] \in {"budget", "verify"}
        BY <3>2 DEF Admits, After
      <4> QED BY <1>0, <4>1, AdmitStep, StoreFacts
    <3> QED BY <1>0, <1>1, <2>1, <2>4, <3>1, <3>2, LiveKeeps
  <2> QED BY <2>2, <2>3, <2>4
<1>2. ASSUME now' > 0, now' >= Lifetime, NEW f \in Presented' PROVE Settled(f)'
  <2>1. posted' = posted
    BY <1>0, SamePosted
  <2>2. f \in Presented /\ f \in Fundings
    BY <1>2, <2>1, OpenConstants, PaymentConstants DEF Presented, Presenters
  <2>3. Settled(f)
    <3>1. CASE Tick
      BY <1>2, <2>2, <3>1 DEF Tick, Settled
    <3>2. CASE now' = now
      BY <1>2, <2>2, <3>2 DEF MoneyInv
    <3> QED BY <3>1, <3>2, GuardCases
  <2> QED BY <1>0, <2>2, <2>3, SettledStays DEF Settled
<1>3. ASSUME NEW b \in Buys, NEW c \in Buys, b # c, Pays[b] = Pays[c], store'[b] = store'[c],
             store'[c] # NoStore, Path[b] # "voucher", Path[c] # "voucher",
             CanPay(b)', CanPay(c)'
      PROVE  FALSE
  <2>1. CASE CanPay(b) /\ store'[b] = store[b] /\ CanPay(c) /\ store'[c] = store[c]
    BY <1>3, <2>1 DEF MoneyInv
  <2>2. CASE /\ CanPay(b) /\ store'[b] = store[b] /\ ~Settled(Pays[c])
             /\ Admits(c) /\ stage'[c] = After(Path[c], stage[c])
    BY <1>3, <2>2, AdmitsOne
  <2>3. CASE /\ CanPay(c) /\ store'[c] = store[c] /\ ~Settled(Pays[b])
             /\ Admits(b) /\ stage'[b] = After(Path[b], stage[b])
    BY <1>3, <2>3, AdmitsOne
  <2>4. CASE /\ Admits(b) /\ stage'[b] = After(Path[b], stage[b])
             /\ Admits(c) /\ stage'[c] = After(Path[c], stage[c])
    <3>1. /\ stage[c] = "guard" /\ stage'[c] \in {"budget", "verify"}
          /\ stage[b] = "guard" /\ stage'[b] \in {"budget", "verify"}
      BY <2>4 DEF Admits, After
    <3> QED BY <1>0, <1>3, <3>1, AdmitStep
  <2> QED BY <1>3, <2>1, <2>2, <2>3, <2>4, CanPayKeeps
<1> QED BY <1>0, <1>1, <1>2, <1>3 DEF MoneyInv

\* Of two requests settled by the same transfer, whatever the processes, outages,
\* restarts and delays, the guard accepted them in two different stores.
THEOREM OneTransferBuysOnce == GatewaySpec => []TransferBuysOnce
<1>1. MoneyInv => TransferBuysOnce
  <2> SUFFICES ASSUME MoneyInv, NEW b \in paid, NEW c \in paid, Path[b] # "voucher",
                      Path[c] # "voucher", b # c, Pays[b] = Pays[c], store[b] = store[c]
               PROVE  FALSE
    BY DEF TransferBuysOnce
  <2>1. b \in Buys /\ c \in Buys
    BY DEF MoneyInv, GatewayInv
  <2>2. store[c] # NoStore /\ CanPay(b) /\ CanPay(c)
    BY <2>1 DEF MoneyInv, CanPay
  <2> QED BY <2>1, <2>2 DEF MoneyInv
<1> QED BY <1>1, MoneyStart, MoneyNext, PTL DEF GatewaySpec, gatewayVars

\* A spend row and a receipt stand for money that arrived, and a settle-first
\* surface serves for nothing less.
THEOREM BooksAreFunded == GatewaySpec => []BookedMeansLanded
<1>1. MoneyInv => BookedMeansLanded
  BY DEF MoneyInv, PaidInv, BookedMeansLanded
<1> QED BY <1>1, MoneyStart, MoneyNext, PTL DEF GatewaySpec, gatewayVars
=============================================================================
