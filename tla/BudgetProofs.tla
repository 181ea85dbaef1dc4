---------------------------- MODULE BudgetProofs ----------------------------
(***************************************************************************)
(* The spending counters, for any number of requests, windows and periods:  *)
(* a limit holds but for what reserves nothing, what is logged in a later    *)
(* period and what a bill exceeds its estimate by, and without faults a      *)
(* counter shows what was spent or settled.                                  *)
(***************************************************************************)
EXTENDS PaymentsProofs

-----------------------------------------------------------------------------
(* Sequences without repetition                                             *)

Among(q, x) == \E i \in DOMAIN q : q[i] = x
Distinct(q) == \A i, j \in DOMAIN q : q[i] = q[j] => i = j

\* The reservations of a request name a window once.
WindowIn(q, w) == \E i \in DOMAIN q : q[i][1] = w
OnePerWindow(q) == \A i, j \in DOMAIN q : q[i][1] = q[j][1] => i = j

\* The members of a tail, by their positions.
LEMMA TailAt ==
    ASSUME NEW S, NEW q \in Seq(S), q # <<>>
    PROVE  /\ Len(q) \in Nat \ {0} /\ DOMAIN q = 1 .. Len(q) /\ DOMAIN Tail(q) = 1 .. (Len(q) - 1)
           /\ Head(q) = q[1] /\ 1 \in DOMAIN q
           /\ \A i \in DOMAIN Tail(q) : Tail(q)[i] = q[i + 1] /\ i + 1 \in DOMAIN q /\ i + 1 # 1
           /\ \A i \in DOMAIN q : i = 1 \/ (i - 1 \in DOMAIN Tail(q) /\ Tail(q)[i - 1] = q[i])
<1>1. Len(q) \in Nat \ {0} /\ DOMAIN q = 1 .. Len(q) /\ DOMAIN Tail(q) = 1 .. (Len(q) - 1)
  OBVIOUS
<1>2. Head(q) = q[1] /\ \A i \in 1 .. (Len(q) - 1) : Tail(q)[i] = q[i + 1]
  OBVIOUS
<1> QED BY <1>1, <1>2

\* The tail of a sequence of one.
LEMMA TailOfOne == ASSUME NEW S, NEW q \in Seq(S), Len(q) = 1 PROVE Tail(q) = <<>>
<1>1. Tail(q) \in Seq(S) /\ Len(Tail(q)) = 0
  <2>1. q # <<>>
    OBVIOUS
  <2> QED BY <2>1
<1>2. \A r \in Seq(S) : Len(r) = 0 => r = <<>>
  OBVIOUS
<1> QED BY <1>1, <1>2

\* What a sequence without repetition loses with its head.
LEMMA TailFacts ==
    ASSUME NEW S, NEW q \in Seq(S), q # <<>>, Distinct(q)
    PROVE  /\ Distinct(Tail(q)) /\ ~Among(Tail(q), Head(q)) /\ Among(q, Head(q))
           /\ \A x : Among(q, x) <=> x = Head(q) \/ Among(Tail(q), x)
<1>1. PICK r : r = Tail(q)
  OBVIOUS
<1>2. /\ Head(q) = q[1] /\ 1 \in DOMAIN q /\ DOMAIN q \subseteq Int /\ DOMAIN r \subseteq Int
      /\ \A i \in DOMAIN r : r[i] = q[i + 1] /\ i + 1 \in DOMAIN q /\ i + 1 # 1
      /\ \A i \in DOMAIN q : i = 1 \/ (i - 1 \in DOMAIN r /\ r[i - 1] = q[i])
  BY <1>1, TailAt
<1>3. Distinct(r)
  BY <1>2 DEF Distinct
<1>4. ~Among(r, q[1])
  BY <1>2 DEF Among, Distinct
<1>5. \A x : Among(q, x) <=> x = q[1] \/ Among(r, x)
  BY <1>2 DEF Among
<1> QED BY <1>1, <1>2, <1>3, <1>4, <1>5

\* The same for reservations: giving the first back leaves its window unreserved.
LEMMA WindowTail ==
    ASSUME NEW S, NEW q \in Seq(S), q # <<>>, OnePerWindow(q)
    PROVE  /\ OnePerWindow(Tail(q)) /\ ~WindowIn(Tail(q), Head(q)[1]) /\ WindowIn(q, Head(q)[1])
           /\ \A w : WindowIn(q, w) <=> w = Head(q)[1] \/ WindowIn(Tail(q), w)
           /\ \A k : Among(q, k) <=> k = Head(q) \/ Among(Tail(q), k)
           /\ ~Among(Tail(q), Head(q))
<1>1. PICK r : r = Tail(q)
  OBVIOUS
<1>2. /\ Head(q) = q[1] /\ 1 \in DOMAIN q /\ DOMAIN q \subseteq Int /\ DOMAIN r \subseteq Int
      /\ \A i \in DOMAIN r : r[i] = q[i + 1] /\ i + 1 \in DOMAIN q /\ i + 1 # 1
      /\ \A i \in DOMAIN q : i = 1 \/ (i - 1 \in DOMAIN r /\ r[i - 1] = q[i])
  BY <1>1, TailAt
<1>3. OnePerWindow(r)
  <2> SUFFICES ASSUME NEW i \in DOMAIN r, NEW j \in DOMAIN r, r[i][1] = r[j][1] PROVE i = j
    BY DEF OnePerWindow
  <2>1. i + 1 \in DOMAIN q /\ j + 1 \in DOMAIN q /\ q[i + 1][1] = q[j + 1][1]
    BY <1>2
  <2>2. i + 1 = j + 1
    BY <2>1 DEF OnePerWindow
  <2> QED BY <1>2, <2>2
<1>4. ~WindowIn(r, q[1][1])
  BY <1>2 DEF WindowIn, OnePerWindow
<1>5. \A w : WindowIn(q, w) <=> w = q[1][1] \/ WindowIn(r, w)
  BY <1>2 DEF WindowIn
<1>6. \A k : Among(q, k) <=> k = q[1] \/ Among(r, k)
  BY <1>2 DEF Among
<1>7. Among(r, q[1]) => WindowIn(r, q[1][1])
  BY DEF Among, WindowIn
<1> QED BY <1>1, <1>2, <1>3, <1>4, <1>5, <1>6, <1>7

\* Reserving a window that was not reserved.
LEMMA WindowAppend ==
    ASSUME NEW S, NEW q \in Seq(S), NEW k \in S, OnePerWindow(q), ~WindowIn(q, k[1])
    PROVE  /\ OnePerWindow(Append(q, k))
           /\ \A w : WindowIn(Append(q, k), w) <=> w = k[1] \/ WindowIn(q, w)
           /\ \A m : Among(Append(q, k), m) <=> m = k \/ Among(q, m)
<1>1. PICK r : r = Append(q, k)
  OBVIOUS
<1>2. /\ Len(q) \in Nat /\ DOMAIN q = 1 .. Len(q) /\ DOMAIN r = 1 .. (Len(q) + 1)
      /\ r[Len(q) + 1] = k /\ \A i \in 1 .. Len(q) : r[i] = q[i]
  BY <1>1
<1>3. /\ \A i \in DOMAIN q : i \in DOMAIN r /\ r[i] = q[i]
      /\ \A i \in DOMAIN r : i \in DOMAIN q \/ (i = Len(q) + 1 /\ r[i] = k)
      /\ Len(q) + 1 \in DOMAIN r /\ r[Len(q) + 1] = k
  BY <1>2
<1>4. OnePerWindow(r)
  BY <1>3 DEF OnePerWindow, WindowIn
<1>5. \A w : WindowIn(r, w) <=> w = k[1] \/ WindowIn(q, w)
  BY <1>3 DEF WindowIn
<1>6. \A m : Among(r, m) <=> m = k \/ Among(q, m)
  BY <1>3 DEF Among
<1> QED BY <1>1, <1>4, <1>5, <1>6

\* Nothing is among nothing.
LEMMA EmptyFacts ==
    /\ Distinct(<<>>) /\ OnePerWindow(<<>>)
    /\ \A x : ~Among(<<>>, x) /\ ~WindowIn(<<>>, x)
  BY DEF Distinct, OnePerWindow, Among, WindowIn

-----------------------------------------------------------------------------
(* Sums over parts                                                          *)

\* A sum of zeros.
LEMMA ZeroSum == ASSUME NEW S, IsFiniteSet(S), NEW f, \A x \in S : f[x] = 0 PROVE Total(f, S) = 0
<1>1. {} \in SUBSET S
  OBVIOUS
<1>2. Total(f, {}) = Total(f, S)
  BY <1>1, TotalPart
<1> QED BY <1>2, TotalEmpty

\* f, where x is in P, and 0 elsewhere.
On(f, P, x) == IF x \in P THEN f[x] ELSE 0

\* A sum over a part as a sum over the whole.
LEMMA OnPart ==
    ASSUME NEW S, IsFiniteSet(S), NEW f, NEW P \in SUBSET S, \A x \in S : f[x] \in Int
    PROVE  \E o : /\ \A x \in S : o[x] = On(f, P, x) /\ o[x] \in Int
                  /\ Total(f, P) = Total(o, S) /\ Total(f, P) \in Int
<1>1. PICK o : o = [x \in S |-> On(f, P, x)]
  OBVIOUS
<1>2. \A x \in S : o[x] = On(f, P, x) /\ o[x] \in Int
  BY <1>1 DEF On
<1>3. /\ \A x \in P : f[x] \in Int /\ o[x] = f[x]
      /\ \A x \in S \ P : o[x] = 0
  BY <1>2 DEF On
<1>4. Total(f, P) = Total(o, S)
  BY <1>3, TotalPart
<1>5. Total(o, S) \in Int
  BY <1>2, TotalType
<1> QED BY <1>2, <1>4, <1>5

\* The sums of two functions, taken together.
LEMMA SumTwo ==
    ASSUME NEW S, IsFiniteSet(S), NEW f, NEW g, \A x \in S : f[x] \in Int /\ g[x] \in Int
    PROVE  \E h : /\ \A x \in S : h[x] = f[x] + g[x] /\ h[x] \in Int
                  /\ Total(h, S) = Total(f, S) + Total(g, S) /\ Total(f, S) \in Int /\ Total(g, S) \in Int
<1>1. PICK h : h = [x \in S |-> f[x] + g[x]]
  OBVIOUS
<1>2. \A x \in S : h[x] = f[x] + g[x] /\ h[x] \in Int
  BY <1>1
<1>3. Total(h, S) = Total(f, S) + Total(g, S)
  BY <1>2, TotalPlus
<1>4. Total(f, S) \in Int /\ Total(g, S) \in Int
  BY TotalType
<1> QED BY <1>2, <1>3, <1>4

\* What holds for each member holds for the sums over parts: a bound ...
LEMMA SumBound ==
    ASSUME NEW S, IsFiniteSet(S), NEW P \in SUBSET S, NEW U \in SUBSET S, NEW Q \in SUBSET S,
           NEW R \in SUBSET S, NEW V \in SUBSET S, NEW k, NEW f, NEW g, NEW h,
           \A x \in S : k[x] \in Int /\ f[x] \in Int /\ g[x] \in Int /\ h[x] \in Int,
           \A x \in S : On(f, P, x) + On(g, U, x)
                            <= k[x] + On(f, Q, x) + On(g, R, x) + On(h, V, x)
    PROVE  Total(f, P) + Total(g, U) <= Total(k, S) + Total(f, Q) + Total(g, R) + Total(h, V)
<1>1. PICK fp : /\ \A x \in S : fp[x] = On(f, P, x) /\ fp[x] \in Int
                /\ Total(f, P) = Total(fp, S) /\ Total(f, P) \in Int
  BY OnPart
<1>2. PICK gu : /\ \A x \in S : gu[x] = On(g, U, x) /\ gu[x] \in Int
                /\ Total(g, U) = Total(gu, S) /\ Total(g, U) \in Int
  BY OnPart
<1>3. PICK fq : /\ \A x \in S : fq[x] = On(f, Q, x) /\ fq[x] \in Int
                /\ Total(f, Q) = Total(fq, S) /\ Total(f, Q) \in Int
  BY OnPart
<1>4. PICK gr : /\ \A x \in S : gr[x] = On(g, R, x) /\ gr[x] \in Int
                /\ Total(g, R) = Total(gr, S) /\ Total(g, R) \in Int
  BY OnPart
<1>5. PICK hv : /\ \A x \in S : hv[x] = On(h, V, x) /\ hv[x] \in Int
                /\ Total(h, V) = Total(hv, S) /\ Total(h, V) \in Int
  BY OnPart
<1>6. PICK l : /\ \A x \in S : l[x] = fp[x] + gu[x] /\ l[x] \in Int
               /\ Total(l, S) = Total(fp, S) + Total(gu, S)
  BY <1>1, <1>2, SumTwo
<1>7. PICK m : /\ \A x \in S : m[x] = k[x] + fq[x] /\ m[x] \in Int
               /\ Total(m, S) = Total(k, S) + Total(fq, S) /\ Total(k, S) \in Int
  <2>1. \A x \in S : k[x] \in Int /\ fq[x] \in Int
    BY <1>3
  <2>2. PICK m : m = [x \in S |-> k[x] + fq[x]]
    OBVIOUS
  <2>3. \A x \in S : k[x] \in Int /\ fq[x] \in Int /\ m[x] = k[x] + fq[x]
    BY <2>1, <2>2
  <2>4. Total(m, S) = Total(k, S) + Total(fq, S)
    BY <2>3, TotalPlus
  <2>5. Total(k, S) \in Int
    BY <2>1, TotalType
  <2> QED BY <2>3, <2>4, <2>5
<1>8. PICK n : /\ \A x \in S : n[x] = gr[x] + hv[x] /\ n[x] \in Int
               /\ Total(n, S) = Total(gr, S) + Total(hv, S)
  BY <1>4, <1>5, SumTwo
<1>9. PICK r : /\ \A x \in S : r[x] = m[x] + n[x] /\ r[x] \in Int
               /\ Total(r, S) = Total(m, S) + Total(n, S)
  BY <1>7, <1>8, SumTwo
<1>10. ASSUME NEW x \in S PROVE l[x] <= r[x]
  <2>1. On(f, P, x) + On(g, U, x) <= k[x] + On(f, Q, x) + On(g, R, x) + On(h, V, x)
    OBVIOUS
  <2>2. fp[x] + gu[x] <= k[x] + fq[x] + gr[x] + hv[x]
    BY <1>1, <1>2, <1>3, <1>4, <1>5, <2>1
  <2>3. l[x] = fp[x] + gu[x] /\ r[x] = (k[x] + fq[x]) + (gr[x] + hv[x])
    BY <1>6, <1>7, <1>8, <1>9
  <2>4. k[x] \in Int /\ fq[x] \in Int /\ gr[x] \in Int /\ hv[x] \in Int
    BY <1>3, <1>4, <1>5
  <2> QED BY <2>2, <2>3, <2>4
<1>11. Total(l, S) <= Total(r, S)
  BY <1>6, <1>9, <1>10, TotalLeq
<1>12. /\ Total(l, S) = Total(f, P) + Total(g, U)
       /\ Total(r, S) = (Total(k, S) + Total(f, Q)) + (Total(g, R) + Total(h, V))
  BY <1>1, <1>2, <1>3, <1>4, <1>5, <1>6, <1>7, <1>8, <1>9
<1>13. /\ Total(f, P) \in Int /\ Total(g, U) \in Int /\ Total(k, S) \in Int
       /\ Total(f, Q) \in Int /\ Total(g, R) \in Int /\ Total(h, V) \in Int
  BY <1>1, <1>2, <1>3, <1>4, <1>5, <1>7
<1>14. Total(f, P) + Total(g, U)
           <= (Total(k, S) + Total(f, Q)) + (Total(g, R) + Total(h, V))
  BY <1>11, <1>12
<1>15. ASSUME NEW a \in Int, NEW b \in Int, NEW c \in Int, NEW d \in Int
       PROVE  (a + b) + (c + d) = a + b + c + d
  OBVIOUS
<1> QED BY <1>13, <1>14, <1>15

\* ... and an equality.
LEMMA SumEqual ==
    ASSUME NEW S, IsFiniteSet(S), NEW P \in SUBSET S, NEW Q \in SUBSET S, NEW R \in SUBSET S,
           NEW k, NEW f, NEW g, \A x \in S : k[x] \in Int /\ f[x] \in Int /\ g[x] \in Int,
           \A x \in S : k[x] + On(g, R, x) = On(f, P, x) + On(g, Q, x)
    PROVE  Total(k, S) + Total(g, R) = Total(f, P) + Total(g, Q)
<1>1. PICK fp : /\ \A x \in S : fp[x] = On(f, P, x) /\ fp[x] \in Int
                /\ Total(f, P) = Total(fp, S) /\ Total(f, P) \in Int
  BY OnPart
<1>2. PICK gr : /\ \A x \in S : gr[x] = On(g, R, x) /\ gr[x] \in Int
                /\ Total(g, R) = Total(gr, S) /\ Total(g, R) \in Int
  BY OnPart
<1>3. PICK gq : /\ \A x \in S : gq[x] = On(g, Q, x) /\ gq[x] \in Int
                /\ Total(g, Q) = Total(gq, S) /\ Total(g, Q) \in Int
  BY OnPart
<1>4. PICK u : u = [x \in S |-> k[x] + gr[x]]
  OBVIOUS
<1>5. \A x \in S : k[x] \in Int /\ gr[x] \in Int /\ u[x] = k[x] + gr[x]
  BY <1>2, <1>4
<1>6. \A x \in S : fp[x] \in Int /\ gq[x] \in Int /\ u[x] = fp[x] + gq[x]
  BY <1>1, <1>2, <1>3, <1>5
<1>7. Total(u, S) = Total(k, S) + Total(gr, S)
  BY <1>5, TotalPlus
<1>8. Total(u, S) = Total(fp, S) + Total(gq, S)
  BY <1>6, TotalPlus
<1> QED BY <1>1, <1>2, <1>3, <1>7, <1>8

-----------------------------------------------------------------------------
(* What a request holds                                                     *)

\* A request reserves a window once, before it can log it, on the chat path only;
\* without faults it is over only when it returned what it held, or was paid for.
HoldOf(b) ==
    /\ Distinct(todo[b]) /\ \A w : Among(todo[b], w) => Among(Windows[b], w)
    /\ OnePerWindow(hold[b])
    /\ hold[b] # <<>> => Path[b] = "chat" /\ stage[b] \notin {"guard", "budget"} /\ b \in posted
    /\ stage[b] = "reserve" => \A w : Among(todo[b], w) => ~WindowIn(hold[b], w)
    /\ faults = 0 /\ stage[b] = "done" /\ b \notin paid => hold[b] = <<>>

HoldInv == GatewayInv /\ \A b \in Buys : HoldOf(b)

\* A request's windows.
LEMMA WindowFacts ==
    ASSUME NEW b \in Buys
    PROVE  /\ Windows[b] \in Seq(Counters) /\ Distinct(Windows[b])
           /\ Limited(b) \in Seq(Counters) /\ Distinct(Limited(b))
           /\ \A w : Among(Limited(b), w) => Among(Windows[b], w)
<1>1. Windows[b] \in Seq(Counters) /\ Distinct(Windows[b])
  BY BudgetConstants DEF Distinct
<1>2. Limited(b) \in Seq(Counters) /\ Distinct(Limited(b))
  BY LimitedFacts DEF Distinct
<1>3. \A w : Among(Limited(b), w) => Among(Windows[b], w)
  BY LimitedFacts DEF Among
<1> QED BY <1>1, <1>2, <1>3

\* A request's step touches no other request's reservations.
LEMMA BudgetOwn ==
    ASSUME GatewayInv, NEW b \in Buys, BudgetStep(b), NEW c \in Buys, c # b
    PROVE  hold'[c] = hold[c] /\ todo'[c] = todo[c] /\ at'[c] = at[c]
<1>t. /\ hold \in [Buys -> Seq(Counters \X Epochs)] /\ todo \in [Buys -> Seq(Counters)]
      /\ at \in [Buys -> [Counters -> Epochs]]
  BY DEF GatewayInv, ReqTypes, BudgetTypes
<1> QED BY <1>t DEF BudgetStep, StartBudget, Reserve, Deny, DenyOnError, GiveBack, GiveBackLost,
     Book, Log, LogLost, CheckBudget, Commit, CommitUnchecked, Exceeded, Rejected, CommitFails,
     Return, ReturnLost, LogSpend, LogWindow, LogWindowLost, NextWindow, budgetVars

\* A step counts as a fault or it does not.
LEMMA FaultCount ==
    ASSUME GatewayInv, [GatewayNext]_gatewayVars
    PROVE  /\ faults \in Nat /\ faults' \in Nat /\ faults <= faults'
           /\ Fault => faults' # 0
<1>1. faults \in Nat
  BY OpenConstants DEF GatewayInv, OpenInv, TypeOK
<1>2. UNCHANGED faults \/ Fault
  <2>1. CASE Outside
    BY <2>1 DEF Outside
  <2>2. CASE [Next]_vars
    BY <2>2 DEF Next, OpenStep, Verify, SettleSend, ConfirmLanded, ConfirmFails, Create, Abandon,
       SendAnswerLost, Execute, Expire, vars
  <2> QED BY <2>1, <2>2, ClusterMoves
<1> QED BY <1>1, <1>2 DEF Fault

\* A chat request that ends, not paid for and hit by no fault, holds nothing.
LEMMA DoneClean ==
    ASSUME GatewayInv, [GatewayNext]_gatewayVars, NEW c \in Buys, Path[c] = "chat", PaidInv(c),
           stage[c] # "done", stage'[c] = "done", faults' = 0, c \notin paid
    PROVE  hold'[c] = <<>>
<1>t. /\ stage \in [Buys -> AllStages] /\ ReqTypes /\ SeenTypes /\ stage[c] \in StagesOf("chat")
      /\ hold \in [Buys -> Seq(Counters \X Epochs)] /\ BudgetStage
  BY DEF GatewayInv, ReqTypes, StageInv, BudgetTypes
<1>0. ~Fault
  BY FaultCount
<1>1. ~(\E i : Restart(i)) /\ ~Tick /\ ~Elsewhere
  BY <1>0, ElsewhereFrame DEF Restart, Tick
<1>2. PICK b \in Buys : BuyStep(b) \/ (b \in TaskRequests /\ TaskStep(b))
  BY <1>1, GatewayCases DEF TaskRequests
<1>3. b = c /\ c \notin TaskRequests
  BY <1>t, <1>2, OwnStage DEF TaskRequests, TaskPaths
<1>4. BuyStep(c)
  BY <1>2, <1>3
<1>5. Refuse(c) => hold[c] = <<>>
  BY <1>t DEF Refuse, Step, TaskPaths
<1>6. CASE GiveBack(c)
  <2>1. hold'[c] = Tail(hold[c]) /\ Len(hold[c]) = 1 /\ hold[c] # <<>>
    BY <1>t, <1>6 DEF GiveBack, Return, BudgetStage
  <2>2. hold[c] \in Seq(Counters \X Epochs)
    BY <1>t
  <2>3. Tail(hold[c]) = <<>>
    BY <2>1, <2>2, TailOfOne
  <2> QED BY <2>1, <2>3
<1>7. CASE Refuse(c) /\ UNCHANGED hold
  BY <1>5, <1>7
<1>8. ASSUME Proceed(c), stage[c] \in {"guard", "reserve", "verify", "send", "confirm", "serve"}
      PROVE  FALSE
  <2>1. stage'[c] = After("chat", stage[c])
    BY <1>t, <1>8, ProceedGoes DEF ReqTypes
  <2> QED BY <1>8, <2>1 DEF After
<1>9. CASE Guard(c) \/ GuardWithoutRedis(c) \/ GuardAnswerLost(c)
  <2>1. (Refuse(c) \/ Proceed(c)) /\ UNCHANGED hold /\ stage[c] = "guard"
    BY <1>9 DEF Guard, GuardWithoutRedis, GuardAnswerLost, CheckAndRecord, budgetVars
  <2> QED BY <1>7, <1>8, <2>1
<1>10. CASE VerifyPayment(c) \/ SendPayment(c) \/ PaymentConfirmed(c) \/ PaymentUnconfirmed(c)
            \/ Serve(c) \/ ServeFails(c)
  <2>1. (Refuse(c) \/ Proceed(c)) /\ UNCHANGED hold
        /\ stage[c] \in {"verify", "send", "confirm", "serve"}
    BY <1>10 DEF VerifyPayment, SendPayment, PaymentConfirmed, PaymentUnconfirmed, Serve, ServeFails,
       SettleFailed, budgetVars
  <2> QED BY <1>7, <1>8, <2>1
<1>11. CASE StartBudget(c)
  <2>1. UNCHANGED hold /\ (Refuse(c) \/ Step(c, IF Limited(c) = <<>> THEN "verify" ELSE "reserve"))
    BY <1>11 DEF StartBudget, CheckBudget, budgetVars
  <2>2. ~Step(c, IF Limited(c) = <<>> THEN "verify" ELSE "reserve")
    BY <1>t DEF Step
  <2> QED BY <1>7, <2>1, <2>2
<1>12. CASE Deny(c)
  BY <1>7, <1>12 DEF Deny, Exceeded, Rejected
<1>13. CASE Reserve(c)
  BY <1>8, <1>13 DEF Reserve
<1>14. ~Book(c) /\ ~BookSkipped(c)
  BY DEF Book, BookSkipped, PaidInv
<1>15. ~SendPaymentLost(c) /\ ~Disconnect(c) /\ ~DenyOnError(c) /\ ~GiveBackLost(c)
       /\ ~LogLost(c) /\ ~Log(c)
  BY <1>0 DEF SendPaymentLost, Disconnect, DenyOnError, GiveBackLost, LogLost, Log
<1> QED BY <1>4, <1>6, <1>9, <1>10, <1>11, <1>12, <1>13, <1>14, <1>15 DEF BuyStep

\* At the start nothing is held and nothing is to be done.
LEMMA HoldStart == GatewayInit => HoldInv
<1> SUFFICES ASSUME GatewayInit PROVE HoldInv
  OBVIOUS
<1>1. GatewayInv
  BY GatewayStart
<1>2. \A b \in Buys : todo[b] = <<>> /\ hold[b] = <<>>
  BY DEF GatewayInit, TaskInit, PayInit, BudgetInit
<1> QED BY <1>1, <1>2, EmptyFacts DEF HoldInv, HoldOf

\* Every step keeps what is known of the reservations: one case per step that
\* touches them, and the rest, which only moves the request on.
LEMMA HoldKeeps == MoneyInv /\ HoldInv /\ [GatewayNext]_gatewayVars => HoldInv'
<1> SUFFICES ASSUME MoneyInv, HoldInv, [GatewayNext]_gatewayVars PROVE HoldInv'
  OBVIOUS
<1>0. /\ GatewayInv /\ GatewayInv' /\ ReqTypes /\ SeenTypes /\ BudgetStage /\ BookedStage
      /\ stage \in [Buys -> AllStages] /\ posted' = posted
      /\ hold \in [Buys -> Seq(Counters \X Epochs)] /\ todo \in [Buys -> Seq(Counters)]
      /\ at \in [Buys -> [Counters -> Epochs]]
  BY GatewayStep, SamePosted DEF HoldInv, GatewayInv, ReqTypes, StageInv, BudgetTypes
<1> SUFFICES ASSUME NEW c \in Buys PROVE HoldOf(c)'
  BY <1>0 DEF HoldInv
<1>h. HoldOf(c)
  BY DEF HoldInv
<1>m. RequestMoves(c)
  BY <1>0, EveryMove
<1>d. faults' = 0 => faults = 0
  BY <1>0, FaultCount
<1>1. ASSUME hold'[c] = hold[c], todo'[c] = todo[c] PROVE HoldOf(c)'
  <2>1. hold[c] # <<>> => stage'[c] \notin {"guard", "budget"}
    <3> SUFFICES ASSUME hold[c] # <<>> PROVE stage'[c] \notin {"guard", "budget"}
      OBVIOUS
    <3>1. Path[c] = "chat" /\ stage[c] \notin {"guard", "budget"}
      BY <1>h DEF HoldOf
    <3>2. ~Quiet("chat", stage[c], "guard") /\ ~Quiet("chat", stage[c], "budget")
      BY <3>1 DEF Quiet, After, TaskPaths
    <3>3. stage[c] # "guard" => After("chat", stage[c]) \notin {"guard", "budget"}
      BY DEF After
    <3> QED BY <1>m, <3>1, <3>2, <3>3 DEF RequestMoves
  <2>2. stage'[c] = "reserve" => stage[c] = "reserve" \/ hold[c] = <<>>
    <3> SUFFICES ASSUME stage'[c] = "reserve", stage[c] # "reserve" PROVE hold[c] = <<>>
      OBVIOUS
    <3>1. After(Path[c], stage[c]) # "reserve"
      BY DEF After
    <3>2. Quiet(Path[c], stage[c], "reserve") => stage[c] = "budget"
      BY DEF Quiet, After
    <3>3. stage[c] = "budget"
      BY <1>m, <3>1, <3>2 DEF RequestMoves
    <3> QED BY <1>h, <3>3 DEF HoldOf
  <2>3. faults' = 0 /\ stage'[c] = "done" /\ c \notin paid' => hold[c] = <<>>
    <3> SUFFICES ASSUME faults' = 0, stage'[c] = "done", c \notin paid', hold[c] # <<>> PROVE FALSE
      OBVIOUS
    <3>1. Path[c] = "chat"
      BY <1>h DEF HoldOf
    <3>2. c \notin paid /\ PaidInv(c)
      <4>1. c \notin paid
        BY <1>m DEF RequestMoves, SameFlags, Admits, Sends, Settles, Persists, Serves, Books
      <4> QED BY <3>1, <4>1 DEF MoneyInv
    <3>3. CASE stage[c] = "done"
      BY <1>d, <1>h, <3>2, <3>3 DEF HoldOf
    <3>4. CASE stage[c] # "done"
      BY <1>0, <1>1, <3>1, <3>2, <3>4, DoneClean
    <3> QED BY <3>3, <3>4
  <2>4. OnePerWindow(hold'[c]) /\ Distinct(todo'[c])
        /\ \A w : Among(todo'[c], w) => Among(Windows[c], w)
    BY <1>h, <1>1 DEF HoldOf
  <2>5. hold'[c] # <<>> => Path[c] = "chat" /\ stage'[c] \notin {"guard", "budget"} /\ c \in posted'
    BY <1>0, <1>h, <1>1, <2>1 DEF HoldOf
  <2>6. stage'[c] = "reserve" => \A w : Among(todo'[c], w) => ~WindowIn(hold'[c], w)
    <3>1. hold[c] = <<>> => \A w : ~WindowIn(hold[c], w)
      BY EmptyFacts
    <3> QED BY <1>h, <1>1, <2>2, <3>1 DEF HoldOf
  <2> QED BY <1>1, <2>3, <2>4, <2>5, <2>6 DEF HoldOf
<1>e. ASSUME hold'[c] = <<>>, Distinct(todo'[c]), \A w : Among(todo'[c], w) => Among(Windows[c], w)
      PROVE  HoldOf(c)'
  BY <1>e, EmptyFacts DEF HoldOf
<1>2. CASE StartBudget(c)
  <2>1. hold[c] = <<>> /\ UNCHANGED hold
    BY <1>h, <1>2 DEF HoldOf, StartBudget, CheckBudget, budgetVars
  <2>2. todo'[c] = Limited(c) \/ todo'[c] = todo[c]
    BY <1>0, <1>2 DEF StartBudget, CheckBudget, budgetVars
  <2>3. Distinct(todo'[c]) /\ \A w : Among(todo'[c], w) => Among(Windows[c], w)
    BY <1>h, <2>2, WindowFacts DEF HoldOf
  <2> QED BY <1>e, <2>1, <2>3
<1>3. CASE Reserve(c) /\ c \in posted
  <2>1. stage[c] = "reserve" /\ todo[c] # <<>> /\ Path[c] = "chat"
    <3>1. stage[c] \in StagesOf(Path[c]) /\ stage[c] = "reserve" /\ Path[c] \in Paths
      BY <1>0, <1>3, PaymentConstants DEF Reserve, ReqTypes, StageInv
    <3> QED BY <1>0, <3>1 DEF BudgetStage, StagesOf, SettleFirst, TaskStages, Paths
  <2>2. PICK w \in Counters, e \in Epochs : w = Head(todo[c]) /\ e = at[c][w]
    BY <1>0, <2>1
  <2>3. hold'[c] = Append(hold[c], <<w, e>>) /\ todo'[c] = Tail(todo[c])
    BY <1>0, <1>3, <2>2 DEF Reserve, Commit, CommitUnchecked, NextWindow
  <2>4. /\ Distinct(Tail(todo[c])) /\ ~Among(Tail(todo[c]), w) /\ Among(todo[c], w)
        /\ \A x : Among(Tail(todo[c]), x) => Among(todo[c], x)
    BY <1>0, <1>h, <2>1, <2>2, TailFacts DEF HoldOf
  <2>5. PICK k \in Counters \X Epochs : k = <<w, e>> /\ k[1] = w
    <3>1. <<w, e>> \in Counters \X Epochs /\ <<w, e>>[1] = w
      OBVIOUS
    <3> QED BY <3>1
  <2>6. OnePerWindow(hold[c]) /\ \A x : Among(todo[c], x) => ~WindowIn(hold[c], x)
    BY <1>h, <2>1 DEF HoldOf
  <2>7. OnePerWindow(hold'[c]) /\ \A x : WindowIn(hold'[c], x) <=> x = w \/ WindowIn(hold[c], x)
    <3>1. hold[c] \in Seq(Counters \X Epochs) /\ ~WindowIn(hold[c], k[1])
      BY <1>0, <2>4, <2>5, <2>6
    <3>2. PICK q \in Seq(Counters \X Epochs) : q = hold[c]
      BY <3>1
    <3>3. OnePerWindow(q) /\ ~WindowIn(q, k[1])
      BY <2>6, <3>1, <3>2
    <3>4. OnePerWindow(Append(q, k)) /\ \A x : WindowIn(Append(q, k), x) <=> x = k[1] \/ WindowIn(q, x)
      BY <3>3, WindowAppend
    <3>5. hold'[c] = Append(q, k) /\ k[1] = w
      BY <2>3, <2>5, <3>2
    <3> QED BY <3>2, <3>4, <3>5
  <2>8. stage'[c] \in {"reserve", "verify"}
    <3>1. Proceed(c) => stage'[c] = "verify"
      BY <1>0, <2>1, ProceedGoes DEF ReqTypes, After
    <3> QED BY <1>3, <2>1, <3>1 DEF Reserve
  <2> QED BY <1>0, <1>h, <1>3, <2>1, <2>3, <2>4, <2>6, <2>7, <2>8 DEF HoldOf
<1>4. CASE Deny(c) \/ DenyOnError(c)
  <2>1. todo'[c] = <<>> /\ hold'[c] = hold[c] /\ Refuse(c) /\ stage[c] = "reserve"
    BY <1>0, <1>4 DEF Deny, DenyOnError, Exceeded, Rejected, CommitFails
  <2>2. stage'[c] \in {"revert", "return", "done"} /\ (stage'[c] = "done" => hold[c] = <<>>)
    BY <1>0, <2>1 DEF Refuse, Step
  <2> QED BY <1>0, <1>h, <2>1, <2>2, EmptyFacts DEF HoldOf
<1>5. CASE GiveBack(c) \/ GiveBackLost(c)
  <2>1. /\ stage[c] = "return" /\ hold'[c] = Tail(hold[c]) /\ hold[c] # <<>> /\ todo'[c] = todo[c]
        /\ IF Len(hold[c]) = 1 THEN stage'[c] = "done" ELSE stage'[c] = "return"
    BY <1>0, <1>5 DEF GiveBack, GiveBackLost, Return, ReturnLost, BudgetStage, Step
  <2>2. OnePerWindow(hold'[c]) /\ (Len(hold[c]) = 1 => hold'[c] = <<>>)
    BY <1>0, <1>h, <2>1, WindowTail, TailOfOne DEF HoldOf
  <2> QED BY <1>0, <1>h, <2>1, <2>2 DEF HoldOf
<1>6. CASE Book(c)
  <2>1. /\ todo'[c] = Windows[c] /\ hold'[c] = hold[c] /\ paid' = paid
    BY <1>0, <1>6 DEF Book, LogSpend
  <2>3. hold[c] # <<>> => c \in paid
    <3>1. hold[c] # <<>> => Path[c] = "chat"
      BY <1>h DEF HoldOf
    <3> QED BY <1>6, <3>1 DEF MoneyInv, PaidInv, Book
  <2>2. stage'[c] \in {"done", "serve", "finish"}
    <3>1. stage'[c] = After(Path[c], "book")
      BY <1>0, <1>6, ProceedGoes DEF Book, ReqTypes
    <3> QED BY <3>1 DEF After
  <2> QED BY <1>0, <1>h, <2>1, <2>2, <2>3, WindowFacts DEF HoldOf
<1>7. CASE Log(c) \/ LogLost(c)
  <2>1. /\ todo'[c] = Tail(todo[c]) /\ todo[c] # <<>> /\ hold'[c] = hold[c] /\ stage'[c] = stage[c]
        /\ c \in booked /\ paid' = paid
    BY <1>0, <1>7 DEF Log, LogLost, LogWindow, LogWindowLost, NextWindow, payOnly, payFaulty
  <2>2. Distinct(todo'[c]) /\ \A w : Among(todo'[c], w) => Among(Windows[c], w)
    BY <1>0, <1>h, <2>1, TailFacts DEF HoldOf
  <2>3. stage[c] # "reserve"
    BY <1>0, <2>1 DEF BookedStage
  <2> QED BY <1>0, <1>d, <1>h, <2>1, <2>2, <2>3 DEF HoldOf
<1>8. ASSUME NEW j, Restart(j) PROVE HoldOf(c)'
  <2>1. CASE Host[c] = j
    <3>1. /\ stage'[c] = "done" \/ (stage'[c] = stage[c] /\ stage[c] \in {"intake", "guard"})
          /\ todo'[c] = <<>> /\ hold'[c] = hold[c] /\ faults' # 0
      BY <1>0, <1>8, <2>1, FaultCount DEF Restart, First
    <3> QED BY <1>0, <1>h, <3>1, EmptyFacts DEF HoldOf
  <2>2. CASE Host[c] # j
    BY <1>1, <1>8, <2>2 DEF Restart
  <2> QED BY <2>1, <2>2
<1>9. ASSUME NEW b \in posted \cap Buys, BudgetStep(b) PROVE HoldOf(c)'
  <2>1. CASE b = c
    BY <1>2, <1>3, <1>4, <1>5, <1>6, <1>7, <1>9, <2>1 DEF BudgetStep
  <2>2. CASE b # c
    BY <1>0, <1>1, <1>9, <2>2, BudgetOwn
  <2> QED BY <2>1, <2>2
<1>10. ASSUME NEW w, Rollover(w) PROVE HoldOf(c)'
  BY <1>1, <1>10 DEF Rollover
<1>11. CASE UNCHANGED budgetVars
  BY <1>1, <1>11 DEF budgetVars
<1> QED BY <1>8, <1>9, <1>10, <1>11, BudgetCases
-----------------------------------------------------------------------------
(* What a request accounts for in a counter                                 *)

\* The spawned log has passed window w, in its period e (or a restart ended it).
LoggedAt(b, w, e) ==
    b \in booked /\ Among(Windows[b], w) /\ ~Among(todo[b], w) /\ at[b][w] = e

Held(b, w, e) == IF Among(hold[b], <<w, e>>) THEN Estimate[b] ELSE 0

\* What a log takes off the share: nothing when the bill exceeds the estimate.
Correction(b) == IF Cost[b] < Estimate[b] THEN Cost[b] - Estimate[b] ELSE 0

\* Its part of what the limit allows: the estimate it holds, less what the log gave
\* back.
Share(b, w, e) ==
    Held(b, w, e) + (IF LoggedAt(b, w, e) /\ WindowIn(hold[b], w) THEN Correction(b) ELSE 0)

\* Its part of the counter when nothing fails.
Owed(b, w, e) == Held(b, w, e) + (IF LoggedAt(b, w, e) THEN WindowAmount(b, w) ELSE 0)

Shares(w, e) == [b \in Buys |-> Share(b, w, e)]
Debts(w, e) == [b \in Buys |-> Owed(b, w, e)]

\* A counter never shows less than the shares, and without faults exactly the
\* debts; the shares of a limited one are within the limit.
CounterInv(w, e) ==
    /\ Total(Shares(w, e), Buys) <= counter[w][e]
    /\ faults = 0 => counter[w][e] = Total(Debts(w, e), Buys)
    /\ Limit[w] # NoLimit => Total(Shares(w, e), Buys) <= Limit[w]

BudgetInv == MoneyInv /\ HoldInv /\ \A w \in Counters, e \in Epochs : CounterInv(w, e)

\* The parts are integers.
LEMMA PartTypes ==
    ASSUME NEW b \in Buys, NEW w, NEW e
    PROVE  /\ Share(b, w, e) \in Int /\ Owed(b, w, e) \in Int
           /\ Estimate[b] \in Nat /\ Cost[b] \in Nat
           /\ Correction(b) \in Int /\ Correction(b) <= 0 /\ Correction(b) <= Cost[b] - Estimate[b]
<1>1. Estimate[b] \in Nat /\ Cost[b] \in Nat
  BY BudgetConstants
<1>2. /\ Held(b, w, e) \in Int /\ WindowAmount(b, w) \in Int
      /\ Correction(b) \in Int /\ Correction(b) <= 0 /\ Correction(b) <= Cost[b] - Estimate[b]
  BY <1>1 DEF Held, WindowAmount, Correction
<1> QED BY <1>1, <1>2 DEF Share, Owed

\* The same for all requests at once.
LEMMA AllPartTypes == \A c \in Buys : \A x, y : Share(c, x, y) \in Int /\ Owed(c, x, y) \in Int
  BY PartTypes

\* What a request's part depends on.
SamePart(c) ==
    /\ hold'[c] = hold[c] /\ todo'[c] = todo[c] /\ at'[c] = at[c]
    /\ c \in booked' <=> c \in booked

\* A request that is not touched keeps its parts.
LEMMA SameParts ==
    ASSUME NEW c \in Buys, SamePart(c), NEW w, NEW e
    PROVE  Share(c, w, e)' = Share(c, w, e) /\ Owed(c, w, e)' = Owed(c, w, e)
<1>1. (LoggedAt(c, w, e))' <=> LoggedAt(c, w, e)
  BY DEF SamePart, LoggedAt
<1>2. Held(c, w, e)' = Held(c, w, e) /\ WindowAmount(c, w)' = WindowAmount(c, w)
  BY DEF SamePart, Held, WindowAmount, Reserved
<1>3. (WindowIn(hold[c], w))' <=> WindowIn(hold[c], w)
  BY DEF SamePart
<1> QED BY <1>1, <1>2, <1>3 DEF Share, Owed

\* The step of one request and of its counters, in its parts.
PartMoves(b, w, e) ==
    /\ Share(b, w, e)' - Share(b, w, e) <= counter'[w][e] - counter[w][e]
    /\ faults' = 0 => counter'[w][e] - counter[w][e] = Owed(b, w, e)' - Owed(b, w, e)
    /\ \/ Share(b, w, e)' <= Share(b, w, e)
       \/ Limit[w] # NoLimit => counter[w][e] + Share(b, w, e)' - Share(b, w, e) <= Limit[w]

\* Only one request's part changes: the sums change by as much.
LEMMA SumsMove ==
    ASSUME NEW b \in Buys, \A c \in Buys \ {b} : SamePart(c), NEW w, NEW e
    PROVE  /\ Total(Shares(w, e)', Buys) = Total(Shares(w, e), Buys) + Share(b, w, e)' - Share(b, w, e)
           /\ Total(Debts(w, e)', Buys) = Total(Debts(w, e), Buys) + Owed(b, w, e)' - Owed(b, w, e)
<1>1. /\ \A c \in Buys : Share(c, w, e) \in Int /\ Owed(c, w, e) \in Int
      /\ \A c \in Buys : Share(c, w, e)' \in Int /\ Owed(c, w, e)' \in Int
  <2>1. ASSUME NEW c \in Buys PROVE Share(c, w, e) \in Int /\ Owed(c, w, e) \in Int
    BY PartTypes
  <2>2. (\A c \in Buys : \A x, y : Share(c, x, y) \in Int /\ Owed(c, x, y) \in Int)'
    BY AllPartTypes, PTL
  <2> QED BY <2>1, <2>2
<1>2. \A c \in Buys \ {b} : Share(c, w, e)' = Share(c, w, e) /\ Owed(c, w, e)' = Owed(c, w, e)
  BY SameParts
<1>3. PICK f, g, h, k : /\ f = Shares(w, e) /\ g = Shares(w, e)'
                        /\ h = Debts(w, e) /\ k = Debts(w, e)'
  OBVIOUS
<1>4. \A c \in Buys : /\ f[c] = Share(c, w, e) /\ g[c] = Share(c, w, e)'
                      /\ h[c] = Owed(c, w, e) /\ k[c] = Owed(c, w, e)'
  BY <1>3 DEF Shares, Debts
<1>5. /\ \A c \in Buys : f[c] \in Int /\ g[c] \in Int
      /\ \A c \in Buys \ {b} : g[c] = f[c]
      /\ \A c \in Buys : h[c] \in Int /\ k[c] \in Int
      /\ \A c \in Buys \ {b} : k[c] = h[c]
  BY <1>1, <1>2, <1>4
<1>6. IsFiniteSet(Buys)
  BY BudgetConstants
<1>7. Total(g, Buys) = Total(f, Buys) + g[b] - f[b]
  BY <1>5, <1>6, TotalUpdate
<1>8. Total(k, Buys) = Total(h, Buys) + k[b] - h[b]
  BY <1>5, <1>6, TotalUpdate
<1> QED BY <1>3, <1>4, <1>7, <1>8

\* The sums are integers.
LEMMA SumTypes ==
    ASSUME NEW w, NEW e
    PROVE  Total(Shares(w, e), Buys) \in Int /\ Total(Debts(w, e), Buys) \in Int
<1>1. /\ \A c \in Buys : Shares(w, e)[c] \in Int
      /\ \A c \in Buys : Debts(w, e)[c] \in Int
  BY PartTypes DEF Shares, Debts
<1> QED BY <1>1, TotalType, BudgetConstants

\* A request's step keeps the counters' invariant.
LEMMA MoveKeeps ==
    ASSUME NEW b \in Buys, \A c \in Buys \ {b} : SamePart(c), NEW w \in Counters, NEW e \in Epochs,
           PartMoves(b, w, e), CounterInv(w, e), faults' = 0 => faults = 0,
           counter[w][e] \in Int, counter'[w][e] \in Int
    PROVE  CounterInv(w, e)'
<1>1. PICK x, y, s, t, m, n : /\ x = Total(Shares(w, e), Buys) /\ y = Total(Debts(w, e), Buys)
                              /\ s = Share(b, w, e) /\ t = Share(b, w, e)'
                              /\ m = Owed(b, w, e) /\ n = Owed(b, w, e)'
  OBVIOUS
<1>2. x \in Int /\ y \in Int
  BY <1>1, SumTypes
<1>a. Share(b, w, e) \in Int /\ Owed(b, w, e) \in Int
  BY PartTypes
<1>b. (Share(b, w, e) \in Int /\ Owed(b, w, e) \in Int)'
  BY PartTypes, PTL
<1>3. s \in Int /\ t \in Int /\ m \in Int /\ n \in Int
  BY <1>1, <1>a, <1>b
<1>4. Total(Shares(w, e)', Buys) = x + t - s /\ Total(Debts(w, e)', Buys) = y + n - m
  BY <1>1, SumsMove
<1>5. /\ t - s <= counter'[w][e] - counter[w][e]
      /\ faults' = 0 => counter'[w][e] - counter[w][e] = n - m
      /\ t <= s \/ (Limit[w] # NoLimit => counter[w][e] + t - s <= Limit[w])
  BY <1>1 DEF PartMoves
<1>6. /\ x <= counter[w][e] /\ (faults = 0 => counter[w][e] = y)
      /\ Limit[w] # NoLimit => x <= Limit[w]
  BY <1>1 DEF CounterInv
<1>7. Limit[w] # NoLimit => Limit[w] \in Nat
  BY BudgetConstants
<1>8. /\ x + t - s <= counter'[w][e] /\ (faults' = 0 => counter'[w][e] = y + n - m)
      /\ Limit[w] # NoLimit => x + t - s <= Limit[w]
  BY <1>2, <1>3, <1>5, <1>6, <1>7
<1> QED BY <1>4, <1>8 DEF CounterInv
\* A request that is not booked accounts for what it holds.
LEMMA Unbooked ==
    ASSUME NEW b \in Buys, NEW w, NEW e, ~LoggedAt(b, w, e)
    PROVE  Share(b, w, e) = Held(b, w, e) /\ Owed(b, w, e) = Held(b, w, e)
<1>1. Held(b, w, e) \in Int
  BY PartTypes DEF Held
<1> QED BY <1>1 DEF Share, Owed

\* The same after the step.
LEMMA UnbookedNext ==
    ASSUME NEW b \in Buys, NEW w, NEW e, ~LoggedAt(b, w, e)'
    PROVE  Share(b, w, e)' = Held(b, w, e)' /\ Owed(b, w, e)' = Held(b, w, e)'
<1>1. Held(b, w, e)' \in Int
  BY PartTypes DEF Held
<1> QED BY <1>1 DEF Share, Owed

\* Reserving a window: the estimate is added to the counter and to the share, and
\* the limit was checked.
LEMMA ReserveMoves ==
    ASSUME HoldInv, HoldInv', NEW b \in Buys, Reserve(b), NEW w \in Counters, NEW e \in Epochs
    PROVE  PartMoves(b, w, e)
<1>0. /\ hold \in [Buys -> Seq(Counters \X Epochs)] /\ todo \in [Buys -> Seq(Counters)]
      /\ at \in [Buys -> [Counters -> Epochs]] /\ counter \in [Counters -> [Epochs -> Int]]
      /\ stage[b] = "reserve" /\ todo[b] # <<>> /\ b \notin booked /\ b \notin booked'
  BY DEF Reserve, HoldInv, GatewayInv, ReqTypes, BudgetTypes, BudgetStage, BookedStage, payOnly
<1>1. PICK x \in Counters, y \in Epochs : x = Head(todo[b]) /\ y = at[b][x]
  BY <1>0
<1>2. /\ hold'[b] = Append(hold[b], <<x, y>>) /\ Incr(x, y, Estimate[b])
      /\ counter[x][y] + Estimate[b] <= Limit[x]
  BY <1>0, <1>1 DEF Reserve, Commit, CommitUnchecked, Fits
<1>3. OnePerWindow(hold[b]) /\ ~WindowIn(hold[b], x)
  <2>1. Among(todo[b], x)
    BY <1>0, <1>1, TailFacts DEF HoldInv, HoldOf
  <2> QED BY <1>0, <2>1 DEF HoldInv, HoldOf
<1>4. PICK k \in Counters \X Epochs : k = <<x, y>> /\ k[1] = x
  <2>1. <<x, y>> \in Counters \X Epochs /\ <<x, y>>[1] = x
    OBVIOUS
  <2> QED BY <2>1
<1>5. \A m : Among(hold'[b], m) <=> m = k \/ Among(hold[b], m)
  <2>1. hold[b] \in Seq(Counters \X Epochs) /\ ~WindowIn(hold[b], k[1])
    BY <1>0, <1>3, <1>4
  <2>2. PICK q \in Seq(Counters \X Epochs) : q = hold[b]
    BY <2>1
  <2>3. OnePerWindow(q) /\ ~WindowIn(q, k[1])
    BY <1>3, <2>1, <2>2
  <2>4. \A m : Among(Append(q, k), m) <=> m = k \/ Among(q, m)
    BY <2>3, WindowAppend
  <2>5. hold'[b] = Append(q, k)
    BY <1>2, <1>4, <2>2
  <2> QED BY <2>2, <2>4, <2>5
<1>6. ~Among(hold[b], k)
  BY <1>3, <1>4 DEF Among, WindowIn
<1>7. <<w, e>> = k <=> w = x /\ e = y
  BY <1>4
<1>8. Estimate[b] \in Nat /\ counter[w][e] \in Int
  BY <1>0, PartTypes
<1>9. Held(b, w, e)' = Held(b, w, e) + (IF w = x /\ e = y THEN Estimate[b] ELSE 0)
      /\ Held(b, w, e) \in Int
  BY <1>5, <1>6, <1>7, <1>8 DEF Held
<1>10. /\ Share(b, w, e) = Held(b, w, e) /\ Owed(b, w, e) = Held(b, w, e)
       /\ Share(b, w, e)' = Held(b, w, e)' /\ Owed(b, w, e)' = Held(b, w, e)'
  BY <1>0, Unbooked, UnbookedNext DEF LoggedAt
<1>11. counter'[w][e] = IF w = x /\ e = y THEN counter[w][e] + Estimate[b] ELSE counter[w][e]
  <2>1. counter \in [Counters -> [Epochs -> Int]]
    BY <1>0
  <2>2. counter' = [counter EXCEPT ![x][y] = @ + Estimate[b]]
    BY <1>2 DEF Incr
  <2> QED BY <2>1, <2>2
<1> QED BY <1>2, <1>8, <1>9, <1>10, <1>11 DEF PartMoves

\* Giving a reservation back: the estimate leaves the share, and the counter when
\* nothing fails.
LEMMA ReturnMoves ==
    ASSUME HoldInv, HoldInv', NEW b \in Buys, GiveBack(b) \/ (GiveBackLost(b) /\ faults' # 0),
           NEW w \in Counters, NEW e \in Epochs
    PROVE  PartMoves(b, w, e)
<1>0. /\ hold \in [Buys -> Seq(Counters \X Epochs)] /\ counter \in [Counters -> [Epochs -> Int]]
      /\ stage[b] = "return" /\ hold[b] # <<>> /\ OnePerWindow(hold[b]) /\ booked' = booked
      /\ hold'[b] = Tail(hold[b])
  BY DEF GiveBack, GiveBackLost, Return, ReturnLost, HoldInv, HoldOf, GatewayInv, ReqTypes,
     BudgetTypes, BudgetStage, payOnly, payFaulty
<1>1. b \notin booked
  BY <1>0 DEF HoldInv, HoldOf, GatewayInv, BookedStage
<1>2. PICK k \in Counters \X Epochs : k = Head(hold[b])
  BY <1>0
<1>3. PICK x \in Counters, y \in Epochs : k = <<x, y>> /\ k[1] = x /\ k[2] = y
  <2>1. PICK x \in Counters, y \in Epochs : k = <<x, y>>
    BY <1>2
  <2> QED BY <2>1
<1>4. /\ \A m : Among(hold[b], m) <=> m = k \/ Among(hold'[b], m)
      /\ ~Among(hold'[b], k)
  BY <1>0, <1>2, WindowTail
<1>5. <<w, e>> = k <=> w = x /\ e = y
  BY <1>3
<1>6. Estimate[b] \in Nat /\ counter[w][e] \in Int
  BY <1>0, PartTypes
<1>7. Held(b, w, e)' = Held(b, w, e) - (IF w = x /\ e = y THEN Estimate[b] ELSE 0)
      /\ Held(b, w, e) \in Int
  BY <1>4, <1>5, <1>6 DEF Held
<1>8. /\ Share(b, w, e) = Held(b, w, e) /\ Owed(b, w, e) = Held(b, w, e)
      /\ Share(b, w, e)' = Held(b, w, e)' /\ Owed(b, w, e)' = Held(b, w, e)'
  BY <1>0, <1>1, Unbooked, UnbookedNext DEF LoggedAt
<1>9. CASE GiveBack(b)
  <2>1. Incr(x, y, -Estimate[b]) /\ -Estimate[b] \in Int
    BY <1>2, <1>3, <1>6, <1>9 DEF GiveBack, Return
  <2>2. counter'[w][e] = IF w = x /\ e = y THEN counter[w][e] + (-Estimate[b]) ELSE counter[w][e]
    <3>1. counter \in [Counters -> [Epochs -> Int]]
      BY <1>0
    <3>2. counter' = [counter EXCEPT ![x][y] = @ + (-Estimate[b])]
      BY <2>1 DEF Incr
    <3> QED BY <3>1, <3>2
  <2> QED BY <1>6, <1>7, <1>8, <2>2 DEF PartMoves
<1>10. CASE GiveBackLost(b) /\ faults' # 0
  <2>1. counter' = counter
    BY <1>10 DEF GiveBackLost, ReturnLost
  <2> QED BY <1>6, <1>7, <1>8, <1>10, <2>1 DEF PartMoves
<1> QED BY <1>9, <1>10

\* Logging a window: the counter is settled, by the difference where the estimate
\* was reserved.
LEMMA LogMoves ==
    ASSUME HoldInv, HoldInv', NEW b \in Buys, Log(b) \/ (LogLost(b) /\ faults' # 0),
           NEW w \in Counters, NEW e \in Epochs
    PROVE  PartMoves(b, w, e)
<1>0. /\ todo \in [Buys -> Seq(Counters)] /\ counter \in [Counters -> [Epochs -> Int]]
      /\ at \in [Buys -> [Counters -> Epochs]] /\ b \in booked /\ booked' = booked
      /\ todo[b] # <<>> /\ todo'[b] = Tail(todo[b]) /\ hold'[b] = hold[b] /\ at'[b] = at[b]
      /\ Distinct(todo[b]) /\ \A m : Among(todo[b], m) => Among(Windows[b], m)
  BY DEF Log, LogLost, LogWindow, LogWindowLost, NextWindow, HoldInv, HoldOf, GatewayInv, ReqTypes,
     BudgetTypes, payOnly, payFaulty
<1>1. PICK x \in Counters, y \in Epochs : x = Head(todo[b]) /\ y = at[b][x]
  BY <1>0
<1>2. /\ \A m : Among(todo[b], m) <=> m = x \/ Among(todo'[b], m)
      /\ ~Among(todo'[b], x) /\ Among(todo[b], x)
  BY <1>0, <1>1, TailFacts
<1>3. LoggedAt(b, w, e)' <=> LoggedAt(b, w, e) \/ (w = x /\ e = y)
  BY <1>0, <1>1, <1>2 DEF LoggedAt
<1>4. w = x => ~LoggedAt(b, w, e)
  BY <1>2 DEF LoggedAt
<1>5. /\ Estimate[b] \in Nat /\ Cost[b] \in Nat /\ counter[w][e] \in Int /\ Held(b, w, e) \in Int
      /\ Correction(b) \in Int /\ Correction(b) <= 0 /\ Correction(b) <= Cost[b] - Estimate[b]
  <2>1. /\ Estimate[b] \in Nat /\ Cost[b] \in Nat
        /\ Correction(b) \in Int /\ Correction(b) <= 0 /\ Correction(b) <= Cost[b] - Estimate[b]
    BY PartTypes
  <2>2. counter[w][e] \in Int
    BY <1>0
  <2>3. Held(b, w, e) \in Int
    BY <2>1 DEF Held
  <2> QED BY <2>1, <2>2, <2>3
<1>6. PICK i : i = IF WindowIn(hold[b], w) THEN Correction(b) ELSE 0
  OBVIOUS
<1>7. PICK j : j = WindowAmount(b, w)
  OBVIOUS
<1>8. i \in Int /\ j \in Int /\ i <= j /\ i <= 0
  BY <1>5, <1>6, <1>7 DEF WindowAmount, Reserved, WindowIn
<1>9. /\ Held(b, w, e)' = Held(b, w, e) /\ WindowAmount(b, w)' = j
      /\ (WindowIn(hold[b], w))' <=> WindowIn(hold[b], w)
  BY <1>0, <1>7 DEF Held, WindowAmount, Reserved
<1>10. /\ Share(b, w, e) = Held(b, w, e) + (IF LoggedAt(b, w, e) THEN i ELSE 0)
       /\ Owed(b, w, e) = Held(b, w, e) + (IF LoggedAt(b, w, e) THEN j ELSE 0)
  BY <1>6, <1>7 DEF Share, Owed
<1>11. /\ Share(b, w, e)' = Held(b, w, e) + (IF LoggedAt(b, w, e)' THEN i ELSE 0)
       /\ Owed(b, w, e)' = Held(b, w, e) + (IF LoggedAt(b, w, e)' THEN j ELSE 0)
  BY <1>6, <1>9 DEF Share, Owed
<1>12. /\ Share(b, w, e)' = Share(b, w, e) + (IF w = x /\ e = y THEN i ELSE 0)
       /\ Owed(b, w, e)' = Owed(b, w, e) + (IF w = x /\ e = y THEN j ELSE 0)
       /\ Share(b, w, e) \in Int /\ Owed(b, w, e) \in Int
  BY <1>3, <1>4, <1>5, <1>8, <1>10, <1>11
<1>13. CASE Log(b)
  <2>1. Incr(x, y, WindowAmount(b, x))
    BY <1>1, <1>13 DEF Log, LogWindow
  <2>2. WindowAmount(b, x) \in Int
    BY <1>5 DEF WindowAmount
  <2>3. counter'[w][e] = IF w = x /\ e = y THEN counter[w][e] + WindowAmount(b, x) ELSE counter[w][e]
    <3>1. counter \in [Counters -> [Epochs -> Int]]
      BY <1>0
    <3>2. counter' = [counter EXCEPT ![x][y] = @ + WindowAmount(b, x)]
      BY <2>1 DEF Incr
    <3> QED BY <3>1, <3>2
  <2>4. w = x => WindowAmount(b, x) = j
    BY <1>7
  <2> QED BY <1>5, <1>8, <1>12, <2>3, <2>4 DEF PartMoves
<1>14. CASE LogLost(b) /\ faults' # 0
  <2>1. counter' = counter
    BY <1>14 DEF LogLost, LogWindowLost
  <2> QED BY <1>5, <1>8, <1>12, <1>14, <2>1 DEF PartMoves
<1> QED BY <1>13, <1>14

\* Starting, denying and booking leave the parts as they are; a failed script may
\* have counted the estimate.
LEMMA OtherMoves ==
    ASSUME HoldInv, HoldInv', NEW b \in Buys,
           StartBudget(b) \/ Deny(b) \/ Book(b) \/ (DenyOnError(b) /\ faults' # 0),
           NEW w \in Counters, NEW e \in Epochs
    PROVE  PartMoves(b, w, e)
<1>0. /\ counter \in [Counters -> [Epochs -> Int]] /\ todo \in [Buys -> Seq(Counters)]
      /\ at \in [Buys -> [Counters -> Epochs]]
      /\ b \notin booked /\ hold'[b] = hold[b]
  BY DEF StartBudget, Deny, Book, DenyOnError, CheckBudget, Exceeded, Rejected, CommitFails, LogSpend,
     budgetVars, HoldInv, GatewayInv, ReqTypes, BudgetTypes, BookedStage
<1>1. ~LoggedAt(b, w, e)'
  <2>1. CASE Book(b)
    BY <1>0, <2>1 DEF Book, LogSpend, LoggedAt
  <2>2. CASE ~Book(b)
    <3>1. booked' = booked
      BY <2>2 DEF StartBudget, Deny, DenyOnError, payOnly, payFaulty
    <3> QED BY <1>0, <3>1 DEF LoggedAt
  <2> QED BY <2>1, <2>2
<1>2. Held(b, w, e)' = Held(b, w, e) /\ Held(b, w, e) \in Int /\ counter[w][e] \in Int
  <2>1. Estimate[b] \in Nat
    BY PartTypes
  <2> QED BY <1>0, <2>1 DEF Held
<1>3. /\ Share(b, w, e) = Held(b, w, e) /\ Owed(b, w, e) = Held(b, w, e)
      /\ Share(b, w, e)' = Held(b, w, e)' /\ Owed(b, w, e)' = Held(b, w, e)'
  BY <1>0, <1>1, Unbooked, UnbookedNext DEF LoggedAt
<1>4. CASE counter' = counter
  BY <1>2, <1>3, <1>4 DEF PartMoves
<1>5. CASE DenyOnError(b) /\ faults' # 0 /\ counter' # counter
  <2>0. todo[b] # <<>>
    BY <1>5 DEF DenyOnError, HoldInv, GatewayInv, BudgetStage
  <2>1. PICK x \in Counters, y \in Epochs : x = Head(todo[b]) /\ y = at[b][x]
    BY <1>0, <2>0
  <2>2. Incr(x, y, Estimate[b]) /\ Estimate[b] \in Nat
    BY <1>5, <2>1, PartTypes DEF DenyOnError, CommitFails
  <2>3. counter'[w][e] = IF w = x /\ e = y THEN counter[w][e] + Estimate[b] ELSE counter[w][e]
    <3>1. counter \in [Counters -> [Epochs -> Int]]
      BY <1>0
    <3>2. counter' = [counter EXCEPT ![x][y] = @ + Estimate[b]]
      BY <2>2 DEF Incr
    <3> QED BY <3>1, <3>2
  <2> QED BY <1>2, <1>3, <1>5, <2>2, <2>3 DEF PartMoves
<1>6. (StartBudget(b) \/ Deny(b) \/ Book(b)) => counter' = counter
  BY DEF StartBudget, Deny, Book, CheckBudget, Exceeded, Rejected, LogSpend, budgetVars
<1> QED BY <1>4, <1>5, <1>6
-----------------------------------------------------------------------------
(* The invariant is inductive                                               *)

\* Nothing is held, nothing is logged, and a sum of zeros is zero.
LEMMA BudgetStart == GatewayInit => BudgetInv
<1> SUFFICES ASSUME GatewayInit PROVE BudgetInv
  OBVIOUS
<1>1. MoneyInv /\ HoldInv
  BY MoneyStart, HoldStart
<1> SUFFICES ASSUME NEW w \in Counters, NEW e \in Epochs PROVE CounterInv(w, e)
  BY <1>1 DEF BudgetInv
<1>2. booked = {} /\ counter[w][e] = 0 /\ \A b \in Buys : hold[b] = <<>>
  BY DEF GatewayInit, TaskInit, PayInit, BudgetInit
<1>3. ASSUME NEW b \in Buys PROVE Share(b, w, e) = 0 /\ Owed(b, w, e) = 0
  <2>1. Held(b, w, e) = 0
    BY <1>2, EmptyFacts DEF Held
  <2>2. ~LoggedAt(b, w, e)
    BY <1>2 DEF LoggedAt
  <2> QED BY <2>1, <2>2, Unbooked
<1>4. PICK f, g : f = Shares(w, e) /\ g = Debts(w, e)
  OBVIOUS
<1>5. \A b \in Buys : f[b] = 0 /\ g[b] = 0
  BY <1>3, <1>4 DEF Shares, Debts
<1>6. IsFiniteSet(Buys)
  BY BudgetConstants
<1>7. Total(f, Buys) = 0 /\ Total(g, Buys) = 0
  BY <1>5, <1>6, ZeroSum
<1>8. Limit[w] # NoLimit => Limit[w] \in Nat
  BY BudgetConstants
<1> QED BY <1>2, <1>4, <1>7, <1>8 DEF CounterInv

\* A restart loses log steps: the shares can only shrink.
LEMMA RestartKeeps ==
    ASSUME HoldInv, NEW j, Restart(j), faults' # 0, NEW w \in Counters, NEW e \in Epochs,
           CounterInv(w, e)
    PROVE  CounterInv(w, e)'
<1>1. UNCHANGED <<booked, hold, at, counter>> /\ \A c \in Buys : todo'[c] \in {todo[c], <<>>}
  BY DEF Restart
<1>2. ASSUME NEW c \in Buys
      PROVE  /\ Share(c, w, e)' <= Share(c, w, e)
             /\ Share(c, w, e)' \in Int /\ Share(c, w, e) \in Int
  <2>1. LoggedAt(c, w, e) => LoggedAt(c, w, e)'
    BY <1>1, EmptyFacts DEF LoggedAt
  <2>2. Held(c, w, e)' = Held(c, w, e) /\ ((WindowIn(hold[c], w))' <=> WindowIn(hold[c], w))
    BY <1>1 DEF Held
  <2>3. Estimate[c] \in Nat /\ Correction(c) \in Int /\ Correction(c) <= 0
    BY PartTypes
  <2>4. Held(c, w, e) \in Int
    BY <2>3 DEF Held
  <2> QED BY <2>1, <2>2, <2>3, <2>4 DEF Share
<1>3. PICK f, g : f = Shares(w, e) /\ g = Shares(w, e)'
  OBVIOUS
<1>4. \A c \in Buys : g[c] \in Int /\ f[c] \in Int /\ g[c] <= f[c]
  BY <1>2, <1>3 DEF Shares
<1>5. IsFiniteSet(Buys)
  BY BudgetConstants
<1>6. Total(g, Buys) <= Total(f, Buys)
  BY <1>4, <1>5, TotalLeq
<1>7. Total(g, Buys) \in Int /\ Total(f, Buys) \in Int
  BY <1>4, <1>5, TotalType
<1>8. counter[w][e] \in Int /\ (Limit[w] # NoLimit => Limit[w] \in Nat)
  BY BudgetConstants DEF HoldInv, GatewayInv, ReqTypes, BudgetTypes
<1>9. Total(f, Buys) <= counter[w][e] /\ (Limit[w] # NoLimit => Total(f, Buys) <= Limit[w])
  BY <1>3 DEF CounterInv
<1>10. Total(g, Buys) <= counter[w][e] /\ (Limit[w] # NoLimit => Total(g, Buys) <= Limit[w])
  BY <1>6, <1>7, <1>8, <1>9
<1> QED BY <1>1, <1>3, <1>10 DEF CounterInv

\* Where nobody's part changes, no sum does.
LEMMA NoneMoves ==
    ASSUME \A c \in Buys : SamePart(c), counter' = counter, faults' = 0 => faults = 0,
           NEW w, NEW e, CounterInv(w, e)
    PROVE  CounterInv(w, e)'
<1>1. \A c \in Buys : Share(c, w, e)' = Share(c, w, e) /\ Owed(c, w, e)' = Owed(c, w, e)
  BY SameParts
<1>2. Shares(w, e)' = Shares(w, e) /\ Debts(w, e)' = Debts(w, e)
  BY <1>1 DEF Shares, Debts
<1> QED BY <1>2 DEF CounterInv

\* Every step keeps the invariant.
LEMMA BudgetNext == BudgetInv /\ [GatewayNext]_gatewayVars => BudgetInv'
<1> SUFFICES ASSUME BudgetInv, [GatewayNext]_gatewayVars PROVE BudgetInv'
  OBVIOUS
<1>0. HoldInv /\ HoldInv' /\ GatewayInv /\ MoneyInv'
  BY MoneyNext, HoldKeeps DEF BudgetInv, HoldInv
<1>t. /\ counter \in [Counters -> [Epochs -> Int]]
      /\ (counter \in [Counters -> [Epochs -> Int]])'
  BY <1>0 DEF HoldInv, GatewayInv, ReqTypes, BudgetTypes
<1>f. (faults' = 0 => faults = 0) /\ (Fault => faults' # 0)
  BY <1>0, FaultCount
<1> SUFFICES ASSUME NEW w \in Counters, NEW e \in Epochs PROVE CounterInv(w, e)'
  BY <1>0 DEF BudgetInv
<1>c. CounterInv(w, e)
  BY DEF BudgetInv
<1>1. ASSUME NEW b \in posted \cap Buys, BudgetStep(b) PROVE CounterInv(w, e)'
  <2>1. PartMoves(b, w, e)
    <3>1. CASE StartBudget(b) \/ Deny(b) \/ Book(b) \/ DenyOnError(b)
      <4>1. DenyOnError(b) => faults' # 0
        BY <1>f DEF DenyOnError
      <4> QED BY <1>0, <3>1, <4>1, OtherMoves
    <3>2. CASE GiveBack(b) \/ GiveBackLost(b)
      <4>1. GiveBackLost(b) => faults' # 0
        BY <1>f DEF GiveBackLost
      <4> QED BY <1>0, <3>2, <4>1, ReturnMoves
    <3>3. CASE Log(b) \/ LogLost(b)
      <4>1. LogLost(b) => faults' # 0
        BY <1>f DEF LogLost
      <4> QED BY <1>0, <3>3, <4>1, LogMoves
    <3>4. CASE Reserve(b)
      BY <1>0, <3>4, ReserveMoves
    <3> QED BY <1>1, <3>1, <3>2, <3>3, <3>4 DEF BudgetStep
  <2>2. ASSUME NEW c \in Buys \ {b} PROVE SamePart(c)
    <3>1. c \in booked' <=> c \in booked
      BY <1>1 DEF BudgetStep, StartBudget, Reserve, Deny, DenyOnError, GiveBack, GiveBackLost, Book,
         Log, LogLost, payOnly, payFaulty
    <3>2. hold'[c] = hold[c] /\ todo'[c] = todo[c] /\ at'[c] = at[c]
      BY <1>0, <1>1, BudgetOwn
    <3> QED BY <3>1, <3>2 DEF SamePart
  <2>3. counter[w][e] \in Int /\ counter'[w][e] \in Int
    BY <1>t
  <2> QED BY <1>c, <1>f, <2>1, <2>2, <2>3, MoveKeeps
<1>2. ASSUME NEW j, Restart(j) PROVE CounterInv(w, e)'
  <2>1. faults' # 0
    BY <1>2, <1>f DEF Restart
  <2> QED BY <1>0, <1>2, <1>c, <2>1, RestartKeeps
<1>3. ASSUME UNCHANGED <<counter, hold, at, todo, booked>> PROVE CounterInv(w, e)'
  <2>1. \A c \in Buys : SamePart(c)
    BY <1>3 DEF SamePart
  <2> QED BY <1>3, <1>c, <1>f, <2>1, NoneMoves
<1>4. ASSUME NEW x, Rollover(x) /\ UNCHANGED <<payOnly, stage>> PROVE CounterInv(w, e)'
  BY <1>3, <1>4 DEF Rollover, payOnly
<1>5. CASE UNCHANGED <<budgetVars, booked>>
  BY <1>3, <1>5 DEF budgetVars
<1> QED BY <1>1, <1>2, <1>4, <1>5, BudgetCases
-----------------------------------------------------------------------------
(* The theorems                                                             *)

\* The words of the properties: those logged in period e of w, those of them that
\* reserved in another, those that reserved nothing, those settled and never billed,
\* those that left an estimate.
In(w, e) == LoggedIn(w, e, booked)
Late(w, e) == {b \in In(w, e) : Reserved(b, w) /\ ~HeldIn(b, w, e)}
Direct(w, e) == {b \in In(w, e) : ~Reserved(b, w)}
Unledgered(w, e) == {b \in paid \ booked : HeldIn(b, w, e)}
Left(w, e) == {b \in paid \ In(w, e) : HeldIn(b, w, e)}

\* They are requests.
LEMMA PartsAreBuys ==
    ASSUME GatewayInv, NEW w, NEW e
    PROVE  /\ In(w, e) \in SUBSET Buys /\ Late(w, e) \in SUBSET Buys
           /\ Direct(w, e) \in SUBSET Buys /\ Left(w, e) \in SUBSET Buys
           /\ Unledgered(w, e) \in SUBSET Buys
<1>1. booked \subseteq Buys /\ paid \subseteq Buys
  BY DEF GatewayInv
<1> QED BY <1>1 DEF In, Late, Direct, Left, Unledgered, LoggedIn

\* What a request is, in those words.
LEMMA PartWords ==
    ASSUME NEW c \in Buys, NEW w, NEW e
    PROVE  /\ Reserved(c, w) <=> WindowIn(hold[c], w)
           /\ HeldIn(c, w, e) <=> Among(hold[c], <<w, e>>)
           /\ HeldIn(c, w, e) => Reserved(c, w)
           /\ c \in In(w, e) <=> c \in booked /\ at[c][w] = e /\ Among(Windows[c], w)
           /\ LoggedAt(c, w, e) <=> c \in In(w, e) /\ ~Among(todo[c], w)
<1>1. /\ Reserved(c, w) <=> WindowIn(hold[c], w)
      /\ HeldIn(c, w, e) <=> Among(hold[c], <<w, e>>)
  BY DEF Reserved, HeldIn, WindowIn, Among
<1>2. Among(hold[c], <<w, e>>) => WindowIn(hold[c], w)
  BY DEF WindowIn, Among
<1>3. c \in In(w, e) <=> c \in booked /\ at[c][w] = e /\ Among(Windows[c], w)
  BY DEF In, LoggedIn, Among
<1> QED BY <1>1, <1>2, <1>3 DEF LoggedAt

\* A request spends, or keeps for what was not billed, what its share or one of
\* the three exceptions covers.
LEMMA SpendCovered ==
    ASSUME NEW c \in Buys, NEW w, NEW e
    PROVE  On(Cost, In(w, e), c) + On(Estimate, Unledgered(w, e), c)
               <= Share(c, w, e) + On(Cost, Direct(w, e), c) + On(Estimate, Late(w, e), c)
                                 + On(Overage, In(w, e) \ Direct(w, e), c)
<1>1. Cost[c] \in Nat /\ Estimate[c] \in Nat
  BY PartTypes
<1>2. /\ c \in Late(w, e) <=> c \in In(w, e) /\ Reserved(c, w) /\ ~HeldIn(c, w, e)
      /\ c \in Direct(w, e) <=> c \in In(w, e) /\ ~Reserved(c, w)
      /\ c \in Unledgered(w, e) => c \notin booked /\ HeldIn(c, w, e)
  BY DEF Late, Direct, Unledgered
<1>3. /\ Held(c, w, e) = IF HeldIn(c, w, e) THEN Estimate[c] ELSE 0
      /\ Share(c, w, e) = Held(c, w, e)
             + (IF LoggedAt(c, w, e) /\ Reserved(c, w) THEN Correction(c) ELSE 0)
  BY PartWords DEF Held, Share
<1>4. /\ HeldIn(c, w, e) => Reserved(c, w)
      /\ LoggedAt(c, w, e) => c \in In(w, e)
      /\ c \in In(w, e) => c \in booked
  BY PartWords
<1>5. /\ Correction(c) \in Int /\ Overage[c] \in Nat /\ Correction(c) <= 0
      /\ Cost[c] = Estimate[c] + Correction(c) + Overage[c]
  BY <1>1 DEF Correction, Overage
<1>6. CASE c \notin In(w, e)
  <2>1. Share(c, w, e) = Held(c, w, e)
    BY <1>1, <1>3, <1>4, <1>6
  <2> QED BY <1>1, <1>2, <1>3, <1>6, <2>1 DEF On
<1>7. CASE c \in In(w, e) /\ ~Reserved(c, w)
  <2>1. Share(c, w, e) = 0 /\ c \notin Unledgered(w, e) /\ c \notin Late(w, e) /\ c \in Direct(w, e)
    BY <1>2, <1>3, <1>4, <1>7
  <2> QED BY <1>1, <1>7, <2>1 DEF On
<1>8. CASE c \in In(w, e) /\ Reserved(c, w)
  <2>1. c \notin Unledgered(w, e) /\ c \notin Direct(w, e)
    BY <1>2, <1>4, <1>8
  <2>2. Share(c, w, e) + On(Estimate, Late(w, e), c) >= Estimate[c] + Correction(c)
        /\ Share(c, w, e) \in Int /\ On(Estimate, Late(w, e), c) \in Int
    BY <1>1, <1>2, <1>3, <1>5, <1>8 DEF On
  <2>3. /\ On(Cost, In(w, e), c) = Cost[c] /\ On(Overage, In(w, e) \ Direct(w, e), c) = Overage[c]
        /\ On(Estimate, Unledgered(w, e), c) = 0 /\ On(Cost, Direct(w, e), c) = 0
    BY <1>8, <2>1 DEF On
  <2> QED BY <1>1, <1>5, <2>2, <2>3
<1> QED BY <1>6, <1>7, <1>8

\* What is spent in a period stays within the limit, but for the exceptions.
LEMMA LimitHolds == BudgetInv => SpendWithinBudget
<1> SUFFICES ASSUME BudgetInv, NEW w \in Counters, NEW e \in Epochs, Limit[w] # NoLimit
             PROVE  Total(Cost, In(w, e)) + Total(Estimate, Unledgered(w, e))
                        <= Limit[w] + Total(Cost, Direct(w, e)) + Total(Estimate, Late(w, e))
                                    + Total(Overage, In(w, e) \ Direct(w, e))
  BY DEF SpendWithinBudget, Total, In, Late, Direct, Unledgered
<1>1. GatewayInv /\ CounterInv(w, e) /\ IsFiniteSet(Buys)
  BY BudgetConstants DEF BudgetInv, HoldInv
<1>2. PICK P, U, Q, R, V, k, o :
          /\ P = In(w, e) /\ U = Unledgered(w, e) /\ Q = Direct(w, e) /\ R = Late(w, e)
          /\ V = In(w, e) \ Direct(w, e) /\ k = Shares(w, e) /\ o = Overage
  OBVIOUS
<1>3. /\ P \in SUBSET Buys /\ U \in SUBSET Buys /\ Q \in SUBSET Buys
      /\ R \in SUBSET Buys /\ V \in SUBSET Buys
  BY <1>1, <1>2, PartsAreBuys
<1>4. \A x \in Buys : k[x] \in Int /\ Cost[x] \in Int /\ Estimate[x] \in Int /\ o[x] \in Int
  <2>1. \A x \in Buys : k[x] \in Int /\ Cost[x] \in Int /\ Estimate[x] \in Int
    BY <1>2, PartTypes DEF Shares
  <2> QED BY <1>2, <2>1 DEF Overage
<1>5. \A x \in Buys : On(Cost, P, x) + On(Estimate, U, x)
                          <= k[x] + On(Cost, Q, x) + On(Estimate, R, x) + On(o, V, x)
  BY <1>2, SpendCovered DEF Shares
<1>6. Total(Cost, P) + Total(Estimate, U)
          <= Total(k, Buys) + Total(Cost, Q) + Total(Estimate, R) + Total(o, V)
  BY <1>1, <1>3, <1>4, <1>5, SumBound
<1>7. /\ IsFiniteSet(P) /\ IsFiniteSet(U) /\ IsFiniteSet(Q) /\ IsFiniteSet(R) /\ IsFiniteSet(V)
  BY <1>1, <1>3, FS_Subset
<1>8. /\ Total(Cost, P) \in Int /\ Total(Cost, Q) \in Int
      /\ Total(Estimate, R) \in Int /\ Total(Estimate, U) \in Int
      /\ Total(o, V) \in Int /\ Total(k, Buys) \in Int
  BY <1>1, <1>3, <1>4, <1>7, TotalType
<1>9. Total(k, Buys) <= Limit[w] /\ Limit[w] \in Nat
  BY <1>1, <1>2, BudgetConstants DEF CounterInv
<1>10. Total(Cost, P) + Total(Estimate, U)
           <= Limit[w] + Total(Cost, Q) + Total(Estimate, R) + Total(o, V)
  BY <1>6, <1>8, <1>9
<1> QED BY <1>2, <1>10

\* At rest and without faults a request owes its cost, wherever it reserved, or the
\* estimate it was settled for and never billed.
LEMMA DebtSettled ==
    ASSUME MoneyInv, HoldInv, NEW c \in Buys, NEW w, NEW e, faults = 0,
           todo[c] = <<>>, c \in posted => stage[c] = "done"
    PROVE  Owed(c, w, e) + On(Estimate, Late(w, e), c)
               = On(Cost, In(w, e), c) + On(Estimate, Left(w, e), c)
<1>1. Cost[c] \in Nat /\ Estimate[c] \in Nat
  BY PartTypes
<1>2. /\ c \in Late(w, e) <=> c \in In(w, e) /\ Reserved(c, w) /\ ~HeldIn(c, w, e)
      /\ c \in Left(w, e) <=> c \in paid /\ c \notin In(w, e) /\ HeldIn(c, w, e)
  BY DEF Late, Left
<1>3. /\ Held(c, w, e) = IF HeldIn(c, w, e) THEN Estimate[c] ELSE 0
      /\ Owed(c, w, e) = Held(c, w, e) + (IF LoggedAt(c, w, e) THEN WindowAmount(c, w) ELSE 0)
      /\ WindowAmount(c, w) = IF Reserved(c, w) THEN Cost[c] - Estimate[c] ELSE Cost[c]
  BY PartWords DEF Held, Owed, WindowAmount
<1>4. (HeldIn(c, w, e) => Reserved(c, w)) /\ (c \in In(w, e) => c \in booked)
  BY PartWords
<1>5. LoggedAt(c, w, e) <=> c \in In(w, e)
  <2>1. ~Among(todo[c], w)
    BY EmptyFacts
  <2> QED BY <2>1, PartWords
<1>6. HeldIn(c, w, e) => c \in paid
  <2>1. c \notin paid => hold[c] = <<>>
    BY DEF HoldInv, HoldOf
  <2>2. hold[c] = <<>> => ~Among(hold[c], <<w, e>>)
    BY DEF Among
  <2>3. HeldIn(c, w, e) => Among(hold[c], <<w, e>>)
    BY PartWords
  <2> QED BY <2>1, <2>2, <2>3
<1> QED BY <1>1, <1>2, <1>3, <1>4, <1>5, <1>6 DEF On

\* At rest and without faults a counter shows what was spent.
LEMMA CounterShows == BudgetInv => CountersSettle
<1> SUFFICES ASSUME BudgetInv, faults = 0,
                    \A b \in Buys : todo[b] = <<>> /\ (b \in posted => stage[b] = "done"),
                    NEW w \in Counters, NEW e \in Epochs
             PROVE  counter[w][e] = Total(Cost, In(w, e)) - Total(Estimate, Late(w, e))
                                        + Total(Estimate, Left(w, e))
  BY DEF CountersSettle, Total, In, Late, Left
<1>1. MoneyInv /\ HoldInv /\ GatewayInv /\ CounterInv(w, e) /\ IsFiniteSet(Buys)
  BY BudgetConstants DEF BudgetInv, HoldInv
<1>2. PICK P, Q, R, k : P = In(w, e) /\ Q = Left(w, e) /\ R = Late(w, e) /\ k = Debts(w, e)
  OBVIOUS
<1>3. P \in SUBSET Buys /\ Q \in SUBSET Buys /\ R \in SUBSET Buys
  BY <1>1, <1>2, PartsAreBuys
<1>4. \A x \in Buys : k[x] \in Int /\ Cost[x] \in Int /\ Estimate[x] \in Int
  BY <1>2, PartTypes DEF Debts
<1>5. \A x \in Buys : k[x] + On(Estimate, R, x) = On(Cost, P, x) + On(Estimate, Q, x)
  <2>1. ASSUME NEW x \in Buys
        PROVE  Owed(x, w, e) + On(Estimate, Late(w, e), x)
                   = On(Cost, In(w, e), x) + On(Estimate, Left(w, e), x)
    BY <1>1, DebtSettled
  <2>2. \A x \in Buys : k[x] = Owed(x, w, e)
    BY <1>2 DEF Debts
  <2> QED BY <1>2, <2>1, <2>2
<1>6. Total(k, Buys) + Total(Estimate, R) = Total(Cost, P) + Total(Estimate, Q)
  <2>1. IsFiniteSet(Buys)
    BY <1>1
  <2> QED BY <1>3, <1>4, <1>5, <2>1, SumEqual
<1>7. IsFiniteSet(P) /\ IsFiniteSet(Q) /\ IsFiniteSet(R)
  BY <1>1, <1>3, FS_Subset
<1>8. /\ Total(Cost, P) \in Int /\ Total(Estimate, Q) \in Int /\ Total(Estimate, R) \in Int
      /\ Total(k, Buys) \in Int
  BY <1>1, <1>3, <1>4, <1>7, TotalType
<1>9. counter[w][e] = Total(k, Buys)
  BY <1>1, <1>2 DEF CounterInv
<1> QED BY <1>2, <1>6, <1>8, <1>9

\* For any set of requests, windows, limits and periods, whatever fails: what a
\* limited counter's period is charged, with the estimates kept for what was
\* settled and never billed, stays within the limit, but for requests that
\* reserve nothing, for those logged in a later period than reserved, and for
\* what a bill exceeds its estimate by
\* (check_budget's INCR_CHECK_LUA and log_spend, usage.rs; cost.rs:140).
THEOREM LimitsHold == GatewaySpec => []SpendWithinBudget
<1>1. GatewayInit => BudgetInv
  BY BudgetStart
<1>2. BudgetInv /\ [GatewayNext]_gatewayVars => BudgetInv'
  BY BudgetNext
<1>3. BudgetInv => SpendWithinBudget
  BY LimitHolds
<1> QED BY <1>1, <1>2, <1>3, PTL DEF GatewaySpec, gatewayVars

\* When no request is under way and nothing failed, every counter shows what was
\* spent in its period: each way out of the chat handler has logged the cost or
\* given every reservation back (rollback_committed, release_reservation), but
\* for a settled request that could not be billed, whose estimate stays
\* (chat/mod.rs:1649-1666, 1716-1733).
THEOREM CountersShowSpend == GatewaySpec => []CountersSettle
<1>1. GatewayInit => BudgetInv
  BY BudgetStart
<1>2. BudgetInv /\ [GatewayNext]_gatewayVars => BudgetInv'
  BY BudgetNext
<1>3. BudgetInv => CountersSettle
  BY CounterShows
<1> QED BY <1>1, <1>2, <1>3, PTL DEF GatewaySpec, gatewayVars
=============================================================================
