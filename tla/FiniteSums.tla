---------------------------- MODULE FiniteSums ----------------------------
(***************************************************************************)
(* Facts about sums over finite sets, for the counters of the channel       *)
(* ledger and of the budgets.  MapThenSumSet of the community modules is a   *)
(* fold, that is a recursive function chosen by CHOOSE: the first half shows *)
(* that this function exists, the second that a sum can be taken apart at    *)
(* any member, updated, compared and split.                                  *)
(* Instead of an induction scheme each proof takes a least counterexample    *)
(* among the subsets of a finite set.                                        *)
(***************************************************************************)
EXTENDS Integers, FiniteSetsExt, FiniteSetTheorems, WellFoundedInduction, TLAPS

Total(f, S) == MapThenSumSet(LAMBDA x : f[x], S)

\* The member the fold takes next, one step of its recursion, and the fold.
Taken(s) == CHOOSE x \in s : TRUE
Rest(s) == s \ {Taken(s)}
FoldStep(f, g, s) == IF s = {} THEN 0 ELSE f[Taken(s)] + g[Rest(s)]
Fold(f, S) == CHOOSE g : g = [s \in SUBSET S |-> FoldStep(f, g, s)]

\* g follows the recursion on finite sets, and is defined wherever it leads.
Follows(f, g) ==
    \A s \in DOMAIN g : /\ IsFiniteSet(s)
                        /\ s # {} => Rest(s) \in DOMAIN g
                        /\ g[s] = FoldStep(f, g, s)

\* The sum is the fold's value for the whole set.
LEMMA TotalIsFold == ASSUME NEW f, NEW S PROVE Total(f, S) = Fold(f, S)[S]
  BY DEF Total, MapThenSumSet, MapThenFoldSet, Fold, FoldStep, Taken, Rest

\* A set of subsets of a finite set has one that contains no other of them.
LEMMA LeastBad ==
    ASSUME NEW S, IsFiniteSet(S), NEW T \in SUBSET (SUBSET S), T # {}
    PROVE  \E x \in T : \A y \in T : ~(y \subseteq x /\ x # y)
<1>1. T \subseteq FiniteSubsetsOf(S)
  BY FS_Subset DEF FiniteSubsetsOf
<1>2. PICK x \in T : \A y \in T : ~ (<<y, x>> \in StrictSubsetOrdering(S))
  BY <1>1, WFMin, FS_StrictSubsetOrderingWellFounded
<1> QED BY <1>2 DEF StrictSubsetOrdering

\* Taking a member out of a set leaves a smaller one.
LEMMA RestSmaller ==
    ASSUME NEW s, s # {}
    PROVE  /\ Taken(s) \in s /\ Rest(s) \subseteq s /\ Rest(s) # s
           /\ IsFiniteSet(s) => IsFiniteSet(Rest(s))
<1>1. Taken(s) \in s
  BY DEF Taken
<1> QED BY <1>1, FS_Subset DEF Rest

-----------------------------------------------------------------------------
(* The fold exists *)

\* Two functions that follow the recursion agree where both are defined.
LEMMA FollowersAgree ==
    ASSUME NEW f, NEW g, NEW h, Follows(f, g), Follows(f, h),
           NEW S, S \in DOMAIN g, S \in DOMAIN h
    PROVE  g[S] = h[S]
<1> DEFINE T == {s \in SUBSET S : s \in DOMAIN g /\ s \in DOMAIN h /\ g[s] # h[s]}
<1> SUFFICES ASSUME T # {} PROVE FALSE
  OBVIOUS
<1>1. IsFiniteSet(S)
  BY DEF Follows
<1>2. PICK s \in T : \A y \in T : ~(y \subseteq s /\ s # y)
  <2>1. T \in SUBSET (SUBSET S)
    OBVIOUS
  <2> HIDE DEF T
  <2> QED BY <1>1, <2>1, LeastBad
<1>3. s # {}
  BY <1>2 DEF Follows, FoldStep
<1>4. /\ Rest(s) \in DOMAIN g /\ Rest(s) \in DOMAIN h
      /\ Rest(s) \in SUBSET S /\ Rest(s) \subseteq s /\ Rest(s) # s
  BY <1>2, <1>3, RestSmaller DEF Follows
<1>5. g[Rest(s)] = h[Rest(s)]
  BY <1>2, <1>4
<1>6. g[s] = f[Taken(s)] + g[Rest(s)] /\ h[s] = f[Taken(s)] + h[Rest(s)]
  BY <1>2, <1>3 DEF Follows, FoldStep
<1> QED BY <1>2, <1>5, <1>6

\* For every finite set there is one that is defined on it.
LEMMA FollowerExists ==
    ASSUME NEW f, NEW S, IsFiniteSet(S)
    PROVE  \E g : Follows(f, g) /\ S \in DOMAIN g
<1> DEFINE T == {s \in SUBSET S : ~ \E g : Follows(f, g) /\ s \in DOMAIN g}
<1> SUFFICES ASSUME T # {} PROVE FALSE
  OBVIOUS
<1>1. PICK s \in T : \A y \in T : ~(y \subseteq s /\ s # y)
  <2>1. T \in SUBSET (SUBSET S)
    OBVIOUS
  <2> HIDE DEF T
  <2> QED BY <2>1, LeastBad
<1>2. IsFiniteSet(s)
  BY <1>1, FS_Subset
<1>3. s # {}
  <2> SUFFICES ASSUME s = {} PROVE FALSE
    OBVIOUS
  <2> DEFINE e == [t \in {s} |-> 0]
  <2>1. Follows(f, e) /\ s \in DOMAIN e
    BY <1>2 DEF Follows, FoldStep
  <2> QED BY <1>1, <2>1
<1>4. Rest(s) \in SUBSET S /\ Rest(s) \subseteq s /\ Rest(s) # s
  BY <1>1, <1>3, RestSmaller
<1>5. PICK k : Follows(f, k) /\ Rest(s) \in DOMAIN k
  BY <1>1, <1>4
<1>6. s \notin DOMAIN k
  BY <1>1, <1>5
<1> DEFINE e == [t \in DOMAIN k \cup {s} |->
                    IF t = s THEN f[Taken(s)] + k[Rest(s)] ELSE k[t]]
<1>7. /\ DOMAIN e = DOMAIN k \cup {s} /\ e[s] = f[Taken(s)] + k[Rest(s)]
      /\ \A t \in DOMAIN k : e[t] = k[t]
  BY <1>6
<1> HIDE DEF e
<1>8. ASSUME NEW t \in DOMAIN e
      PROVE  /\ IsFiniteSet(t)
             /\ t # {} => Rest(t) \in DOMAIN e
             /\ e[t] = FoldStep(f, e, t)
  <2>1. CASE t = s
    <3>1. e[t] = FoldStep(f, e, t)
      BY <2>1, <1>3, <1>5, <1>7 DEF FoldStep
    <3> QED BY <3>1, <2>1, <1>2, <1>5, <1>7
  <2>2. CASE t \in DOMAIN k
    <3>1. /\ IsFiniteSet(t)
          /\ t # {} => Rest(t) \in DOMAIN k
          /\ k[t] = FoldStep(f, k, t)
      BY <1>5, <2>2 DEF Follows
    <3>2. FoldStep(f, k, t) = FoldStep(f, e, t)
      BY <3>1, <1>7 DEF FoldStep
    <3> QED BY <3>1, <3>2, <2>2, <1>7
  <2> QED BY <2>1, <2>2, <1>7
<1>9. Follows(f, e)
  BY <1>8 DEF Follows
<1> QED BY <1>1, <1>7, <1>9

\* So the fold's defining equation has a solution.
LEMMA FoldEquation ==
    ASSUME NEW f, NEW S, IsFiniteSet(S)
    PROVE  Fold(f, S) = [s \in SUBSET S |-> FoldStep(f, Fold(f, S), s)]
<1> DEFINE H(s) == CHOOSE g : Follows(f, g) /\ s \in DOMAIN g
           e == [s \in SUBSET S |-> H(s)[s]]
<1>1. ASSUME NEW s \in SUBSET S PROVE Follows(f, H(s)) /\ s \in DOMAIN H(s)
  <2>1. IsFiniteSet(s)
    BY FS_Subset
  <2>2. \E g : Follows(f, g) /\ s \in DOMAIN g
    BY <2>1, FollowerExists
  <2> QED BY <2>2
<1>2. ASSUME NEW s \in SUBSET S PROVE e[s] = FoldStep(f, e, s)
  <2>1. H(s)[s] = FoldStep(f, H(s), s) /\ (s # {} => Rest(s) \in DOMAIN H(s))
    BY <1>1 DEF Follows
  <2>2. CASE s = {}
    BY <2>1, <2>2 DEF FoldStep
  <2>3. CASE s # {}
    <3> DEFINE r == Rest(s)
    <3>1. r \in SUBSET S /\ r \in DOMAIN H(s)
      BY <2>1, <2>3, RestSmaller
    <3>2. H(s)[r] = H(r)[r]
      <4>1. Follows(f, H(s)) /\ Follows(f, H(r)) /\ r \in DOMAIN H(s) /\ r \in DOMAIN H(r)
        BY <1>1, <3>1
      <4> HIDE DEF H, r
      <4> QED BY <4>1, FollowersAgree
    <3>3. H(s)[s] = f[Taken(s)] + H(s)[r]
      BY <2>1, <2>3 DEF FoldStep
    <3>4. e[s] = H(s)[s] /\ e[r] = H(r)[r]
      BY <3>1
    <3> HIDE DEF e
    <3> QED BY <2>3, <3>2, <3>3, <3>4 DEF FoldStep
  <2> QED BY <2>2, <2>3
<1>3. DOMAIN e = SUBSET S /\ e = [s \in DOMAIN e |-> e[s]]
  OBVIOUS
<1> HIDE DEF e
<1>4. e = [s \in SUBSET S |-> FoldStep(f, e, s)]
  BY <1>2, <1>3
<1> QED BY <1>4 DEF Fold

\* And the fold is one of the functions that follow the recursion.
LEMMA FoldFollows ==
    ASSUME NEW f, NEW S, IsFiniteSet(S)
    PROVE  Follows(f, Fold(f, S)) /\ DOMAIN Fold(f, S) = SUBSET S
<1> SUFFICES ASSUME NEW g, g = [s \in SUBSET S |-> FoldStep(f, g, s)]
             PROVE  Follows(f, g) /\ DOMAIN g = SUBSET S
  BY FoldEquation
<1>2. DOMAIN g = SUBSET S /\ \A s \in SUBSET S : g[s] = FoldStep(f, g, s)
  OBVIOUS
<1>3. \A s \in SUBSET S : IsFiniteSet(s) /\ Rest(s) \in SUBSET S
  BY FS_Subset DEF Rest
<1> QED BY <1>2, <1>3 DEF Follows

\* The recursion of a sum, whatever set it started with.
LEMMA TotalStep ==
    ASSUME NEW f, NEW S, IsFiniteSet(S)
    PROVE  /\ S = {} => Total(f, S) = 0
           /\ S # {} => Total(f, S) = f[Taken(S)] + Total(f, Rest(S))
<1> DEFINE r == Rest(S)
<1>1. IsFiniteSet(r) /\ r \in SUBSET S
  BY FS_Subset DEF Rest
<1>2. Total(f, S) = Fold(f, S)[S] /\ Total(f, r) = Fold(f, r)[r]
  BY TotalIsFold
<1>3. /\ Follows(f, Fold(f, S)) /\ DOMAIN Fold(f, S) = SUBSET S
      /\ Follows(f, Fold(f, r)) /\ DOMAIN Fold(f, r) = SUBSET r
  BY <1>1, FoldFollows
<1>4. Fold(f, S)[r] = Fold(f, r)[r]
  BY <1>1, <1>3, FollowersAgree
<1>5. Fold(f, S)[S] = FoldStep(f, Fold(f, S), S)
  BY <1>3 DEF Follows
<1> QED BY <1>2, <1>4, <1>5 DEF FoldStep

-----------------------------------------------------------------------------
(* What a sum is *)

\* Nothing adds up to nothing.
LEMMA TotalEmpty == ASSUME NEW f PROVE Total(f, {}) = 0
  BY TotalStep, FS_EmptySet

\* A sum of integers is an integer.
LEMMA TotalType ==
    ASSUME NEW S, IsFiniteSet(S), NEW f, \A x \in S : f[x] \in Int
    PROVE  Total(f, S) \in Int
<1> DEFINE T == {s \in SUBSET S : Total(f, s) \notin Int}
<1> SUFFICES ASSUME T # {} PROVE FALSE
  OBVIOUS
<1>1. PICK s \in T : \A y \in T : ~(y \subseteq s /\ s # y)
  <2>1. T \in SUBSET (SUBSET S)
    OBVIOUS
  <2> HIDE DEF T
  <2> QED BY <2>1, LeastBad
<1>2. IsFiniteSet(s) /\ s \in SUBSET S
  BY <1>1, FS_Subset
<1>3. s # {}
  <2>1. Total(f, {}) \in Int
    BY TotalEmpty
  <2> QED BY <1>1, <2>1
<1>4. Taken(s) \in s /\ Rest(s) \in SUBSET S /\ Rest(s) # s /\ Rest(s) \subseteq s
  BY <1>2, <1>3, RestSmaller
<1>5. Total(f, Rest(s)) \in Int /\ f[Taken(s)] \in Int
  BY <1>1, <1>2, <1>4
<1> QED BY <1>1, <1>2, <1>3, <1>5, TotalStep

\* Any member can be taken out, not only the one the fold takes.
LEMMA TotalRemove ==
    ASSUME NEW S, IsFiniteSet(S), NEW f, \A x \in S : f[x] \in Int, NEW x \in S
    PROVE  Total(f, S) = f[x] + Total(f, S \ {x})
<1> DEFINE Bad(s) == \E y \in s : Total(f, s) # f[y] + Total(f, s \ {y})
           T == {s \in SUBSET S : Bad(s)}
<1> SUFFICES ASSUME T # {} PROVE FALSE
  OBVIOUS
<1>1. PICK s \in T : \A y \in T : ~(y \subseteq s /\ s # y)
  <2>1. T \in SUBSET (SUBSET S)
    OBVIOUS
  <2> HIDE DEF T
  <2> QED BY <2>1, LeastBad
<1>2. IsFiniteSet(s) /\ s \in SUBSET S
  BY <1>1, FS_Subset
<1>3. PICK y \in s : Total(f, s) # f[y] + Total(f, s \ {y})
  BY <1>1
<1> DEFINE c == Taken(s)
<1>4. c \in s /\ Total(f, s) = f[c] + Total(f, s \ {c})
  BY <1>2, <1>3, TotalStep, RestSmaller DEF Rest
<1>5. c # y
  BY <1>3, <1>4
<1> HIDE DEF c
<1>6. /\ s \ {c} \in SUBSET S /\ s \ {c} # s /\ y \in s \ {c}
      /\ s \ {y} \in SUBSET S /\ s \ {y} # s /\ c \in s \ {y}
      /\ (s \ {c}) \ {y} = (s \ {y}) \ {c}
  BY <1>2, <1>3, <1>4, <1>5
<1>7. ~Bad(s \ {c}) /\ ~Bad(s \ {y})
  BY <1>1, <1>6
<1> DEFINE r == (s \ {y}) \ {c}
<1>8. Total(f, s \ {c}) = f[y] + Total(f, r) /\ Total(f, s \ {y}) = f[c] + Total(f, r)
  BY <1>6, <1>7
<1>9. f[y] \in Int /\ f[c] \in Int /\ Total(f, r) \in Int
  <2>1. r \in SUBSET S /\ IsFiniteSet(r)
    BY <1>2, FS_Subset
  <2> HIDE DEF r
  <2> QED BY <1>2, <1>3, <1>4, <2>1, TotalType
<1> HIDE DEF r
<1> QED BY <1>3, <1>4, <1>8, <1>9

\* A new member adds its own value.
LEMMA TotalAdd ==
    ASSUME NEW S, IsFiniteSet(S), NEW f, NEW x, x \notin S, \A y \in S \cup {x} : f[y] \in Int
    PROVE  Total(f, S \cup {x}) = Total(f, S) + f[x]
<1>1. IsFiniteSet(S \cup {x}) /\ (S \cup {x}) \ {x} = S
  BY FS_AddElement
<1>2. Total(f, S) \in Int /\ f[x] \in Int
  BY TotalType
<1>3. Total(f, S \cup {x}) = f[x] + Total(f, S)
  BY <1>1, TotalRemove
<1> QED BY <1>2, <1>3

\* Smaller values, a smaller sum.
LEMMA TotalLeq ==
    ASSUME NEW S, IsFiniteSet(S), NEW f, NEW g,
           \A x \in S : f[x] \in Int /\ g[x] \in Int /\ f[x] <= g[x]
    PROVE  Total(f, S) <= Total(g, S)
<1> DEFINE T == {s \in SUBSET S : ~(Total(f, s) <= Total(g, s))}
<1> SUFFICES ASSUME T # {} PROVE FALSE
  OBVIOUS
<1>1. PICK s \in T : \A y \in T : ~(y \subseteq s /\ s # y)
  <2>1. T \in SUBSET (SUBSET S)
    OBVIOUS
  <2> HIDE DEF T
  <2> QED BY <2>1, LeastBad
<1>2. IsFiniteSet(s) /\ s \in SUBSET S
  BY <1>1, FS_Subset
<1>3. s # {}
  <2>1. Total(f, {}) <= Total(g, {})
    BY TotalEmpty
  <2> QED BY <1>1, <2>1
<1> DEFINE r == Rest(s)
<1>4. Taken(s) \in s /\ r \in SUBSET S /\ r # s /\ r \subseteq s /\ IsFiniteSet(r)
  BY <1>2, <1>3, RestSmaller
<1>5. Total(f, s) = f[Taken(s)] + Total(f, r) /\ Total(g, s) = g[Taken(s)] + Total(g, r)
  BY <1>2, <1>3, TotalStep
<1> HIDE DEF r
<1>6. Total(f, r) \in Int /\ Total(g, r) \in Int
  BY <1>4, TotalType
<1>7. Total(f, r) <= Total(g, r)
  BY <1>1, <1>4
<1>8. f[Taken(s)] \in Int /\ g[Taken(s)] \in Int /\ f[Taken(s)] <= g[Taken(s)]
  BY <1>2, <1>4
<1> QED BY <1>1, <1>5, <1>6, <1>7, <1>8

\* The same values, the same sum.
LEMMA TotalSame ==
    ASSUME NEW S, IsFiniteSet(S), NEW f, NEW g, \A x \in S : f[x] \in Int /\ g[x] = f[x]
    PROVE  Total(f, S) = Total(g, S)
<1>1. Total(f, S) <= Total(g, S) /\ Total(g, S) <= Total(f, S)
  <2>1. \A x \in S : f[x] \in Int /\ g[x] \in Int /\ f[x] <= g[x] /\ g[x] <= f[x]
    OBVIOUS
  <2> QED BY <2>1, TotalLeq
<1>2. Total(f, S) \in Int /\ Total(g, S) \in Int
  BY TotalType
<1> QED BY <1>1, <1>2

\* One value changes: the sum changes by the difference.
LEMMA TotalUpdate ==
    ASSUME NEW S, IsFiniteSet(S), NEW f, NEW g, NEW b \in S,
           \A x \in S : f[x] \in Int /\ g[x] \in Int,
           \A x \in S \ {b} : g[x] = f[x]
    PROVE  Total(g, S) = Total(f, S) + g[b] - f[b]
<1> DEFINE r == S \ {b}
<1>1. IsFiniteSet(r) /\ \A x \in r : f[x] \in Int /\ g[x] = f[x]
  BY FS_Subset
<1>2. Total(f, S) = f[b] + Total(f, r) /\ Total(g, S) = g[b] + Total(g, r)
  BY TotalRemove
<1> HIDE DEF r
<1>3. Total(f, r) = Total(g, r) /\ Total(f, r) \in Int
  BY <1>1, TotalSame, TotalType
<1>4. f[b] \in Int /\ g[b] \in Int
  OBVIOUS
<1> QED BY <1>2, <1>3, <1>4

\* A sum of sums.
LEMMA TotalPlus ==
    ASSUME NEW S, IsFiniteSet(S), NEW f, NEW g, NEW h,
           \A x \in S : f[x] \in Int /\ g[x] \in Int /\ h[x] = f[x] + g[x]
    PROVE  Total(h, S) = Total(f, S) + Total(g, S)
<1> DEFINE T == {s \in SUBSET S : Total(h, s) # Total(f, s) + Total(g, s)}
<1> SUFFICES ASSUME T # {} PROVE FALSE
  OBVIOUS
<1>1. PICK s \in T : \A y \in T : ~(y \subseteq s /\ s # y)
  <2>1. T \in SUBSET (SUBSET S)
    OBVIOUS
  <2> HIDE DEF T
  <2> QED BY <2>1, LeastBad
<1>2. IsFiniteSet(s) /\ s \in SUBSET S
  BY <1>1, FS_Subset
<1>3. s # {}
  <2>1. Total(h, {}) = Total(f, {}) + Total(g, {})
    BY TotalEmpty
  <2> QED BY <1>1, <2>1
<1> DEFINE r == Rest(s)
<1>4. Taken(s) \in s /\ r \in SUBSET S /\ r # s /\ r \subseteq s /\ IsFiniteSet(r)
  BY <1>2, <1>3, RestSmaller
<1>5. /\ Total(f, s) = f[Taken(s)] + Total(f, r) /\ Total(g, s) = g[Taken(s)] + Total(g, r)
      /\ Total(h, s) = h[Taken(s)] + Total(h, r)
  BY <1>2, <1>3, TotalStep
<1> HIDE DEF r
<1>6. Total(f, r) \in Int /\ Total(g, r) \in Int
  BY <1>4, TotalType
<1>7. Total(h, r) = Total(f, r) + Total(g, r)
  BY <1>1, <1>4
<1>8. /\ f[Taken(s)] \in Int /\ g[Taken(s)] \in Int
      /\ h[Taken(s)] = f[Taken(s)] + g[Taken(s)]
  BY <1>2, <1>4
<1> QED BY <1>1, <1>5, <1>6, <1>7, <1>8

\* A sum over a part is a sum over the whole of values that are 0 outside it.
LEMMA TotalPart ==
    ASSUME NEW S, IsFiniteSet(S), NEW P \in SUBSET S, NEW f, NEW g,
           \A x \in P : f[x] \in Int /\ g[x] = f[x],
           \A x \in S \ P : g[x] = 0
    PROVE  Total(f, P) = Total(g, S)
<1> DEFINE T == {s \in SUBSET S : Total(f, s \cap P) # Total(g, s)}
<1>q. S \cap P = P
  OBVIOUS
<1> SUFFICES ASSUME T # {} PROVE FALSE
  <2>1. S \notin T => Total(f, S \cap P) = Total(g, S)
    OBVIOUS
  <2> QED BY <1>q, <2>1
<1>1. PICK s \in T : \A y \in T : ~(y \subseteq s /\ s # y)
  <2>1. T \in SUBSET (SUBSET S)
    OBVIOUS
  <2> HIDE DEF T
  <2> QED BY <2>1, LeastBad
<1>2. IsFiniteSet(s) /\ s \in SUBSET S
  BY <1>1, FS_Subset
<1>3. s # {}
  <2>1. Total(f, {} \cap P) = Total(g, {})
    <3>1. {} \cap P = {}
      OBVIOUS
    <3> QED BY <3>1, TotalEmpty
  <2> QED BY <1>1, <2>1
<1> DEFINE c == Taken(s)
           r == Rest(s)
<1>4. c \in s /\ r \in SUBSET S /\ r # s /\ r \subseteq s /\ r = s \ {c}
  BY <1>2, <1>3, RestSmaller DEF Rest
<1>5. Total(g, s) = g[c] + Total(g, r)
  BY <1>2, <1>3, TotalStep
<1> HIDE DEF c, r
<1>6. Total(f, r \cap P) = Total(g, r)
  BY <1>1, <1>4
<1>7. IsFiniteSet(s \cap P) /\ IsFiniteSet(r \cap P)
  BY <1>2, <1>4, FS_Subset
<1>8. CASE c \in P
  <2>1. (s \cap P) \ {c} = r \cap P /\ c \in s \cap P
    BY <1>4, <1>8
  <2>2. Total(f, s \cap P) = f[c] + Total(f, r \cap P)
    <3>1. \A x \in s \cap P : f[x] \in Int
      OBVIOUS
    <3> QED BY <1>7, <2>1, <3>1, TotalRemove
  <2> QED BY <1>1, <1>5, <1>6, <1>8, <2>2
<1>9. CASE c \notin P
  <2>1. s \cap P = r \cap P
    BY <1>4, <1>9
  <2>2. g[c] = 0
    BY <1>2, <1>4, <1>9
  <2>3. Total(f, r \cap P) \in Int
    BY <1>7, TotalType
  <2>4. Total(g, s) = Total(f, r \cap P)
    BY <1>5, <1>6, <2>2, <2>3
  <2> QED BY <1>1, <2>1, <2>4
<1> QED BY <1>8, <1>9

=============================================================================
