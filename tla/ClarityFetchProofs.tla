--------------------------- MODULE ClarityFetchProofs ---------------------------
(***************************************************************************)
(* Proofs about the Clarity fetch, for any finite set of runs, any settings  *)
(* without repetitions, any budget and any number of days.                  *)
(***************************************************************************)
EXTENDS ClarityFetch, FiniteSetTheorems, SequenceTheorems, WellFoundedInduction, TLAPS

-----------------------------------------------------------------------------
(* Sums over finite sets.                                                  *)

Total(a, S) == MapThenSumSet(LAMBDA x : a[x], S)

\* The function MapThenSumSet sums with, and what it is defined by.
First(s) == CHOOSE x \in s : TRUE
Sums(a, S, f) ==
  f = [s \in SUBSET S |-> IF s = {} THEN 0 ELSE a[First(s)] + f[s \ {First(s)}]]

LEMMA TotalIsASum ==
  ASSUME NEW a, NEW S
  PROVE  Total(a, S) = (CHOOSE f : Sums(a, S, f))[S]
BY DEF Total, MapThenSumSet, MapThenFoldSet, Sums, First

LEMMA FirstIn ==
  ASSUME NEW s, s # {}
  PROVE  First(s) \in s /\ s \ {First(s)} \subseteq s /\ s \ {First(s)} # s
BY DEF First

\* A family of subsets of a finite set has a least one.
LEMMA Smallest ==
  ASSUME NEW S, IsFiniteSet(S), NEW F, F \subseteq SUBSET S, F # {}
  PROVE  \E X \in F : \A Y \in F : Y \subseteq X => Y = X
<1>1. F \subseteq FiniteSubsetsOf(S)
  BY FS_FiniteSubsetsOfFinite
<1>2. PICK X \in F : \A Y \in F : ~(<<Y, X>> \in StrictSubsetOrdering(S))
  BY <1>1, WFMin, FS_StrictSubsetOrderingWellFounded
<1> QED BY <1>2 DEF StrictSubsetOrdering

\* Two such functions agree wherever both are defined.
LEMMA SumsAgree ==
  ASSUME NEW a, NEW S, IsFiniteSet(S), NEW T, NEW f, NEW g, Sums(a, S, f), Sums(a, T, g),
         NEW X \in SUBSET S, X \in SUBSET T
  PROVE  f[X] = g[X]
<1> SUFFICES ASSUME f[X] # g[X] PROVE FALSE
  OBVIOUS
<1> DEFINE F == {s \in SUBSET S : s \in SUBSET T /\ f[s] # g[s]}
<1>1. PICK s \in F : \A r \in F : r \subseteq s => r = s
  <2>1. F \subseteq SUBSET S /\ F # {}
    OBVIOUS
  <2> HIDE DEF F
  <2> QED BY <2>1, Smallest
<1>2. CASE s = {}
  BY <1>1, <1>2 DEF Sums
<1>3. CASE s # {}
  <2> DEFINE r == s \ {First(s)}
  <2>1. r \in SUBSET S /\ r \in SUBSET T /\ r \subseteq s /\ r # s
    BY <1>3, FirstIn
  <2>2. f[r] = g[r]
    BY <1>1, <2>1
  <2>3. f[s] = a[First(s)] + f[r] /\ g[s] = a[First(s)] + g[r]
    BY <1>1, <1>3 DEF Sums
  <2> QED BY <1>1, <2>2, <2>3
<1> QED BY <1>2, <1>3

\* There is one, with natural numbers as values.
LEMMA SumsExist ==
  ASSUME NEW S, IsFiniteSet(S), NEW a, \A x \in S : a[x] \in Nat
  PROVE  \E f \in [SUBSET S -> Nat] : Sums(a, S, f)
<1> DEFINE P(X) == \E f \in [SUBSET X -> Nat] : Sums(a, X, f)
           F == {X \in SUBSET S : ~P(X)}
<1> SUFFICES ASSUME ~P(S) PROVE FALSE
  OBVIOUS
<1>1. PICK X \in F : \A Y \in F : Y \subseteq X => Y = X
  <2>1. F \subseteq SUBSET S /\ F # {}
    OBVIOUS
  <2> HIDE DEF F
  <2> QED BY <2>1, Smallest
<1>2. X \in SUBSET S /\ ~P(X) /\ \A Y \in SUBSET X : Y # X => P(Y)
  BY <1>1
<1> HIDE DEF F
<1> DEFINE of(Y) == CHOOSE f \in [SUBSET Y -> Nat] : Sums(a, Y, f)
<1>3. \A Y \in SUBSET X : Y # X => of(Y) \in [SUBSET Y -> Nat] /\ Sums(a, Y, of(Y))
  BY <1>2
<1> HIDE DEF of
<1>f. \A Y \in SUBSET X : IsFiniteSet(Y)
  BY <1>2, FS_Subset
<1>x. \A x \in X : a[x] \in Nat
  BY <1>2
<1> DEFINE v(s) == IF s = {} THEN 0 ELSE a[First(s)] + of(s \ {First(s)})[s \ {First(s)}]
           f == [s \in SUBSET X |-> v(s)]
<1>4. ASSUME NEW s \in SUBSET X
      PROVE  v(s) \in Nat /\ (s # X => v(s) = of(s)[s])
  <2>1. CASE s = {}
    BY <1>3, <2>1 DEF Sums
  <2>2. CASE s # {}
    <3> DEFINE r == s \ {First(s)}
    <3>1. r \in SUBSET s /\ r \in SUBSET X /\ r # X /\ First(s) \in X
      BY <2>2, FirstIn
    <3>2. of(r)[r] \in Nat
      <4> HIDE DEF r
      <4>1. of(r) \in [SUBSET r -> Nat]
        BY <1>3, <3>1
      <4> QED BY <4>1
    <3>3. v(s) = a[First(s)] + of(r)[r]
      BY <2>2
    <3>4. v(s) \in Nat
      BY <1>x, <3>1, <3>2, <3>3
    <3>5. ASSUME s # X PROVE v(s) = of(s)[s]
      <4>1. Sums(a, s, of(s)) /\ Sums(a, r, of(r))
        BY <1>3, <3>1, <3>5
      <4>2. of(s)[r] = of(r)[r]
        <5>1. IsFiniteSet(s) /\ r \in SUBSET s /\ r \in SUBSET r
          BY <1>f, <3>1
        <5> HIDE DEF v, r
        <5> QED BY <5>1, <4>1, SumsAgree
      <4>3. of(s)[s] = a[First(s)] + of(s)[r]
        BY <2>2, <4>1 DEF Sums
      <4> QED BY <3>3, <4>2, <4>3
    <3> QED BY <3>4, <3>5
  <2> QED BY <2>1, <2>2
<1>5. f \in [SUBSET X -> Nat]
  <2> HIDE DEF v
  <2> QED BY <1>4
<1>6. \A s \in SUBSET X : f[s] = IF s = {} THEN 0 ELSE a[First(s)] + f[s \ {First(s)}]
  <2> SUFFICES ASSUME NEW s \in SUBSET X
               PROVE  f[s] = IF s = {} THEN 0 ELSE a[First(s)] + f[s \ {First(s)}]
    OBVIOUS
  <2>1. CASE s = {}
    BY <2>1
  <2>2. CASE s # {}
    <3> DEFINE r == s \ {First(s)}
    <3>1. r \in SUBSET X /\ r # X
      BY <2>2, FirstIn
    <3>2. f[r] = of(r)[r]
      <4> HIDE DEF v
      <4>1. f[r] = v(r)
        BY <3>1
      <4> QED BY <1>4, <3>1, <4>1
    <3>3. f[s] = a[First(s)] + of(r)[r]
      BY <2>2
    <3> QED BY <2>2, <3>2, <3>3
  <2> QED BY <2>1, <2>2
<1>7. Sums(a, X, f)
  <2> HIDE DEF v
  <2> QED BY <1>6 DEF Sums
<1> QED BY <1>2, <1>5, <1>7

\* The sum over a finite set, taken one element after the other.
LEMMA TotalUnfolds ==
  ASSUME NEW S, IsFiniteSet(S), NEW a, \A x \in S : a[x] \in Nat
  PROVE  /\ Total(a, S) \in Nat
         /\ S = {} => Total(a, S) = 0
         /\ S # {} => Total(a, S) = a[First(S)] + Total(a, S \ {First(S)})
<1> DEFINE f == CHOOSE g : Sums(a, S, g)
<1>1. Sums(a, S, f)
  BY SumsExist
<1>2. PICK h \in [SUBSET S -> Nat] : Sums(a, S, h)
  BY SumsExist
<1>3. f[S] = h[S]
  <2> HIDE DEF f
  <2>1. S \in SUBSET S
    OBVIOUS
  <2> QED BY <1>1, <1>2, <2>1, SumsAgree
<1>4. Total(a, S) = f[S]
  BY TotalIsASum
<1>5. ASSUME S # {}
      PROVE  f[S] = a[First(S)] + Total(a, S \ {First(S)})
  <2> DEFINE T == S \ {First(S)}
             g == CHOOSE k : Sums(a, T, k)
  <2>1. T \in SUBSET S /\ T \in SUBSET T /\ IsFiniteSet(T)
    BY FS_Subset
  <2>2. Sums(a, T, g)
    <3>1. \A x \in T : a[x] \in Nat
      BY <2>1
    <3> HIDE DEF T
    <3> QED BY <2>1, <3>1, SumsExist
  <2>3. f[T] = g[T]
    <3>1. T \in SUBSET S /\ T \in SUBSET T
      BY <2>1
    <3> HIDE DEF f, g, T
    <3> QED BY <1>1, <2>2, <3>1, SumsAgree
  <2>4. Total(a, T) = g[T]
    BY TotalIsASum
  <2>5. f[S] = a[First(S)] + f[T]
    <3> HIDE DEF f
    <3> QED BY <1>1, <1>5 DEF Sums
  <2> QED BY <2>3, <2>4, <2>5
<1>6. S = {} => f[S] = 0
  <2> HIDE DEF f
  <2> QED BY <1>1 DEF Sums
<1>7. f[S] \in Nat
  BY <1>2, <1>3
<1> HIDE DEF f
<1> QED BY <1>4, <1>5, <1>6, <1>7

\* ... in any order.
LEMMA TotalRemove ==
  ASSUME NEW S, IsFiniteSet(S), NEW a, \A x \in S : a[x] \in Nat, NEW y \in S
  PROVE  Total(a, S) = a[y] + Total(a, S \ {y})
<1> DEFINE P(X) == \A x \in X : Total(a, X) = a[x] + Total(a, X \ {x})
           F == {X \in SUBSET S : ~P(X)}
<1> SUFFICES ASSUME ~P(S) PROVE FALSE
  OBVIOUS
<1>1. PICK X \in F : \A Y \in F : Y \subseteq X => Y = X
  <2>1. F \subseteq SUBSET S /\ F # {}
    OBVIOUS
  <2> HIDE DEF F
  <2> QED BY <2>1, Smallest
<1>2. X \in SUBSET S /\ \A Y \in SUBSET X : Y # X => P(Y)
  BY <1>1
<1>3. PICK x \in X : Total(a, X) # a[x] + Total(a, X \ {x})
  BY <1>1
<1> HIDE DEF F
<1>t. \A Y \in SUBSET X : /\ IsFiniteSet(Y) /\ Total(a, Y) \in Nat
                          /\ Y # {} => Total(a, Y) = a[First(Y)] + Total(a, Y \ {First(Y)})
  <2> SUFFICES ASSUME NEW Y \in SUBSET X
               PROVE  /\ IsFiniteSet(Y) /\ Total(a, Y) \in Nat
                      /\ Y # {} => Total(a, Y) = a[First(Y)] + Total(a, Y \ {First(Y)})
    OBVIOUS
  <2>1. IsFiniteSet(Y) /\ \A z \in Y : a[z] \in Nat
    BY <1>2, FS_Subset
  <2> QED BY <2>1, TotalUnfolds
<1> DEFINE p == First(X)
<1>4. p \in X /\ Total(a, X) = a[p] + Total(a, X \ {p})
  BY <1>3, <1>t, FirstIn
<1> HIDE DEF p
<1>5. x # p
  BY <1>3, <1>4
<1>6. Total(a, X \ {p}) = a[x] + Total(a, (X \ {p}) \ {x})
  <2>1. X \ {p} \in SUBSET X /\ X \ {p} # X /\ x \in X \ {p}
    BY <1>4, <1>5
  <2> QED BY <1>2, <2>1
<1>7. Total(a, X \ {x}) = a[p] + Total(a, (X \ {x}) \ {p})
  <2>1. X \ {x} \in SUBSET X /\ X \ {x} # X /\ p \in X \ {x}
    BY <1>4, <1>5
  <2> QED BY <1>2, <2>1
<1>8. (X \ {x}) \ {p} = (X \ {p}) \ {x}
  OBVIOUS
<1>9. a[x] \in Nat /\ a[p] \in Nat
  BY <1>2, <1>4
<1>10. Total(a, (X \ {p}) \ {x}) \in Nat
  <2>1. (X \ {p}) \ {x} \in SUBSET X
    OBVIOUS
  <2> QED BY <1>t, <2>1
<1> HIDE DEF P
<1> QED BY <1>3, <1>4, <1>6, <1>7, <1>8, <1>9, <1>10

\* A subset sums to no more, and equal summands to the same.
LEMMA TotalMonotone ==
  ASSUME NEW S, IsFiniteSet(S), NEW a, \A x \in S : a[x] \in Nat, NEW R \in SUBSET S
  PROVE  Total(a, R) <= Total(a, S)
<1> DEFINE P(X) == R \subseteq X => Total(a, R) <= Total(a, X)
           F == {X \in SUBSET S : ~P(X)}
<1> SUFFICES ASSUME ~P(S) PROVE FALSE
  OBVIOUS
<1>1. PICK X \in F : \A Y \in F : Y \subseteq X => Y = X
  <2>1. F \subseteq SUBSET S /\ F # {}
    OBVIOUS
  <2> HIDE DEF F
  <2> QED BY <2>1, Smallest
<1>2. X \in SUBSET S /\ R \subseteq X /\ ~(Total(a, R) <= Total(a, X))
      /\ \A Y \in SUBSET X : Y # X => P(Y)
  BY <1>1
<1> HIDE DEF F
<1>3. \A Y \in SUBSET S : Total(a, Y) \in Nat /\ IsFiniteSet(Y)
  BY FS_Subset, TotalUnfolds
<1>4. PICK y \in X : y \notin R
  <2>1. Total(a, X) \in Nat
    BY <1>2, <1>3
  <2>2. X # R
    BY <1>2, <2>1
  <2> QED BY <1>2, <2>2
<1>5. Total(a, R) <= Total(a, X \ {y})
  <2>1. X \ {y} \in SUBSET X /\ X \ {y} # X /\ R \subseteq X \ {y}
    BY <1>2, <1>4
  <2> QED BY <1>2, <2>1
<1>6. Total(a, X) = a[y] + Total(a, X \ {y}) /\ a[y] \in Nat
  BY <1>2, <1>3, <1>4, TotalRemove
<1>7. X \ {y} \in SUBSET S
  BY <1>2
<1> QED BY <1>2, <1>3, <1>5, <1>6, <1>7

LEMMA TotalSame ==
  ASSUME NEW S, IsFiniteSet(S), NEW a, NEW b, \A x \in S : a[x] \in Nat /\ b[x] = a[x]
  PROVE  Total(b, S) = Total(a, S)
<1> DEFINE P(X) == Total(b, X) = Total(a, X)
           F == {X \in SUBSET S : ~P(X)}
<1> SUFFICES ASSUME ~P(S) PROVE FALSE
  OBVIOUS
<1>1. PICK X \in F : \A Y \in F : Y \subseteq X => Y = X
  <2>1. F \subseteq SUBSET S /\ F # {}
    OBVIOUS
  <2> HIDE DEF F
  <2> QED BY <2>1, Smallest
<1>2. X \in SUBSET S /\ ~P(X) /\ \A Y \in SUBSET X : Y # X => P(Y)
  BY <1>1
<1> HIDE DEF F
<1>3. IsFiniteSet(X) /\ \A x \in X : a[x] \in Nat /\ b[x] \in Nat /\ b[x] = a[x]
  BY <1>2, FS_Subset
<1>4. X # {}
  BY <1>2, <1>3, TotalUnfolds
<1> DEFINE Y == X \ {First(X)}
<1>5. Total(b, Y) = Total(a, Y) /\ First(X) \in X
  BY <1>2, <1>4, FirstIn
<1>6. Total(a, X) = a[First(X)] + Total(a, Y)
  BY <1>3, <1>4, TotalUnfolds
<1>7. Total(b, X) = b[First(X)] + Total(b, Y)
  BY <1>3, <1>4, TotalUnfolds
<1> QED BY <1>2, <1>3, <1>5, <1>6, <1>7

-----------------------------------------------------------------------------
(* Types.                                                                  *)

LEMMA PlanTyped ==
  ASSUME NEW s \in Configs
  PROVE  /\ s \in Seq(Combos) /\ Len(s) \in Nat /\ Len(s) > 0
         /\ \A i \in 1..Len(s) : s[i] \in Combos
         /\ \A i, j \in 1..Len(s) : s[i] = s[j] => i = j
<1>1. s \in Seq(Combos) /\ s # <<>>
  BY ConfigsAssumption
<1>2. Len(s) # 0
  BY <1>1, EmptySeq
<1> QED BY <1>1, <1>2, ConfigsAssumption

\* The requests of a set of runs, and what plan_combos makes of them.
LEMMA RequestsTyped ==
  ASSUME TypeOK, NEW S \in SUBSET Runs
  PROVE  /\ Requests(S) = Total(attempted, S) /\ Requests(S) \in Nat
         /\ IsFiniteSet(S) /\ \A r \in S : attempted[r] \in Nat
<1>1. IsFiniteSet(S)
  BY RunsAssumption, FS_Subset
<1>2. \A r \in S : attempted[r] \in Nat
  BY DEF TypeOK
<1>3. Requests(S) = Total(attempted, S)
  BY DEF Requests, Total
<1> QED BY <1>1, <1>2, <1>3, TotalUnfolds

LEMMA QuotaIs ==
  ASSUME NEW n \in Nat, NEW u \in Nat
  PROVE  LET m == Min({n, Max({0, Budget - u})})
         IN  m \in Nat /\ m <= n /\ (m = 0 \/ m + u <= Budget)
<1> DEFINE k == Budget - u  l == Max({0, k})  m == Min({n, l})
<1>1. k \in Int
  BY BudgetAssumption
<1>2. l \in {0, k} /\ l >= 0 /\ l >= k
  <2> HIDE DEF k
  <2>1. \E x \in {0, k} : \A y \in {0, k} : x >= y
    BY <1>1
  <2> QED BY <1>1, <2>1 DEF Max
<1>3. l \in Nat
  BY <1>1, <1>2
<1>4. m \in {n, l} /\ m <= n /\ m <= l
  <2> HIDE DEF l
  <2>1. \E x \in {n, l} : \A y \in {n, l} : x <= y
    BY <1>3
  <2> QED BY <1>3, <2>1 DEF Min
<1>5. m \in Nat
  BY <1>3, <1>4
<1>6. m = 0 \/ m + u <= Budget
  <2>1. CASE l = 0
    <3> HIDE DEF l, m
    <3> QED BY <1>4, <1>5, <2>1
  <2>2. CASE l = k
    <3>1. m <= Budget - u
      BY <1>4, <2>2
    <3> HIDE DEF l, m
    <3> QED BY <1>5, <3>1, BudgetAssumption
  <2> QED BY <1>2, <2>1, <2>2
<1> QED BY <1>4, <1>5, <1>6

LEMMA InitTyped == Init => TypeOK
<1> SUFFICES ASSUME Init PROVE TypeOK
  OBVIOUS
<1>1. LastDay \in Nat /\ LastDay > 0 /\ 1 \in Days /\ {1, 2} \subseteq Days \cup {LastDay + 1}
  BY BudgetAssumption DEF Days
<1>2. plan \in [Runs -> Configs]
  <2>1. (CHOOSE s \in Configs : TRUE) \in Configs
    BY ConfigsAssumption
  <2> QED BY <2>1 DEF Init
<1>3. quota \in [Runs -> Nat]
  <2>1. \A r \in Runs : Len(plan[r]) \in Nat
    BY <1>2, PlanTyped
  <2> QED BY <2>1 DEF Init
<1>4. stored \subseteq Runs \X Combos
  BY PastAssumption DEF Init
<1>5. date \in [Runs -> Days \cup {LastDay + 1}]
  BY <1>1 DEF Init
<1>6. day \in Days /\ born \in [Runs -> Days] /\ counted \in [Runs -> Days]
  BY <1>1 DEF Init
<1>7. attempted \in [Runs -> Nat]
  BY <1>3 DEF Init
<1>8. result \in [Runs -> [Combos -> {"none", "success", "error"}]]
  BY DEF Init
<1>9. status \in [Runs -> {"running", "success", "partial", "failed"}]
  BY DEF Init
<1>10. /\ pc \in [Runs -> {"new", "count", "find", "lock", "get", "retry", "commit", "done", "failed"}]
       /\ target \in [Runs -> SUBSET (Runs \X Combos)] /\ doomed \in [Runs -> SUBSET (Runs \X Combos)]
       /\ saw \in [Runs -> SUBSET Runs]
  BY DEF Init
<1> QED BY <1>2, <1>3, <1>4, <1>5, <1>6, <1>7, <1>8, <1>9, <1>10 DEF TypeOK

\* The combination a run is working on.
LEMMA CurrentCombo ==
  ASSUME TypeOK, NEW r \in Runs, NEW i \in 1..Len(plan[r])
  PROVE  Combo(r, i) \in Combos
BY PlanTyped DEF TypeOK, Combo

LEMMA TypeStep == TypeOK /\ BudgetInv /\ [Next]_vars => TypeOK'
<1> SUFFICES ASSUME TypeOK, BudgetInv, [Next]_vars PROVE TypeOK'
  OBVIOUS
<1> USE DEF facts, budget, answers, rows
<1>1. CASE Midnight
  <2>1. day' \in Days
    BY <1>1, BudgetAssumption DEF Midnight, TypeOK, Days
  <2>2. UNCHANGED <<pc, plan, born, counted, date, quota, saw, attempted, result, status,
                    target, doomed, stored>>
    BY <1>1 DEF Midnight
  <2> QED BY <2>1, <2>2 DEF TypeOK
<1>2. ASSUME NEW r \in Runs, Begin(r) PROVE TypeOK'
  BY <1>2 DEF Begin, TypeOK, Goto
<1>3. ASSUME NEW r \in Runs, Count(r) PROVE TypeOK'
  <2>1. date' \in [Runs -> Days \cup {LastDay + 1}]
    <3>1. \A d \in Yesterdays : d \in Days \cup {LastDay + 1}
      BY BudgetAssumption DEF Yesterdays, TypeOK, Days
    <3> QED BY <1>3, <3>1 DEF Count, TypeOK
  <2>2. quota' \in [Runs -> Nat]
    <3>1. Len(plan[r]) \in Nat
      BY PlanTyped DEF TypeOK
    <3>2. Used(day) \in Nat
      BY RequestsTyped DEF Used, Logged
    <3>3. Min({Len(plan[r]), Max({0, Budget - Used(day)})}) \in Nat
      BY <3>1, <3>2, QuotaIs
    <3> QED BY <1>3, <3>3 DEF Count, TypeOK
  <2>3. saw' \in [Runs -> SUBSET Runs] /\ counted' \in [Runs -> Days]
    BY <1>3 DEF Count, TypeOK, Logged
  <2>4. pc' \in [Runs -> {"new", "count", "find", "lock", "get", "retry", "commit", "done", "failed"}]
    <3>1. Goto(r, "commit") \/ Goto(r, "find")
      BY <1>3 DEF Count
    <3> QED BY <3>1 DEF TypeOK, Goto
  <2>5. status' \in [Runs -> {"running", "success", "partial", "failed"}]
    <3>1. status' = [status EXCEPT ![r] = "failed"] \/ UNCHANGED status
      BY <1>3 DEF Count
    <3> QED BY <3>1 DEF TypeOK
  <2> QED BY <1>3, <2>1, <2>2, <2>3, <2>4, <2>5 DEF Count, TypeOK
<1>4. ASSUME NEW r \in Runs, FindOld(r) PROVE TypeOK'
  <2>1. target' \in [Runs -> SUBSET (Runs \X Combos)]
    BY <1>4 DEF FindOld, TypeOK
  <2>2. attempted' \in [Runs -> Nat]
    BY <1>4 DEF FindOld, TypeOK
  <2> QED BY <1>4, <2>1, <2>2 DEF FindOld, TypeOK, Goto
<1>5. ASSUME NEW r \in Runs, LockOld(r) PROVE TypeOK'
  BY <1>5 DEF LockOld, TypeOK, Goto
<1>6. ASSUME NEW r \in Runs, Get(r) \/ Retry(r) PROVE TypeOK'
  <2>1. ASSUME NEW o \in {"success", "error"}, NEW fatal \in BOOLEAN, Answer(r, o, fatal),
               UNCHANGED <<day, facts, budget, attempted, rows>>
        PROVE  TypeOK'
    <3>1. result' \in [Runs -> [Combos -> {"none", "success", "error"}]]
      BY <2>1 DEF Answer, TypeOK
    <3>2. /\ pc' \in [Runs -> {"new", "count", "find", "lock", "get", "retry", "commit", "done", "failed"}]
          /\ status' \in [Runs -> {"running", "success", "partial", "failed"}]
      BY <2>1 DEF Answer, TypeOK, Goto, Report
    <3> QED BY <2>1, <3>1, <3>2 DEF TypeOK
  <2>2. CASE Goto(r, "retry") /\ UNCHANGED <<result, status, day, facts, budget, attempted, rows>>
    BY <2>2 DEF Goto, TypeOK
  <2> QED BY <1>6, <2>1, <2>2 DEF Get, Retry
<1>7. ASSUME NEW r \in Runs, Commit(r) PROVE TypeOK'
  <2>1. stored' \subseteq Runs \X Combos
    BY <1>7 DEF Commit, TypeOK, Fetched
  <2> QED BY <1>7, <2>1 DEF Commit, TypeOK, Goto
<1>8. ASSUME NEW r \in Runs, Fail(r) PROVE TypeOK'
  <2>1. result' \in [Runs -> [Combos -> {"none", "success", "error"}]]
    <3>1. [c \in Combos |-> "none"] \in [Combos -> {"none", "success", "error"}]
      OBVIOUS
    <3> QED BY <1>8, <3>1 DEF Fail, TypeOK
  <2>2. attempted' \in [Runs -> Nat]
    BY <1>8 DEF Fail, TypeOK
  <2> QED BY <1>8, <2>1, <2>2 DEF Fail, TypeOK, Goto
<1>9. CASE UNCHANGED vars
  BY <1>9 DEF vars, TypeOK
<1> QED BY <1>1, <1>2, <1>3, <1>4, <1>5, <1>6, <1>7, <1>8, <1>9 DEF Next, Step

-----------------------------------------------------------------------------
(* A step is of one run: the others, and what is logged, stay as they are. *)

RunStep(r) == Begin(r) \/ Step(r) \/ Fail(r)

Same(q) ==
  /\ pc'[q] = pc[q] /\ plan'[q] = plan[q] /\ born'[q] = born[q] /\ counted'[q] = counted[q]
  /\ date'[q] = date[q] /\ quota'[q] = quota[q] /\ attempted'[q] = attempted[q]
  /\ result'[q] = result[q] /\ status'[q] = status[q] /\ target'[q] = target[q]
  /\ doomed'[q] = doomed[q] /\ saw'[q] = saw[q]

LEMMA OthersSame ==
  ASSUME TypeOK, NEW r \in Runs, RunStep(r), NEW q \in Runs \ {r}
  PROVE  Same(q)
<1> USE DEF Same, TypeOK, Goto, facts, budget, answers, rows
<1>1. CASE Begin(r)
  BY <1>1 DEF Begin
<1>2. CASE Count(r)
  BY <1>2 DEF Count
<1>3. CASE FindOld(r)
  BY <1>3 DEF FindOld
<1>4. CASE LockOld(r)
  BY <1>4 DEF LockOld
<1>5. CASE Get(r) \/ Retry(r)
  <2>1. ASSUME NEW o, NEW fatal, Answer(r, o, fatal)
        PROVE  pc'[q] = pc[q] /\ result'[q] = result[q] /\ status'[q] = status[q]
    BY <2>1 DEF Answer
  <2> QED BY <1>5, <2>1 DEF Get, Retry
<1>6. CASE Commit(r)
  BY <1>6 DEF Commit
<1>7. CASE Fail(r)
  BY <1>7 DEF Fail
<1> QED BY <1>1, <1>2, <1>3, <1>4, <1>5, <1>6, <1>7 DEF RunStep, Step

LEMMA AnyStep ==
  ASSUME TypeOK, [Next]_vars
  PROVE  \/ \E r \in Runs : RunStep(r)
         \/ stored' = stored /\ \A q \in Runs : Same(q)
<1>1. CASE Midnight \/ UNCHANGED vars
  BY <1>1 DEF Midnight, vars, Same, facts, budget, answers, rows
<1> QED BY <1>1 DEF Next, RunStep

\* A run that takes a step is not done; only its commit makes it done.
LEMMA NotDone ==
  ASSUME TypeOK, NEW r \in Runs, RunStep(r)
  PROVE  pc[r] # "done" /\ (pc'[r] = "done" => Commit(r))
<1> USE DEF TypeOK, Goto
<1>1. CASE Begin(r)
  BY <1>1 DEF Begin
<1>2. CASE Count(r)
  BY <1>2 DEF Count
<1>3. CASE FindOld(r)
  BY <1>3 DEF FindOld
<1>4. CASE LockOld(r)
  BY <1>4 DEF LockOld
<1>5. CASE Get(r) \/ Retry(r)
  <2>1. pc[r] # "done"
    BY <1>5 DEF Get, Retry
  <2>2. ASSUME NEW o, NEW fatal, Answer(r, o, fatal)
        PROVE  pc'[r] # "done"
    BY <2>2 DEF Answer
  <2>3. pc'[r] # "done"
    BY <1>5, <2>2 DEF Get, Retry
  <2> QED BY <2>1, <2>3
<1>6. CASE Commit(r)
  BY <1>6 DEF Commit
<1>7. CASE Fail(r)
  BY <1>7 DEF Fail, Active
<1> QED BY <1>1, <1>2, <1>3, <1>4, <1>5, <1>6, <1>7 DEF RunStep, Step

\* What is logged stays logged, with all there is to know of it.
LEMMA LoggedStays ==
  ASSUME TypeOK, [Next]_vars, NEW q \in Logged
  PROVE  q \in Runs /\ q \in Logged' /\ Same(q)
<1>1. q \in Runs /\ pc[q] = "done"
  BY DEF Logged
<1>2. ASSUME NEW r \in Runs, RunStep(r) PROVE q # r
  BY <1>1, <1>2, NotDone
<1>3. Same(q)
  BY <1>1, <1>2, AnyStep, OthersSame
<1> QED BY <1>1, <1>3 DEF Logged, Same

\* Only a commit logs a run, and only it stores or removes anything.
LEMMA OnlyCommitLogs ==
  ASSUME TypeOK, NEW r \in Runs, RunStep(r), ~Commit(r)
  PROVE  stored' = stored /\ Logged' = Logged
<1>1. stored' = stored
  BY DEF RunStep, Step, Begin, Count, FindOld, LockOld, Get, Retry, Fail, rows
<1>2. pc[r] # "done" /\ pc'[r] # "done"
  BY NotDone
<1>3. \A q \in Runs \ {r} : pc'[q] = pc[q]
  BY OthersSame DEF Same
<1> QED BY <1>1, <1>2, <1>3 DEF Logged

LEMMA CommitLogs ==
  ASSUME TypeOK, NEW r \in Runs, Commit(r)
  PROVE  /\ Logged' = Logged \cup {r} /\ r \notin Logged
         /\ pc'[r] = "done" /\ doomed'[r] = {} /\ stored' = (stored \ doomed[r]) \cup Fetched(r)
         /\ plan'[r] = plan[r] /\ born'[r] = born[r] /\ counted'[r] = counted[r] /\ date'[r] = date[r]
         /\ quota'[r] = quota[r] /\ attempted'[r] = attempted[r] /\ result'[r] = result[r]
         /\ status'[r] = status[r] /\ target'[r] = target[r] /\ saw'[r] = saw[r]
<1>1. \A q \in Runs \ {r} : pc'[q] = pc[q]
  BY OthersSame DEF Same, RunStep, Step
<1>2. pc'[r] = "done" /\ doomed'[r] = {} /\ pc[r] = "commit"
  BY DEF Commit, Goto, TypeOK
<1>3. Logged' = Logged \cup {r} /\ r \notin Logged
  BY <1>1, <1>2 DEF Logged
<1> QED BY <1>2, <1>3 DEF Commit, facts, budget, answers

-----------------------------------------------------------------------------
(* The budget.                                                             *)

Seen(r) == {q \in saw[r] : born[q] >= counted[r]}

Pace(r) ==
  /\ pc[r] \in {"new", "count", "failed"} => attempted[r] = 0
  /\ pc[r] \in {"new", "count"} => quota[r] = 0 /\ saw[r] = {}
  /\ pc[r] \in {"lock", "get", "retry"} => attempted[r] > 0
  /\ pc[r] = "find" => attempted[r] < quota[r]
  /\ attempted[r] <= quota[r] /\ quota[r] <= Len(plan[r])

Within(r) == quota[r] = 0 \/ quota[r] + Total(attempted, Seen(r)) <= Budget

Paced == \A r \in Runs : Pace(r) /\ Within(r)

LEMMA BudgetParts == BudgetInv <=> Paced
BY DEF Paced, BudgetInv, Pace, Within, Seen, Requests, Total

\* What a run has seen does not change any more.
LEMMA SeenStays ==
  ASSUME TypeOK, SawInv, [Next]_vars, NEW q \in Runs,
         saw'[q] = saw[q], counted'[q] = counted[q]
  PROVE  Seen(q)' = Seen(q) /\ Total(attempted', Seen(q)) = Total(attempted, Seen(q))
<1>1. Seen(q) \subseteq Logged /\ saw[q] \subseteq Logged
  BY DEF Seen, SawInv
<1>2. \A p \in Logged : born'[p] = born[p] /\ attempted'[p] = attempted[p]
  BY LoggedStays DEF Same
<1>3. Seen(q)' = Seen(q)
  BY <1>1, <1>2 DEF Seen
<1>4. IsFiniteSet(Seen(q)) /\ \A p \in Seen(q) : attempted[p] \in Nat /\ attempted'[p] = attempted[p]
  <2>1. Seen(q) \in SUBSET Runs
    BY <1>1 DEF Logged
  <2> QED BY <1>1, <1>2, <2>1, RequestsTyped
<1>5. Total(attempted', Seen(q)) = Total(attempted, Seen(q))
  <2> DEFINE S == Seen(q)  a == attempted  b == attempted'
  <2>1. IsFiniteSet(S) /\ \A p \in S : a[p] \in Nat /\ b[p] = a[p]
    BY <1>4
  <2> HIDE DEF S, a, b
  <2>2. Total(b, S) = Total(a, S)
    BY <2>1, TotalSame
  <2> QED BY <2>2 DEF S, a, b
<1> QED BY <1>3, <1>5

LEMMA SawStep == TypeOK /\ BudgetInv /\ SawInv /\ [Next]_vars => SawInv'
<1> SUFFICES ASSUME TypeOK, BudgetInv, SawInv, [Next]_vars PROVE SawInv'
  OBVIOUS
<1>1. Logged \subseteq Logged' /\ \A p \in Logged : saw'[p] = saw[p]
  BY LoggedStays DEF Same
<1>2. ASSUME NEW q \in Runs, saw'[q] = saw[q]
      PROVE  q \notin saw'[q] /\ saw'[q] \subseteq Logged' /\ \A p \in saw'[q] : saw'[p] \subseteq saw'[q]
  BY <1>1, <1>2 DEF SawInv
<1>3. ASSUME NEW r \in Runs, Count(r)
      PROVE  r \notin saw'[r] /\ saw'[r] \subseteq Logged' /\ \A p \in saw'[r] : saw'[p] \subseteq saw'[r]
  <2>1. saw'[r] = Logged /\ r \notin Logged
    BY <1>3 DEF Count, TypeOK, Logged
  <2>2. \A p \in Logged : p \in Runs /\ saw[p] \subseteq Logged
    BY DEF SawInv, Logged
  <2> QED BY <1>1, <2>1, <2>2
<1>4. ASSUME NEW q \in Runs, saw'[q] # saw[q]
      PROVE  Count(q)
  <2>1. PICK r \in Runs : RunStep(r)
    BY <1>4, AnyStep DEF Same
  <2>2. q = r
    BY <1>4, <2>1, OthersSame DEF Same
  <2> QED BY <1>4, <2>1, <2>2
           DEF RunStep, Step, Begin, FindOld, LockOld, Get, Retry, Commit, Fail, budget
<1> QED BY <1>2, <1>3, <1>4 DEF SawInv

\* Every step keeps its run's pace ...
LEMMA PaceStep ==
  ASSUME TypeOK, [Next]_vars, NEW q \in Runs, Pace(q)
  PROVE  Pace(q)'
<1> USE DEF TypeOK, Goto, facts, budget, answers, rows
<1>n. /\ quota[q] \in Nat /\ attempted[q] \in Nat /\ Len(plan[q]) \in Nat
      /\ attempted[q] <= quota[q] /\ quota[q] <= Len(plan[q])
  BY PlanTyped DEF Pace
<1>0. CASE Same(q)
  BY <1>0 DEF Same, Pace
<1>1. CASE Begin(q)
  <2>1. attempted[q] = 0 /\ quota[q] = 0 /\ saw[q] = {}
    BY <1>1 DEF Begin, Pace
  <2>2. attempted'[q] = 0 /\ quota'[q] = 0 /\ saw'[q] = {} /\ pc'[q] = "count" /\ plan'[q] \in Configs
    BY <1>1, <2>1 DEF Begin
  <2>3. Len(plan'[q]) \in Nat
    BY <2>2, PlanTyped
  <2> QED BY <2>2, <2>3 DEF Pace
<1>2. CASE Count(q)
  <2>1. attempted'[q] = 0 /\ plan'[q] = plan[q]
    BY <1>2 DEF Count, Pace
  <2>2. quota'[q] \in Nat /\ quota'[q] <= Len(plan[q])
    <3>1. Used(day) \in Nat
      BY RequestsTyped DEF Used, Logged
    <3>2. quota'[q] = Min({Len(plan[q]), Max({0, Budget - Used(day)})})
      BY <1>2 DEF Count
    <3> QED BY <1>n, <3>1, <3>2, QuotaIs
  <2>3. pc'[q] = "commit" \/ (pc'[q] = "find" /\ quota'[q] # 0)
    BY <1>2 DEF Count
  <2> QED BY <2>1, <2>2, <2>3 DEF Pace
<1>3. CASE FindOld(q)
  <2>1. attempted'[q] = attempted[q] + 1 /\ quota'[q] = quota[q] /\ plan'[q] = plan[q]
        /\ pc'[q] = "lock" /\ attempted[q] < quota[q]
    BY <1>3 DEF FindOld, Pace
  <2> QED BY <1>n, <2>1 DEF Pace
<1>4. CASE LockOld(q)
  BY <1>4 DEF LockOld, Pace
<1>5. CASE Get(q) \/ Retry(q)
  <2>1. /\ attempted'[q] = attempted[q] /\ quota'[q] = quota[q] /\ plan'[q] = plan[q]
        /\ attempted[q] > 0
    BY <1>5 DEF Get, Retry, Pace
  <2>2. pc'[q] \in {"commit", "retry"} \/ (pc'[q] = "find" /\ attempted[q] # quota[q])
    <3>1. ASSUME NEW o, NEW fatal, Answer(q, o, fatal)
          PROVE  pc'[q] = "commit" \/ (pc'[q] = "find" /\ attempted[q] # quota[q])
      BY <3>1 DEF Answer
    <3> QED BY <1>5, <3>1 DEF Get, Retry
  <2> QED BY <1>n, <2>1, <2>2 DEF Pace
<1>6. CASE Commit(q)
  BY <1>6 DEF Commit, Pace
<1>7. CASE Fail(q)
  <2>1. /\ attempted'[q] = 0 /\ pc'[q] = "failed" /\ quota'[q] = quota[q] /\ plan'[q] = plan[q]
    BY <1>7 DEF Fail
  <2> QED BY <1>n, <2>1 DEF Pace
<1>8. Same(q) \/ RunStep(q)
  BY AnyStep, OthersSame
<1> QED BY <1>0, <1>1, <1>2, <1>3, <1>4, <1>5, <1>6, <1>7, <1>8 DEF RunStep, Step

\* ... and its plan within the budget it found.
LEMMA WithinStep ==
  ASSUME TypeOK, SawInv, [Next]_vars, NEW q \in Runs, Within(q)
  PROVE  Within(q)'
<1>1. CASE quota'[q] = quota[q] /\ saw'[q] = saw[q] /\ counted'[q] = counted[q]
  BY <1>1, SeenStays DEF Within
<1>2. CASE Count(q)
  <2>1. quota'[q] = Min({Len(plan[q]), Max({0, Budget - Used(day)})})
    BY <1>2 DEF Count, TypeOK
  <2>2. Seen(q)' = {r \in Logged : born[r] >= day} /\ attempted' = attempted
    BY <1>2 DEF Count, TypeOK, Seen, facts
  <2>3. Used(day) \in Nat /\ Used(day) = Total(attempted, Seen(q)')
    <3>1. {r \in Logged : born[r] >= day} \in SUBSET Runs
      BY DEF Logged
    <3> QED BY <2>2, <3>1, RequestsTyped DEF Used
  <2>4. Len(plan[q]) \in Nat
    BY PlanTyped DEF TypeOK
  <2>5. quota'[q] = 0 \/ quota'[q] + Used(day) <= Budget
    BY <2>1, <2>3, <2>4, QuotaIs
  <2> QED BY <2>2, <2>3, <2>5 DEF Within
<1>3. Count(q) \/ (quota'[q] = quota[q] /\ saw'[q] = saw[q] /\ counted'[q] = counted[q])
  <2>1. CASE Same(q)
    BY <2>1 DEF Same
  <2>2. CASE RunStep(q)
    BY <2>2 DEF RunStep, Step, Begin, FindOld, LockOld, Get, Retry, Commit, Fail, budget
  <2> QED BY <2>1, <2>2, AnyStep, OthersSame
<1> QED BY <1>1, <1>2, <1>3

LEMMA BudgetStep == TypeOK /\ BudgetInv /\ SawInv /\ [Next]_vars => BudgetInv'
<1> SUFFICES ASSUME TypeOK, BudgetInv, SawInv, [Next]_vars PROVE BudgetInv'
  OBVIOUS
<1>1. \A q \in Runs : Pace(q) /\ Within(q)
  BY BudgetParts DEF Paced
<1>2. \A q \in Runs : Pace(q)' /\ Within(q)'
  BY <1>1, PaceStep, WithinStep
<1>3. Paced'
  BY <1>2 DEF Paced
<1> QED BY <1>3, BudgetParts, PTL

-----------------------------------------------------------------------------
(* The results.                                                            *)

Resulted(r) == \A c \in Combos : result[r][c] # "none" <=> \E i \in 1..Settled(r) : Combo(r, i) = c
Reported(r) == pc[r] \in {"commit", "done"} => status[r] = Report(r, Cardinality(Successes(r)))

\* The answer to a request settles its combination.
LEMMA AnswerSettles ==
  ASSUME TypeOK, NEW r \in Runs, Pace(r), Resulted(r), pc[r] \in {"get", "retry"},
         NEW o \in {"success", "error"}, NEW fatal \in BOOLEAN, Answer(r, o, fatal),
         attempted' = attempted, plan' = plan
  PROVE  Resulted(r)' /\ Reported(r)'
<1> DEFINE n == attempted[r]
<1>1. n \in Nat /\ n > 0 /\ Settled(r) = n - 1 /\ n \in 1..Len(plan[r])
  BY PlanTyped DEF TypeOK, Pace, Settled
<1>2. pc'[r] \in {"commit", "find"}
  BY DEF Answer, Goto, TypeOK
<1>3. Settled(r)' = n
  BY <1>2 DEF Settled
<1>4. Combo(r, n) \in Combos
  BY <1>1, CurrentCombo
<1>5. \A c \in Combos : result'[r][c] = IF c = Combo(r, n) THEN o ELSE result[r][c]
  BY DEF Answer, TypeOK
<1>6. \A i : Combo(r, i)' = Combo(r, i)
  BY DEF Combo
<1>7. ASSUME NEW c \in Combos
      PROVE  result'[r][c] # "none" <=> \E i \in 1..n : Combo(r, i) = c
  <2>1. CASE c = Combo(r, n)
    BY <1>1, <1>5, <2>1
  <2>2. CASE c # Combo(r, n)
    <3>1. result[r][c] # "none" <=> \E i \in 1..(n - 1) : Combo(r, i) = c
      BY <1>1 DEF Resulted
    <3>2. (\E i \in 1..n : Combo(r, i) = c) <=> \E i \in 1..(n - 1) : Combo(r, i) = c
      <4> HIDE DEF n
      <4> QED BY <1>1, <2>2
    <3> QED BY <1>5, <2>2, <3>1, <3>2
  <2> QED BY <2>1, <2>2
<1>8. Resulted(r)'
  BY <1>3, <1>6, <1>7 DEF Resulted
<1>9. Reported(r)'
  <2>1. CASE fatal \/ attempted[r] = quota[r]
    <3>1. status'[r] = Report(r, Cardinality(Successes(r)'))
      BY <2>1 DEF Answer, TypeOK
    <3> QED BY <3>1 DEF Reported, Report
  <2>2. CASE ~(fatal \/ attempted[r] = quota[r])
    <3>1. pc'[r] = "find"
      BY <2>2 DEF Answer, Goto, TypeOK
    <3> QED BY <3>1 DEF Reported
  <2> QED BY <2>1, <2>2
<1> QED BY <1>8, <1>9

LEMMA ResultStepOf ==
  ASSUME TypeOK, [Next]_vars, NEW q \in Runs, Pace(q), Resulted(q), Reported(q)
  PROVE  Resulted(q)' /\ Reported(q)'
<1> USE DEF TypeOK, Goto, facts, budget, answers, rows
<1>n. attempted[q] \in Nat /\ result[q] \in [Combos -> {"none", "success", "error"}]
  OBVIOUS
\* A step that leaves the results and the settled combinations alone.
<1>s. ASSUME plan'[q] = plan[q], result'[q] = result[q], Settled(q)' = Settled(q),
             pc'[q] \in {"commit", "done"} => pc[q] \in {"commit", "done"},
             status'[q] = status[q]
      PROVE  Resulted(q)' /\ Reported(q)'
  <2>1. Resulted(q)'
    BY <1>s DEF Resulted, Combo
  <2>2. Reported(q)'
    BY <1>s DEF Reported, Report, Successes
  <2> QED BY <2>1, <2>2
<1>z. ASSUME \A c \in Combos : result'[q][c] = "none", Settled(q)' = 0
      PROVE  Resulted(q)'
  BY <1>z DEF Resulted
<1>e. ASSUME attempted[q] = 0, Settled(q) = 0
      PROVE  \A c \in Combos : result[q][c] = "none"
  BY <1>e DEF Resulted
<1>0. CASE Same(q)
  <2>1. Settled(q)' = Settled(q)
    BY <1>0 DEF Same, Settled
  <2>2. plan'[q] = plan[q] /\ result'[q] = result[q] /\ status'[q] = status[q] /\ pc'[q] = pc[q]
    BY <1>0 DEF Same
  <2> QED BY <1>s, <2>1, <2>2
<1>1. CASE Begin(q)
  <2>1. /\ attempted[q] = 0 /\ Settled(q) = 0 /\ Settled(q)' = 0 /\ result' = result
        /\ pc'[q] = "count"
    BY <1>1 DEF Begin, Pace, Settled
  <2>2. Resulted(q)'
    BY <1>e, <1>z, <2>1
  <2> QED BY <2>1, <2>2 DEF Reported
<1>2. CASE Count(q)
  <2>1. /\ attempted[q] = 0 /\ Settled(q) = 0 /\ result' = result /\ attempted' = attempted
    BY <1>2 DEF Count, Pace, Settled
  <2>2. \/ pc'[q] = "find"
        \/ pc'[q] = "commit" /\ status'[q] = "failed"
    BY <1>2 DEF Count
  <2>3. Settled(q)' = 0
    BY <2>1, <2>2 DEF Settled
  <2>4. Resulted(q)'
    BY <1>e, <1>z, <2>1, <2>3
  <2>5. Reported(q)'
    <3>1. \A c \in Combos : result'[q][c] = "none"
      BY <1>e, <2>1
    <3>2. Successes(q)' = {}
      BY <3>1 DEF Successes
    <3>3. Cardinality(Successes(q)') = 0
      BY <3>2, FS_EmptySet
    <3> QED BY <2>2, <3>3 DEF Reported, Report
  <2> QED BY <2>4, <2>5
<1>3. CASE FindOld(q)
  <2>1. pc[q] = "find" /\ pc'[q] = "lock" /\ attempted'[q] = attempted[q] + 1 /\ plan' = plan
        /\ result' = result /\ status' = status
    BY <1>3 DEF FindOld
  <2>2. Settled(q)' = Settled(q)
    BY <1>n, <2>1 DEF Settled
  <2> QED BY <1>s, <2>1, <2>2
<1>4. CASE LockOld(q)
  <2>1. pc[q] = "lock" /\ pc'[q] = "get" /\ attempted' = attempted /\ plan' = plan
        /\ result' = result /\ status' = status
    BY <1>4 DEF LockOld
  <2>2. Settled(q)' = Settled(q)
    BY <2>1 DEF Settled
  <2> QED BY <1>s, <2>1, <2>2
<1>5. CASE Get(q) \/ Retry(q)
  <2>1. pc[q] \in {"get", "retry"} /\ attempted' = attempted /\ plan' = plan
    BY <1>5 DEF Get, Retry
  <2>2. CASE \E o \in {"success", "error"}, fatal \in BOOLEAN : Answer(q, o, fatal)
    BY <2>1, <2>2, AnswerSettles
  <2>3. CASE Goto(q, "retry") /\ UNCHANGED <<result, status>>
    <3>1. pc'[q] = "retry"
      BY <2>3
    <3>2. Settled(q)' = Settled(q)
      BY <2>1, <3>1 DEF Settled
    <3> QED BY <1>s, <2>1, <2>3, <3>1, <3>2
  <2> QED BY <1>5, <2>2, <2>3 DEF Get, Retry
<1>6. CASE Commit(q)
  <2>1. pc[q] = "commit" /\ pc'[q] = "done" /\ attempted' = attempted /\ plan' = plan
        /\ result' = result /\ status' = status
    BY <1>6 DEF Commit
  <2>2. Settled(q)' = Settled(q)
    BY <2>1 DEF Settled
  <2> QED BY <1>s, <2>1, <2>2
<1>7. CASE Fail(q)
  <2>1. attempted'[q] = 0 /\ pc'[q] = "failed" /\ \A c \in Combos : result'[q][c] = "none"
    BY <1>7 DEF Fail
  <2>2. Settled(q)' = 0
    BY <2>1 DEF Settled
  <2> QED BY <1>z, <2>1, <2>2 DEF Reported
<1>8. Same(q) \/ RunStep(q)
  BY AnyStep, OthersSame
<1> QED BY <1>0, <1>1, <1>2, <1>3, <1>4, <1>5, <1>6, <1>7, <1>8 DEF RunStep, Step

LEMMA ResultStep == TypeOK /\ BudgetInv /\ ResultInv /\ [Next]_vars => ResultInv'
<1> SUFFICES ASSUME TypeOK, BudgetInv, ResultInv, [Next]_vars PROVE ResultInv'
  OBVIOUS
<1>1. \A q \in Runs : Pace(q) /\ Resulted(q) /\ Reported(q)
  BY BudgetParts DEF Paced, ResultInv, Resulted, Reported
<1>2. \A q \in Runs : Resulted(q)' /\ Reported(q)'
  BY <1>1, ResultStepOf
<1> QED BY <1>2 DEF ResultInv, Resulted, Reported

-----------------------------------------------------------------------------
(* The rows.                                                               *)

Kept == \A s \in stored : s[1] \in Logged /\ s \in Fetched(s[1])

Locked(r) ==
  /\ \A s \in doomed[r] : \E i \in 1..Searched(r) : s \in Old(r, i)
  /\ ~Active(r) => doomed[r] = {}

Found(r) == \A i \in 1..Searched(r) : \A s \in Old(r, i) : s[1] \in saw[r] => s \in doomed[r]

Targets(r) ==
  IF pc[r] = "lock"
  THEN /\ \A s \in target[r] : s[1] \in Logged /\ date[s[1]] = date[r] /\ s[2] = Combo(r, attempted[r])
       /\ \A s \in Old(r, attempted[r]) : s[1] \in saw[r] => s \in target[r]
  ELSE target[r] = {}

Apart == \A r, q \in Runs : r # q => doomed[r] \cap doomed[q] = {}

RowsOf(r) == Locked(r) /\ Found(r) /\ Targets(r)
Rows == Kept /\ Apart /\ \A r \in Runs : RowsOf(r)

LEMMA RowParts == RowInv <=> Rows
<1>1. ASSUME RowInv PROVE Rows
  <2>1. Kept
    BY <1>1 DEF RowInv, Kept
  <2>2. Apart
    BY <1>1 DEF RowInv, Apart
  <2>3. ASSUME NEW r \in Runs PROVE Locked(r) /\ Found(r)
    BY <1>1 DEF RowInv, Locked, Found
  <2>4. ASSUME NEW r \in Runs PROVE Targets(r)
    BY <1>1 DEF RowInv, Targets
  <2> QED BY <2>1, <2>2, <2>3, <2>4 DEF Rows, RowsOf
<1>2. ASSUME Rows PROVE RowInv
  <2>1. \A s \in stored : s[1] \in Logged /\ s \in Fetched(s[1])
    BY <1>2 DEF Rows, Kept
  <2>2. ASSUME NEW r \in Runs
        PROVE  /\ doomed[r] \subseteq UNION {Old(r, i) : i \in 1..Searched(r)}
               /\ \A q \in Runs \ {r} : doomed[r] \cap doomed[q] = {}
               /\ ~Active(r) => doomed[r] = {}
               /\ \A i \in 1..Searched(r) : \A s \in Old(r, i) : s[1] \in saw[r] => s \in doomed[r]
    <3>1. doomed[r] \subseteq UNION {Old(r, i) : i \in 1..Searched(r)}
      BY <1>2 DEF Rows, RowsOf, Locked
    <3>2. \A q \in Runs \ {r} : doomed[r] \cap doomed[q] = {}
      BY <1>2 DEF Rows, Apart
    <3>3. ~Active(r) => doomed[r] = {}
      BY <1>2 DEF Rows, RowsOf, Locked
    <3>4. \A i \in 1..Searched(r) : \A s \in Old(r, i) : s[1] \in saw[r] => s \in doomed[r]
      BY <1>2 DEF Rows, RowsOf, Found
    <3> QED BY <3>1, <3>2, <3>3, <3>4
  <2>3. ASSUME NEW r \in Runs
        PROVE  IF pc[r] = "lock"
               THEN /\ \A s \in target[r] : s[1] \in Logged /\ date[s[1]] = date[r] /\ s[2] = Combo(r, attempted[r])
                    /\ \A s \in Old(r, attempted[r]) : s[1] \in saw[r] => s \in target[r]
               ELSE target[r] = {}
    BY <1>2 DEF Rows, RowsOf, Targets
  <2> QED BY <2>1, <2>2, <2>3 DEF RowInv
<1> QED BY <1>1, <1>2

\* A step that is no commit leaves every run but its own, and what it sees.
LEMMA RowsOfOthers ==
  ASSUME TypeOK, Rows, [Next]_vars, stored' = stored, Logged' = Logged,
         NEW q \in Runs, Same(q)
  PROVE  Kept' /\ RowsOf(q)' /\ \A i : Old(q, i)' = Old(q, i)
<1>1. \A s \in stored : s[1] \in Logged /\ s \in Fetched(s[1])
  BY DEF Rows, Kept
<1>2. \A s \in stored : Same(s[1])
  BY <1>1, LoggedStays
<1>3. Kept'
  BY <1>1, <1>2 DEF Kept, Fetched, Same
<1>4. \A i : Old(q, i)' = Old(q, i)
  BY <1>2 DEF Old, Combo, Same
<1>5. Searched(q)' = Searched(q)
  BY DEF Same, Searched
<1>6. Locked(q)' /\ Found(q)'
  BY <1>4, <1>5 DEF Rows, RowsOf, Locked, Found, Same, Active
<1>7. Targets(q)'
  <2>0. /\ pc'[q] = pc[q] /\ target'[q] = target[q] /\ date'[q] = date[q] /\ saw'[q] = saw[q]
        /\ attempted'[q] = attempted[q] /\ \A i : Combo(q, i)' = Combo(q, i)
    BY DEF Same, Combo
  <2>1. CASE pc[q] = "lock"
    <3>1. ASSUME NEW s \in target[q]
          PROVE  s[1] \in Logged' /\ date'[s[1]] = date'[q] /\ s[2] = Combo(q, attempted[q])
      <4>1. s[1] \in Logged /\ date[s[1]] = date[q] /\ s[2] = Combo(q, attempted[q])
        BY <2>1 DEF Rows, RowsOf, Targets
      <4>2. date'[s[1]] = date[s[1]]
        BY <4>1, LoggedStays DEF Same
      <4> QED BY <2>0, <4>1, <4>2
    <3>2. \A s \in Old(q, attempted[q]) : s[1] \in saw[q] => s \in target[q]
      BY <2>1 DEF Rows, RowsOf, Targets
    <3> QED BY <1>4, <2>0, <2>1, <3>1, <3>2 DEF Targets
  <2>2. CASE pc[q] # "lock"
    BY <2>0, <2>2 DEF Rows, RowsOf, Targets
  <2> QED BY <2>1, <2>2
<1> QED BY <1>3, <1>4, <1>6, <1>7 DEF RowsOf

\* A step that is no commit, of the run itself.
LEMMA RowsOfRun ==
  ASSUME TypeOK, SawInv, Rows, [Next]_vars, NEW r \in Runs, Pace(r), RunStep(r), ~Commit(r)
  PROVE  RowsOf(r)' /\ Apart'
<1> USE DEF TypeOK, Goto, facts, budget, answers, rows
<1>n. attempted[r] \in Nat
  OBVIOUS
<1>l. stored' = stored /\ Logged' = Logged
  BY OnlyCommitLogs
<1>k. \A s \in stored : s[1] \in Logged /\ Same(s[1]) /\ s[1] # r
  BY NotDone, LoggedStays DEF Rows, Kept, Logged
<1>c. Locked(r) /\ Found(r) /\ Targets(r)
  BY DEF Rows, RowsOf
<1>a. ASSUME \A q \in Runs \ {r} : doomed'[r] \cap doomed[q] = {}
      PROVE  Apart'
  <2>1. \A q \in Runs \ {r} : doomed'[q] = doomed[q]
    BY OthersSame DEF Same
  <2>2. ASSUME NEW p \in Runs, NEW q \in Runs, p # q
        PROVE  doomed'[p] \cap doomed'[q] = {}
    <3>1. CASE p = r
      BY <1>a, <2>1, <2>2, <3>1
    <3>2. CASE q = r
      BY <1>a, <2>1, <2>2, <3>2
    <3>3. CASE p # r /\ q # r
      BY <2>1, <2>2, <3>3 DEF Rows, Apart
    <3> QED BY <3>1, <3>2, <3>3
  <2> QED BY <2>2 DEF Apart
<1>d. ASSUME doomed'[r] \subseteq doomed[r]
      PROVE  Apart'
  BY <1>a, <1>d DEF Rows, Apart
\* A run that has not begun to search has nothing to lose, and nothing to wait for.
<1>e. ASSUME Searched(r)' = 0, doomed'[r] = {}, target'[r] = {}, pc'[r] # "lock"
      PROVE  RowsOf(r)' /\ Apart'
  <2>1. Locked(r)' /\ Found(r)' /\ Targets(r)'
    BY <1>e DEF Locked, Found, Targets
  <2> QED BY <1>d, <1>e, <2>1 DEF RowsOf
\* The same combinations searched, the same rows deleted.
<1>f. ASSUME plan'[r] = plan[r], date'[r] = date[r]
      PROVE  \A i : Old(r, i)' = Old(r, i) /\ Combo(r, i)' = Combo(r, i)
  BY <1>f, <1>k, <1>l DEF Old, Combo, Same
<1>s. ASSUME plan'[r] = plan[r], date'[r] = date[r], saw'[r] = saw[r], doomed'[r] = doomed[r],
             Searched(r)' = Searched(r), Active(r)'
      PROVE  Locked(r)' /\ Found(r)' /\ Apart'
  <2>1. Locked(r)'
    BY <1>c, <1>f, <1>s DEF Locked
  <2>2. Found(r)'
    BY <1>c, <1>f, <1>s DEF Found
  <2> QED BY <1>d, <1>s, <2>1, <2>2
<1>1. CASE Begin(r)
  <2>1. attempted'[r] = 0 /\ pc'[r] = "count" /\ doomed'[r] = doomed[r] /\ target'[r] = target[r]
        /\ pc[r] = "new"
    BY <1>1 DEF Begin, Pace
  <2>2. doomed[r] = {} /\ target[r] = {}
    BY <1>c, <2>1 DEF Locked, Active, Targets
  <2>3. Searched(r)' = 0
    BY <2>1 DEF Searched
  <2> QED BY <1>e, <2>1, <2>2, <2>3
<1>2. CASE Count(r)
  <2>1. attempted[r] = 0 /\ attempted'[r] = 0 /\ doomed'[r] = doomed[r] /\ target'[r] = target[r]
        /\ pc[r] = "count" /\ pc'[r] \in {"commit", "find"}
    BY <1>2 DEF Count, Pace
  <2>2. Searched(r)' = 0 /\ Searched(r) = 0
    BY <2>1 DEF Searched
  <2>3. doomed[r] = {} /\ target[r] = {}
    BY <1>c, <2>1, <2>2 DEF Locked, Targets
  <2> QED BY <1>e, <2>1, <2>2, <2>3
<1>3. CASE FindOld(r)
  <2>1. /\ pc[r] = "find" /\ pc'[r] = "lock" /\ attempted'[r] = attempted[r] + 1 /\ doomed' = doomed
        /\ plan' = plan /\ date' = date /\ saw' = saw
        /\ target'[r] = {s \in stored : date[s[1]] = date[r] /\ s[2] = Combo(r, attempted'[r])}
    BY <1>3 DEF FindOld
  <2>2. Searched(r)' = Searched(r) /\ Active(r)'
    BY <1>n, <2>1 DEF Searched, Active
  <2>3. Locked(r)' /\ Found(r)' /\ Apart'
    BY <1>s, <2>1, <2>2
  <2>4. target'[r] = Old(r, attempted'[r])
    BY <2>1 DEF Old
  <2>5. Targets(r)'
    <3>1. \A s \in target'[r] : s[1] \in Logged' /\ date'[s[1]] = date'[r] /\ s[2] = plan'[r][attempted'[r]]
      BY <1>k, <1>l, <2>1 DEF Same, Combo
    <3>2. \A s \in Old(r, attempted[r])' : s \in target'[r]
      BY <1>k, <1>l, <2>1 DEF Same, Old, Combo
    <3> QED BY <2>1, <3>1, <3>2 DEF Targets, Combo
  <2> QED BY <2>3, <2>5 DEF RowsOf
<1>4. CASE LockOld(r)
  <2>1. /\ pc[r] = "lock" /\ pc'[r] = "get" /\ attempted' = attempted
        /\ plan' = plan /\ date' = date /\ saw' = saw
        /\ doomed'[r] = doomed[r] \cup (target[r] \cap stored) /\ target'[r] = {}
        /\ \A q \in Runs \ {r} : target[r] \cap doomed[q] = {}
    BY <1>4 DEF LockOld
  <2>2. /\ attempted[r] > 0 /\ Searched(r) = attempted[r] - 1 /\ Searched(r)' = attempted[r]
    BY <2>1 DEF Pace, Searched
  <2>3. \A s \in target[r] \cap stored : s \in Old(r, attempted[r])
    BY <1>c, <2>1 DEF Targets, Old
  <2>4. Locked(r)'
    <3>1. ASSUME NEW s \in doomed'[r]
          PROVE  \E i \in 1..attempted[r] : s \in Old(r, i)
      <4>1. CASE s \in doomed[r]
        BY <1>c, <1>n, <2>2, <4>1 DEF Locked
      <4>2. CASE s \in target[r] \cap stored
        BY <1>n, <2>2, <2>3, <4>2
      <4> QED BY <2>1, <3>1, <4>1, <4>2
    <3>2. Active(r)'
      BY <2>1 DEF Active
    <3> QED BY <1>f, <2>1, <2>2, <3>1, <3>2 DEF Locked
  <2>5. Found(r)'
    <3>1. ASSUME NEW i \in 1..attempted[r], NEW s \in Old(r, i), s[1] \in saw[r]
          PROVE  s \in doomed'[r]
      <4>1. CASE i = attempted[r]
        <5>1. s \in target[r] /\ s \in stored
          BY <1>c, <2>1, <3>1, <4>1 DEF Targets, Old
        <5> QED BY <2>1, <5>1
      <4>2. CASE i # attempted[r]
        <5>1. i \in 1..Searched(r)
          <6> HIDE DEF TypeOK
          <6>1. i \in 1..(attempted[r] - 1)
            BY <1>n, <2>2, <3>1, <4>2
          <6> QED BY <2>2, <6>1
        <5> QED BY <1>c, <2>1, <3>1, <5>1 DEF Found
      <4> QED BY <4>1, <4>2
    <3> QED BY <1>f, <2>1, <2>2, <3>1 DEF Found
  <2>6. Apart'
    <3>1. \A q \in Runs \ {r} : doomed[r] \cap doomed[q] = {}
      BY DEF Rows, Apart
    <3> QED BY <1>a, <2>1, <3>1
  <2>7. Targets(r)'
    BY <2>1 DEF Targets
  <2> QED BY <2>4, <2>5, <2>6, <2>7 DEF RowsOf
<1>5. CASE Get(r) \/ Retry(r)
  <2>1. /\ pc[r] \in {"get", "retry"} /\ attempted' = attempted /\ plan' = plan /\ date' = date
        /\ saw' = saw /\ doomed' = doomed /\ target' = target
    BY <1>5 DEF Get, Retry
  <2>2. pc'[r] \in {"commit", "find", "retry"}
    <3>1. ASSUME NEW o, NEW fatal, Answer(r, o, fatal)
          PROVE  pc'[r] \in {"commit", "find"}
      BY <3>1 DEF Answer
    <3> QED BY <1>5, <3>1 DEF Get, Retry
  <2>3. Searched(r)' = Searched(r) /\ Active(r)'
    BY <2>1, <2>2 DEF Searched, Active
  <2>4. Targets(r)'
    BY <1>c, <2>1, <2>2 DEF Targets
  <2> QED BY <1>s, <2>1, <2>3, <2>4 DEF RowsOf
<1>6. CASE Fail(r)
  <2>1. attempted'[r] = 0 /\ pc'[r] = "failed" /\ doomed'[r] = {} /\ target'[r] = {}
    BY <1>6 DEF Fail
  <2>2. Searched(r)' = 0
    BY <2>1 DEF Searched
  <2> QED BY <1>e, <2>1, <2>2
<1> QED BY <1>1, <1>2, <1>3, <1>4, <1>5, <1>6 DEF RunStep, Step

\* A commit: what it deletes no other run has deleted, what it adds no run has seen.
LEMMA RowsCommit ==
  ASSUME TypeOK, SawInv, Rows, [Next]_vars, NEW r \in Runs, Commit(r)
  PROVE  Rows'
<1>1. /\ Logged' = Logged \cup {r} /\ r \notin Logged /\ pc'[r] = "done" /\ pc[r] = "commit"
      /\ stored' = (stored \ doomed[r]) \cup Fetched(r) /\ doomed'[r] = {} /\ target'[r] = target[r]
      /\ plan'[r] = plan[r] /\ date'[r] = date[r] /\ attempted'[r] = attempted[r]
      /\ result'[r] = result[r] /\ saw'[r] = saw[r]
  BY CommitLogs DEF Commit
<1>2. \A q \in Runs \ {r} : Same(q)
  BY OthersSame DEF RunStep, Step
<1>3. \A s \in stored : s[1] \in Logged /\ s \in Fetched(s[1])
  BY DEF Rows, Kept
<1>4. \A q \in Logged : q \in Runs /\ q # r /\ Same(q)
  BY <1>1, <1>2 DEF Logged
<1>5. \A s \in Fetched(r) : s[1] = r
  BY DEF Fetched
<1>6. \A q \in Runs : saw[q] \subseteq Logged
  BY DEF SawInv
<1>7. Kept'
  <2>1. Fetched(r)' = Fetched(r)
    BY <1>1 DEF Fetched
  <2>2. ASSUME NEW s \in stored' PROVE s[1] \in Logged' /\ s \in Fetched(s[1])'
    <3>1. CASE s \in Fetched(r)
      BY <1>1, <1>5, <2>1, <3>1
    <3>2. CASE s \in stored
      <4>1. Same(s[1]) /\ s[1] \in Logged /\ s \in Fetched(s[1])
        BY <1>3, <1>4, <3>2
      <4> QED BY <1>1, <4>1 DEF Same, Fetched
    <3> QED BY <1>1, <2>2, <3>1, <3>2
  <2> QED BY <2>2 DEF Kept
<1>8. Apart'
  <2>1. \A q \in Runs \ {r} : doomed'[q] = doomed[q]
    BY <1>2 DEF Same
  <2> QED BY <1>1, <2>1 DEF Rows, Apart
\* What is there for a combination: what was there, less the deleted, and the commit's own.
<1>9. ASSUME NEW q \in Runs, date'[q] = date[q], plan'[q] = plan[q], NEW i
      PROVE  /\ \A s \in Old(q, i)' : s \in Fetched(r) \/ (s \in Old(q, i) /\ s \notin doomed[r])
             /\ \A s \in Old(q, i) : s \notin doomed[r] => s \in Old(q, i)'
  <2>1. Combo(q, i)' = Combo(q, i)
    BY <1>9 DEF Combo
  <2>2. \A s \in stored : date'[s[1]] = date[s[1]]
    BY <1>3, <1>4 DEF Same
  <2> QED BY <1>1, <1>9, <2>1, <2>2 DEF Old
<1>10. ASSUME NEW q \in Runs \ {r} PROVE RowsOf(q)'
  <2>1. /\ pc'[q] = pc[q] /\ plan'[q] = plan[q] /\ date'[q] = date[q] /\ attempted'[q] = attempted[q]
        /\ target'[q] = target[q] /\ doomed'[q] = doomed[q] /\ saw'[q] = saw[q]
    BY <1>2 DEF Same
  <2>2. Searched(q)' = Searched(q) /\ (Active(q)' <=> Active(q))
    BY <2>1 DEF Searched, Active
  <2>3. Locked(q) /\ Found(q) /\ Targets(q) /\ doomed[r] \cap doomed[q] = {}
    BY DEF Rows, RowsOf, Apart
  <2>4. Locked(q)'
    <3>1. \A s \in doomed'[q] : \E i \in 1..Searched(q) : s \in Old(q, i)'
      BY <1>9, <2>1, <2>3 DEF Locked
    <3> QED BY <2>1, <2>2, <2>3, <3>1 DEF Locked
  <2>5. \A s \in Fetched(r) : s[1] \notin saw'[q]
    BY <1>1, <1>5, <1>6, <2>1
  <2>6. Found(q)'
    <3>1. ASSUME NEW i \in 1..Searched(q), NEW s \in Old(q, i)', s[1] \in saw'[q]
          PROVE  s \in doomed'[q]
      <4>1. s \in Old(q, i)
        BY <1>9, <2>1, <2>5, <3>1
      <4> QED BY <2>1, <2>3, <3>1, <4>1 DEF Found
    <3> QED BY <2>2, <3>1 DEF Found
  <2>7. Targets(q)'
    <3>1. CASE pc[q] = "lock"
      <4>1. \A s \in target'[q] : s[1] \in Logged' /\ date'[s[1]] = date'[q] /\ s[2] = Combo(q, attempted[q])'
        <5>1. Combo(q, attempted[q])' = Combo(q, attempted[q])
          BY <2>1 DEF Combo
        <5>2. \A s \in target[q] : s[1] \in Logged /\ date[s[1]] = date[q] /\ s[2] = Combo(q, attempted[q])
          BY <2>3, <3>1 DEF Targets
        <5>3. \A s \in target[q] : date'[s[1]] = date[s[1]]
          BY <1>4, <5>2 DEF Same
        <5> QED BY <1>1, <2>1, <5>1, <5>2, <5>3
      <4>2. \A s \in Old(q, attempted[q])' : s[1] \in saw'[q] => s \in target'[q]
        <5>1. \A s \in Old(q, attempted[q]) : s[1] \in saw[q] => s \in target[q]
          BY <2>3, <3>1 DEF Targets
        <5>2. ASSUME NEW s \in Old(q, attempted[q])', s[1] \in saw'[q]
              PROVE  s \in Old(q, attempted[q])
          <6>1. Old(q, attempted[q])' = {t \in stored' : date'[t[1]] = date[q] /\ t[2] = Combo(q, attempted[q])}
            BY <2>1 DEF Old, Combo
          <6>2. s \in stored /\ date'[s[1]] = date[s[1]]
            BY <1>1, <1>3, <1>4, <2>5, <5>2, <6>1 DEF Same
          <6> QED BY <5>2, <6>1, <6>2 DEF Old
        <5> QED BY <2>1, <5>1, <5>2
      <4> QED BY <2>1, <3>1, <4>1, <4>2 DEF Targets
    <3>2. CASE pc[q] # "lock"
      BY <2>1, <2>3, <3>2 DEF Targets
    <3> QED BY <3>1, <3>2
  <2> QED BY <2>4, <2>6, <2>7 DEF RowsOf
<1>11. RowsOf(r)'
  <2>1. Searched(r)' = Searched(r)
    BY <1>1 DEF Searched
  <2>2. Locked(r)'
    BY <1>1 DEF Locked
  <2>3. Found(r)'
    <3>1. ASSUME NEW i \in 1..Searched(r), NEW s \in Old(r, i)', s[1] \in saw'[r]
          PROVE  FALSE
      <4>1. s \notin Fetched(r)
        BY <1>1, <1>5, <1>6, <3>1
      <4>2. s \in Old(r, i) /\ s \notin doomed[r]
        BY <1>1, <1>9, <3>1, <4>1
      <4> QED BY <1>1, <3>1, <4>2 DEF Rows, RowsOf, Found
    <3> QED BY <2>1, <3>1 DEF Found
  <2>4. Targets(r)'
    BY <1>1 DEF Rows, RowsOf, Targets
  <2> QED BY <2>2, <2>3, <2>4 DEF RowsOf
<1> QED BY <1>7, <1>8, <1>10, <1>11 DEF Rows

LEMMA RowStep == TypeOK /\ BudgetInv /\ SawInv /\ RowInv /\ [Next]_vars => RowInv'
<1> SUFFICES ASSUME TypeOK, BudgetInv, SawInv, RowInv, [Next]_vars PROVE RowInv'
  OBVIOUS
<1>1. Rows /\ \A q \in Runs : Pace(q)
  BY RowParts, BudgetParts DEF Paced
<1>2. CASE stored' = stored /\ \A q \in Runs : Same(q)
  <2>1. Logged' = Logged
    BY <1>2 DEF Logged, Same
  <2>2. Apart'
    BY <1>1, <1>2 DEF Rows, Apart, Same
  <2>3. \A q \in Runs : RowsOf(q)'
    BY <1>1, <1>2, <2>1, RowsOfOthers
  <2>4. Kept'
    <3>1. ASSUME NEW s \in stored' PROVE s[1] \in Logged' /\ s \in Fetched(s[1])'
      <4>1. s[1] \in Logged /\ s \in Fetched(s[1]) /\ Same(s[1])
        BY <1>1, <1>2, <3>1 DEF Rows, Kept, Logged
      <4> QED BY <2>1, <4>1 DEF Same, Fetched
    <3> QED BY <3>1 DEF Kept
  <2>5. Rows'
    BY <2>2, <2>3, <2>4 DEF Rows
  <2> QED BY <2>5, RowParts, PTL
<1>3. ASSUME NEW r \in Runs, RunStep(r) PROVE Rows'
  <2>1. CASE Commit(r)
    BY <1>1, <2>1, RowsCommit
  <2>2. CASE ~Commit(r)
    <3>1. stored' = stored /\ Logged' = Logged
      BY <1>3, <2>2, OnlyCommitLogs
    <3>2. RowsOf(r)' /\ Apart'
      BY <1>1, <1>3, <2>2, RowsOfRun
    <3>3. \A q \in Runs \ {r} : RowsOf(q)'
      BY <1>1, <1>3, <3>1, OthersSame, RowsOfOthers
    <3>4. Kept'
      <4>1. ASSUME NEW s \in stored' PROVE s[1] \in Logged' /\ s \in Fetched(s[1])'
        <5>1. s[1] \in Logged /\ s \in Fetched(s[1])
          BY <1>1, <3>1, <4>1 DEF Rows, Kept
        <5>2. Same(s[1])
          BY <5>1, LoggedStays
        <5> QED BY <3>1, <5>1, <5>2 DEF Same, Fetched
      <4> QED BY <4>1 DEF Kept
    <3> QED BY <3>2, <3>3, <3>4 DEF Rows
  <2> QED BY <2>1, <2>2
<1>4. Rows' => RowInv'
  BY RowParts, PTL
<1> QED BY <1>2, <1>3, <1>4, AnyStep

-----------------------------------------------------------------------------
(* The invariant.                                                          *)

\* A function without repetitions on 1..n has n values.
LEMMA Counting ==
  ASSUME NEW n \in Nat, NEW T, NEW f \in [1..n -> T],
         \A i, j \in 1..n : f[i] = f[j] => i = j, \A x \in T : \E i \in 1..n : f[i] = x
  PROVE  IsFiniteSet(T) /\ Cardinality(T) = n
<1>1. f \in Bijection(1..n, T)
  BY DEF Bijection, Injection, Surjection, IsInjective
<1>2. ExistsBijection(1..n, T)
  BY <1>1 DEF ExistsBijection
<1> QED BY <1>2, FS_CountingElements, FS_NatBijection

\* The first n combinations of a plan are n.
Firsts(s, n) == {s[i] : i \in 1..n}

LEMMA FirstsCount ==
  ASSUME NEW s \in Configs, NEW n \in Nat, n <= Len(s)
  PROVE  IsFiniteSet(Firsts(s, n)) /\ Cardinality(Firsts(s, n)) = n /\ Firsts(s, n) \subseteq Combos
<1> DEFINE T == Firsts(s, n)  f == [i \in 1..n |-> s[i]]
<1>1. \A i \in 1..n : i \in 1..Len(s)
  BY PlanTyped
<1>2. f \in [1..n -> T] /\ \A x \in T : \E i \in 1..n : f[i] = x
  BY DEF Firsts
<1>3. \A i, j \in 1..n : f[i] = f[j] => i = j
  BY <1>1, PlanTyped
<1>4. T \subseteq Combos
  BY <1>1, PlanTyped DEF Firsts
<1>5. IsFiniteSet(T) /\ Cardinality(T) = n
  <2> HIDE DEF T, f
  <2> QED BY <1>2, <1>3, Counting
<1> QED BY <1>4, <1>5

LEMMA InitRuns == Init => RunsInv
<1> SUFFICES ASSUME Init PROVE RunsInv
  OBVIOUS
<1>1. TypeOK
  BY InitTyped
<1>2. ASSUME NEW r \in Runs
      PROVE  /\ plan[r] \in Configs /\ attempted[r] = quota[r] /\ saw[r] = {} /\ doomed[r] = {} /\ target[r] = {}
             /\ Settled(r) = attempted[r] /\ Searched(r) = attempted[r]
             /\ pc[r] = IF r \in Past THEN "done" ELSE "new"
             /\ quota[r] = IF r \in Past THEN Len(plan[r]) ELSE 0
  <2>1. plan[r] \in Configs
    BY <1>1 DEF TypeOK
  <2>2. pc[r] = IF r \in Past THEN "done" ELSE "new"
    BY DEF Init
  <2>3. attempted[r] = quota[r] /\ saw[r] = {} /\ doomed[r] = {} /\ target[r] = {}
        /\ quota[r] = IF r \in Past THEN Len(plan[r]) ELSE 0
    BY DEF Init
  <2> QED BY <2>1, <2>2, <2>3 DEF Settled, Searched
<1>3. BudgetInv
  <2> SUFFICES ASSUME NEW r \in Runs PROVE Pace(r) /\ Within(r)
    BY BudgetParts DEF Paced
  <2>1. Len(plan[r]) \in Nat /\ Len(plan[r]) <= Budget
    BY <1>2, PlanTyped, PastAssumption
  <2>2. Pace(r)
    BY <1>2, <2>1 DEF Pace
  <2>3. Total(attempted, Seen(r)) = 0
    <3>1. Seen(r) = {}
      BY <1>2 DEF Seen
    <3> QED BY <3>1, FS_EmptySet, TotalUnfolds
  <2>4. Within(r)
    BY <1>2, <2>1, <2>3, BudgetAssumption DEF Within
  <2> QED BY <2>2, <2>4
<1>4. SawInv
  BY <1>2 DEF SawInv
<1>5. ResultInv
  <2> SUFFICES ASSUME NEW r \in Runs PROVE Resulted(r) /\ Reported(r)
    BY DEF ResultInv, Resulted, Reported
  <2>1. CASE r \in Past
    <3>1. Settled(r) = Len(plan[r]) /\ Len(plan[r]) \in Nat /\ Len(plan[r]) > 0
      BY <1>2, <2>1, PlanTyped
    <3>2. \A c \in Combos : result[r][c] = IF \E i \in 1..Len(plan[r]) : Combo(r, i) = c
                                           THEN "success" ELSE "none"
      BY <2>1 DEF Init, Combo
    <3>3. Resulted(r)
      BY <3>1, <3>2 DEF Resulted
    <3>4. Successes(r) = Firsts(plan[r], Len(plan[r]))
      <4>1. Firsts(plan[r], Len(plan[r])) \subseteq Combos
        BY <1>2, <3>1, FirstsCount
      <4> QED BY <3>2, <4>1 DEF Successes, Firsts, Combo
    <3>5. Cardinality(Successes(r)) = Len(plan[r])
      BY <1>2, <3>1, <3>4, FirstsCount
    <3>6. status[r] = "success"
      BY <2>1 DEF Init
    <3>7. Reported(r)
      BY <3>1, <3>5, <3>6 DEF Reported, Report
    <3> QED BY <3>3, <3>7
  <2>2. CASE r \notin Past
    <3>1. Settled(r) = 0 /\ pc[r] = "new"
      BY <1>2, <2>2
    <3>2. \A c \in Combos : result[r][c] = "none"
      BY <2>2 DEF Init
    <3> QED BY <3>1, <3>2 DEF Resulted, Reported
  <2> QED BY <2>1, <2>2
<1>6. RowInv
  <2>1. Kept
    <3> SUFFICES ASSUME NEW s \in stored PROVE s[1] \in Logged /\ s \in Fetched(s[1])
      BY DEF Kept
    <3>1. s \in Past \X Combos /\ result[s[1]][s[2]] = "success"
      BY DEF Init
    <3>2. s[1] \in Past /\ s[1] \in Runs /\ s[2] \in Combos /\ s = <<s[1], s[2]>>
      BY <3>1, PastAssumption
    <3>3. s[1] \in Logged
      BY <1>2, <3>2 DEF Logged
    <3>4. s \in Fetched(s[1])
      BY <3>1, <3>2 DEF Fetched
    <3> QED BY <3>3, <3>4
  <2>2. Apart
    BY <1>2 DEF Apart
  <2>3. ASSUME NEW r \in Runs PROVE RowsOf(r)
    <3>1. pc[r] # "lock"
      BY <1>2
    <3> QED BY <1>2, <3>1 DEF RowsOf, Locked, Found, Targets
  <2> QED BY <2>1, <2>2, <2>3, RowParts DEF Rows
<1> QED BY <1>3, <1>4, <1>5, <1>6 DEF RunsInv

\* The runs keep what the invariant says of their budget, what they saw, their
\* results and their rows, however their steps interleave.
THEOREM RunsInvHolds == Safety => [](TypeOK /\ RunsInv)
<1>1. Init => TypeOK /\ RunsInv
  BY InitTyped, InitRuns
<1>2. TypeOK /\ RunsInv /\ [Next]_vars => TypeOK' /\ RunsInv'
  <2> SUFFICES ASSUME TypeOK, RunsInv, [Next]_vars PROVE TypeOK' /\ RunsInv'
    OBVIOUS
  <2>1. BudgetInv /\ SawInv /\ ResultInv /\ RowInv
    BY DEF RunsInv
  <2>2. TypeOK' /\ BudgetInv' /\ SawInv' /\ ResultInv' /\ RowInv'
    BY <2>1, TypeStep, BudgetStep, SawStep, ResultStep, RowStep
  <2> QED BY <2>2 DEF RunsInv
<1> QED BY <1>1, <1>2, PTL DEF Safety

-----------------------------------------------------------------------------
(* What it says.                                                           *)

\* Of two runs with a snapshot of the same day and combination, the one that
\* counted the other would have deleted the other's.
LEMMA Duplicates == TypeOK /\ RunsInv => DuplicatesMeanRace
<1> SUFFICES ASSUME TypeOK, RunsInv,
                    NEW s \in stored, NEW t \in stored,
                    s # t, date[s[1]] = date[t[1]], s[2] = t[2]
             PROVE  Overlap(s[1], t[1])
  BY DEF DuplicatesMeanRace
<1>0. Rows /\ ResultInv /\ \A r \in Runs : Pace(r)
  BY RowParts, BudgetParts DEF RunsInv, Paced
\* A logged run's own snapshot is of a combination it has searched for.
<1>1. ASSUME NEW x \in stored
      PROVE  /\ x[1] \in Logged /\ x[1] \in Runs /\ pc[x[1]] = "done" /\ x[2] \in Combos
             /\ \E i \in 1..Searched(x[1]) : Combo(x[1], i) = x[2]
  <2>1. x[1] \in Logged /\ x \in Fetched(x[1]) /\ x[1] \in Runs /\ pc[x[1]] = "done" /\ x[2] \in Combos
    BY <1>0 DEF Rows, Kept, Logged, TypeOK
  <2>2. result[x[1]][x[2]] # "none"
    BY <2>1 DEF Fetched
  <2>3. \E i \in 1..Settled(x[1]) : Combo(x[1], i) = x[2]
    BY <1>0, <2>1, <2>2 DEF ResultInv
  <2>4. Settled(x[1]) = Searched(x[1])
    BY <2>1 DEF Settled, Searched
  <2> QED BY <2>1, <2>3, <2>4
<1>2. ASSUME NEW x \in stored, NEW y \in stored, date[x[1]] = date[y[1]], x[2] = y[2],
             x[1] \in saw[y[1]]
      PROVE  FALSE
  <2>1. PICK i \in 1..Searched(y[1]) : Combo(y[1], i) = y[2]
    BY <1>1
  <2>2. x \in Old(y[1], i)
    BY <1>2, <2>1 DEF Old
  <2>3. x \in doomed[y[1]]
    BY <1>0, <1>1, <1>2, <2>2 DEF Rows, RowsOf, Found
  <2>4. doomed[y[1]] = {}
    BY <1>0, <1>1 DEF Rows, RowsOf, Locked, Active
  <2> QED BY <2>3, <2>4
<1> QED BY <1>2 DEF Overlap

\* Each waits for a combination the other has already been through: with one
\* order, each would be ahead of the other.
LEMMA Deadlocks == TypeOK /\ RunsInv => DeadlockMeansReorder
<1> SUFFICES ASSUME TypeOK, RunsInv, NEW r \in Runs, NEW q \in Runs,
                    Waits(r, q), Waits(q, r), plan[r] = plan[q]
             PROVE  FALSE
  BY DEF DeadlockMeansReorder
<1>0. Rows /\ \A x \in Runs : Pace(x)
  BY RowParts, BudgetParts DEF RunsInv, Paced
<1>1. ASSUME NEW x \in Runs, NEW y \in Runs, Waits(x, y), Waits(y, x), plan[x] = plan[y]
      PROVE  attempted[x] < attempted[y]
  <2>1. pc[x] = "lock" /\ pc[y] = "lock"
    BY <1>1 DEF Waits
  <2>2. PICK s \in target[x] : s \in doomed[y]
    BY <1>1 DEF Waits
  <2>3. s[2] = Combo(x, attempted[x])
    BY <1>0, <2>1 DEF Rows, RowsOf, Targets
  <2>4. PICK i \in 1..Searched(y) : s \in Old(y, i)
    BY <1>0, <2>2 DEF Rows, RowsOf, Locked
  <2>5. plan[x][attempted[x]] = plan[x][i]
    BY <1>1, <2>3, <2>4 DEF Old, Combo
  <2>6. /\ attempted[x] \in Nat /\ attempted[y] \in Nat /\ Len(plan[x]) \in Nat
        /\ attempted[x] > 0 /\ attempted[y] > 0
        /\ attempted[x] <= Len(plan[x]) /\ attempted[y] <= Len(plan[x])
    <3>1. quota[x] \in Nat /\ quota[y] \in Nat /\ attempted[x] \in Nat /\ attempted[y] \in Nat
          /\ plan[x] \in Configs
      BY DEF TypeOK
    <3>2. Len(plan[x]) \in Nat
      BY <3>1, PlanTyped
    <3>3. attempted[x] > 0 /\ attempted[x] <= quota[x] /\ quota[x] <= Len(plan[x])
      BY <1>0, <2>1 DEF Pace
    <3>4. attempted[y] > 0 /\ attempted[y] <= quota[y] /\ quota[y] <= Len(plan[x])
      BY <1>0, <1>1, <2>1 DEF Pace
    <3> QED BY <3>1, <3>2, <3>3, <3>4
  <2>7. i \in 1..(attempted[y] - 1)
    BY <2>1 DEF Searched
  <2>8. attempted[x] = i
    <3>1. attempted[x] \in 1..Len(plan[x]) /\ i \in 1..Len(plan[x])
      BY <2>6, <2>7
    <3>2. plan[x] \in Configs
      BY DEF TypeOK
    <3> QED BY <2>5, <3>1, <3>2, PlanTyped
  <2> QED BY <2>6, <2>7, <2>8
<1>2. attempted[r] < attempted[q] /\ attempted[q] < attempted[r]
  BY <1>1
<1> QED BY <1>2 DEF TypeOK

LEMMA ReportsOf ==
  ASSUME TypeOK, RunsInv, NEW r \in Runs, pc[r] \in {"commit", "done"}
  PROVE  /\ status[r] = "success" <=> \A i \in 1..Len(plan[r]) : result[r][plan[r][i]] = "success"
         /\ status[r] = "failed"  <=> \A c \in Combos : result[r][c] # "success"
         /\ status[r] # "running"
         /\ attempted[r] = Cardinality(Fetched(r))
<1> DEFINE n == attempted[r]  L == Len(plan[r])  m == Cardinality(Successes(r))  T == Firsts(plan[r], n)
<1>1. r \in Runs /\ pc[r] \in {"commit", "done"} /\ plan[r] \in Configs
  BY DEF TypeOK
<1>2. n \in Nat /\ L \in Nat /\ L > 0 /\ n <= L
  <2>1. n \in Nat /\ quota[r] \in Nat
    BY <1>1 DEF TypeOK
  <2>2. L \in Nat /\ L > 0
    BY <1>1, PlanTyped
  <2>3. n <= quota[r] /\ quota[r] <= L
    BY <1>1, BudgetParts DEF RunsInv, Paced, Pace
  <2> QED BY <2>1, <2>2, <2>3
<1>3. status[r] = IF m = 0 THEN "failed" ELSE IF m < L THEN "partial" ELSE "success"
  BY <1>1 DEF RunsInv, ResultInv, Report
<1>4. IsFiniteSet(T) /\ Cardinality(T) = n /\ T \subseteq Combos
  BY <1>1, <1>2, FirstsCount
\* It has a result for the first n of its combinations, and for no other.
<1>5. \A c \in Combos : result[r][c] # "none" <=> c \in T
  <2>1. Settled(r) = n
    BY <1>1 DEF Settled
  <2>2. \A c \in Combos : result[r][c] # "none" <=> \E i \in 1..n : Combo(r, i) = c
    BY <1>1, <2>1 DEF RunsInv, ResultInv
  <2> QED BY <2>2 DEF Combo, Firsts
<1>6. Successes(r) \subseteq T
  BY <1>5 DEF Successes
<1>7. m \in Nat /\ m <= n /\ IsFiniteSet(Successes(r)) /\ (m = n => Successes(r) = T)
  <2> DEFINE U == Successes(r)
  <2>1. U \in SUBSET T
    BY <1>6
  <2> HIDE DEF T, U
  <2>2. IsFiniteSet(U) /\ Cardinality(U) <= Cardinality(T) /\ (Cardinality(T) = Cardinality(U) => T = U)
    BY <1>4, <2>1, FS_Subset
  <2>3. Cardinality(U) \in Nat
    BY <2>2, FS_CardinalityType
  <2> QED BY <1>4, <2>2, <2>3 DEF U
<1>8. m = L <=> \A i \in 1..L : result[r][plan[r][i]] = "success"
  <2>1. ASSUME m = L, NEW i \in 1..L PROVE result[r][plan[r][i]] = "success"
    <3>1. n = L /\ Successes(r) = T
      BY <1>2, <1>7, <2>1
    <3>2. plan[r][i] \in T
      BY <3>1 DEF Firsts
    <3> QED BY <3>1, <3>2 DEF Successes
  <2>2. ASSUME \A i \in 1..L : result[r][plan[r][i]] = "success" PROVE m = L
    <3> DEFINE V == Firsts(plan[r], L)  U == Successes(r)
    <3>1. V \in SUBSET U
      <4>1. \A i \in 1..L : plan[r][i] \in Combos
        BY <1>1, PlanTyped
      <4> QED BY <2>2, <4>1 DEF Successes, Firsts
    <3>2. Cardinality(V) = L
      BY <1>1, <1>2, FirstsCount
    <3>3. IsFiniteSet(U) /\ m = Cardinality(U)
      BY <1>7
    <3> HIDE DEF V, U, m
    <3>4. Cardinality(V) <= Cardinality(U)
      BY <3>1, <3>3, FS_Subset
    <3> QED BY <1>2, <1>7, <3>2, <3>3, <3>4
  <2> QED BY <2>1, <2>2
<1>9. m = 0 <=> \A c \in Combos : result[r][c] # "success"
  <2>1. m = 0 <=> Successes(r) = {}
    BY <1>7, FS_EmptySet
  <2> QED BY <2>1 DEF Successes
<1>10. n = Cardinality(Fetched(r))
  <2> DEFINE F == Fetched(r)  f == [i \in 1..n |-> <<r, plan[r][i]>>]
  <2>1. F = {<<r, c>> : c \in T}
    BY <1>4, <1>5 DEF Fetched
  <2>2. f \in [1..n -> F] /\ \A x \in F : \E i \in 1..n : f[i] = x
    BY <2>1 DEF Firsts
  <2>3. \A i, j \in 1..n : f[i] = f[j] => i = j
    <3>1. \A i \in 1..n : i \in 1..L
      BY <1>2
    <3> QED BY <1>1, <3>1, PlanTyped
  <2> HIDE DEF F, f
  <2>4. Cardinality(F) = n
    BY <1>2, <2>2, <2>3, Counting
  <2> QED BY <2>4 DEF F
<1>11. status[r] = "success" <=> m = L
  <2> HIDE DEF m, L, n
  <2> QED BY <1>2, <1>3, <1>7
<1>12. (status[r] = "failed" <=> m = 0) /\ status[r] # "running"
  <2> HIDE DEF m, L, n
  <2> QED BY <1>3
<1> QED BY <1>8, <1>9, <1>10, <1>11, <1>12

LEMMA Reports == TypeOK /\ RunsInv => ReportTellsTheTruth
BY ReportsOf DEF ReportTellsTheTruth, Logged

\* Of some runs of which each has counted, or been counted by, each other one,
\* one has counted all the others.
LEMMA LastToCount ==
  ASSUME SawInv, TypeOK, NEW X \in SUBSET Runs, X # {},
         \A r \in X : \A q \in X \ {r} : ~Overlap(r, q)
  PROVE  \E q \in X : X \ {q} \subseteq saw[q]
<1> DEFINE F == {Runs \ saw[r] : r \in X}
<1>1. PICK Y \in F : \A Z \in F : Z \subseteq Y => Z = Y
  <2>1. F \subseteq SUBSET Runs /\ F # {}
    OBVIOUS
  <2> HIDE DEF F
  <2> QED BY <2>1, Smallest, RunsAssumption
<1>2. PICK q \in X : Y = Runs \ saw[q]
  BY <1>1
<1>3. ASSUME NEW p \in X \ {q}, p \notin saw[q]
      PROVE  FALSE
  <2>1. q \in saw[p]
    BY <1>3 DEF Overlap
  <2>2. saw[q] \subseteq saw[p] /\ q \notin saw[q] /\ q \in Runs
    BY <2>1 DEF SawInv
  <2>3. Runs \ saw[p] \in F /\ Runs \ saw[p] \subseteq Y
    BY <1>2, <2>2
  <2>4. Runs \ saw[p] = Runs \ saw[q]
    BY <1>1, <1>2, <2>3
  <2> QED BY <2>1, <2>2, <2>4
<1> QED BY <1>3

\* The last of them to count stays within what the others left.
LEMMA Overspending == TypeOK /\ RunsInv => OverspentMeansRace
<1> SUFFICES ASSUME TypeOK, RunsInv, NEW d \in Days
             PROVE  LET Today == {r \in Logged : born[r] = d}
                    IN  Requests(Today) > Budget =>
                          \E r \in Today : counted[r] # d \/ \E q \in Today \ {r} : Overlap(r, q)
  BY DEF OverspentMeansRace
<1> DEFINE Today == {r \in Logged : born[r] = d}
<1> SUFFICES ASSUME Requests(Today) > Budget,
                    \A r \in Today : counted[r] = d /\ \A q \in Today \ {r} : ~Overlap(r, q)
             PROVE  FALSE
  OBVIOUS
<1>0. SawInv /\ \A r \in Runs : Pace(r) /\ Within(r)
  BY BudgetParts DEF RunsInv, Paced
<1>t. Today \in SUBSET Runs /\ \A r \in Today : born[r] = d
  BY DEF Logged
<1>c. \A r \in Today : counted[r] = d /\ \A q \in Today \ {r} : ~Overlap(r, q)
  OBVIOUS
<1>r. Requests(Today) > Budget
  OBVIOUS
<1> HIDE DEF Today
<1> DEFINE F == {X \in SUBSET Today : Total(attempted, X) > Budget}
\* A least set of them that overspends.
<1>1. PICK X \in F : \A Y \in F : Y \subseteq X => Y = X
  <2>1. F \subseteq SUBSET Today /\ F # {}
    <3>1. Total(attempted, Today) > Budget
      BY <1>r, <1>t, RequestsTyped
    <3> QED BY <3>1
  <2>2. IsFiniteSet(Today)
    BY <1>t, RequestsTyped
  <2> HIDE DEF F
  <2> QED BY <2>1, <2>2, Smallest
<1>2. X \in SUBSET Today /\ X \in SUBSET Runs /\ Total(attempted, X) > Budget
  BY <1>1, <1>t
<1>3. \A Y \in SUBSET X : Y # X => ~(Total(attempted, Y) > Budget)
  BY <1>1, <1>2
<1> HIDE DEF F
<1>4. /\ IsFiniteSet(X) /\ \A x \in X : attempted[x] \in Nat
      /\ Total(attempted, X) \in Nat /\ (X = {} => Total(attempted, X) = 0)
  <2>1. IsFiniteSet(X) /\ \A x \in X : attempted[x] \in Nat
    BY <1>2, RequestsTyped
  <2> QED BY <2>1, TotalUnfolds
<1>5. X # {}
  BY <1>2, <1>4, BudgetAssumption
<1>6. PICK q \in X : X \ {q} \subseteq saw[q]
  <2>1. \A r \in X : \A p \in X \ {r} : ~Overlap(r, p)
    BY <1>2, <1>c
  <2> QED BY <1>0, <1>2, <1>5, <2>1, LastToCount
<1> DEFINE R == X \ {q}
<1>7. Total(attempted, X) = attempted[q] + Total(attempted, R)
  BY <1>4, TotalRemove
<1>8. ~(Total(attempted, R) > Budget)
  BY <1>3
<1>9. q \in Runs /\ quota[q] \in Nat /\ attempted[q] \in Nat /\ attempted[q] <= quota[q] /\ Within(q)
  BY <1>0, <1>2 DEF TypeOK, Pace
<1>10. Total(attempted, R) \in Nat
  <2>1. R \in SUBSET Runs
    BY <1>2
  <2> HIDE DEF R
  <2> QED BY <2>1, RequestsTyped
<1>11. quota[q] # 0
  <2> HIDE DEF R
  <2> QED BY <1>2, <1>7, <1>8, <1>9, <1>10
<1>12. quota[q] + Total(attempted, Seen(q)) <= Budget
  BY <1>9, <1>11 DEF Within
<1>13. Total(attempted, R) <= Total(attempted, Seen(q))
  <2>1. R \in SUBSET Seen(q)
    <3>1. \A p \in R : born[p] = d /\ counted[q] = d /\ p \in saw[q]
      BY <1>2, <1>6, <1>c, <1>t
    <3>2. d \in Int
      BY DEF Days
    <3> QED BY <3>1, <3>2 DEF Seen
  <2>2. IsFiniteSet(Seen(q)) /\ \A p \in Seen(q) : attempted[p] \in Nat
    <3>1. Seen(q) \in SUBSET Runs
      BY <1>9 DEF Seen, TypeOK
    <3> QED BY <3>1, RequestsTyped
  <2> HIDE DEF R
  <2> QED BY <2>1, <2>2, TotalMonotone
<1>14. Total(attempted, Seen(q)) \in Nat
  <2>1. Seen(q) \in SUBSET Runs
    BY <1>9 DEF Seen, TypeOK
  <2> QED BY <2>1, RequestsTyped
<1> HIDE DEF R
<1> QED BY <1>2, <1>7, <1>9, <1>10, <1>12, <1>13, <1>14, BudgetAssumption

\* What a commit removes, it has a row of its own for; a row without data is one
\* its report admits.
LEMMA Replaces ==
  TypeOK /\ RunsInv /\ [Next]_vars => \A s \in Readable \ Readable' : Refetched(s) \/ Refused(s)
<1> SUFFICES ASSUME TypeOK, RunsInv, [Next]_vars, NEW s \in Readable, s \notin Readable'
             PROVE  Refetched(s) \/ Refused(s)
  OBVIOUS
<1>0. Rows /\ ResultInv /\ (\A x \in Runs : Pace(x))
  BY RowParts, BudgetParts DEF RunsInv, Paced
<1>a. s \in stored /\ s[1] \in Logged /\ result[s[1]][s[2]] = "success"
  BY <1>0 DEF Readable, Rows, Kept
<1>b. s \notin stored'
  <2>1. result'[s[1]] = result[s[1]]
    BY <1>a, LoggedStays DEF Same
  <2> QED BY <1>a, <2>1 DEF Readable
<1>1. PICK r \in Runs : Commit(r)
  BY <1>a, <1>b, AnyStep, OnlyCommitLogs
<1>2. /\ stored' = (stored \ doomed[r]) \cup Fetched(r) /\ r \notin Logged /\ pc[r] = "commit"
      /\ Logged' = Logged \cup {r} /\ result' = result /\ status' = status
  BY <1>1, CommitLogs DEF Commit, answers
<1>3. s \in doomed[r]
  BY <1>a, <1>b, <1>2
<1>4. PICK i \in 1..Searched(r) : s \in Old(r, i)
  BY <1>0, <1>3 DEF Rows, RowsOf, Locked
<1> DEFINE c == Combo(r, i)  t == <<r, c>>
<1>5. Settled(r) = Searched(r) /\ Searched(r) = attempted[r]
  BY <1>2 DEF Settled, Searched
<1>6. c \in Combos /\ i \in 1..Len(plan[r])
  <2>1. attempted[r] \in Nat /\ quota[r] \in Nat /\ plan[r] \in Configs
    BY DEF TypeOK
  <2>2. Len(plan[r]) \in Nat
    BY <2>1, PlanTyped
  <2>3. i \in 1..attempted[r] /\ attempted[r] <= quota[r] /\ quota[r] <= Len(plan[r])
    BY <1>0, <1>5 DEF Pace
  <2>4. i \in 1..Len(plan[r])
    BY <2>1, <2>2, <2>3
  <2> QED BY <2>4, CurrentCombo
<1>7. result[r][c] \in {"success", "error"} /\ t \in Fetched(r)
  <2>1. result[r][c] # "none"
    BY <1>0, <1>5, <1>6 DEF ResultInv
  <2> QED BY <1>6, <2>1 DEF Fetched, TypeOK
<1>8. t \in stored' /\ t \notin stored
  <2>1. t \in stored => t[1] \in Logged
    BY <1>0 DEF Rows, Kept
  <2> QED BY <1>2, <1>7, <2>1
<1>9. date[t[1]] = date[s[1]] /\ t[2] = s[2] /\ t[1] = r /\ t[2] = c
  BY <1>4 DEF Old
<1>10. CASE result[r][c] = "success"
  <2>1. t \in Readable'
    BY <1>2, <1>8, <1>9, <1>10 DEF Readable
  <2> QED BY <1>8, <1>9, <2>1 DEF Refetched
<1>11. CASE result[r][c] = "error"
  <2>1. status[r] # "success"
    <3>2. status[r] = "success" => \A j \in 1..Len(plan[r]) : result[r][plan[r][j]] = "success"
      BY <1>2, ReportsOf
    <3>3. plan[r][i] = c
      BY DEF Combo
    <3> QED BY <1>6, <1>11, <3>2, <3>3
  <2> QED BY <1>8, <1>9, <1>11, <2>1 DEF Refused
<1> QED BY <1>7, <1>10, <1>11

\* Whatever runs overlap, fail or change the settings: what the runs do to the
\* budget, to each other's snapshots and to their own reports.
THEOREM FetchIsSound == Safety => []FetchInv
<1>1. TypeOK /\ RunsInv => FetchInv
  BY Overspending, Duplicates, Reports, Deadlocks DEF FetchInv
<1> QED BY <1>1, RunsInvHolds, PTL

\* Data go only with an answer in their place, or with a refusal the run admits.
THEOREM RefetchesReplace == Safety => RefetchReplaces
<1>1. TypeOK /\ RunsInv /\ [Next]_vars =>
        [\A s \in Readable \ Readable' : Refetched(s) \/ Refused(s)]_vars
  BY Replaces
<1> QED BY <1>1, RunsInvHolds, PTL DEF Safety, RefetchReplaces

=============================================================================
