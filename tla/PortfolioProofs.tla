-------------------------- MODULE PortfolioProofs ---------------------------
(***************************************************************************)
(* Proofs about the two parts of src/solver/portfolio that keep state.     *)
(* They share none of it, and each has its own specification.              *)
(*                                                                         *)
(* ResourceManager, for any set of executions, any requests and any        *)
(* limits: the counters are exact sums over the leases and within the      *)
(* limits, and a deadline turns a waiter away only under contention.       *)
(*                                                                         *)
(* ArmSelector, for every number of arms, every policy and every sequence  *)
(* of rewards.  Two runs never return at the same time, so the arms' last  *)
(* pulls are distinct and at most one arm reaches the starvation limit at  *)
(* a time; that one is chosen next.  Comparing mean rewards is a strict    *)
(* order, so racing keeps its best arm and removes nothing better than     *)
(* what stays, and the rotations serve the arms round by round.            *)
(***************************************************************************)
EXTENDS ResourceManager, ArmSelector,
        FiniteSetTheorems, NaturalsInduction, WellFoundedInduction, TLAPS

-----------------------------------------------------------------------------
(* The resource manager. *)

(* A reservation that fits, and a release, stay within the limits. *)
LEMMA ReserveType ==
  ASSUME NEW u \in ResourceUsage, NEW r \in ResourceRequest, fits(u, r)
  PROVE  reserve(u, r) \in ResourceUsage
BY LimitsAssumption
   DEF ResourceUsage, ResourceRequest, fits, reserve, SaturatingAdd

(* A release never leaves the limits: it only subtracts, down to zero. *)
LEMMA ReleaseType ==
  ASSUME NEW u \in ResourceUsage, NEW r \in ResourceRequest
  PROVE  released(u, r) \in ResourceUsage
BY LimitsAssumption
   DEF ResourceUsage, ResourceRequest, released, SaturatingSub

(* The idle manager has the types. *)
LEMMA InitTypeOK == Init => TypeOK
BY LimitsAssumption
   DEF Init, TypeOK, ResourceUsage, ResourceRequest, HolderStates, NoRequest

(* The step of one execution and what it does to the usage. *)
LEMMA NextTypeOK == TypeOK /\ [Next]_vars => TypeOK'
<1> SUFFICES ASSUME TypeOK, [Next]_vars
             PROVE  TypeOK'
  OBVIOUS
<1> USE DEF TypeOK, HolderStates
<1>1. ASSUME NEW h \in Holders, NEW r \in Requests, Refused(h, r)
      PROVE  TypeOK'
  BY <1>1, RequestsAssumption DEF Refused, Enter
<1>2. ASSUME NEW h \in Holders, NEW r \in Requests, try_acquire(h, r)
      PROVE  TypeOK'
  <2>1. r \in ResourceRequest
    BY RequestsAssumption
  <2>2. usage' \in ResourceUsage
    BY <1>2, <2>1, ReserveType DEF try_acquire
  <2> QED
    BY <1>2, <2>1, <2>2 DEF try_acquire, Enter
<1>3. ASSUME NEW h \in Holders, NEW r \in Requests, acquire_until(h, r)
      PROVE  TypeOK'
  BY <1>3, RequestsAssumption DEF acquire_until, Enter
<1>4. ASSUME NEW h \in Holders, wait_cancelled(h)
      PROVE  TypeOK'
  BY <1>4 DEF wait_cancelled, Leave
<1>5. ASSUME NEW h \in Holders, wait_fits(h)
      PROVE  TypeOK'
  <2>1. usage' \in ResourceUsage
    BY <1>5, ReserveType DEF wait_fits
  <2> QED
    BY <1>5, <2>1 DEF wait_fits, Leave
<1>6. ASSUME NEW h \in Holders, wait_expired(h)
      PROVE  TypeOK'
  BY <1>6 DEF wait_expired, Leave
<1>7. ASSUME NEW h \in Holders, drop_lease(h)
      PROVE  TypeOK'
  <2>1. usage' \in ResourceUsage
    BY <1>7, ReleaseType DEF drop_lease
  <2> QED
    BY <1>7, <2>1 DEF drop_lease, Leave
<1>8. CASE \/ \E h \in Holders : DeadlinePasses(h)
           \/ \E job \in SUBSET Holders : CancelTokens(job)
  BY <1>8 DEF CancelTokens, DeadlinePasses
<1>9. CASE UNCHANGED vars
  BY <1>9 DEF vars
<1> QED
  BY <1>1, <1>2, <1>3, <1>4, <1>5, <1>6, <1>7, <1>8, <1>9 DEF Next, Acquire, Wait

(* The usage counters never exceed the limits, whatever is requested,      *)
(* cancelled or released in whichever order.                               *)
THEOREM TypeCorrect == Spec => []TypeOK
BY InitTypeOK, NextTypeOK, PTL DEF Spec

-----------------------------------------------------------------------------
(* The idle manager counts no run. *)
LEMMA InitRuns == Init => RunsCounted
<1> SUFFICES ASSUME Init
             PROVE  RunsCounted
  OBVIOUS
<1>1. Holding = {}
  BY DEF Init, Holding
<1> QED
  BY <1>1, FS_EmptySet, LimitsAssumption DEF Init, RunsCounted

(* The executions that hold a lease are finitely many. *)
LEMMA HoldingFinite == IsFiniteSet(Holding) /\ Cardinality(Holding) \in Nat
BY HoldersAssumption, FS_Subset, FS_CardinalityType DEF Holding

(* A step that leaves the leases and the counter alone. *)
LEMMA NoLeaseChange ==
  ASSUME RunsCounted, Holding' = Holding, usage'.runs = usage.runs
  PROVE  RunsCounted'
BY DEF RunsCounted

(* A lease taken within the limit is counted. *)
LEMMA LeaseTaken ==
  ASSUME TypeOK, RunsCounted, NEW h \in Holders, h \notin Holding,
         Holding' = Holding \cup {h}, NEW r, fits(usage, r), usage' = reserve(usage, r)
  PROVE  RunsCounted'
<1>1. usage.runs \in Nat /\ usage'.runs = usage.runs + 1 /\ usage.runs < MaxRuns
  BY LimitsAssumption DEF TypeOK, ResourceUsage, reserve, fits
<1>2. Cardinality(Holding') = Cardinality(Holding) + 1
  BY HoldingFinite, FS_AddElement
<1> QED
  BY <1>1, <1>2, LimitsAssumption DEF RunsCounted

(* A lease dropped is uncounted once. *)
LEMMA LeaseDropped ==
  ASSUME TypeOK, RunsCounted, NEW h \in Holding,
         Holding' = Holding \ {h}, NEW r, usage' = released(usage, r)
  PROVE  RunsCounted'
<1>1. Cardinality(Holding') = Cardinality(Holding) - 1
  BY HoldingFinite, FS_RemoveElement
<1>2. Cardinality(Holding) # 0
  BY HoldingFinite, FS_EmptySet
<1>3. usage'.runs = usage.runs - 1
  BY <1>2, HoldingFinite, LimitsAssumption DEF RunsCounted, released, SaturatingSub
<1> QED
  BY <1>1, <1>3, HoldingFinite, LimitsAssumption DEF RunsCounted

(* Every step keeps the count exact. *)
LEMMA NextRuns == TypeOK /\ RunsCounted /\ [Next]_vars => RunsCounted'
<1> SUFFICES ASSUME TypeOK, RunsCounted, [Next]_vars
             PROVE  RunsCounted'
  OBVIOUS
<1>1. ASSUME NEW h \in Holders, NEW r \in Requests, try_acquire(h, r), fits(usage, r)
      PROVE  RunsCounted'
  <2>1. h \notin Holding /\ Holding' = Holding \cup {h} /\ usage' = reserve(usage, r)
    BY <1>1 DEF try_acquire, Enter, Holding, TypeOK
  <2> QED
    BY <1>1, <2>1, LeaseTaken
<1>2. ASSUME NEW h \in Holders, wait_fits(h)
      PROVE  RunsCounted'
  <2>1. h \notin Holding /\ Holding' = Holding \cup {h}
    BY <1>2 DEF wait_fits, Leave, Holding, TypeOK
  <2> QED
    BY <1>2, <2>1, LeaseTaken DEF wait_fits
<1>3. ASSUME NEW h \in Holders, drop_lease(h)
      PROVE  RunsCounted'
  <2>1. h \in Holding /\ Holding' = Holding \ {h}
    BY <1>3 DEF drop_lease, Leave, Holding, TypeOK
  <2> QED
    BY <1>3, <2>1, LeaseDropped DEF drop_lease
<1>4. ASSUME NEW h \in Holders, NEW r \in Requests,
             \/ Refused(h, r) \/ acquire_until(h, r)
             \/ try_acquire(h, r) /\ ~fits(usage, r)
      PROVE  RunsCounted'
  <2>1. Holding' = Holding /\ usage' = usage
    BY <1>4 DEF Refused, acquire_until, try_acquire, Enter, Holding, TypeOK
  <2> QED
    BY <2>1, NoLeaseChange
<1>5. ASSUME NEW h \in Holders, wait_cancelled(h) \/ wait_expired(h)
      PROVE  RunsCounted'
  <2>1. Holding' = Holding /\ usage' = usage
    BY <1>5 DEF wait_cancelled, wait_expired, Leave, Holding, TypeOK
  <2> QED
    BY <2>1, NoLeaseChange
<1>6. CASE \/ \E h \in Holders : DeadlinePasses(h)
           \/ \E job \in SUBSET Holders : CancelTokens(job)
  <2>1. Holding' = Holding /\ usage' = usage
    BY <1>6 DEF CancelTokens, DeadlinePasses, Holding
  <2> QED
    BY <2>1, NoLeaseChange
<1>7. CASE UNCHANGED vars
  <2>1. Holding' = Holding /\ usage' = usage
    BY <1>7 DEF vars, Holding
  <2> QED
    BY <2>1, NoLeaseChange
<1> QED
  BY <1>1, <1>2, <1>3, <1>4, <1>5, <1>6, <1>7 DEF Next, Acquire, Wait

(* No more than max_concurrent_runs executions ever hold a lease, and the  *)
(* counter that admits them is exact: no release is lost or counted twice. *)
THEOREM RunsBounded == Spec => []RunsCounted
BY InitTypeOK, NextTypeOK, InitRuns, NextRuns, PTL DEF Spec

-----------------------------------------------------------------------------
(* Sums over finite sets, for what the leases add up to.                   *)

(* Every nonempty set of natural numbers has a least element: where a      *)
(* fact is to be shown by induction, its least counterexample is refuted.  *)
LEMMA LeastNatural ==
  ASSUME NEW S, S \subseteq Nat, S # {}
  PROVE  \E m \in S : \A x \in S : m <= x
<1>1. PICK m \in S : \A x \in S : ~(<<x, m>> \in OpToRel(<, Nat))
  BY NatLessThanWellFounded, WFMin
<1>2. \A x \in S : ~(x < m)
  BY <1>1 DEF OpToRel
<1> QED
  BY <1>2

(* The recursion by which the library sums f up over the subsets of S. *)
RecSum(f, S, g) ==
  [s \in SUBSET S |-> IF s = {} THEN 0
     ELSE f[CHOOSE x \in s : TRUE] + g[s \ {CHOOSE x \in s : TRUE}]]

(* The sum of the library is the value of that recursion. *)
LEMMA SumIsRec ==
  ASSUME NEW f, NEW S
  PROVE  SumFunctionOnSet(f, S) = (CHOOSE g : g = RecSum(f, S, g))[S]
BY DEF SumFunctionOnSet, FoldFunctionOnSet, MapThenFoldSet, RecSum

SmallSubsets(S, n) == {s \in SUBSET S : Cardinality(s) <= n}

Picked(s) == CHOOSE x \in s : TRUE

Solves(f, D, g) ==
  \A s \in D : g[s] = IF s = {} THEN 0 ELSE f[Picked(s)] + g[s \ {Picked(s)}]

(* What the arguments below need of the subsets of a finite set. *)
LEMMA SubsetFacts ==
  ASSUME NEW S, IsFiniteSet(S), NEW s \in SUBSET S
  PROVE  /\ Cardinality(s) \in Nat /\ Cardinality(S) \in Nat /\ Cardinality(s) <= Cardinality(S)
         /\ Cardinality(s) = 0 <=> s = {}
         /\ \A x \in s : s \ {x} \in SUBSET S /\ Cardinality(s \ {x}) = Cardinality(s) - 1
         /\ s # {} => Picked(s) \in s
BY FS_Subset, FS_CardinalityType, FS_EmptySet, FS_RemoveElement DEF Picked

(* The recursion has a solution on the subsets with at most n elements. *)
LEMMA SolutionExists ==
  ASSUME NEW S, IsFiniteSet(S), NEW f, \A x \in S : f[x] \in Nat, NEW n \in Nat
  PROVE  \E g \in [SmallSubsets(S, n) -> Nat] : Solves(f, SmallSubsets(S, n), g)
<1> DEFINE Has(k) == \E g \in [SmallSubsets(S, k) -> Nat] : Solves(f, SmallSubsets(S, k), g)
           T == {k \in Nat : ~Has(k)}
<1> SUFFICES ASSUME T # {}
             PROVE  FALSE
  OBVIOUS
<1>1. PICK k \in T : \A m \in T : k <= m
  <2>1. T \in SUBSET Nat
    OBVIOUS
  <2> HIDE DEF T
  <2> QED
    BY <2>1, LeastNatural
<1>2. k \in Nat /\ ~Has(k)
  OBVIOUS
<1>3. k # 0
  <2>1. ASSUME k = 0
        PROVE  FALSE
    <3>1. \A s \in SmallSubsets(S, k) : s = {}
      BY <2>1, SubsetFacts DEF SmallSubsets
    <3>2. [s \in SmallSubsets(S, k) |-> 0] \in [SmallSubsets(S, k) -> Nat]
      OBVIOUS
    <3>3. Solves(f, SmallSubsets(S, k), [s \in SmallSubsets(S, k) |-> 0])
      BY <3>1 DEF Solves
    <3> QED
      BY <1>2, <3>2, <3>3
  <2> QED
    BY <2>1
<1>4. k - 1 \in Nat /\ Has(k - 1)
  <2>1. k - 1 \in Nat /\ ~(k <= k - 1)
    BY <1>2, <1>3
  <2> QED
    BY <1>1, <2>1
<1>5. PICK g \in [SmallSubsets(S, k - 1) -> Nat] : Solves(f, SmallSubsets(S, k - 1), g)
  BY <1>4
<1> DEFINE h == [s \in SmallSubsets(S, k) |->
                   IF s = {} THEN 0 ELSE f[Picked(s)] + g[s \ {Picked(s)}]]
<1>6. \A s \in SmallSubsets(S, k) : s # {} =>
        /\ Picked(s) \in S /\ s \ {Picked(s)} \in SmallSubsets(S, k - 1)
        /\ s \ {Picked(s)} \in SmallSubsets(S, k)
  BY <1>2, SubsetFacts DEF SmallSubsets
<1>7. h \in [SmallSubsets(S, k) -> Nat]
  BY <1>6
<1>8. \A s \in SmallSubsets(S, k - 1) : s \in SmallSubsets(S, k) /\ h[s] = g[s]
  <2> TAKE s \in SmallSubsets(S, k - 1)
  <2>1. s \in SmallSubsets(S, k)
    BY <1>2, SubsetFacts DEF SmallSubsets
  <2> QED
    BY <2>1, <1>5 DEF Solves
<1>9. Solves(f, SmallSubsets(S, k), h)
  BY <1>6, <1>8 DEF Solves
<1> QED
  BY <1>2, <1>7, <1>9

(* g[s] is the sum of f over s, for every subset s of S. *)
SumsUp(f, S, g) == Solves(f, SUBSET S, g)

(* A solution is determined by the values of the function. *)
LEMMA SolutionUnique ==
  ASSUME NEW S, IsFiniteSet(S), NEW T, T \subseteq S, NEW f, NEW e, \A x \in T : f[x] = e[x],
         NEW g, SumsUp(f, S, g), NEW h, SumsUp(e, T, h)
  PROVE  \A s \in SUBSET T : g[s] = h[s]
<1> DEFINE Bad == {s \in SUBSET T : g[s] # h[s]}
           Sizes == {Cardinality(s) : s \in Bad}
<1> SUFFICES ASSUME Bad # {}
             PROVE  FALSE
  OBVIOUS
<1>1. Bad \subseteq SUBSET S /\ Sizes \in SUBSET Nat /\ Sizes # {}
  BY SubsetFacts
<1>2. PICK s \in Bad : \A t \in Bad : Cardinality(s) <= Cardinality(t)
  <2>1. PICK n \in Sizes : \A m \in Sizes : n <= m
    <3> HIDE DEF Sizes
    <3> QED
      BY <1>1, LeastNatural
  <2> QED
    BY <2>1
<1>3. s \in SUBSET S /\ s \in SUBSET T /\ g[s] # h[s]
  BY <1>1
<1>4. s # {}
  BY <1>3 DEF SumsUp, Solves
<1> DEFINE x == Picked(s)
<1>5. /\ x \in T /\ s \ {x} \in SUBSET T
      /\ Cardinality(s) \in Nat /\ Cardinality(s \ {x}) = Cardinality(s) - 1
  BY <1>3, <1>4, SubsetFacts
<1>6. s \ {x} \notin Bad
  <2> SUFFICES ASSUME s \ {x} \in Bad
               PROVE  FALSE
    OBVIOUS
  <2>1. Cardinality(s) <= Cardinality(s) - 1
    BY <1>2, <1>5
  <2> QED
    BY <1>5, <2>1
<1>7. g[s] = f[x] + g[s \ {x}] /\ h[s] = e[x] + h[s \ {x}]
  BY <1>3, <1>4 DEF SumsUp, Solves
<1> QED
  BY <1>3, <1>5, <1>6, <1>7

(* The sum over a finite set follows the recursion on all its subsets. *)
LEMMA SumRecursion ==
  ASSUME NEW S, IsFiniteSet(S), NEW f, \A x \in S : f[x] \in Nat
  PROVE  \E g \in [SUBSET S -> Nat] : SumsUp(f, S, g) /\ SumFunctionOnSet(f, S) = g[S]
<1>1. SmallSubsets(S, Cardinality(S)) = SUBSET S /\ Cardinality(S) \in Nat
  BY SubsetFacts DEF SmallSubsets
<1>2. \E g \in [SmallSubsets(S, Cardinality(S)) -> Nat] :
        Solves(f, SmallSubsets(S, Cardinality(S)), g)
  BY <1>1, SolutionExists
<1>3. PICK g \in [SUBSET S -> Nat] : SumsUp(f, S, g)
  BY <1>1, <1>2 DEF SumsUp
<1>4. g = RecSum(f, S, g)
  BY <1>3 DEF SumsUp, Solves, RecSum, Picked
<1> DEFINE c == CHOOSE e : e = RecSum(f, S, e)
<1>5. c = RecSum(f, S, c)
  BY <1>4
<1>6. SumFunctionOnSet(f, S) = c[S]
  BY SumIsRec
<1> HIDE DEF c
<1>7. SumsUp(f, S, c)
  BY <1>5 DEF SumsUp, Solves, RecSum, Picked
<1>8. \A s \in SUBSET S : c[s] = g[s]
  <2>1. S \subseteq S /\ \A x \in S : f[x] = f[x]
    OBVIOUS
  <2> QED
    BY <1>3, <1>7, <2>1, SolutionUnique
<1> QED
  BY <1>3, <1>6, <1>8

(* Sums of functions that agree on the set are equal. *)
LEMMA SumAgrees ==
  ASSUME NEW S, IsFiniteSet(S), NEW f, NEW e, \A x \in S : f[x] \in Nat /\ f[x] = e[x]
  PROVE  SumFunctionOnSet(f, S) = SumFunctionOnSet(e, S) /\ SumFunctionOnSet(f, S) \in Nat
<1>1. PICK g \in [SUBSET S -> Nat] : SumsUp(f, S, g) /\ SumFunctionOnSet(f, S) = g[S]
  BY SumRecursion
<1>2. PICK h \in [SUBSET S -> Nat] : SumsUp(e, S, h) /\ SumFunctionOnSet(e, S) = h[S]
  BY SumRecursion
<1>3. \A s \in SUBSET S : g[s] = h[s]
  <2>1. S \subseteq S /\ \A x \in S : f[x] = e[x]
    OBVIOUS
  <2> QED
    BY <1>1, <1>2, <2>1, SolutionUnique
<1> QED
  BY <1>1, <1>2, <1>3

(* Nothing sums up to zero. *)
LEMMA SumEmpty ==
  ASSUME NEW f
  PROVE  SumFunctionOnSet(f, {}) = 0
<1>1. PICK g \in [SUBSET {} -> Nat] : SumsUp(f, {}, g) /\ SumFunctionOnSet(f, {}) = g[{}]
  BY SumRecursion, FS_EmptySet
<1> QED
  BY <1>1 DEF SumsUp, Solves

(* Whichever element is taken out, it and the rest make up the sum. *)
Additive(f, S, g) == \A s \in SUBSET S : \A x \in s : g[s] = f[x] + g[s \ {x}]

(* The order in which the recursion picks elements does not matter. *)
LEMMA SolutionAtElement ==
  ASSUME NEW S, IsFiniteSet(S), NEW f, \A x \in S : f[x] \in Nat,
         NEW g, SumsUp(f, S, g), \A s \in SUBSET S : g[s] \in Nat
  PROVE  Additive(f, S, g)
<1> DEFINE Bad == {s \in SUBSET S : \E x \in s : g[s] # f[x] + g[s \ {x}]}
           Sizes == {Cardinality(s) : s \in Bad}
<1> SUFFICES ASSUME Bad # {}
             PROVE  FALSE
  BY DEF Additive
<1>1. Sizes \in SUBSET Nat /\ Sizes # {}
  <2>1. \A s \in SUBSET S : Cardinality(s) \in Nat
    BY SubsetFacts
  <2> QED
    BY <2>1
<1>2. PICK s \in Bad : \A t \in Bad : Cardinality(s) <= Cardinality(t)
  <2>1. PICK n \in Sizes : \A m \in Sizes : n <= m
    <3> HIDE DEF Sizes
    <3> QED
      BY <1>1, LeastNatural
  <2> QED
    BY <2>1
<1>3. PICK y \in s : g[s] # f[y] + g[s \ {y}]
  OBVIOUS
<1> DEFINE x == Picked(s)
<1>4. /\ s \in SUBSET S /\ x \in s /\ y \in s
      /\ s \ {x} \in SUBSET S /\ s \ {y} \in SUBSET S
      /\ Cardinality(s) \in Nat
      /\ Cardinality(s \ {x}) = Cardinality(s) - 1
      /\ Cardinality(s \ {y}) = Cardinality(s) - 1
  BY SubsetFacts
<1>5. g[s] = f[x] + g[s \ {x}]
  BY <1>4 DEF SumsUp, Solves
<1>6. x # y
  BY <1>3, <1>5
<1>7. s \ {x} \notin Bad /\ s \ {y} \notin Bad
  <2>1. \A t \in Bad : Cardinality(t) # Cardinality(s) - 1
    <3> TAKE t \in Bad
    <3>1. Cardinality(s) <= Cardinality(t)
      BY <1>2
    <3> QED
      BY <1>4, <3>1
  <2> HIDE DEF Bad
  <2> QED
    BY <1>4, <2>1
<1>8. g[s \ {x}] = f[y] + g[(s \ {x}) \ {y}]
  BY <1>4, <1>6, <1>7
<1>9. g[s \ {y}] = f[x] + g[(s \ {y}) \ {x}]
  BY <1>4, <1>6, <1>7
<1>10. (s \ {x}) \ {y} = (s \ {y}) \ {x} /\ (s \ {x}) \ {y} \in SUBSET S
  BY <1>4
<1>11. f[x] \in Nat /\ f[y] \in Nat /\ g[(s \ {x}) \ {y}] \in Nat
  BY <1>4, <1>10
<1>12. \A a, b, d \in Nat : a + (b + d) = b + (a + d)
  OBVIOUS
<1> DEFINE G == g[(s \ {x}) \ {y}]
<1>13. g[s] = f[x] + (f[y] + G) /\ f[y] + g[s \ {y}] = f[y] + (f[x] + G)
  BY <1>5, <1>8, <1>9, <1>10
<1>14. f[x] + (f[y] + G) = f[y] + (f[x] + G)
  BY <1>11, <1>12
<1> HIDE DEF x, G
<1> QED
  BY <1>3, <1>13, <1>14

(* A sum without one of its elements. *)
LEMMA SumRemove ==
  ASSUME NEW S, IsFiniteSet(S), NEW f, \A x \in S : f[x] \in Nat, NEW y \in S
  PROVE  /\ SumFunctionOnSet(f, S) = f[y] + SumFunctionOnSet(f, S \ {y})
         /\ SumFunctionOnSet(f, S \ {y}) \in Nat
<1>1. PICK g \in [SUBSET S -> Nat] : SumsUp(f, S, g) /\ SumFunctionOnSet(f, S) = g[S]
  BY SumRecursion
<1>2. IsFiniteSet(S \ {y}) /\ \A x \in S \ {y} : f[x] \in Nat
  BY FS_Subset
<1>3. PICK h \in [SUBSET (S \ {y}) -> Nat] :
        SumsUp(f, S \ {y}, h) /\ SumFunctionOnSet(f, S \ {y}) = h[S \ {y}]
  BY <1>2, SumRecursion
<1>4. \A s \in SUBSET (S \ {y}) : g[s] = h[s]
  <2>1. S \ {y} \subseteq S /\ \A x \in S \ {y} : f[x] = f[x]
    OBVIOUS
  <2> QED
    BY <1>1, <1>3, <2>1, SolutionUnique
<1>5. Additive(f, S, g)
  <2>1. \A s \in SUBSET S : g[s] \in Nat
    OBVIOUS
  <2> QED
    BY <1>1, <2>1, SolutionAtElement
<1>6. S \in SUBSET S
  OBVIOUS
<1> QED
  BY <1>1, <1>3, <1>4, <1>5, <1>6 DEF Additive

-----------------------------------------------------------------------------
(* A request that waits has passed validation. *)
WaitersAreValid ==
  \A h \in Holders : holder[h] = "waiting" => validate_request(request[h])

LeaseInvariant == TypeOK /\ LeasesWithinLimits /\ WaitersAreValid

(* Every amount of a lease is a number. *)
LEMMA AmountTypes ==
  ASSUME TypeOK
  PROVE  /\ \A h \in Holders : CpuOf[h] = request[h].cpu /\ CpuOf[h] \in Nat
         /\ \A h \in Holders : ProcessesOf[h] = request[h].processes /\ ProcessesOf[h] \in Nat
         /\ \A h \in Holders : MemoryOf[h] = request[h].memory /\ MemoryOf[h] \in Nat
         /\ Holding \subseteq Holders
BY LimitsAssumption DEF TypeOK, ResourceRequest, CpuOf, ProcessesOf, MemoryOf, Holding

(* Leases that stay add up to what they did. *)
LEMMA LeasedSame ==
  ASSUME NEW S, IsFiniteSet(S), NEW f, NEW e, \A x \in S : f[x] \in Nat /\ e[x] = f[x]
  PROVE  SumFunctionOnSet(e, S) = SumFunctionOnSet(f, S) /\ SumFunctionOnSet(f, S) \in Nat
<1>1. \A x \in S : f[x] \in Nat /\ f[x] = e[x]
  OBVIOUS
<1> QED
  BY <1>1, SumAgrees

(* A lease more adds its amount. *)
LEMMA LeasedMore ==
  ASSUME NEW S, IsFiniteSet(S), NEW h, h \notin S, NEW f, NEW e,
         \A x \in S : f[x] \in Nat /\ e[x] = f[x], e[h] \in Nat
  PROVE  /\ SumFunctionOnSet(e, S \cup {h}) = e[h] + SumFunctionOnSet(f, S)
         /\ SumFunctionOnSet(f, S) \in Nat
<1> DEFINE T == S \cup {h}
<1>1. IsFiniteSet(T) /\ h \in T /\ T \ {h} = S /\ \A x \in T : e[x] \in Nat
  BY FS_AddElement
<1>2. SumFunctionOnSet(e, T) = e[h] + SumFunctionOnSet(e, T \ {h})
  <2> HIDE DEF T
  <2> QED
    BY <1>1, SumRemove
<1>3. SumFunctionOnSet(e, S) = SumFunctionOnSet(f, S) /\ SumFunctionOnSet(f, S) \in Nat
  BY LeasedSame
<1> QED
  BY <1>1, <1>2, <1>3

(* The leases that stay keep their requests. *)
Kept(S) == \A x \in S : request'[x] = request[x]

(* What the leases add up to after a step that takes no lease away: the    *)
(* amounts of the others are the same, for each resource.                  *)
LEMMA KeptAmounts ==
  ASSUME TypeOK, NEW S \in SUBSET Holders, Kept(S)
  PROVE  /\ \A x \in S : CpuOf[x] \in Nat /\ CpuOf'[x] = CpuOf[x]
         /\ \A x \in S : ProcessesOf[x] \in Nat /\ ProcessesOf'[x] = ProcessesOf[x]
         /\ \A x \in S : MemoryOf[x] \in Nat /\ MemoryOf'[x] = MemoryOf[x]
BY LimitsAssumption DEF TypeOK, ResourceRequest, CpuOf, ProcessesOf, MemoryOf, Kept

(* A step that leaves the leases and the usage alone. *)
LEMMA LeasesStay ==
  ASSUME TypeOK, LeasesWithinLimits, Holding' = Holding, Kept(Holding), usage' = usage
  PROVE  LeasesWithinLimits'
<1>1. IsFiniteSet(Holding) /\ Holding \in SUBSET Holders
  BY HoldingFinite DEF Holding
<1>2. /\ SumFunctionOnSet(CpuOf', Holding) = SumFunctionOnSet(CpuOf, Holding)
      /\ SumFunctionOnSet(ProcessesOf', Holding) = SumFunctionOnSet(ProcessesOf, Holding)
      /\ SumFunctionOnSet(MemoryOf', Holding) = SumFunctionOnSet(MemoryOf, Holding)
  BY <1>1, KeptAmounts, LeasedSame
<1> QED
  BY <1>2 DEF LeasesWithinLimits, Leased

(* A reservation that fits is counted in full: within the limits nothing   *)
(* saturates.                                                              *)
LEMMA LeaseAdded ==
  ASSUME TypeOK, LeasesWithinLimits, TypeOK', NEW h \in Holders, h \notin Holding,
         Holding' = Holding \cup {h}, Kept(Holding),
         fits(usage, request'[h]), usage' = reserve(usage, request'[h])
  PROVE  LeasesWithinLimits'
<1>1. IsFiniteSet(Holding) /\ Holding \in SUBSET Holders
  BY HoldingFinite DEF Holding
<1>2. /\ CpuOf'[h] = request'[h].cpu /\ CpuOf'[h] \in Nat
      /\ ProcessesOf'[h] = request'[h].processes /\ ProcessesOf'[h] \in Nat
      /\ MemoryOf'[h] = request'[h].memory /\ MemoryOf'[h] \in Nat
  BY LimitsAssumption DEF TypeOK, ResourceRequest, CpuOf, ProcessesOf, MemoryOf
<1>3. /\ Leased(CpuOf)' = request'[h].cpu + Leased(CpuOf) /\ Leased(CpuOf) \in Nat
      /\ Leased(ProcessesOf)' = request'[h].processes + Leased(ProcessesOf)
      /\ Leased(ProcessesOf) \in Nat
      /\ Leased(MemoryOf)' = request'[h].memory + Leased(MemoryOf) /\ Leased(MemoryOf) \in Nat
  <2>1. /\ \A x \in Holding : CpuOf[x] \in Nat /\ CpuOf'[x] = CpuOf[x]
        /\ \A x \in Holding : ProcessesOf[x] \in Nat /\ ProcessesOf'[x] = ProcessesOf[x]
        /\ \A x \in Holding : MemoryOf[x] \in Nat /\ MemoryOf'[x] = MemoryOf[x]
    BY <1>1, KeptAmounts
  <2>0. ASSUME NEW f, NEW e, \A x \in Holding : f[x] \in Nat /\ e[x] = f[x], e[h] \in Nat
        PROVE  /\ SumFunctionOnSet(e, Holding \cup {h}) = e[h] + Leased(f)
               /\ Leased(f) \in Nat
    BY <1>1, <2>0, LeasedMore DEF Leased
  <2>2. /\ SumFunctionOnSet(CpuOf', Holding \cup {h}) = CpuOf'[h] + Leased(CpuOf)
        /\ Leased(CpuOf) \in Nat
    BY <1>2, <2>0, <2>1
  <2>3. /\ SumFunctionOnSet(ProcessesOf', Holding \cup {h}) = ProcessesOf'[h] + Leased(ProcessesOf)
        /\ Leased(ProcessesOf) \in Nat
    BY <1>2, <2>0, <2>1
  <2>4. /\ SumFunctionOnSet(MemoryOf', Holding \cup {h}) = MemoryOf'[h] + Leased(MemoryOf)
        /\ Leased(MemoryOf) \in Nat
    BY <1>2, <2>0, <2>1
  <2>5. /\ Leased(CpuOf)' = SumFunctionOnSet(CpuOf', Holding \cup {h})
        /\ Leased(ProcessesOf)' = SumFunctionOnSet(ProcessesOf', Holding \cup {h})
        /\ Leased(MemoryOf)' = SumFunctionOnSet(MemoryOf', Holding \cup {h})
    BY DEF Leased
  <2> QED
    BY <1>2, <2>2, <2>3, <2>4, <2>5
<1>4. request'[h].cpu \in Nat /\ request'[h].processes \in Nat /\ request'[h].memory \in Nat
  BY <1>2
<1>5. Leased(CpuOf)' = usage'.cpu /\ usage'.cpu <= CpuSlots
  BY <1>3, <1>4, LimitsAssumption DEF LeasesWithinLimits, reserve, fits
<1>6. Leased(ProcessesOf)' = usage'.processes /\ usage'.processes <= MaxProcesses
  BY <1>3, <1>4, LimitsAssumption DEF LeasesWithinLimits, reserve, fits
<1>7. ASSUME MemoryLimit \in 0..(MaxMemory - 1)
      PROVE  Leased(MemoryOf)' = usage'.memory /\ usage'.memory <= MemoryLimit
  <2>1. usage'.memory = SaturatingAdd(usage.memory, request'[h].memory)
          /\ usage'.memory <= MemoryLimit
    BY <1>7, LimitsAssumption DEF reserve, fits, NoLimit
  <2>2. usage.memory = Leased(MemoryOf)
    BY <1>7 DEF LeasesWithinLimits
  <2> QED
    BY <1>3, <1>4, <1>7, <2>1, <2>2, LimitsAssumption DEF SaturatingAdd
<1> QED
  BY <1>5, <1>6, <1>7 DEF LeasesWithinLimits

(* A lease dropped gives back exactly its own amounts: no subtraction is   *)
(* cut off at zero.                                                        *)
LEMMA LeaseRemoved ==
  ASSUME TypeOK, LeasesWithinLimits, NEW h \in Holding,
         Holding' = Holding \ {h}, request' = request, usage' = released(usage, request[h])
  PROVE  LeasesWithinLimits'
<1>1. IsFiniteSet(Holding) /\ Holding \in SUBSET Holders
  BY HoldingFinite DEF Holding
<1>2. /\ CpuOf' = CpuOf /\ \A x \in Holding : CpuOf[x] \in Nat /\ CpuOf[x] = request[x].cpu
      /\ ProcessesOf' = ProcessesOf
      /\ \A x \in Holding : ProcessesOf[x] \in Nat /\ ProcessesOf[x] = request[x].processes
      /\ MemoryOf' = MemoryOf
      /\ \A x \in Holding : MemoryOf[x] \in Nat /\ MemoryOf[x] = request[x].memory
  BY <1>1, AmountTypes DEF CpuOf, ProcessesOf, MemoryOf
<1>3. Leased(CpuOf) = request[h].cpu + Leased(CpuOf)' /\ Leased(CpuOf)' \in Nat
  BY <1>1, <1>2, SumRemove DEF Leased
<1>4. Leased(ProcessesOf) = request[h].processes + Leased(ProcessesOf)'
        /\ Leased(ProcessesOf)' \in Nat
  BY <1>1, <1>2, SumRemove DEF Leased
<1>5. Leased(MemoryOf) = request[h].memory + Leased(MemoryOf)' /\ Leased(MemoryOf)' \in Nat
  BY <1>1, <1>2, SumRemove DEF Leased
<1>6. request[h].cpu \in Nat /\ request[h].processes \in Nat /\ request[h].memory \in Nat
  BY <1>2
<1>7. Leased(CpuOf)' = usage'.cpu /\ usage'.cpu <= CpuSlots
  BY <1>3, <1>6, LimitsAssumption DEF LeasesWithinLimits, released, SaturatingSub
<1>8. Leased(ProcessesOf)' = usage'.processes /\ usage'.processes <= MaxProcesses
  BY <1>4, <1>6, LimitsAssumption DEF LeasesWithinLimits, released, SaturatingSub
<1>9. MemoryLimit \in 0..(MaxMemory - 1) =>
        Leased(MemoryOf)' = usage'.memory /\ usage'.memory <= MemoryLimit
  BY <1>5, <1>6, LimitsAssumption DEF LeasesWithinLimits, released, SaturatingSub
<1> QED
  BY <1>7, <1>8, <1>9 DEF LeasesWithinLimits

(* The idle manager has lent nothing. *)
LEMMA InitLeases == Init => LeaseInvariant
<1> SUFFICES ASSUME Init
             PROVE  LeaseInvariant
  OBVIOUS
<1>1. Holding = {}
  BY DEF Init, Holding
<1>2. LeasesWithinLimits
  BY <1>1, SumEmpty, LimitsAssumption DEF Init, LeasesWithinLimits, Leased
<1>3. WaitersAreValid
  BY DEF Init, WaitersAreValid
<1> QED
  BY <1>2, <1>3, InitTypeOK DEF LeaseInvariant

(* Every step keeps the counters equal to what the leases add up to. *)
LEMMA NextLeases == LeaseInvariant /\ [Next]_vars => LeaseInvariant'
<1> SUFFICES ASSUME LeaseInvariant, [Next]_vars
             PROVE  LeaseInvariant'
  OBVIOUS
<1>0. TypeOK /\ TypeOK' /\ LeasesWithinLimits /\ WaitersAreValid
  BY NextTypeOK DEF LeaseInvariant
<1>1. ASSUME NEW h \in Holders, NEW r \in Requests, try_acquire(h, r), fits(usage, r)
      PROVE  LeaseInvariant'
  <2>1. /\ h \notin Holding /\ Holding' = Holding \cup {h} /\ Kept(Holding)
        /\ request'[h] = r /\ usage' = reserve(usage, r)
    BY <1>0, <1>1 DEF try_acquire, Enter, Holding, Kept, TypeOK
  <2>2. WaitersAreValid'
    BY <1>0, <1>1 DEF try_acquire, Enter, WaitersAreValid, TypeOK
  <2> QED
    BY <1>0, <1>1, <2>1, <2>2, LeaseAdded DEF LeaseInvariant
<1>2. ASSUME NEW h \in Holders, wait_fits(h)
      PROVE  LeaseInvariant'
  <2>1. /\ h \notin Holding /\ Holding' = Holding \cup {h} /\ Kept(Holding)
        /\ fits(usage, request'[h]) /\ usage' = reserve(usage, request'[h])
    BY <1>0, <1>2 DEF wait_fits, Leave, Holding, Kept, TypeOK
  <2>2. WaitersAreValid'
    BY <1>0, <1>2 DEF wait_fits, Leave, WaitersAreValid, TypeOK
  <2> QED
    BY <1>0, <2>1, <2>2, LeaseAdded DEF LeaseInvariant
<1>3. ASSUME NEW h \in Holders, drop_lease(h)
      PROVE  LeaseInvariant'
  <2>1. /\ h \in Holding /\ Holding' = Holding \ {h} /\ request' = request
        /\ usage' = released(usage, request[h])
    BY <1>0, <1>3 DEF drop_lease, Leave, Holding, TypeOK
  <2>2. WaitersAreValid'
    BY <1>0, <1>3 DEF drop_lease, Leave, WaitersAreValid, TypeOK
  <2> QED
    BY <1>0, <2>1, <2>2, LeaseRemoved DEF LeaseInvariant
<1>4. ASSUME NEW h \in Holders, NEW r \in Requests,
             \/ Refused(h, r) \/ acquire_until(h, r)
             \/ try_acquire(h, r) /\ ~fits(usage, r)
      PROVE  LeaseInvariant'
  <2>1. Holding' = Holding /\ Kept(Holding) /\ usage' = usage
    BY <1>0, <1>4 DEF Refused, acquire_until, try_acquire, Enter, Holding, Kept, TypeOK
  <2>2. WaitersAreValid'
    BY <1>0, <1>4 DEF Refused, acquire_until, try_acquire, Enter, WaitersAreValid, TypeOK
  <2> QED
    BY <1>0, <2>1, <2>2, LeasesStay DEF LeaseInvariant
<1>5. ASSUME NEW h \in Holders, wait_cancelled(h) \/ wait_expired(h)
      PROVE  LeaseInvariant'
  <2>1. Holding' = Holding /\ Kept(Holding) /\ usage' = usage
    BY <1>0, <1>5 DEF wait_cancelled, wait_expired, Leave, Holding, Kept, TypeOK
  <2>2. WaitersAreValid'
    BY <1>0, <1>5 DEF wait_cancelled, wait_expired, Leave, WaitersAreValid, TypeOK
  <2> QED
    BY <1>0, <2>1, <2>2, LeasesStay DEF LeaseInvariant
<1>6. CASE \/ \E h \in Holders : DeadlinePasses(h)
           \/ \E job \in SUBSET Holders : CancelTokens(job)
           \/ UNCHANGED vars
  <2>1. Holding' = Holding /\ request' = request /\ holder' = holder /\ usage' = usage
    BY <1>6 DEF CancelTokens, DeadlinePasses, Holding, vars
  <2> QED
    BY <1>0, <2>1, LeasesStay DEF LeaseInvariant, WaitersAreValid, Kept
<1> QED
  BY <1>1, <1>2, <1>3, <1>4, <1>5, <1>6 DEF Next, Acquire, Wait

(* The counters that admit a request are exactly what the leases add up    *)
(* to, so the leases together never exceed the CPU slots, the processes or *)
(* a configured memory limit: saturation never hides any of them.          *)
THEOREM LeasesBounded == Spec => []LeasesWithinLimits
BY InitLeases, NextLeases, PTL DEF Spec, LeaseInvariant

(* A request that passed validation fits a manager that has lent nothing.  *)
LEMMA IdleManagerFits ==
  ASSUME LeaseInvariant, RunsCounted, Holding = {}, NEW h \in Holders,
         holder[h] = "waiting"
  PROVE  fits(usage, request[h])
<1>1. validate_request(request[h]) /\ request[h] \in ResourceRequest /\ usage \in ResourceUsage
  BY DEF LeaseInvariant, WaitersAreValid, TypeOK
<1>2. usage.cpu = 0 /\ usage.processes = 0
  BY SumEmpty DEF LeaseInvariant, LeasesWithinLimits, Leased
<1>3. usage.runs = 0
  BY FS_EmptySet DEF RunsCounted
<1>4. MemoryLimit \in 0..(MaxMemory - 1) => usage.memory = 0
  BY SumEmpty DEF LeaseInvariant, LeasesWithinLimits, Leased
<1>5. MemoryLimit # NoLimit => SaturatingAdd(usage.memory, request[h].memory) <= MemoryLimit
  <2>1. CASE MemoryLimit \in 0..(MaxMemory - 1)
    BY <1>1, <1>4, <2>1, LimitsAssumption
       DEF validate_request, SaturatingAdd, ResourceRequest, NoLimit
  <2>2. CASE MemoryLimit = MaxMemory
    BY <1>1, <2>2, LimitsAssumption DEF SaturatingAdd, ResourceRequest, ResourceUsage
  <2> QED
    BY <2>1, <2>2, LimitsAssumption DEF NoLimit
<1> QED
  BY <1>1, <1>2, <1>3, <1>5, LimitsAssumption DEF fits, validate_request, ResourceRequest

(* No waiter is turned away by its deadline while nothing is lent out:     *)
(* capacity given back is never forgotten (acquire_until looks at the      *)
(* capacity before it looks at the clock).                                 *)
THEOREM DeadlineNeedsContention == Spec => DeadlineMeansContention
<1>1. ASSUME LeaseInvariant, RunsCounted, [Next]_vars
      PROVE  [\A h \in Holders : (holder[h] = "waiting" /\ holder'[h] = "deadline")
                => Holding # {}]_vars
  <2> SUFFICES ASSUME NEW h \in Holders, holder[h] = "waiting", holder'[h] = "deadline", Next
               PROVE  Holding # {}
    BY <1>1
  <2>1. holder \in [Holders -> HolderStates]
    BY <1>1 DEF LeaseInvariant, TypeOK
  <2>2. wait_expired(h)
    <3>1. ASSUME NEW g \in Holders, Acquire(g)
          PROVE  FALSE
      BY <2>1, <3>1 DEF Acquire, Refused, try_acquire, acquire_until, Enter
    <3>2. ASSUME NEW g \in Holders, wait_cancelled(g) \/ wait_fits(g) \/ drop_lease(g)
          PROVE  FALSE
      BY <2>1, <3>2 DEF wait_cancelled, wait_fits, drop_lease, Leave
    <3>3. ASSUME NEW g \in Holders, wait_expired(g)
          PROVE  g = h
      BY <2>1, <3>3 DEF wait_expired, Leave
    <3> QED
      BY <3>1, <3>2, <3>3 DEF Next, Wait, DeadlinePasses, CancelTokens
  <2>3. ~fits(usage, request[h])
    BY <2>2 DEF wait_expired
  <2> QED
    BY <1>1, <2>3, IdleManagerFits
<1> QED
  BY <1>1, InitLeases, NextLeases, InitRuns, NextRuns, InitTypeOK, NextTypeOK, PTL
     DEF Spec, DeadlineMeansContention, LeaseInvariant

-----------------------------------------------------------------------------
(* The selection of arms: the starvation guard. *)

(* The case the theorem is about. *)
Guarded == policy # "current" /\ max_starvation >= ArmCount - 1

CoreTypes ==
  /\ max_starvation \in Nat /\ completed \in Nat /\ target \in Nat \ {0}
  /\ runs \in [Arms -> Nat] /\ pulled \in [Arms -> Nat]
  /\ eliminated \subseteq Arms

(* Pulls are numbered by the runs that have returned. *)
PullsDistinct ==
  /\ \A a \in Arms : pulled[a] <= completed /\ (runs[a] = 0 <=> pulled[a] = 0)
  /\ \A a, b \in Arms : (a # b /\ pulled[a] = pulled[b]) => pulled[a] = 0

(* The arms are first tried in registration order, and none is removed     *)
(* before the last of them.                                                *)
ExploredInOrder ==
  Unexplored # {} =>
    /\ eliminated = {}
    /\ \A a \in Arms : pulled[a] = IF a <= completed THEN a ELSE 0
    /\ running # NoArm => running = completed + 1

WaitsBounded == \A a \in Active : completed - pulled[a] <= max_starvation

(* While an arm runs, all others have a run to spare. *)
OthersCanWait ==
  running # NoArm => \A a \in Active \ {running} : completed - pulled[a] < max_starvation

SelectorInvariant ==
  /\ CoreTypes /\ PullsDistinct
  /\ Guarded => ExploredInOrder /\ WaitsBounded /\ OthersCanWait

-----------------------------------------------------------------------------
(* Nothing has run: every arm is unexplored. *)
LEMMA InitInvariant == SelectorInit => SelectorInvariant
<1> SUFFICES ASSUME SelectorInit PROVE SelectorInvariant
  OBVIOUS
<1>1. CoreTypes
  BY ConfigAssumption DEF SelectorInit, CoreTypes
<1>2. PullsDistinct
  BY DEF SelectorInit, PullsDistinct, Arms
<1>3. ExploredInOrder /\ WaitsBounded /\ OthersCanWait
  BY <1>1 DEF SelectorInit, ExploredInOrder, WaitsBounded, OthersCanWait, CoreTypes, Active, Arms
<1> QED
  BY <1>1, <1>2, <1>3 DEF SelectorInvariant

(* While arms are unexplored, the next one in order is selected. *)
LEMMA NextUnexplored ==
  ASSUME SelectorInvariant, Guarded, Unexplored # {}
  PROVE  completed < ArmCount /\ First(Unexplored) = completed + 1
<1> USE ConfigAssumption DEF SelectorInvariant, CoreTypes
<1>1. Unexplored = {a \in Arms : a > completed}
  BY DEF PullsDistinct, ExploredInOrder, Unexplored, Active, Arms
<1>2. completed < ArmCount /\ completed + 1 \in Unexplored
  BY <1>1 DEF Arms
<1>3. \A x \in Unexplored : (\A y \in Unexplored : x <= y) <=> x = completed + 1
  <2>1. \A x \in Unexplored : x \in Int /\ completed + 1 <= x
    BY <1>1 DEF Arms
  <2>2. \A x \in Unexplored : x <= completed + 1 => x = completed + 1
    BY <2>1
  <2> QED
    BY <1>2, <2>1, <2>2
<1>4. First(Unexplored) = CHOOSE x \in Unexplored : \A y \in Unexplored : x <= y
  BY DEF First, Min
<1> QED
  BY <1>2, <1>3, <1>4

(* At most one arm is starving, and it is the one selected. *)
LEMMA OneStarving ==
  ASSUME SelectorInvariant, Guarded, Unexplored = {}, Starving # {}
  PROVE  \A a \in Starving : a = First(Starving)
<1> USE ConfigAssumption DEF SelectorInvariant, CoreTypes
<1>1. \A a \in Starving : a \in Arms /\ pulled[a] = completed - max_starvation /\ pulled[a] # 0
  <2> SUFFICES ASSUME NEW a \in Starving
               PROVE  a \in Arms /\ pulled[a] = completed - max_starvation /\ pulled[a] # 0
    OBVIOUS
  <2>1. a \in Active /\ a \in Arms /\ completed - pulled[a] >= max_starvation
    BY DEF Starving, Active
  <2>2. completed - pulled[a] <= max_starvation
    BY <2>1 DEF WaitsBounded
  <2>3. runs[a] # 0
    BY <2>1 DEF Unexplored
  <2> QED
    BY <2>1, <2>2, <2>3 DEF PullsDistinct
<1>2. \A a, b \in Starving : a = b
  BY <1>1 DEF PullsDistinct
<1>3. PICK a \in Starving : TRUE
  OBVIOUS
<1>4. \A x \in Starving : (\A y \in Starving : x <= y) <=> x = a
  BY <1>1, <1>2, <1>3 DEF Arms
<1>5. First(Starving) = CHOOSE x \in Starving : \A y \in Starving : x <= y
  BY DEF First, Min
<1>6. First(Starving) = a
  BY <1>3, <1>4, <1>5
<1> QED
  BY <1>2, <1>3, <1>6

(* A selection leaves every other arm a run to spare. *)
LEMMA SelectionStep ==
  ASSUME SelectorInvariant, NEW arm, Start(arm),
         Guarded => IF Protected THEN arm = protected_arm ELSE TRUE
  PROVE  SelectorInvariant'
<1> USE ConfigAssumption DEF SelectorInvariant, CoreTypes
<1>1. /\ running' = arm
      /\ UNCHANGED <<policy, max_starvation, runs, pulled, eliminated, completed, target>>
  BY DEF Start
<1>2. CoreTypes' /\ PullsDistinct'
  BY <1>1 DEF PullsDistinct
<1>3. ASSUME Guarded
      PROVE  ExploredInOrder' /\ WaitsBounded' /\ OthersCanWait'
  <2>1. WaitsBounded'
    BY <1>1, <1>3 DEF WaitsBounded, Active
  <2>2. CASE Unexplored # {}
    <3>1. arm = completed + 1 /\ completed < ArmCount
      BY <1>3, <2>2, NextUnexplored DEF Protected, protected_arm
    <3>2. ExploredInOrder'
      BY <1>1, <1>3, <3>1 DEF ExploredInOrder, Unexplored, Active
    <3>3. \A a \in Active \ {arm} : completed - pulled[a] < max_starvation
      <4> SUFFICES ASSUME NEW a \in Active \ {arm}
                   PROVE  completed - pulled[a] < max_starvation
        OBVIOUS
      <4>1. a \in 1..ArmCount /\ pulled[a] = IF a <= completed THEN a ELSE 0
        BY <1>3, <2>2 DEF ExploredInOrder, Active, Arms
      <4>2. max_starvation >= ArmCount - 1
        BY <1>3 DEF Guarded
      <4> QED
        BY <3>1, <4>1, <4>2
    <3> QED
      BY <1>1, <2>1, <3>2, <3>3 DEF OthersCanWait, Active
  <2>3. CASE Unexplored = {}
    <3>1. ExploredInOrder'
      BY <1>1, <2>3 DEF ExploredInOrder, Unexplored, Active
    <3>2. \A a \in Starving : a = arm
      BY <1>3, <2>3, OneStarving DEF Protected, protected_arm
    <3>3. \A a \in Active \ {arm} : completed - pulled[a] < max_starvation
      BY <3>2 DEF Starving, Active, Arms
    <3> QED
      BY <1>1, <2>1, <3>1, <3>3 DEF OthersCanWait, Active
  <2> QED
    BY <2>2, <2>3
<1> QED
  BY <1>1, <1>2, <1>3 DEF Guarded

(* A run returns: everyone else has waited for one more. *)
LEMMA ReturnStep ==
  ASSUME SelectorInvariant, run_returns
  PROVE  SelectorInvariant'
<1> USE ConfigAssumption DEF SelectorInvariant, CoreTypes
<1>1. /\ running # NoArm /\ running' = NoArm /\ completed' = completed + 1
      /\ UNCHANGED <<policy, max_starvation>>
  BY DEF run_returns
<1>2. CASE running \in Arms
  <2>0. PICK reward \in {0, 1}, slot \in SlotTimes : observe(running, reward, slot)
    BY <1>2 DEF run_returns
  <2>1. /\ runs' = [runs EXCEPT ![running] = @ + 1]
        /\ pulled' = [pulled EXCEPT ![running] = completed + 1]
    BY <2>0 DEF observe
  <2>2. /\ eliminated' \subseteq Arms /\ eliminated \subseteq eliminated'
        /\ target' \in Nat \ {0}
        /\ eliminated' # eliminated => \A a \in Active : runs'[a] >= target
    <3>1. CASE policy = "racing" /\ StageOver(runs')
      <4>1. /\ eliminated' = eliminated \cup Losers(runs', improvements')
            /\ target' = 2 * target
        BY <2>0, <3>1 DEF observe
      <4>2. Losers(runs', improvements') \subseteq Arms
        BY DEF Losers, Active
      <4>3. \A a \in Active : runs'[a] >= target
        BY <3>1 DEF StageOver
      <4> QED
        BY <4>1, <4>2, <4>3
    <3>2. CASE ~(policy = "racing" /\ StageOver(runs'))
      <4>1. eliminated' = eliminated /\ target' = target
        BY <2>0, <3>2 DEF observe
      <4> QED
        BY <4>1
    <3> QED
      BY <3>1, <3>2
  <2>3. CoreTypes'
    <3>1. runs' \in [Arms -> Nat] /\ pulled' \in [Arms -> Nat]
      BY <1>2, <2>1
    <3> QED
      BY <1>1, <2>2, <3>1
  <2>4. PullsDistinct'
    BY <1>1, <1>2, <2>1 DEF PullsDistinct
  <2>5. ASSUME Guarded
        PROVE  ExploredInOrder' /\ WaitsBounded' /\ OthersCanWait'
    <3>1. WaitsBounded'
      <4> SUFFICES ASSUME NEW a \in Active'
                   PROVE  completed' - pulled'[a] <= max_starvation
        BY <1>1 DEF WaitsBounded
      <4>1. a \in Active /\ a \in Arms
        BY <2>2 DEF Active
      <4>2. CASE a = running
        BY <1>1, <1>2, <2>1, <4>1, <4>2
      <4>3. CASE a # running
        <5>1. completed - pulled[a] < max_starvation
          BY <1>1, <2>5, <4>1, <4>3 DEF OthersCanWait
        <5> QED
          BY <1>1, <2>1, <4>1, <4>3, <5>1
      <4> QED
        BY <4>2, <4>3
    <3>2. ExploredInOrder'
      <4> SUFFICES ASSUME Unexplored' # {}
                   PROVE  /\ eliminated' = {}
                          /\ \A a \in Arms : pulled'[a] = IF a <= completed' THEN a ELSE 0
        BY <1>1 DEF ExploredInOrder
      <4>1. PICK u \in Active' : runs'[u] = 0
        BY DEF Unexplored
      <4>2. u \in Active /\ u # running /\ runs[u] = 0
        BY <1>2, <2>1, <2>2, <4>1 DEF Active
      <4>3. Unexplored # {}
        BY <4>2 DEF Unexplored
      <4>4. eliminated' = eliminated
        BY <2>2, <4>1, <4>2
      <4>5. /\ eliminated = {} /\ running = completed + 1
            /\ \A a \in Arms : pulled[a] = IF a <= completed THEN a ELSE 0
        BY <1>1, <1>2, <2>5, <4>3 DEF ExploredInOrder
      <4>6. ASSUME NEW a \in Arms
            PROVE  pulled'[a] = IF a <= completed' THEN a ELSE 0
        <5>1. /\ pulled'[a] = IF a = running THEN completed + 1 ELSE pulled[a]
              /\ completed' = completed + 1
          BY <1>1, <1>2, <2>1
        <5>2. pulled[a] = IF a <= completed THEN a ELSE 0
          BY <4>5
        <5>3. ASSUME NEW c \in Nat, NEW x \in Nat, NEW y, y = IF x <= c THEN x ELSE 0
              PROVE  (IF x = c + 1 THEN c + 1 ELSE y) = IF x <= c + 1 THEN x ELSE 0
          BY <5>3
        <5>4. a \in Nat /\ running = completed + 1
          BY <4>5 DEF Arms
        <5> QED
          BY <5>1, <5>2, <5>3, <5>4
      <4> QED
        BY <4>4, <4>5, <4>6
    <3> QED
      BY <1>1, <3>1, <3>2 DEF OthersCanWait
  <2> QED
    BY <1>1, <2>3, <2>4, <2>5 DEF Guarded
<1>3. CASE running \notin Arms
  <2>1. UNCHANGED <<runs, pulled, eliminated, target>>
    BY <1>3 DEF run_returns
  <2>2. CoreTypes' /\ PullsDistinct'
    BY <1>1, <2>1 DEF PullsDistinct
  <2>3. ASSUME Guarded
        PROVE  ExploredInOrder' /\ WaitsBounded' /\ OthersCanWait'
    <3>1. Unexplored = {}
      <4> SUFFICES ASSUME Unexplored # {} PROVE FALSE
        OBVIOUS
      <4>1. completed < ArmCount
        BY <2>3, NextUnexplored
      <4>2. running = completed + 1
        BY <1>1, <2>3 DEF ExploredInOrder
      <4> QED
        BY <1>3, <4>1, <4>2 DEF Arms
    <3>2. ExploredInOrder'
      BY <2>1, <3>1 DEF ExploredInOrder, Unexplored, Active
    <3>3. WaitsBounded'
      BY <1>1, <1>3, <2>1, <2>3 DEF WaitsBounded, OthersCanWait, Active
    <3> QED
      BY <1>1, <3>2, <3>3 DEF OthersCanWait
  <2> QED
    BY <1>1, <2>2, <2>3 DEF Guarded
<1> QED
  BY <1>2, <1>3

(* Every step keeps the invariant. *)
LEMMA NextInvariant == SelectorInvariant /\ [SelectorNext]_selectorVars => SelectorInvariant'
<1> SUFFICES ASSUME SelectorInvariant, [SelectorNext]_selectorVars PROVE SelectorInvariant'
  OBVIOUS
<1>1. CASE select_protected
  BY <1>1, SelectionStep DEF select_protected
<1>2. CASE select_rotation
  BY <1>2, SelectionStep DEF select_rotation
<1>3. CASE select_weighted
  BY <1>3, SelectionStep DEF select_weighted
<1>4. CASE select_racing
  BY <1>4, SelectionStep DEF select_racing
<1>5. CASE select_sampling
  BY <1>5, SelectionStep DEF select_sampling
<1>6. CASE select_current
  BY <1>6, SelectionStep DEF select_current, Guarded
<1>7. CASE run_returns
  BY <1>7, ReturnStep
<1>8. CASE UNCHANGED selectorVars
  BY <1>8 DEF selectorVars, SelectorInvariant, CoreTypes, PullsDistinct, Guarded, ExploredInOrder,
              WaitsBounded, OthersCanWait, Unexplored, Active
<1> QED
  BY <1>1, <1>2, <1>3, <1>4, <1>5, <1>6, <1>7, <1>8 DEF SelectorNext

(* No active arm waits longer than max_starvation_runs: the guard of       *)
(* RestartableArmSelector::select protects every arm, provided the         *)
(* configured value is at least the number of the other arms.              *)
THEOREM StarvationGuardWorks == SelectorSpec => []NobodyStarves
<1>1. SelectorInvariant => NobodyStarves
  BY DEF SelectorInvariant, NobodyStarves, Guarded, WaitsBounded
<1> QED
  BY InitInvariant, NextInvariant, <1>1, PTL DEF SelectorSpec

-----------------------------------------------------------------------------
(* The first of some arms is one of them, and none comes before it. *)
LEMMA FirstIsLeast ==
  ASSUME NEW S, S \subseteq Arms, S # {}
  PROVE  First(S) \in S /\ \A x \in S : First(S) <= x
<1>1. S \subseteq Nat
  BY ConfigAssumption DEF Arms
<1>2. \E m \in S : \A x \in S : m <= x
  BY <1>1, LeastNatural
<1> QED
  BY <1>2 DEF First, Min

(* A strict order on a finite set has a minimal member. *)
LEMMA MinimalMember ==
  ASSUME NEW S, IsFiniteSet(S), S # {}, NEW R,
         \A a \in S : <<a, a>> \notin R,
         \A a, b, c \in S : <<a, b>> \in R /\ <<b, c>> \in R => <<a, c>> \in R
  PROVE  \E m \in S : \A a \in S : <<a, m>> \notin R
<1> DEFINE Below(a) == {b \in S : <<b, a>> \in R}
           rank == [a \in S |-> Cardinality(Below(a))]
           ranks == {rank[a] : a \in S}
<1>1. \A a \in S : IsFiniteSet(Below(a)) /\ rank[a] = Cardinality(Below(a)) /\ rank[a] \in Nat
  <2>1. \A a \in S : Below(a) \in SUBSET S
    OBVIOUS
  <2>2. \A a \in S : IsFiniteSet(Below(a))
    BY <2>1, FS_Subset
  <2> QED
    BY <2>2, FS_CardinalityType
<1>2. PICK m \in S : \A a \in S : rank[m] <= rank[a]
  <2> HIDE DEF rank
  <2>1. ranks \subseteq Nat /\ ranks # {}
    <3>1. PICK a : a \in S
      OBVIOUS
    <3>2. \A b \in S : rank[b] \in Nat
      BY <1>1
    <3>3. rank[a] \in ranks
      BY <3>1
    <3> QED
      BY <3>2, <3>3
  <2>2. \E n \in ranks : \A x \in ranks : n <= x
    <3> HIDE DEF ranks
    <3> QED
      BY <2>1, LeastNatural
  <2> QED
    BY <2>2
<1>3. ASSUME NEW a \in S, <<a, m>> \in R PROVE FALSE
  <2>1. Below(a) \in SUBSET Below(m) /\ a \in Below(m) /\ a \notin Below(a)
    BY <1>3
  <2>2. /\ Cardinality(Below(a)) <= Cardinality(Below(m))
        /\ Cardinality(Below(m)) = Cardinality(Below(a)) => Below(m) = Below(a)
    BY <1>1, <2>1, FS_Subset
  <2>3. rank[m] <= rank[a]
    BY <1>2
  <2> HIDE DEF rank, Below
  <2> QED
    BY <1>1, <2>1, <2>2, <2>3
<1> QED
  BY <1>3

(* Products keep the order of their factors. *)
LEMMA ProductOrder ==
  /\ \A x, y \in Nat, z \in Nat \ {0} : x <= y => x * z <= y * z
  /\ \A x, y \in Nat, z \in Nat \ {0} : x < y => x * z < y * z
<1>1. ASSUME NEW x \in Nat, NEW y \in Nat, NEW z \in Nat \ {0}
      PROVE  (x <= y => x * z <= y * z) /\ (x < y => x * z < y * z)
  OBVIOUS
<1> QED
  BY <1>1

(* Comparing ratios p/x, q/y and s/z without a division is transitive. *)
LEMMA RatioOrder ==
  ASSUME NEW p \in Nat, NEW q \in Nat, NEW s \in Nat,
         NEW x \in Nat \ {0}, NEW y \in Nat \ {0}, NEW z \in Nat \ {0},
         p * y >= q * x, q * z >= s * y
  PROVE  p * z >= s * x /\ (p * y > q * x \/ q * z > s * y => p * z > s * x)
<1>1. /\ p * y \in Nat /\ q * x \in Nat /\ q * z \in Nat /\ s * y \in Nat
      /\ p * z \in Nat /\ s * x \in Nat
  OBVIOUS
<1>2. (p * y) * z >= (q * x) * z /\ (p * y > q * x => (p * y) * z > (q * x) * z)
  BY <1>1, ProductOrder
<1>3. (q * z) * x >= (s * y) * x /\ (q * z > s * y => (q * z) * x > (s * y) * x)
  BY <1>1, ProductOrder
<1>4. /\ (p * y) * z = (p * z) * y /\ (q * x) * z = (q * z) * x
      /\ (s * y) * x = (s * x) * y
  OBVIOUS
<1>5. (p * z) * y >= (s * x) * y /\ (p * y > q * x \/ q * z > s * y => (p * z) * y > (s * x) * y)
  <2>1. /\ (p * z) * y \in Int /\ (s * x) * y \in Int /\ (q * z) * x \in Int
    OBVIOUS
  <2> QED
    BY <1>2, <1>3, <1>4, <2>1
<1>6. ~(p * z < s * x) /\ (p * z <= s * x => (p * z) * y <= (s * x) * y)
  BY <1>1, <1>5, ProductOrder
<1> QED
  BY <1>1, <1>5, <1>6

(* Remainders, by how often the divisor fits. *)
LEMMA Remainder ==
  ASSUME NEW m \in Nat \ {0}, NEW k \in Nat, NEW q \in 0..(m - 1)
  PROVE  (k * m + q) % m = q
OBVIOUS

(* Numbers near zero, and remainders in general. *)
LEMMA Remainders ==
  ASSUME NEW m \in Nat \ {0}, NEW x \in Int
  PROVE  /\ x % m \in 0..(m - 1)
         /\ 0 <= x /\ x < m => x % m = x
         /\ -m <= x /\ x < 0 => x % m = x + m
<1>1. x % m \in 0..(m - 1)
  OBVIOUS
<1>2. 0 <= x /\ x < m => x % m = x
  OBVIOUS
<1>3. -m <= x /\ x < 0 => x % m = x + m
  OBVIOUS
<1> QED
  BY <1>1, <1>2, <1>3

-----------------------------------------------------------------------------
(* The counters never run ahead of the runs, and a run that is going on    *)
(* has yet to be counted.                                                  *)
ArmRunsCounted ==
  /\ \A a \in Arms : improvements[a] <= runs[a] /\ runs[a] <= completed /\ pulled[a] <= completed
  /\ running # NoArm => completed < MaxCompleted

(* Only racing removes arms. *)
OnlyRacingRemoves == policy # "racing" => eliminated = {}

(* ROUND_ROBIN, in its k-th round, has served the first p arms. *)
InRound(k, p) ==
  /\ completed = k * ArmCount + p
  /\ running \in {NoArm, p + 1}
  /\ \A a \in Arms :
       /\ runs[a] = IF a <= p THEN k + 1 ELSE k
       /\ a <= p => pulled[a] = completed - p + a
       /\ a > p /\ k # 0 => pulled[a] = completed - p + a - ArmCount
  /\ cursor = IF k = 0 \/ max_starvation < ArmCount THEN 0
              ELSE IF running = NoArm THEN p ELSE (p + 1) % ArmCount

EvenRounds == policy = "round_robin" /\ max_starvation >= ArmCount - 1 /\ 2 * ShareNum <= ShareDen

(* Policy Current first tries every arm, *)
FirstRound ==
  /\ completed < ArmCount
  /\ running \in {NoArm, completed + 1}
  /\ \A a \in Arms : runs[a] = IF a <= completed THEN 1 ELSE 0

(* and then goes around a warm start and all the arms.  In its k-th cycle  *)
(* it has served the first q of them.                                      *)
InCycle(k, q) ==
  /\ completed = k * (ArmCount + 1) + q + ArmCount
  /\ running \in {NoArm} \cup (IF q = 0 THEN {GlobalBest, 1} ELSE {q})
  /\ \A a \in Arms :
       /\ a # 1 => runs[a] = IF a < q THEN k + 2 ELSE k + 1
       /\ a = 1 => runs[a] >= IF a < q THEN k + 2 ELSE k + 1

RotationsHeld ==
  /\ EvenRounds => \E k \in 0..completed, p \in 0..(ArmCount - 1) : InRound(k, p)
  /\ policy = "current" =>
       FirstRound \/ \E k \in 0..completed, q \in 0..ArmCount : InCycle(k, q)

FairInvariant ==
  /\ SelectorTypes /\ max_starvation \in Starvations
  /\ ArmRunsCounted /\ OnlyRacingRemoves /\ AnArmIsLeft /\ RotationsHeld

-----------------------------------------------------------------------------
(* The larger of two numbers. *)
LEMMA MaxOfTwo ==
  ASSUME NEW x \in Int, NEW y \in Int
  PROVE  Max({x, y}) = IF x >= y THEN x ELSE y
BY DEF Max

(* At the end of a stage racing keeps an arm, and what it removes did no   *)
(* better than anything it keeps.                                          *)
LEMMA RacingIsFair ==
  ASSUME NEW r \in [Arms -> Nat], NEW i \in [Arms -> Nat], eliminated \subseteq Arms,
         target \in Nat \ {0}, StageOver(r), Active # {}
  PROVE  /\ Losers(r, i) \subseteq Active /\ Active \ Losers(r, i) # {}
         /\ \A a \in Losers(r, i), b \in Active \ Losers(r, i) : i[a] * r[b] <= i[b] * r[a]
<1>1. IsFiniteSet(Active) /\ \A a \in Active : a \in Int /\ i[a] \in Nat /\ r[a] \in Nat \ {0}
  <2>1. IsFiniteSet(Arms)
    BY ConfigAssumption, FS_Interval DEF Arms
  <2>2. IsFiniteSet(Active)
    BY <2>1, FS_Subset DEF Active
  <2> QED
    BY <2>2, ConfigAssumption DEF Active, Arms, StageOver
<1> DEFINE half == (Cardinality(Active) + 1) \div 2
           Above(a) == {b \in Active : Better(r, i, b, a)}
<1>2. half \in Nat \ {0} /\ Losers(r, i) = {a \in Active : Cardinality(Above(a)) >= half}
  <2>1. Cardinality(Active) \in Nat /\ Cardinality(Active) > 1
    BY <1>1, FS_CardinalityType DEF StageOver
  <2> QED
    BY <2>1 DEF Losers
<1>3. \A a \in Active : IsFiniteSet(Above(a)) /\ Cardinality(Above(a)) \in Nat
  <2>1. \A a \in Active : Above(a) \in SUBSET Active
    OBVIOUS
  <2> HIDE DEF Above
  <2> QED
    BY <1>1, <2>1, FS_Subset, FS_CardinalityType
<1>4. ASSUME NEW a \in Active, NEW b \in Active, NEW c \in Active,
             Better(r, i, a, b), Better(r, i, b, c)
      PROVE  Better(r, i, a, c)
  <2>1. /\ i[a] * r[b] >= i[b] * r[a] /\ i[b] * r[c] >= i[c] * r[b]
        /\ i[a] * r[b] > i[b] * r[a] \/ (i[a] * r[b] = i[b] * r[a] /\ a < b)
        /\ i[b] * r[c] > i[c] * r[b] \/ (i[b] * r[c] = i[c] * r[b] /\ b < c)
    BY <1>1, <1>4 DEF Better
  <2>2. /\ i[a] * r[c] >= i[c] * r[a]
        /\ i[a] * r[b] > i[b] * r[a] \/ i[b] * r[c] > i[c] * r[b] => i[a] * r[c] > i[c] * r[a]
    BY <1>1, <2>1, RatioOrder
  <2>3. i[a] * r[c] > i[c] * r[a] \/ i[a] * r[c] = i[c] * r[a]
    <3>1. i[a] * r[c] \in Int /\ i[c] * r[a] \in Int
      BY <1>1
    <3> QED
      BY <2>2, <3>1
  <2>4. CASE i[a] * r[b] > i[b] * r[a] \/ i[b] * r[c] > i[c] * r[b]
    BY <2>2, <2>4 DEF Better
  <2>5. CASE a < b /\ b < c
    <3>1. a < c
      BY <1>1, <2>5
    <3> QED
      BY <2>3, <3>1 DEF Better
  <2> QED
    BY <2>1, <2>4, <2>5
<1>5. \E a \in Active : Above(a) = {}
  <2> DEFINE R == {e \in Active \X Active : Better(r, i, e[1], e[2])}
  <2>1. \A a, b \in Active : <<a, b>> \in R <=> Better(r, i, a, b)
    OBVIOUS
  <2>2. \A a \in Active : ~Better(r, i, a, a)
    BY <1>1 DEF Better
  <2> HIDE DEF R
  <2>3. \A a \in Active : <<a, a>> \notin R
    BY <2>1, <2>2
  <2>4. \A a, b, c \in Active : <<a, b>> \in R /\ <<b, c>> \in R => <<a, c>> \in R
    BY <1>4, <2>1
  <2>5. \E m \in Active : \A a \in Active : <<a, m>> \notin R
    BY <1>1, <2>3, <2>4, MinimalMember
  <2> QED
    BY <2>1, <2>5
<1>6. Active \ Losers(r, i) # {}
  <2>1. PICK a \in Active : Above(a) = {}
    BY <1>5
  <2>2. Cardinality(Above(a)) = 0
    BY <2>1, FS_EmptySet
  <2> HIDE DEF half, Above
  <2> QED
    BY <1>2, <2>2
<1>7. ASSUME NEW a \in Losers(r, i), NEW b \in Active \ Losers(r, i), i[a] * r[b] > i[b] * r[a]
      PROVE  FALSE
  <2>1. a \in Active /\ b \in Active /\ Better(r, i, a, b)
    BY <1>2, <1>7 DEF Better
  <2>2. Above(a) \in SUBSET Above(b)
    BY <1>4, <2>1
  <2> HIDE DEF half, Above
  <2>3. Cardinality(Above(a)) <= Cardinality(Above(b))
    BY <1>3, <2>1, <2>2, FS_Subset
  <2>4. Cardinality(Above(a)) >= half /\ ~(Cardinality(Above(b)) >= half)
    BY <1>2, <2>1
  <2> QED
    BY <1>2, <1>3, <2>1, <2>3, <2>4
<1>8. ASSUME NEW a \in Losers(r, i), NEW b \in Active \ Losers(r, i)
      PROVE  i[a] * r[b] <= i[b] * r[a]
  <2>1. a \in Active /\ b \in Active
    BY <1>2
  <2>2. i[a] * r[b] \in Int /\ i[b] * r[a] \in Int
    BY <1>1, <2>1
  <2> QED
    BY <1>7, <2>2
<1> QED
  BY <1>2, <1>6, <1>8

(* Whatever key select minimises, it finds an active arm. *)
LEMMA SelectsActive ==
  ASSUME SelectorTypes, Active # {}
  PROVE  /\ First(LeastRun) \in LeastRun /\ LeastRun \subseteq Active
         /\ First(LeastVirtualTime) \in Active
         /\ NextInRotation \in Active
         /\ Protected => protected_arm \in Active
<1>0. Active \subseteq Arms /\ \A a \in Active : a \in Int
  BY ConfigAssumption DEF Active, Arms
<1>1. LeastRun \subseteq Active /\ LeastRun # {}
  <2> DEFINE S == {runs[a] : a \in Active}
  <2>1. S # {} /\ S \subseteq Nat
    <3>1. PICK a : a \in Active
      OBVIOUS
    <3>2. \A b \in Active : runs[b] \in Nat
      BY <1>0 DEF SelectorTypes
    <3>3. runs[a] \in S
      BY <3>1
    <3> QED
      BY <3>2, <3>3
  <2>2. \E n \in S : \A x \in S : n <= x
    <3> HIDE DEF S
    <3> QED
      BY <2>1, LeastNatural
  <2> QED
    BY <2>2 DEF LeastRun
<1>2. LeastVirtualTime \subseteq Active /\ LeastVirtualTime # {}
  <2> DEFINE R == {e \in Active \X Active : slot_ms[e[1]] * Weight[e[2]] < slot_ms[e[2]] * Weight[e[1]]}
  <2>1. \A a, b \in Active :
          <<a, b>> \in R <=> slot_ms[a] * Weight[b] < slot_ms[b] * Weight[a]
    OBVIOUS
  <2>2. \A a \in Active : slot_ms[a] \in Nat /\ Weight[a] \in Nat \ {0}
    BY <1>0, ConfigAssumption DEF SelectorTypes
  <2> HIDE DEF R
  <2>3. \A a \in Active : <<a, a>> \notin R
    <3>1. \A a \in Active : slot_ms[a] * Weight[a] \in Int
      BY <2>2
    <3> QED
      BY <2>1, <3>1
  <2>4. ASSUME NEW a \in Active, NEW b \in Active, NEW c \in Active,
               <<a, b>> \in R, <<b, c>> \in R
        PROVE  <<a, c>> \in R
    <3>1. slot_ms[a] * Weight[b] < slot_ms[b] * Weight[a]
      BY <2>1, <2>4
    <3>2. slot_ms[b] * Weight[c] < slot_ms[c] * Weight[b]
      BY <2>1, <2>4
    <3>3. /\ slot_ms[c] * Weight[b] >= slot_ms[b] * Weight[c]
          /\ slot_ms[c] * Weight[b] > slot_ms[b] * Weight[c]
          /\ slot_ms[b] * Weight[a] >= slot_ms[a] * Weight[b]
      BY <2>2, <3>1, <3>2
    <3>4. slot_ms[c] * Weight[a] > slot_ms[a] * Weight[c]
      BY <2>2, <3>3, RatioOrder
    <3>5. slot_ms[a] * Weight[c] < slot_ms[c] * Weight[a]
      BY <2>2, <3>4
    <3> QED
      BY <2>1, <3>5
  <2>5. IsFiniteSet(Active)
    <3>1. IsFiniteSet(Arms)
      BY ConfigAssumption, FS_Interval DEF Arms
    <3> QED
      BY <1>0, <3>1, FS_Subset
  <2>6. PICK m \in Active : \A a \in Active : <<a, m>> \notin R
    <3>1. \A a, b, c \in Active : <<a, b>> \in R /\ <<b, c>> \in R => <<a, c>> \in R
      BY <2>4
    <3> QED
      BY <2>3, <2>5, <3>1, MinimalMember
  <2>7. m \in LeastVirtualTime
    <3> SUFFICES ASSUME NEW b \in Active
                 PROVE  slot_ms[m] * Weight[b] <= slot_ms[b] * Weight[m]
      BY DEF LeastVirtualTime
    <3>1. ~(slot_ms[b] * Weight[m] < slot_ms[m] * Weight[b])
      BY <2>1, <2>6
    <3>2. slot_ms[b] * Weight[m] \in Int /\ slot_ms[m] * Weight[b] \in Int
      BY <2>2
    <3> QED
      BY <3>1, <3>2
  <2> QED
    BY <2>7 DEF LeastVirtualTime
<1>3. NextInRotation \in Active
  <2> DEFINE S == {Distance(a) : a \in Active}
  <2>1. S # {} /\ S \subseteq Nat
    <3>1. PICK a : a \in Active
      OBVIOUS
    <3>2. \A b \in Active : Distance(b) \in Nat
      <4>1. \A b \in Active : b - 1 - cursor \in Int
        BY <1>0, ConfigAssumption DEF SelectorTypes
      <4> QED
        BY <4>1, ConfigAssumption, Remainders DEF Distance
    <3>3. Distance(a) \in S
      BY <3>1
    <3> QED
      BY <3>2, <3>3
  <2>2. \E n \in S : \A x \in S : n <= x
    <3> HIDE DEF S
    <3> QED
      BY <2>1, LeastNatural
  <2>3. \E a \in Active : \A b \in Active : Distance(a) <= Distance(b)
    BY <2>2
  <2> QED
    BY <2>3 DEF NextInRotation
<1>4. First(LeastRun) \in LeastRun /\ First(LeastVirtualTime) \in Active
  BY <1>0, <1>1, <1>2, FirstIsLeast
<1>5. protected_arm \in Active
  <2>1. Unexplored \subseteq Active /\ Starving \subseteq Active
    BY DEF Unexplored, Starving
  <2>2. Unexplored # {} => First(Unexplored) \in Active
    BY <1>0, <2>1, FirstIsLeast
  <2>3. Starving # {} => First(Starving) \in Active
    BY <1>0, <2>1, FirstIsLeast
  <2> QED
    BY <1>1, <1>4, <2>2, <2>3 DEF protected_arm
<1> QED
  BY <1>1, <1>3, <1>4, <1>5

(* The rotation of policy Current: where it is in its cycle. *)
LEMMA RotationArm ==
  ASSUME SelectorTypes
  PROVE  /\ rotation(completed) \in Arms \cup {GlobalBest}
         /\ FirstRound => rotation(completed) = completed + 1
         /\ \A k \in Nat, q \in 0..ArmCount :
              InCycle(k, q) => rotation(completed) \in IF q = 0 THEN {GlobalBest, 1} ELSE {q}
<1> DEFINE restart == (completed - ArmCount) % (ArmCount + 1)
<1>0. ArmCount \in Nat \ {0} /\ completed \in Nat
  BY ConfigAssumption DEF SelectorTypes
<1>1. restart \in 0..ArmCount
  <2>1. completed - ArmCount \in Int /\ ArmCount + 1 \in Nat \ {0} /\ (ArmCount + 1) - 1 = ArmCount
    BY <1>0
  <2>2. restart \in 0..((ArmCount + 1) - 1)
    BY <2>1, Remainders
  <2> QED
    BY <2>1, <2>2
<1>2. completed < ArmCount => rotation(completed) = completed + 1
  BY DEF rotation
<1> HIDE DEF restart
<1>3. completed >= ArmCount =>
        rotation(completed) \in IF restart = 0 THEN {GlobalBest, 1} ELSE {restart}
  <2> SUFFICES ASSUME completed >= ArmCount
               PROVE  rotation(completed) \in IF restart = 0 THEN {GlobalBest, 1} ELSE {restart}
    OBVIOUS
  <2>1. rotation(completed) = IF restart = 0 /\ has_best THEN GlobalBest
                              ELSE 1 + (Max({restart - 1, 0}) % ArmCount)
    BY <1>0 DEF rotation, restart
  <2>2. Max({restart - 1, 0}) = IF restart = 0 THEN 0 ELSE restart - 1
    <3>1. restart - 1 \in Int /\ 0 \in Int
      BY <1>1
    <3>2. Max({restart - 1, 0}) = IF restart - 1 >= 0 THEN restart - 1 ELSE 0
      BY <3>1, MaxOfTwo
    <3> QED
      BY <1>1, <3>2
  <2>3. Max({restart - 1, 0}) % ArmCount = IF restart = 0 THEN 0 ELSE restart - 1
    <3> DEFINE x == IF restart = 0 THEN 0 ELSE restart - 1
    <3>1. x \in Int /\ 0 <= x /\ x < ArmCount
      BY <1>0, <1>1
    <3> HIDE DEF x
    <3>2. x % ArmCount = x
      BY <1>0, <3>1, Remainders
    <3> QED
      BY <2>2, <3>2 DEF x
  <2>4. 1 + (restart - 1) = restart
    BY <1>1
  <2> QED
    BY <2>1, <2>3, <2>4
<1>4. rotation(completed) \in Arms \cup {GlobalBest}
  BY <1>0, <1>1, <1>2, <1>3 DEF Arms
<1>5. ASSUME NEW k \in Nat, NEW q \in 0..ArmCount, InCycle(k, q)
      PROVE  rotation(completed) \in IF q = 0 THEN {GlobalBest, 1} ELSE {q}
  <2>1. completed = k * (ArmCount + 1) + q + ArmCount /\ k * (ArmCount + 1) \in Nat
    BY <1>0, <1>5 DEF InCycle
  <2>2. completed - ArmCount = k * (ArmCount + 1) + q /\ completed >= ArmCount
    BY <1>0, <2>1
  <2>3. ArmCount + 1 \in Nat \ {0} /\ q \in 0..((ArmCount + 1) - 1)
    BY <1>0
  <2>4. (k * (ArmCount + 1) + q) % (ArmCount + 1) = q
    BY <2>3, Remainder
  <2>5. restart = q
    BY <2>2, <2>4 DEF restart
  <2> QED
    BY <1>3, <2>2, <2>5
<1>6. FirstRound => rotation(completed) = completed + 1
  BY <1>2 DEF FirstRound
<1> QED
  BY <1>4, <1>5, <1>6

(* In a round of ROUND_ROBIN every rule that applies selects the same arm: *)
(* the unexplored and the starving one is the next of the rotation, and no *)
(* arm falls below an exploration ratio of a half.                         *)
LEMMA RoundSelects ==
  ASSUME SelectorTypes, max_starvation \in Nat \ {0}, EvenRounds, eliminated = {}, running = NoArm,
         NEW k \in Nat, NEW p \in 0..(ArmCount - 1), InRound(k, p)
  PROVE  IF k = 0 \/ max_starvation < ArmCount
         THEN Protected /\ protected_arm = p + 1
         ELSE ~Protected /\ NextInRotation = p + 1
<1>0. /\ ArmCount \in Nat \ {0} /\ completed \in Nat /\ Active = 1..ArmCount /\ Arms = 1..ArmCount
      /\ p + 1 \in 1..ArmCount
  BY ConfigAssumption DEF SelectorTypes, Active, Arms
<1>1. /\ completed = k * ArmCount + p
      /\ \A a \in 1..ArmCount :
           /\ runs[a] = IF a <= p THEN k + 1 ELSE k
           /\ a <= p => pulled[a] = completed - p + a
           /\ a > p /\ k # 0 => pulled[a] = completed - p + a - ArmCount
  BY <1>0 DEF InRound
<1>2. CASE k = 0
  <2>1. Unexplored = {a \in 1..ArmCount : a > p}
    BY <1>0, <1>1, <1>2 DEF Unexplored
  <2>2. p + 1 \in Unexplored /\ Unexplored \subseteq Arms /\ \A a \in Unexplored : p + 1 <= a
    BY <1>0, <2>1
  <2>3. First(Unexplored) \in Unexplored /\ First(Unexplored) <= p + 1
    BY <2>2, FirstIsLeast
  <2>4. First(Unexplored) = p + 1
    <3>1. First(Unexplored) \in Int /\ p + 1 <= First(Unexplored)
      BY <2>1, <2>2, <2>3
    <3> QED
      BY <2>3, <3>1
  <2> QED
    BY <1>2, <2>2, <2>4 DEF Protected, protected_arm
<1>3. CASE k # 0
  <2>1. Unexplored = {}
    BY <1>0, <1>1, <1>3 DEF Unexplored
  <2>2. \A a \in 1..ArmCount :
          completed - pulled[a] = IF a <= p THEN p - a ELSE p - a + ArmCount
    BY <1>0, <1>1, <1>3
  <2>3. max_starvation >= ArmCount - 1
    BY DEF EvenRounds
  <2>4. CASE max_starvation < ArmCount
    <3>1. max_starvation = ArmCount - 1 /\ ArmCount > 1
      BY <1>0, <2>3, <2>4
    <3>2. Starving = {p + 1}
      <4>1. \A a \in 1..ArmCount : completed - pulled[a] >= max_starvation <=> a = p + 1
        BY <1>0, <2>2, <3>1
      <4> QED
        BY <1>0, <4>1 DEF Starving
    <3>3. First(Starving) = p + 1
      BY <1>0, <3>2, FirstIsLeast
    <3> QED
      BY <2>1, <2>4, <3>2, <3>3 DEF Protected, protected_arm
  <2>5. CASE ~(max_starvation < ArmCount)
    <3>1. Starving = {}
      <4>1. \A a \in 1..ArmCount : ~(completed - pulled[a] >= max_starvation)
        BY <1>0, <2>2, <2>5
      <4> QED
        BY <1>0, <4>1 DEF Starving
    <3>2. ~BelowShare(First(LeastRun))
      <4>1. First(LeastRun) \in 1..ArmCount
        BY <1>0, SelectsActive
      <4>2. runs[First(LeastRun)] \in Nat /\ runs[First(LeastRun)] >= k
        BY <1>0, <1>1, <4>1
      <4>3. Cardinality(Active) = ArmCount
        BY <1>0, FS_Interval
      <4>4. Max({completed, 1}) = completed
        <5>1. k * ArmCount >= 1
          BY <1>0, <1>3, ProductOrder
        <5>2. completed >= 1
          BY <1>0, <1>1, <5>1
        <5> QED
          BY <1>0, <5>2, MaxOfTwo
      <4>5. ASSUME NEW r \in Nat, r >= k
            PROVE  ~(r * ShareDen * ArmCount < ShareNum * completed)
        <5> DEFINE n == r * ArmCount
        <5>1. n \in Nat /\ n >= k * ArmCount /\ k * ArmCount >= ArmCount /\ k * ArmCount \in Nat
          <6>1. k * ArmCount <= r * ArmCount
            BY <1>0, <4>5, ProductOrder
          <6>2. 1 * ArmCount <= k * ArmCount
            BY <1>0, <1>3, ProductOrder
          <6> QED
            BY <1>0, <6>1, <6>2
        <5>2. completed <= 2 * n
          <6> DEFINE b == k * ArmCount
          <6>1. b \in Nat /\ n >= b /\ b >= ArmCount /\ completed = b + p
            BY <1>1, <5>1
          <6> HIDE DEF b, n
          <6> QED
            BY <1>0, <5>1, <6>1
        <5>3. r * ShareDen * ArmCount = ShareDen * n
          BY <1>0, ConfigAssumption
        <5> HIDE DEF n
        <5>4. ShareNum * completed <= ShareNum * (2 * n)
          <6>1. \A x, y, z \in Nat : x <= y => z * x <= z * y
            OBVIOUS
          <6>2. 2 * n \in Nat /\ ShareNum \in Nat
            BY <5>1, ConfigAssumption
          <6> QED
            BY <1>0, <5>2, <6>1, <6>2
        <5>5. ShareNum * (2 * n) <= ShareDen * n
          <6>1. 2 * ShareNum <= ShareDen /\ ShareNum \in Nat /\ ShareDen \in Nat
            BY ConfigAssumption DEF EvenRounds
          <6>2. \A x, y, z \in Nat : 2 * x <= y => x * (2 * z) <= y * z
            <7>1. ASSUME NEW x \in Nat, NEW y \in Nat, NEW z \in Nat, 2 * x <= y
                  PROVE  x * (2 * z) <= y * z
              <8>1. x * (2 * z) = (2 * x) * z
                OBVIOUS
              <8>2. (2 * x) * z <= y * z
                BY <7>1
              <8> QED
                BY <8>1, <8>2
            <7> QED
              BY <7>1
          <6> QED
            BY <5>1, <6>1, <6>2
        <5> QED
          <6>1. /\ ShareNum * completed \in Int /\ ShareNum * (2 * n) \in Int
                /\ ShareDen * n \in Int
            BY <1>0, <5>1, ConfigAssumption
          <6> QED
            BY <5>3, <5>4, <5>5, <6>1
      <4> QED
        BY <4>2, <4>3, <4>4, <4>5 DEF BelowShare
    <3>3. cursor = p
      BY <1>3, <2>5 DEF InRound
    <3>4. \A a \in 1..ArmCount : Distance(a) \in Nat /\ (Distance(a) = 0 <=> a = p + 1)
      <4> SUFFICES ASSUME NEW a \in 1..ArmCount
                   PROVE  Distance(a) \in Nat /\ (Distance(a) = 0 <=> a = p + 1)
        OBVIOUS
      <4> DEFINE x == a - 1 - p
      <4>1. x \in Int /\ -ArmCount < x /\ x < ArmCount /\ (x = 0 <=> a = p + 1)
        BY <1>0
      <4>2. Distance(a) = x % ArmCount
        BY <3>3 DEF Distance
      <4> HIDE DEF x
      <4>3. /\ 0 <= x => x % ArmCount = x
            /\ x < 0 => x % ArmCount = x + ArmCount
        <5>1. -ArmCount <= x
          BY <1>0, <4>1
        <5> QED
          BY <1>0, <4>1, <5>1, Remainders
      <4> QED
        BY <1>0, <4>1, <4>2, <4>3
    <3>5. NextInRotation = p + 1
      <4> HIDE DEF Distance
      <4>1. \A a \in Active : (\A b \in Active : Distance(a) <= Distance(b)) <=> a = p + 1
        <5>1. Distance(p + 1) = 0
          BY <1>0, <3>4
        <5> QED
          BY <1>0, <3>4, <5>1
      <4> QED
        BY <1>0, <4>1 DEF NextInRotation
    <3> QED
      BY <1>3, <2>1, <2>5, <3>1, <3>2, <3>5 DEF Protected
  <2> QED
    BY <2>4, <2>5
<1> QED
  BY <1>2, <1>3

(* A selection starts the run of the round or of the cycle. *)
LEMMA RotationStarts ==
  ASSUME FairInvariant, select_protected \/ select_rotation \/ select_current
  PROVE  RotationsHeld'
<1>0. /\ SelectorTypes /\ Active # {} /\ max_starvation \in Nat \ {0}
      /\ running = NoArm /\ UNCHANGED <<policy, max_starvation, runs, pulled, completed>>
  BY ConfigAssumption DEF FairInvariant, AnArmIsLeft, select_protected, select_rotation,
                          select_current, Start
<1>1. ASSUME EvenRounds'
      PROVE  \E k \in 0..completed', p \in 0..(ArmCount - 1) : InRound(k, p)'
  <2>1. EvenRounds /\ eliminated = {}
    BY <1>0, <1>1 DEF EvenRounds, FairInvariant, OnlyRacingRemoves
  <2>2. PICK k \in 0..completed, p \in 0..(ArmCount - 1) : InRound(k, p)
    BY <2>1 DEF FairInvariant, RotationsHeld
  <2>3. k \in Nat
    BY <1>0 DEF SelectorTypes
  <2>4. IF k = 0 \/ max_starvation < ArmCount
        THEN Protected /\ protected_arm = p + 1 ELSE ~Protected /\ NextInRotation = p + 1
    BY <1>0, <2>1, <2>2, <2>3, RoundSelects
  <2>5. select_protected \/ select_rotation
    BY <2>1 DEF select_current, EvenRounds
  <2>6. /\ running' = p + 1
        /\ cursor' = IF k = 0 \/ max_starvation < ArmCount THEN 0 ELSE (p + 1) % ArmCount
    <3>1. CASE select_protected
      BY <2>2, <2>4, <3>1 DEF select_protected, Start, InRound
    <3>2. CASE select_rotation
      BY <2>4, <3>2 DEF select_rotation, Start
    <3> QED
      BY <2>5, <3>1, <3>2
  <2>7. running' # NoArm
    BY <2>6 DEF NoArm
  <2> QED
    BY <1>0, <2>2, <2>6, <2>7 DEF InRound
<1>2. ASSUME policy' = "current"
      PROVE  FirstRound' \/ \E k \in 0..completed', q \in 0..ArmCount : InCycle(k, q)'
  <2>1. policy = "current" /\ running' = rotation(completed)
    BY <1>0, <1>2 DEF select_protected, select_rotation, select_current, Start
  <2>2. CASE FirstRound
    BY <1>0, <2>1, <2>2, RotationArm DEF FirstRound
  <2>3. ASSUME NEW k \in 0..completed, NEW q \in 0..ArmCount, InCycle(k, q)
        PROVE  InCycle(k, q)'
    <3>1. k \in Nat
      BY <1>0 DEF SelectorTypes
    <3>2. rotation(completed) \in IF q = 0 THEN {GlobalBest, 1} ELSE {q}
      BY <1>0, <2>3, <3>1, RotationArm
    <3> QED
      BY <1>0, <2>1, <2>3, <3>2 DEF InCycle
  <2> QED
    BY <1>0, <2>1, <2>2, <2>3 DEF FairInvariant, RotationsHeld
<1> QED
  BY <1>1, <1>2 DEF RotationsHeld

(* A selection keeps the invariant. *)
LEMMA FairSelection ==
  ASSUME FairInvariant, NEW arm \in Active \cup {GlobalBest}, Start(arm),
         cursor' \in 0..(ArmCount - 1), RotationsHeld'
  PROVE  FairInvariant'
<1>1. /\ running = NoArm /\ running' = arm /\ completed < MaxCompleted
      /\ UNCHANGED <<policy, max_starvation, runs, improvements, slot_ms, pulled, eliminated,
                     completed, target, has_best>>
  BY DEF Start
<1>2. SelectorTypes'
  BY <1>1 DEF FairInvariant, SelectorTypes, Active
<1>3. AnArmIsLeft'
  <2>1. arm \notin eliminated
    BY ConfigAssumption DEF FairInvariant, SelectorTypes, Active, GlobalBest, Arms
  <2> QED
    BY <1>1, <2>1 DEF FairInvariant, AnArmIsLeft, Active
<1>4. ArmRunsCounted' /\ OnlyRacingRemoves'
  BY <1>1 DEF FairInvariant, ArmRunsCounted, OnlyRacingRemoves
<1> QED
  BY <1>1, <1>2, <1>3, <1>4 DEF FairInvariant

(* The round or the cycle goes on with the arm after the one that ran. *)
LEMMA RoundReturns ==
  ASSUME FairInvariant, EvenRounds, run_returns
  PROVE  \E k \in 0..completed', p \in 0..(ArmCount - 1) : InRound(k, p)'
<1>0. /\ completed \in Nat /\ ArmCount \in Nat \ {0} /\ Arms = 1..ArmCount
      /\ runs \in [Arms -> Int] /\ pulled \in [Arms -> Int]
  BY ConfigAssumption DEF FairInvariant, SelectorTypes, Arms
<1>1. PICK k \in 0..completed, p \in 0..(ArmCount - 1) : InRound(k, p)
  BY DEF FairInvariant, RotationsHeld
<1>2. /\ running = p + 1 /\ running \in Arms /\ running' = NoArm
      /\ completed' = completed + 1 /\ UNCHANGED <<max_starvation, cursor>>
  BY <1>0, <1>1 DEF run_returns, InRound
<1>3. /\ runs' = [runs EXCEPT ![p + 1] = @ + 1]
      /\ pulled' = [pulled EXCEPT ![p + 1] = completed + 1]
  BY <1>2 DEF run_returns, observe
<1>4. /\ completed = k * ArmCount + p /\ k * ArmCount \in Nat
      /\ \A a \in Arms :
           /\ runs[a] = IF a <= p THEN k + 1 ELSE k
           /\ a <= p => pulled[a] = completed - p + a
           /\ a > p /\ k # 0 => pulled[a] = completed - p + a - ArmCount
      /\ cursor = IF k = 0 \/ max_starvation < ArmCount THEN 0 ELSE (p + 1) % ArmCount
  <2>1. running # NoArm
    BY <1>2 DEF run_returns
  <2> QED
    BY <1>0, <1>1, <2>1 DEF InRound
<1>5. \A a \in Arms : /\ runs'[a] = IF a <= p + 1 THEN k + 1 ELSE k
                      /\ a <= p + 1 => pulled'[a] = completed - p + a
                      /\ a > p + 1 /\ k # 0 => pulled'[a] = completed - p + a - ArmCount
  <2> SUFFICES ASSUME NEW a \in Arms
               PROVE  /\ runs'[a] = IF a <= p + 1 THEN k + 1 ELSE k
                      /\ a <= p + 1 => pulled'[a] = completed - p + a
                      /\ a > p + 1 /\ k # 0 => pulled'[a] = completed - p + a - ArmCount
    OBVIOUS
  <2>1. CASE a = p + 1
    <3>1. runs'[a] = runs[a] + 1 /\ pulled'[a] = completed + 1 /\ runs[a] = k
      BY <1>0, <1>2, <1>3, <1>4, <2>1
    <3> QED
      BY <1>0, <2>1, <3>1
  <2>2. CASE a # p + 1
    <3>1. runs'[a] = runs[a] /\ pulled'[a] = pulled[a]
      BY <1>0, <1>3, <2>2
    <3>2. (a <= p + 1 <=> a <= p) /\ (a > p + 1 => a > p)
      BY <1>0, <2>2
    <3> QED
      BY <1>4, <3>1, <3>2
  <2> QED
    BY <2>1, <2>2
<1>6. CASE p + 1 < ArmCount
  <2>1. (p + 1) % ArmCount = p + 1
    <3>1. p + 1 \in Int /\ 0 <= p + 1
      BY <1>0
    <3> QED
      BY <1>0, <1>6, <3>1, Remainders
  <2>2. completed' = k * ArmCount + (p + 1) /\ completed' - (p + 1) = completed - p
    BY <1>0, <1>2, <1>4
  <2>3. p + 1 \in 0..(ArmCount - 1) /\ k \in 0..completed'
    BY <1>0, <1>2, <1>6
  <2>4. InRound(k, p + 1)'
    BY <1>2, <1>4, <1>5, <2>1, <2>2 DEF InRound
  <2> QED
    BY <2>3, <2>4
<1>7. CASE ~(p + 1 < ArmCount)
  <2>1. p + 1 = ArmCount
    BY <1>0, <1>7
  <2>2. ArmCount % ArmCount = 0
    <3>1. (1 * ArmCount + 0) % ArmCount = 0
      BY <1>0, Remainder
    <3> QED
      BY <1>0, <3>1
  <2>3. (k + 1) * ArmCount = k * ArmCount + ArmCount
    BY <1>0
  <2>4. completed' = (k + 1) * ArmCount + 0 /\ completed' = completed - p + ArmCount
    BY <1>0, <1>2, <1>4, <2>1, <2>3
  <2>5. k + 1 \in 0..completed' /\ 0 \in 0..(ArmCount - 1)
    BY <1>0, <1>2
  <2>6. \A a \in Arms : runs'[a] = k + 1 /\ pulled'[a] = completed' - 0 + a - ArmCount
    <3>1. \A a \in Arms : a <= p + 1 /\ a > 0
      BY <1>0, <2>1
    <3>2. \A a \in Arms : completed - p + a = completed' - 0 + a - ArmCount
      BY <1>0, <2>4
    <3> QED
      BY <1>5, <3>1, <3>2
  <2>7. InRound(k + 1, 0)'
    <3>1. k + 1 # 0 /\ \A a \in Arms : ~(a <= 0)
      BY <1>0
    <3>2. cursor' = 0
      BY <1>2, <1>4, <2>1, <2>2
    <3> QED
      BY <1>2, <2>4, <2>6, <3>1, <3>2 DEF InRound
  <2> QED
    BY <2>5, <2>7
<1> QED
  BY <1>6, <1>7

(* The same for policy Current, whose cycle has the warm start in it. *)
LEMMA CycleReturns ==
  ASSUME FairInvariant, policy = "current", run_returns
  PROVE  FirstRound' \/ \E k \in 0..completed', q \in 0..ArmCount : InCycle(k, q)'
<1>0. /\ completed \in Nat /\ ArmCount \in Nat \ {0} /\ Arms = 1..ArmCount
      /\ runs \in [Arms -> Int]
  BY ConfigAssumption DEF FairInvariant, SelectorTypes, Arms
<1>1. running # NoArm /\ running' = NoArm /\ completed' = completed + 1
  BY DEF run_returns
<1>2. runs' = IF running \in Arms THEN [runs EXCEPT ![running] = @ + 1] ELSE runs
  BY DEF run_returns, observe
<1>3. CASE FirstRound
  <2>1. /\ completed < ArmCount /\ running = completed + 1 /\ running \in Arms
        /\ \A a \in Arms : runs[a] = IF a <= completed THEN 1 ELSE 0
    BY <1>0, <1>1, <1>3 DEF FirstRound
  <2>2. \A a \in Arms : runs'[a] = IF a <= completed + 1 THEN 1 ELSE 0
    BY <1>0, <1>2, <2>1
  <2>3. CASE completed + 1 < ArmCount
    BY <1>1, <2>2, <2>3 DEF FirstRound
  <2>4. CASE ~(completed + 1 < ArmCount)
    <3>1. completed + 1 = ArmCount /\ \A a \in Arms : a <= completed + 1 /\ ~(a < 0)
      BY <1>0, <2>1, <2>4
    <3>2. \A a \in Arms : runs'[a] = 1
      BY <2>2, <3>1
    <3>3. completed' = 0 * (ArmCount + 1) + 0 + ArmCount
      BY <1>0, <1>1, <3>1
    <3>4. InCycle(0, 0)'
      BY <1>1, <3>1, <3>2, <3>3 DEF InCycle
    <3>5. 0 \in 0..completed' /\ 0 \in 0..ArmCount
      BY <1>0, <1>1
    <3> QED
      BY <3>4, <3>5
  <2> QED
    BY <2>3, <2>4
<1>4. ASSUME NEW k \in 0..completed, NEW q \in 0..ArmCount, InCycle(k, q)
      PROVE  \E l \in 0..completed', p \in 0..ArmCount : InCycle(l, p)'
  <2>1. /\ completed = k * (ArmCount + 1) + q + ArmCount /\ k * (ArmCount + 1) \in Nat
        /\ running \in IF q = 0 THEN {GlobalBest, 1} ELSE {q}
        /\ \A a \in Arms : /\ a # 1 => runs[a] = IF a < q THEN k + 2 ELSE k + 1
                           /\ a = 1 => runs[a] >= IF a < q THEN k + 2 ELSE k + 1
    BY <1>0, <1>1, <1>4 DEF InCycle
  <2>2. \A a \in Arms : runs'[a] = IF a = running THEN runs[a] + 1 ELSE runs[a]
    BY <1>0, <1>2
  <2>3. \A a \in Arms : /\ a # 1 => runs'[a] = IF a < q + 1 THEN k + 2 ELSE k + 1
                        /\ a = 1 => runs'[a] >= IF a < q + 1 THEN k + 2 ELSE k + 1
    <3>1. CASE q = 0
      <4>1. \A a \in Arms : a # 1 => a # running
        BY <1>0, <2>1, <3>1 DEF GlobalBest
      <4> QED
        BY <1>0, <2>1, <2>2, <3>1, <4>1
    <3>2. CASE q # 0
      <4>1. running = q
        BY <2>1, <3>2
      <4> QED
        BY <1>0, <2>1, <2>2, <4>1
    <3> QED
      BY <3>1, <3>2
  <2>4. CASE q < ArmCount
    <3>1. completed' = k * (ArmCount + 1) + (q + 1) + ArmCount
      BY <1>0, <1>1, <2>1
    <3>2. q + 1 \in 0..ArmCount /\ k \in 0..completed'
      BY <1>0, <1>1, <2>4
    <3>3. InCycle(k, q + 1)'
      BY <1>1, <2>3, <3>1 DEF InCycle
    <3> QED
      BY <3>2, <3>3
  <2>5. CASE ~(q < ArmCount)
    <3>1. q = ArmCount
      BY <1>0, <2>5
    <3>2. (k + 1) * (ArmCount + 1) = k * (ArmCount + 1) + ArmCount + 1
      BY <1>0
    <3>3. completed' = (k + 1) * (ArmCount + 1) + 0 + ArmCount
      BY <1>0, <1>1, <2>1, <3>1, <3>2
    <3>4. \A a \in Arms : a < q + 1 /\ ~(a < 0) /\ (k + 1) + 1 = k + 2
      BY <1>0, <3>1
    <3>5. InCycle(k + 1, 0)'
      BY <1>1, <2>3, <3>3, <3>4 DEF InCycle
    <3>6. k + 1 \in 0..completed' /\ 0 \in 0..ArmCount
      BY <1>0, <1>1
    <3> QED
      BY <3>5, <3>6
  <2> QED
    BY <2>4, <2>5
<1> QED
  BY <1>3, <1>4 DEF FairInvariant, RotationsHeld

(* What the end of a run does to the arms, racing or not. *)
LEMMA StageStep ==
  ASSUME FairInvariant, run_returns
  PROVE  /\ improvements' \in [Arms -> Nat] /\ runs' \in [Arms -> Nat]
         /\ \A a \in Arms : improvements'[a] <= runs'[a] /\ runs'[a] <= completed + 1
         /\ slot_ms' \in [Arms -> Nat] /\ pulled' \in [Arms -> Nat]
         /\ \A a \in Arms : pulled'[a] <= completed + 1
         /\ eliminated' \subseteq Arms /\ Active' # {} /\ target' \in Nat \ {0}
         /\ \/ UNCHANGED eliminated
            \/ /\ policy = "racing" /\ StageOver(runs')
               /\ eliminated' = eliminated \cup Losers(runs', improvements')
<1>0. /\ runs \in [Arms -> Nat] /\ improvements \in [Arms -> Nat] /\ slot_ms \in [Arms -> Nat]
      /\ pulled \in [Arms -> Nat] /\ eliminated \subseteq Arms /\ target \in Nat \ {0}
      /\ completed \in Nat
      /\ \A a \in Arms : improvements[a] <= runs[a] /\ runs[a] <= completed /\ pulled[a] <= completed
      /\ Active # {}
  BY ConfigAssumption DEF FairInvariant, SelectorTypes, ArmRunsCounted, AnArmIsLeft
<1>1. CASE running \notin Arms
  <2>1. UNCHANGED <<runs, improvements, slot_ms, pulled, eliminated, target>>
    BY <1>1 DEF run_returns
  <2>2. \A a \in Arms : runs[a] <= completed + 1 /\ pulled[a] <= completed + 1
    BY <1>0
  <2> QED
    BY <1>0, <2>1, <2>2 DEF Active
<1>2. CASE running \in Arms
  <2>1. PICK reward \in {0, 1}, slot \in SlotTimes : observe(running, reward, slot)
    BY <1>2 DEF run_returns
  <2>2. /\ runs' = [runs EXCEPT ![running] = @ + 1]
        /\ improvements' = [improvements EXCEPT ![running] = @ + reward]
        /\ slot_ms' = [slot_ms EXCEPT ![running] = @ + slot]
        /\ pulled' = [pulled EXCEPT ![running] = completed + 1]
    BY <2>1 DEF observe
  <2>3. /\ improvements' \in [Arms -> Nat] /\ runs' \in [Arms -> Nat]
        /\ \A a \in Arms : improvements'[a] <= runs'[a] /\ runs'[a] <= completed + 1
    BY <1>0, <1>2, <2>2
  <2>4. slot_ms' \in [Arms -> Nat]
    <3>1. slot \in Nat
      BY ConfigAssumption
    <3> QED
      BY <1>0, <1>2, <2>2, <3>1
  <2>5. pulled' \in [Arms -> Nat] /\ \A a \in Arms : pulled'[a] <= completed + 1
    BY <1>0, <1>2, <2>2
  <2>6. CASE policy = "racing" /\ StageOver(runs')
    <3>1. eliminated' = eliminated \cup Losers(runs', improvements') /\ target' = 2 * target
      BY <2>1, <2>6 DEF observe
    <3>2. /\ Losers(runs', improvements') \subseteq Active
          /\ Active \ Losers(runs', improvements') # {}
      BY <1>0, <2>3, <2>6, RacingIsFair
    <3>3. eliminated' \subseteq Arms /\ Active' # {} /\ target' \in Nat \ {0}
      BY <1>0, <3>1, <3>2 DEF Active
    <3> QED
      BY <2>3, <2>4, <2>5, <2>6, <3>1, <3>3
  <2>7. CASE ~(policy = "racing" /\ StageOver(runs'))
    <3>1. UNCHANGED <<eliminated, target>>
      BY <2>1, <2>7 DEF observe
    <3> QED
      BY <1>0, <2>3, <2>4, <2>5, <3>1 DEF Active
  <2> QED
    BY <2>6, <2>7
<1> QED
  BY <1>1, <1>2

(* The end of a run keeps the invariant. *)
LEMMA FairReturn ==
  ASSUME FairInvariant, run_returns
  PROVE  FairInvariant'
<1>1. /\ running # NoArm /\ running' = NoArm /\ completed' = completed + 1
      /\ UNCHANGED <<policy, max_starvation, cursor>>
  BY DEF run_returns
<1>2. completed' \in 0..MaxCompleted /\ completed' <= MaxCompleted
  BY <1>1, ConfigAssumption DEF FairInvariant, SelectorTypes, ArmRunsCounted
<1>3. SelectorTypes'
  <2>1. runs' \in [Arms -> 0..MaxCompleted] /\ improvements' \in [Arms -> 0..MaxCompleted]
    <3>1. \A a \in Arms : runs'[a] \in 0..MaxCompleted /\ improvements'[a] \in 0..MaxCompleted
      BY <1>1, <1>2, StageStep, ConfigAssumption
    <3> QED
      BY <3>1, StageStep
  <2>2. pulled' \in [Arms -> 0..MaxCompleted]
    <3>1. \A a \in Arms : pulled'[a] \in 0..MaxCompleted
      BY <1>1, <1>2, StageStep, ConfigAssumption
    <3> QED
      BY <3>1, StageStep
  <2> QED
    BY <1>1, <1>2, <2>1, <2>2, StageStep DEF FairInvariant, SelectorTypes
<1>4. ArmRunsCounted'
  BY <1>1, StageStep DEF ArmRunsCounted
<1>5. OnlyRacingRemoves'
  BY <1>1, StageStep DEF FairInvariant, OnlyRacingRemoves
<1>6. AnArmIsLeft'
  <2>1. NoArm \notin Arms
    BY ConfigAssumption DEF NoArm, Arms
  <2> QED
    BY <1>1, <2>1, StageStep DEF AnArmIsLeft
<1>7. RotationsHeld'
  <2>1. (EvenRounds' <=> EvenRounds) /\ policy' = policy
    BY <1>1 DEF EvenRounds
  <2> QED
    BY <2>1, RoundReturns, CycleReturns DEF RotationsHeld
<1> QED
  BY <1>1, <1>3, <1>4, <1>5, <1>6, <1>7 DEF FairInvariant

(* Nothing has run. *)
LEMMA FairInit == SelectorInit => FairInvariant
<1> SUFFICES ASSUME SelectorInit PROVE FairInvariant
  OBVIOUS
<1>1. /\ SelectorTypes /\ max_starvation \in Starvations /\ ArmRunsCounted /\ OnlyRacingRemoves
      /\ AnArmIsLeft
  <2>1. SelectorTypes /\ max_starvation \in Starvations
    BY ConfigAssumption DEF SelectorInit, SelectorTypes
  <2>2. ArmRunsCounted /\ OnlyRacingRemoves
    BY DEF SelectorInit, ArmRunsCounted, OnlyRacingRemoves
  <2>3. AnArmIsLeft
    <3>1. 1 \in Arms
      BY ConfigAssumption DEF Arms
    <3> QED
      BY <3>1 DEF SelectorInit, AnArmIsLeft, Active
  <2> QED
    BY <2>1, <2>2, <2>3
<1>2. InRound(0, 0) /\ FirstRound
  <2>1. \A a \in Arms : ~(a <= 0) /\ runs[a] = 0
    BY DEF SelectorInit, Arms
  <2>2. completed = 0 * ArmCount + 0 /\ completed < ArmCount
    BY ConfigAssumption DEF SelectorInit
  <2> QED
    BY <2>1, <2>2 DEF SelectorInit, InRound, FirstRound
<1>3. 0 \in 0..completed /\ 0 \in 0..(ArmCount - 1)
  BY ConfigAssumption DEF SelectorInit
<1> QED
  BY <1>1, <1>2, <1>3 DEF FairInvariant, RotationsHeld

(* Every step keeps the invariant. *)
LEMMA FairNext == FairInvariant /\ [SelectorNext]_selectorVars => FairInvariant'
<1> SUFFICES ASSUME FairInvariant, [SelectorNext]_selectorVars PROVE FairInvariant'
  OBVIOUS
<1>0. /\ SelectorTypes /\ Active # {} /\ cursor \in 0..(ArmCount - 1)
      /\ \A a \in Active : a \in Active \cup {GlobalBest}
  BY DEF FairInvariant, AnArmIsLeft, SelectorTypes
<1>1. CASE select_protected
  <2>1. protected_arm \in Active /\ Start(protected_arm) /\ cursor' = cursor
    BY <1>0, <1>1, SelectsActive DEF select_protected
  <2>2. RotationsHeld'
    BY <1>1, RotationStarts
  <2> QED
    BY <1>0, <2>1, <2>2, FairSelection
<1>2. CASE select_rotation
  <2>1. NextInRotation \in Active /\ Start(NextInRotation)
    BY <1>0, <1>2, SelectsActive DEF select_rotation
  <2>2. cursor' \in 0..(ArmCount - 1)
    <3>1. NextInRotation \in Int
      BY <2>1 DEF Active, Arms
    <3> QED
      BY <1>2, <3>1, ConfigAssumption, Remainders DEF select_rotation
  <2>3. RotationsHeld'
    BY <1>2, RotationStarts
  <2> QED
    BY <1>0, <2>1, <2>2, <2>3, FairSelection
<1>3. CASE select_weighted \/ select_racing \/ select_sampling
  <2>1. PICK a \in Active : Start(a) /\ cursor' = cursor
    <3>1. First(LeastRun) \in Active
      BY <1>0, SelectsActive
    <3>2. First(LeastVirtualTime) \in Active
      BY <1>0, SelectsActive
    <3> QED
      BY <1>3, <3>1, <3>2 DEF select_weighted, select_racing, select_sampling
  <2>2. RotationsHeld'
    BY <1>3, <2>1 DEF select_weighted, select_racing, select_sampling, Start, RotationsHeld,
                      EvenRounds
  <2> QED
    BY <1>0, <2>1, <2>2, FairSelection
<1>4. CASE select_current
  <2>1. Start(rotation(completed)) /\ cursor' = cursor /\ policy = "current"
    BY <1>4 DEF select_current
  <2>2. rotation(completed) \in Active \cup {GlobalBest}
    <3>1. eliminated = {}
      BY <2>1 DEF FairInvariant, OnlyRacingRemoves
    <3> QED
      BY <1>0, <3>1, RotationArm DEF Active
  <2>3. RotationsHeld'
    BY <1>4, RotationStarts
  <2> QED
    BY <1>0, <2>1, <2>2, <2>3, FairSelection
<1>5. CASE run_returns
  BY <1>5, FairReturn
<1>6. CASE UNCHANGED selectorVars
  BY <1>6 DEF selectorVars, FairInvariant, SelectorTypes, ArmRunsCounted, OnlyRacingRemoves, AnArmIsLeft, Active,
              RotationsHeld, EvenRounds, InRound, FirstRound, InCycle
<1> QED
  BY <1>1, <1>2, <1>3, <1>4, <1>5, <1>6 DEF SelectorNext

(* The invariant is enough for evenness. *)
LEMMA RotationsAreEven == FairInvariant => RotationIsEven
<1> SUFFICES ASSUME FairInvariant, NEW a \in Arms, NEW b \in Arms,
                    EvenRounds \/ (policy = "current" /\ a # 1)
             PROVE  runs[a] <= runs[b] + 1
  BY DEF RotationIsEven, EvenRounds
<1>0. runs[a] \in Int /\ runs[b] \in Int /\ a \in Int /\ b \in Int /\ completed \in Nat
  BY ConfigAssumption DEF FairInvariant, SelectorTypes, Arms
<1>1. CASE EvenRounds
  <2>1. PICK k \in 0..completed, p \in 0..(ArmCount - 1) : InRound(k, p)
    BY <1>1 DEF FairInvariant, RotationsHeld
  <2>2. runs[a] \in {k, k + 1} /\ runs[b] \in {k, k + 1}
    BY <2>1 DEF InRound
  <2> QED
    BY <1>0, <2>2
<1>2. CASE policy = "current" /\ a # 1
  <2>1. CASE FirstRound
    BY <1>0, <2>1 DEF FirstRound
  <2>2. ASSUME NEW k \in 0..completed, NEW q \in 0..ArmCount, InCycle(k, q)
        PROVE  runs[a] <= runs[b] + 1
    <3>1. runs[a] \in {k + 1, k + 2}
      BY <1>2, <2>2 DEF InCycle
    <3>2. runs[b] >= k + 1
      BY <1>0, <2>2 DEF InCycle
    <3> QED
      BY <1>0, <3>1, <3>2
  <2> QED
    BY <1>2, <2>1, <2>2 DEF FairInvariant, RotationsHeld
<1> QED
  BY <1>1, <1>2

(* What racing removes had its whole stage and did no better than anything *)
(* that stays, the rotations are even, every counter keeps its type and an *)
(* arm is always left: RestartableArmSelector and the rotation of policy   *)
(* Current, for every number of arms and every sequence of rewards.        *)
THEOREM SelectionFair == SelectorSpec => SelectionIsFair
<1> DEFINE Removes ==
      \A a \in eliminated' \ eliminated, b \in Arms \ eliminated' :
        /\ runs'[a] >= target /\ runs'[b] >= target
        /\ improvements'[a] * runs'[b] <= improvements'[b] * runs'[a]
<1>1. FairInvariant /\ [SelectorNext]_selectorVars => [Removes]_selectorVars
  <2> SUFFICES ASSUME FairInvariant, SelectorNext,
                      NEW a \in eliminated' \ eliminated, NEW b \in Arms \ eliminated'
               PROVE  /\ runs'[a] >= target /\ runs'[b] >= target
                      /\ improvements'[a] * runs'[b] <= improvements'[b] * runs'[a]
    OBVIOUS
  <2>1. run_returns
    BY DEF SelectorNext, select_protected, select_rotation, select_weighted, select_racing,
           select_sampling, select_current, Start
  <2>2. /\ StageOver(runs') /\ eliminated' = eliminated \cup Losers(runs', improvements')
        /\ runs' \in [Arms -> Nat] /\ improvements' \in [Arms -> Nat]
    BY <2>1, StageStep
  <2>3. eliminated \subseteq Arms /\ target \in Nat \ {0} /\ Active # {}
    BY DEF FairInvariant, SelectorTypes, AnArmIsLeft
  <2>4. /\ Losers(runs', improvements') \subseteq Active
        /\ \A x \in Losers(runs', improvements'), y \in Active \ Losers(runs', improvements') :
             improvements'[x] * runs'[y] <= improvements'[y] * runs'[x]
    BY <2>2, <2>3, RacingIsFair
  <2>5. a \in Losers(runs', improvements') /\ b \in Active \ Losers(runs', improvements')
    BY <2>2 DEF Active
  <2>6. runs'[a] >= target /\ runs'[b] >= target
    BY <2>2, <2>4, <2>5 DEF StageOver
  <2> QED
    BY <2>4, <2>5, <2>6
<1>2. FairInvariant => SelectorTypes /\ AnArmIsLeft /\ RotationIsEven
  BY RotationsAreEven DEF FairInvariant
<1> QED
  BY FairInit, FairNext, <1>1, <1>2, PTL DEF SelectorSpec, SelectionIsFair
=============================================================================
