-------------------------- MODULE RouteSearchProofs --------------------------
(***************************************************************************)
(* Proofs about the route solvers, for every problem: their clocks agree,  *)
(* the bisection finds the latest start, the annealing search keeps the    *)
(* best route it has seen and the exact search is optimal.                 *)
(***************************************************************************)
EXTENDS RouteSearch, FiniteSetTheorems, SequenceTheorems, WellFoundedInduction, TLAPS

-----------------------------------------------------------------------------
(* The clocks of the evaluation and of the schedule. *)

(* The natural numbers are well-ordered. *)
LEMMA LeastNumber ==
  ASSUME NEW S, S \subseteq Nat, S # {}
  PROVE  \E m \in S : \A x \in S : m <= x
<1>1. PICK m \in S : \A x \in S : ~ (<<x, m>> \in OpToRel(<, Nat))
  BY NatLessThanWellFounded, WFMin
<1>2. \A x \in S : ~ (x < m)
  BY <1>1 DEF OpToRel
<1> QED
  BY <1>2

(* Induction over the visits of a route: the first visit that fails would  *)
(* have one before it that does not.                                       *)
LEMMA VisitInduction ==
  ASSUME NEW n \in Nat \ {0}, NEW T, 1 \in T, \A k \in 2 .. n : k - 1 \in T => k \in T
  PROVE  \A k \in 1 .. n : k \in T
<1> DEFINE U == {k \in 1 .. n : k \notin T}
<1> SUFFICES ASSUME U # {} PROVE FALSE
  OBVIOUS
<1>1. PICK x \in U : \A y \in U : x <= y
  <2>1. U \subseteq Nat
    OBVIOUS
  <2> HIDE DEF U
  <2> QED
    BY <2>1, LeastNumber
<1>2. x \in 1 .. n /\ x \notin T
  OBVIOUS
<1>3. x \in 2 .. n
  BY <1>2
<1>4. x - 1 \in 1 .. n /\ ~ (x <= x - 1)
  BY <1>3
<1>5. x - 1 \in T
  BY <1>1, <1>4
<1> QED
  BY <1>2, <1>3, <1>5

(* A state that is passed from visit to visit: D gives the next one. *)
Passes(D, S, n) == \A s \in S : \A k \in 2 .. n : D[<<s, k>>] \in S

Passed(f, n, c, D) == \A k \in 1 .. n : f[k] = IF k = 1 THEN c ELSE D[<<f[k - 1], k>>]

(* Such a sequence of states exists. *)
LEMMA VisitsExist ==
  ASSUME NEW n \in Nat \ {0}, NEW S, NEW c \in S, NEW D, Passes(D, S, n)
  PROVE  \E f \in [1 .. n -> S] : Passed(f, n, c, D)
<1> DEFINE T == {m \in 1 .. n : \E f \in [1 .. m -> S] : Passed(f, m, c, D)}
<1>1. 1 \in T
  <2>1. [k \in 1 .. 1 |-> c] \in [1 .. 1 -> S] /\ Passed([k \in 1 .. 1 |-> c], 1, c, D)
    BY DEF Passed
  <2> QED
    BY <2>1
<1>2. ASSUME NEW m \in 2 .. n, m - 1 \in T
      PROVE  m \in T
  <2>1. PICK f \in [1 .. m - 1 -> S] : Passed(f, m - 1, c, D)
    BY <1>2
  <2> DEFINE g == [k \in 1 .. m |-> IF k = m THEN D[<<f[m - 1], m>>] ELSE f[k]]
  <2>2. D[<<f[m - 1], m>>] \in S
    BY <1>2 DEF Passes
  <2>3. g \in [1 .. m -> S]
    BY <2>2
  <2>4. ASSUME NEW k \in 1 .. m
        PROVE  g[k] = IF k = 1 THEN c ELSE D[<<g[k - 1], k>>]
    <3>1. CASE k = m
      <4>1. g[k] = D[<<f[m - 1], m>>] /\ k - 1 \in 1 .. m /\ k - 1 # m /\ k # 1
        BY <3>1
      <4>2. g[k - 1] = f[m - 1]
        BY <3>1, <4>1
      <4> QED
        BY <3>1, <4>1, <4>2
    <3>2. CASE k # m
      <4>1. k \in 1 .. m - 1 /\ g[k] = f[k] /\ (k # 1 => k - 1 \in 1 .. m /\ k - 1 # m)
        BY <3>2
      <4>2. k # 1 => g[k - 1] = f[k - 1]
        BY <4>1
      <4>3. f[k] = IF k = 1 THEN c ELSE D[<<f[k - 1], k>>]
        BY <2>1, <4>1 DEF Passed
      <4> HIDE DEF g
      <4> QED
        BY <4>1, <4>2, <4>3
    <3> QED
      BY <3>1, <3>2
  <2>5. Passed(g, m, c, D)
    <3> HIDE DEF g
    <3> QED
      BY <2>4 DEF Passed
  <2> HIDE DEF g
  <2> QED
    BY <2>3, <2>5
<1>3. n \in T
  <2> HIDE DEF T
  <2>1. \A k \in 1 .. n : k \in T
    BY <1>1, <1>2, VisitInduction
  <2> QED
    BY <2>1
<1> QED
  BY <1>3

SimulatedStates(p) == [at : Locations(p), time : Nat \union {None}, travel : Nat, wait : Nat]

(* A visit in numbers. *)
LEMMA VisitTypes ==
  ASSUME NEW p, IsProblem(p), NEW i \in Locations(p), NEW t \in Nat
  PROVE  /\ ServiceStart(p, i, t) \in Nat /\ ServiceStart(p, i, t) >= t
         /\ Finish(p, i, t) \in Nat /\ Finish(p, i, t) >= t
         /\ \A u \in Nat : u <= t => Finish(p, i, u) <= Finish(p, i, t)
BY DEF IsProblem, ServiceStart, Finish, Later

LEMMA SimulatedStartType ==
  ASSUME NEW p, IsProblem(p), NEW first \in Nat
  PROVE  SimulatedStart(p, first) \in SimulatedStates(p)
<1>1. 0 \in Locations(p)
  BY DEF IsProblem, Locations
<1>2. /\ ServiceStart(p, 0, first) \in Nat /\ ServiceStart(p, 0, first) >= first
      /\ Finish(p, 0, first) \in Nat
  BY <1>1, VisitTypes
<1> QED
  BY <1>1, <1>2 DEF SimulatedStart, SimulatedStates, initial_service

LEMMA SimulatedLegType ==
  ASSUME NEW p, IsProblem(p), NEW s \in SimulatedStates(p), NEW to \in Locations(p)
  PROVE  SimulatedLeg(p, s, to) \in SimulatedStates(p)
<1> DEFINE travel == p.travel[s.at][to]
           arrival == s.time + travel
<1>1. travel \in Nat \union {None} /\ s.at \in Locations(p)
  BY DEF IsProblem, SimulatedStates
<1>2. CASE s.time = None \/ travel = None \/ ~ InTime(p, to, Finish(p, to, arrival))
  BY <1>2 DEF SimulatedLeg, SimulatedStates
<1>3. CASE ~ (s.time = None \/ travel = None \/ ~ InTime(p, to, Finish(p, to, arrival)))
  <2>1. arrival \in Nat /\ travel \in Nat
    BY <1>1, <1>3 DEF SimulatedStates
  <2>2. /\ ServiceStart(p, to, arrival) - arrival \in Nat /\ Finish(p, to, arrival) \in Nat
    BY <2>1, VisitTypes
  <2>3. SimulatedLeg(p, s, to) =
          [at |-> to, time |-> Finish(p, to, arrival), travel |-> s.travel + travel,
           wait |-> s.wait + (ServiceStart(p, to, arrival) - arrival)]
    BY <1>3 DEF SimulatedLeg
  <2>4. s.travel + travel \in Nat /\ s.wait + (ServiceStart(p, to, arrival) - arrival) \in Nat
    BY <2>1, <2>2 DEF SimulatedStates
  <2> QED
    BY <2>2, <2>3, <2>4 DEF SimulatedStates
<1> QED
  BY <1>2, <1>3

LEMMA SimulatedSteps ==
  ASSUME NEW p, IsProblem(p), NEW r \in Seq(Locations(p)), Len(r) >= 1, NEW first \in Nat
  PROVE  LET f == Simulated(p, r, first)
         IN  \A k \in 1 .. Len(r) :
               /\ f[k] \in SimulatedStates(p)
               /\ f[k] = IF k = 1 THEN SimulatedStart(p, first) ELSE SimulatedLeg(p, f[k - 1], r[k])
<1> DEFINE n == Len(r)
           S == SimulatedStates(p)
           c == SimulatedStart(p, first)
           D == [x \in S \X (2 .. n) |-> SimulatedLeg(p, x[1], r[x[2]])]
           Steps(g) == g = [k \in 1 .. n |-> IF k = 1 THEN c ELSE SimulatedLeg(p, g[k - 1], r[k])]
           f == Simulated(p, r, first)
<1>1. n \in Nat \ {0} /\ \A k \in 1 .. n : r[k] \in Locations(p)
  OBVIOUS
<1>2. c \in S
  BY SimulatedStartType
<1>3. \A s \in S : \A k \in 2 .. n : SimulatedLeg(p, s, r[k]) \in S /\ D[<<s, k>>] = SimulatedLeg(p, s, r[k])
  BY <1>1, SimulatedLegType
<1> HIDE DEF n, S, c, D
<1>4. PICK g \in [1 .. n -> S] : Passed(g, n, c, D)
  <2>1. Passes(D, S, n)
    BY <1>3 DEF Passes
  <2> QED
    BY <1>1, <1>2, <2>1, VisitsExist
<1>5. Steps(g)
  <2>1. \A k \in 1 .. n : k # 1 => k - 1 \in 1 .. n /\ k \in 2 .. n
    BY <1>1
  <2>2. \A k \in 1 .. n : g[k] = IF k = 1 THEN c ELSE SimulatedLeg(p, g[k - 1], r[k])
    BY <1>3, <1>4, <2>1 DEF Passed
  <2> QED
    BY <2>2
<1>6. f = CHOOSE h : Steps(h)
  BY DEF Simulated, n, c
<1>7. Steps(f)
  <2> HIDE DEF Steps, f
  <2> QED
    BY <1>5, <1>6
<1>8. \A k \in 1 .. n : f[k] = IF k = 1 THEN c ELSE SimulatedLeg(p, f[k - 1], r[k])
  <2> HIDE DEF f
  <2> QED
    BY <1>7
<1> HIDE DEF f, Steps
<1>9. \A k \in 1 .. n : k \in {j \in 1 .. n : f[j] \in S}
  <2>1. 1 \in {j \in 1 .. n : f[j] \in S}
    BY <1>1, <1>2, <1>8
  <2>2. \A k \in 2 .. n : k - 1 \in {j \in 1 .. n : f[j] \in S} => k \in {j \in 1 .. n : f[j] \in S}
    <3> SUFFICES ASSUME NEW k \in 2 .. n, f[k - 1] \in S PROVE f[k] \in S
      BY <1>1
    <3>1. k \in 1 .. n /\ k # 1
      BY <1>1
    <3> QED
      BY <1>3, <1>8, <3>1
  <2> QED
    BY <1>1, <2>1, <2>2, VisitInduction
<1> QED
  BY <1>8, <1>9 DEF f, n, S, c

(* The states of the schedule: without an error some stop was left. *)
PlanErrors ==
  {NoError, Error("OutsideSingleDay"), Error("UnreachableArc")}
    \union [ok : {FALSE}, error : {"TimeWindowViolation"},
            violation : [location : Int, service_start : Int, required_departure : Int, close : Int,
                         start : Int, wait : Int, is_start : BOOLEAN, is_destination : BOOLEAN,
                         stay : Int, suggested_max_stay : Int]]

PlannedRecords(p) ==
  [at : Locations(p), start : Nat, departures : Seq(Nat), travel : Nat, wait : Nat, error : PlanErrors]

PlannedStates(p) == {s \in PlannedRecords(p) : s.error = NoError => s.departures # <<>>}

(* A stop of the schedule accepts what a visit of the evaluation does. *)
LEMMA StopAgrees ==
  ASSUME NEW p, IsProblem(p), NEW i \in Locations(p), NEW s \in PlannedRecords(p), s.error = NoError,
         NEW t \in Nat, NEW arrival, arrival = IF t >= MinutesPerDay THEN None ELSE t
  PROVE  LET q == ScheduledStop(p, s, i, arrival)
         IN  /\ q \in PlannedStates(p)
             /\ IF InTime(p, i, Finish(p, i, t))
                THEN q = [s EXCEPT !.at = i, !.wait = @ + (ServiceStart(p, i, t) - t),
                                   !.departures = Append(@, Finish(p, i, t))]
                ELSE q.error # NoError
<1> DEFINE begin == Later(arrival, p.open[i])
           departure == checked_add(begin, p.stay[i])
           ended == Finish(p, i, t)
           q == ScheduledStop(p, s, i, arrival)
<1>1. /\ p.open[i] \in Nat /\ p.close[i] \in Nat /\ p.stay[i] \in Nat /\ MinutesPerDay \in Nat \ {0}
      /\ p.n \in Nat
  BY MinutesPerDayAssumption DEF IsProblem
<1>2. ended \in Nat /\ ended >= t /\ ServiceStart(p, i, t) \in Nat /\ ServiceStart(p, i, t) >= t
  BY VisitTypes
<1>3. /\ s.at \in Locations(p) /\ s.start \in Nat /\ s.departures \in Seq(Nat) /\ s.travel \in Nat
      /\ s.wait \in Nat /\ DOMAIN s = {"at", "start", "departures", "travel", "wait", "error"}
  BY DEF PlannedRecords
<1>4. \A e \in PlanErrors : e # NoError => [s EXCEPT !.error = e] \in PlannedStates(p)
                                           /\ [s EXCEPT !.error = e].error = e
  BY <1>3 DEF PlannedStates, PlannedRecords
<1>5. CASE t >= MinutesPerDay
  <2>1. arrival = None /\ ~ InTime(p, i, ended)
    BY <1>1, <1>2, <1>5 DEF InTime
  <2>2. q = [s EXCEPT !.error = Error("OutsideSingleDay")]
    BY <2>1 DEF ScheduledStop
  <2>3. Error("OutsideSingleDay") \in PlanErrors /\ Error("OutsideSingleDay") # NoError
    BY DEF PlanErrors, NoError, Error
  <2> QED
    BY <1>4, <2>1, <2>2, <2>3
<1>6. CASE t < MinutesPerDay
  <2>1. arrival = t /\ arrival # None /\ begin = ServiceStart(p, i, t) /\ begin \in Nat
    BY <1>1, <1>2, <1>6 DEF None, ServiceStart
  <2>2. departure = IF ended >= MinutesPerDay THEN None ELSE ended
    BY <2>1 DEF checked_add, Finish
  <2>3. CASE ended >= MinutesPerDay
    <3>1. q = [s EXCEPT !.error = Error("OutsideSingleDay")]
      BY <2>2, <2>3 DEF ScheduledStop
    <3>2. Error("OutsideSingleDay") \in PlanErrors /\ Error("OutsideSingleDay") # NoError
      BY DEF PlanErrors, NoError, Error
    <3>3. ~ InTime(p, i, ended)
      BY <1>1, <1>2, <2>3 DEF InTime
    <3> QED
      BY <1>4, <3>1, <3>2, <3>3
  <2>4. CASE ended < MinutesPerDay /\ ended > p.close[i]
    <3> DEFINE v == TimeWindowViolation(p, s, i, begin, departure, arrival)
               e == [ok |-> FALSE, error |-> "TimeWindowViolation", violation |-> v]
    <3>1. departure = ended /\ departure # None
      BY <1>1, <1>2, <2>2, <2>4 DEF None
    <3>2. q = [s EXCEPT !.error = e]
      BY <2>1, <2>4, <3>1 DEF ScheduledStop
    <3>3. e \in PlanErrors /\ e # NoError
      <4>1. v \in [location : Int, service_start : Int, required_departure : Int, close : Int,
                   start : Int, wait : Int, is_start : BOOLEAN, is_destination : BOOLEAN,
                   stay : Int, suggested_max_stay : Int]
        <5>1. i \in Int /\ Later(p.close[i] - begin, 0) \in Int /\ s.wait + (begin - arrival) \in Int
          BY <1>1, <1>3, <2>1 DEF Locations, Later
        <5> HIDE DEF begin, departure, ended
        <5> QED
          BY <1>1, <1>2, <1>3, <2>1, <3>1, <5>1 DEF TimeWindowViolation
      <4> HIDE DEF v
      <4> QED
        BY <4>1 DEF PlanErrors, NoError, Error
    <3>4. ~ InTime(p, i, ended)
      BY <1>1, <1>2, <2>4 DEF InTime
    <3> HIDE DEF e, q
    <3> QED
      BY <1>4, <3>2, <3>3, <3>4 DEF q
  <2>5. CASE ended < MinutesPerDay /\ ended <= p.close[i]
    <3> DEFINE d == Append(s.departures, ended)
    <3>1. departure = ended /\ departure # None /\ ~ (departure > p.close[i])
      BY <1>1, <1>2, <2>2, <2>5 DEF None
    <3>2. q = [s EXCEPT !.at = i, !.wait = @ + (ServiceStart(p, i, t) - t), !.departures = d]
      BY <2>1, <3>1 DEF ScheduledStop
    <3>3. d \in Seq(Nat) /\ d # <<>>
      BY <1>2, <1>3
    <3>4. s.wait + (ServiceStart(p, i, t) - t) \in Nat
      BY <1>2, <1>3
    <3>5. q \in PlannedStates(p)
      <4> HIDE DEF d, q
      <4> QED
        BY <1>3, <3>2, <3>3, <3>4 DEF PlannedStates, PlannedRecords
    <3>6. InTime(p, i, ended)
      BY <2>5 DEF InTime
    <3> QED
      BY <3>2, <3>5, <3>6
  <2> QED
    BY <1>1, <1>2, <2>3, <2>4, <2>5
<1> QED
  BY <1>1, <1>5, <1>6

(* What the evaluation s and the schedule q have in common. *)
Agree(s, q) ==
  IF s.time = None THEN q.error # NoError
  ELSE /\ q.error = NoError /\ q.at = s.at /\ q.travel = s.travel /\ q.wait = s.wait
       /\ Last(q.departures) = s.time

LEMMA ScheduledStartAgrees ==
  ASSUME NEW p, IsProblem(p), NEW first \in 0 .. (MinutesPerDay - 1)
  PROVE  /\ ScheduledStart(p, first) \in PlannedStates(p)
         /\ Agree(SimulatedStart(p, first), ScheduledStart(p, first))
<1> DEFINE z == [at |-> 0, start |-> first, departures |-> <<>>, travel |-> 0, wait |-> 0, error |-> NoError]
           q == ScheduledStart(p, first)
           s == SimulatedStart(p, first)
<1>1. 0 \in Locations(p) /\ MinutesPerDay \in Nat \ {0} /\ first \in Nat /\ ~ (first >= MinutesPerDay)
  BY MinutesPerDayAssumption DEF IsProblem, Locations
<1>2. z \in PlannedRecords(p) /\ z.error = NoError
  BY <1>1 DEF PlannedRecords, PlanErrors
<1>3. q = ScheduledStop(p, z, 0, first)
  BY DEF ScheduledStart
<1>4. /\ Finish(p, 0, first) \in Nat /\ ServiceStart(p, 0, first) \in Nat
      /\ ServiceStart(p, 0, first) >= first
  BY <1>1, VisitTypes
<1>5. /\ q \in PlannedStates(p)
      /\ IF InTime(p, 0, Finish(p, 0, first))
         THEN q = [z EXCEPT !.at = 0, !.wait = @ + (ServiceStart(p, 0, first) - first),
                            !.departures = Append(@, Finish(p, 0, first))]
         ELSE q.error # NoError
  <2> HIDE DEF z, q
  <2> QED
    BY <1>1, <1>2, <1>3, StopAgrees
<1>6. CASE InTime(p, 0, Finish(p, 0, first))
  <2>1. s = [at |-> 0, time |-> Finish(p, 0, first), travel |-> 0, wait |-> ServiceStart(p, 0, first) - first]
    BY <1>6 DEF SimulatedStart, initial_service
  <2>2. Append(<<>>, Finish(p, 0, first)) = <<Finish(p, 0, first)>>
    BY <1>4
  <2>3. /\ q.at = 0 /\ q.travel = 0 /\ q.wait = ServiceStart(p, 0, first) - first
        /\ q.departures = <<Finish(p, 0, first)>> /\ q.error = NoError
    <3>1. q = [z EXCEPT !.at = 0, !.wait = 0 + (ServiceStart(p, 0, first) - first),
                        !.departures = <<Finish(p, 0, first)>>]
      BY <1>5, <1>6, <2>2
    <3> HIDE DEF q
    <3> QED
      BY <1>4, <3>1
  <2>4. s.time # None
    BY <1>4, <2>1 DEF None
  <2> HIDE DEF q, s
  <2> QED
    BY <1>4, <1>5, <2>1, <2>3, <2>4 DEF Last, Agree, q, s
<1>7. CASE ~ InTime(p, 0, Finish(p, 0, first))
  <2>1. s.time = None
    BY <1>7 DEF SimulatedStart, initial_service
  <2> HIDE DEF q, s
  <2> QED
    BY <1>5, <1>7, <2>1 DEF Agree, q, s
<1> QED
  BY <1>6, <1>7

LEMMA ScheduledLegAgrees ==
  ASSUME NEW p, IsProblem(p), NEW s \in SimulatedStates(p), NEW q \in PlannedStates(p),
         NEW to \in Locations(p)
  PROVE  /\ ScheduledLeg(p, q, to) \in PlannedStates(p)
         /\ Agree(s, q) => Agree(SimulatedLeg(p, s, to), ScheduledLeg(p, q, to))
<1> DEFINE travel == p.travel[q.at][to]
           last == Last(q.departures)
           w == [q EXCEPT !.travel = @ + travel]
           t == last + travel
           x == ScheduledLeg(p, q, to)
           y == SimulatedLeg(p, s, to)
<1>1. /\ q.at \in Locations(p) /\ q.start \in Nat /\ q.departures \in Seq(Nat) /\ q.travel \in Nat
      /\ q.wait \in Nat /\ q.error \in PlanErrors /\ q \in PlannedRecords(p)
      /\ DOMAIN q = {"at", "start", "departures", "travel", "wait", "error"}
      /\ travel \in Nat \union {None} /\ MinutesPerDay \in Nat \ {0}
  BY MinutesPerDayAssumption DEF PlannedStates, PlannedRecords, IsProblem
<1>2. s.at \in Locations(p) /\ s.time \in Nat \union {None} /\ s.travel \in Nat /\ s.wait \in Nat
  BY DEF SimulatedStates
<1>3. CASE q.error # NoError
  <2>1. x = q
    BY <1>3 DEF ScheduledLeg
  <2>2. s.time = None => y.time = None
    BY <1>2 DEF SimulatedLeg, SimulatedStates
  <2>3. Agree(s, q) => s.time = None
    BY <1>3 DEF Agree
  <2> HIDE DEF x, y
  <2> QED
    BY <1>3, <2>1, <2>2, <2>3 DEF Agree, x, y
<1>4. CASE q.error = NoError /\ travel = None
  <2>1. x = [q EXCEPT !.error = Error("UnreachableArc")]
    BY <1>4 DEF ScheduledLeg
  <2>2. Error("UnreachableArc") \in PlanErrors /\ Error("UnreachableArc") # NoError
    BY DEF PlanErrors, NoError, Error
  <2>3. x \in PlannedStates(p) /\ x.error # NoError
    <3> HIDE DEF x
    <3> QED
      BY <1>1, <2>1, <2>2 DEF PlannedStates, PlannedRecords
  <2>4. Agree(s, q) => y.time = None
    <3>1. Agree(s, q) => s.time = None \/ s.at = q.at
      BY <1>4 DEF Agree
    <3> QED
      BY <1>2, <1>4, <3>1 DEF SimulatedLeg, SimulatedStates
  <2> HIDE DEF x, y
  <2> QED
    BY <2>3, <2>4 DEF Agree, x, y
<1>5. CASE q.error = NoError /\ travel # None
  <2>1. q.departures # <<>> /\ last \in Nat /\ travel \in Nat /\ t \in Nat
    <3>1. q.departures # <<>>
      BY <1>5 DEF PlannedStates
    <3>2. Len(q.departures) \in 1 .. Len(q.departures)
      BY <1>1, <3>1
    <3> QED
      BY <1>1, <1>5, <3>1, <3>2 DEF Last
  <2>2. x = ScheduledStop(p, w, to, checked_add(last, travel))
    BY <1>5 DEF ScheduledLeg
  <2>3. checked_add(last, travel) = IF t >= MinutesPerDay THEN None ELSE t
    BY DEF checked_add
  <2>4. w \in PlannedRecords(p) /\ w.error = NoError /\ w.wait = q.wait /\ w.travel = q.travel + travel
        /\ w.departures = q.departures
    <3>1. q.travel + travel \in Nat
      BY <1>1, <2>1
    <3> HIDE DEF travel
    <3> QED
      BY <1>1, <1>5, <3>1 DEF PlannedRecords
  <2>5. /\ x \in PlannedStates(p)
        /\ IF InTime(p, to, Finish(p, to, t))
           THEN x = [w EXCEPT !.at = to, !.wait = @ + (ServiceStart(p, to, t) - t),
                              !.departures = Append(@, Finish(p, to, t))]
           ELSE x.error # NoError
    <3> HIDE DEF x, w, t, last, travel
    <3> QED
      BY <2>1, <2>2, <2>3, <2>4, StopAgrees
  <2>6. ASSUME Agree(s, q) PROVE Agree(y, x)
    <3>1. s.time = last /\ s.at = q.at /\ s.travel = q.travel /\ s.wait = q.wait /\ s.time # None
      BY <1>5, <2>6 DEF Agree
    <3>2. CASE InTime(p, to, Finish(p, to, t))
      <4>1. y = [at |-> to, time |-> Finish(p, to, t), travel |-> s.travel + travel,
                 wait |-> s.wait + (ServiceStart(p, to, t) - t)]
        BY <1>5, <3>1, <3>2 DEF SimulatedLeg
      <4>2. Finish(p, to, t) \in Nat /\ ServiceStart(p, to, t) \in Nat
        BY <2>1, VisitTypes
      <4>3. /\ x.at = to /\ x.travel = q.travel + travel /\ x.wait = q.wait + (ServiceStart(p, to, t) - t)
            /\ x.departures = Append(q.departures, Finish(p, to, t)) /\ x.error = NoError
        <5>1. DOMAIN w = {"at", "start", "departures", "travel", "wait", "error"}
          BY <1>1
        <5> HIDE DEF x, w, t, last, travel
        <5> QED
          BY <2>4, <2>5, <3>2, <5>1
      <4>4. Last(x.departures) = Finish(p, to, t)
        <5>1. Last(Append(q.departures, Finish(p, to, t))) = Finish(p, to, t)
          BY <1>1, <4>2 DEF Last
        <5> HIDE DEF x, w, t, last, travel
        <5> QED
          BY <4>3, <5>1
      <4>5. y.time # None
        BY <4>1, <4>2 DEF None
      <4> HIDE DEF x, y, t, last, travel
      <4> QED
        BY <3>1, <4>1, <4>3, <4>4, <4>5 DEF Agree
    <3>3. CASE ~ InTime(p, to, Finish(p, to, t))
      <4>1. y.time = None
        BY <1>2, <1>5, <3>1, <3>3 DEF SimulatedLeg, SimulatedStates
      <4> HIDE DEF x, y, t, last, travel
      <4> QED
        BY <2>5, <3>3, <4>1 DEF Agree
    <3> QED
      BY <3>2, <3>3
  <2> QED
    BY <2>5, <2>6
<1> QED
  BY <1>3, <1>4, <1>5

LEMMA PlannedSteps ==
  ASSUME NEW p, IsProblem(p), NEW r \in Seq(Locations(p)), Len(r) >= 1,
         NEW first \in 0 .. (MinutesPerDay - 1)
  PROVE  LET f == Planned(p, r, first)
         IN  \A k \in 1 .. Len(r) :
               /\ f[k] \in PlannedStates(p)
               /\ f[k] = IF k = 1 THEN ScheduledStart(p, first) ELSE ScheduledLeg(p, f[k - 1], r[k])
<1> DEFINE n == Len(r)
           S == PlannedStates(p)
           c == ScheduledStart(p, first)
           D == [x \in S \X (2 .. n) |-> ScheduledLeg(p, x[1], r[x[2]])]
           Steps(g) == g = [k \in 1 .. n |-> IF k = 1 THEN c ELSE ScheduledLeg(p, g[k - 1], r[k])]
           f == Planned(p, r, first)
<1>1. n \in Nat \ {0} /\ \A k \in 1 .. n : r[k] \in Locations(p)
  OBVIOUS
<1>2. c \in S
  BY ScheduledStartAgrees
<1>3. \A s \in S : \A k \in 2 .. n : ScheduledLeg(p, s, r[k]) \in S /\ D[<<s, k>>] = ScheduledLeg(p, s, r[k])
  <2>1. PICK z : z \in SimulatedStates(p)
    <3>1. MinutesPerDay \in Nat /\ first \in Nat
      BY MinutesPerDayAssumption
    <3> QED
      BY <3>1, SimulatedStartType
  <2> QED
    BY <1>1, <2>1, ScheduledLegAgrees
<1> HIDE DEF n, S, c, D
<1>4. PICK g \in [1 .. n -> S] : Passed(g, n, c, D)
  <2>1. Passes(D, S, n)
    BY <1>3 DEF Passes
  <2> QED
    BY <1>1, <1>2, <2>1, VisitsExist
<1>5. Steps(g)
  <2>1. \A k \in 1 .. n : k # 1 => k - 1 \in 1 .. n /\ k \in 2 .. n
    BY <1>1
  <2>2. \A k \in 1 .. n : g[k] = IF k = 1 THEN c ELSE ScheduledLeg(p, g[k - 1], r[k])
    BY <1>3, <1>4, <2>1 DEF Passed
  <2> QED
    BY <2>2
<1>6. f = CHOOSE h : Steps(h)
  BY DEF Planned, n, c
<1>7. Steps(f)
  <2> HIDE DEF Steps, f
  <2> QED
    BY <1>5, <1>6
<1>8. \A k \in 1 .. n : f[k] = IF k = 1 THEN c ELSE ScheduledLeg(p, f[k - 1], r[k])
  <2> HIDE DEF f
  <2> QED
    BY <1>7
<1> HIDE DEF f, Steps
<1>9. \A k \in 1 .. n : k \in {j \in 1 .. n : f[j] \in S}
  <2>1. 1 \in {j \in 1 .. n : f[j] \in S}
    BY <1>1, <1>2, <1>8
  <2>2. \A k \in 2 .. n : k - 1 \in {j \in 1 .. n : f[j] \in S} => k \in {j \in 1 .. n : f[j] \in S}
    <3> SUFFICES ASSUME NEW k \in 2 .. n, f[k - 1] \in S PROVE f[k] \in S
      BY <1>1
    <3>1. k \in 1 .. n /\ k # 1
      BY <1>1
    <3> QED
      BY <1>3, <1>8, <3>1
  <2> QED
    BY <1>1, <2>1, <2>2, VisitInduction
<1> QED
  BY <1>8, <1>9 DEF f, n, S, c

(* At every visit the evaluation and the schedule agree. *)
LEMMA ClocksAgree ==
  ASSUME NEW p, IsProblem(p), NEW r \in Seq(Locations(p)), Len(r) >= 1,
         NEW first \in 0 .. (MinutesPerDay - 1)
  PROVE  \A k \in 1 .. Len(r) : Agree(Simulated(p, r, first)[k], Planned(p, r, first)[k])
<1> DEFINE n == Len(r)
           f == Simulated(p, r, first)
           g == Planned(p, r, first)
           T == {k \in 1 .. n : Agree(f[k], g[k])}
<1>1. n \in Nat \ {0} /\ first \in Nat /\ \A k \in 1 .. n : r[k] \in Locations(p)
  BY MinutesPerDayAssumption
<1>2. \A k \in 1 .. n :
        /\ f[k] \in SimulatedStates(p)
        /\ f[k] = IF k = 1 THEN SimulatedStart(p, first) ELSE SimulatedLeg(p, f[k - 1], r[k])
  BY <1>1, SimulatedSteps
<1>3. \A k \in 1 .. n :
        /\ g[k] \in PlannedStates(p)
        /\ g[k] = IF k = 1 THEN ScheduledStart(p, first) ELSE ScheduledLeg(p, g[k - 1], r[k])
  BY PlannedSteps
<1> HIDE DEF n, f, g
<1>4. 1 \in T
  BY <1>1, <1>2, <1>3, ScheduledStartAgrees
<1>5. \A k \in 2 .. n : k - 1 \in T => k \in T
  <2> SUFFICES ASSUME NEW k \in 2 .. n, Agree(f[k - 1], g[k - 1]) PROVE Agree(f[k], g[k])
    BY <1>1
  <2>1. k \in 1 .. n /\ k - 1 \in 1 .. n /\ k # 1
    BY <1>1
  <2> QED
    BY <1>1, <1>2, <1>3, <2>1, ScheduledLegAgrees
<1> HIDE DEF T
<1>6. \A k \in 1 .. n : k \in T
  BY <1>1, <1>4, <1>5, VisitInduction
<1> QED
  BY <1>6 DEF T, n, f, g

(* A route without repeats is an injective sequence. *)
LEMMA NoRepeatsInjective ==
  ASSUME NEW S, NEW r \in Seq(S)
  PROVE  NoRepeats(r) <=> \A i, j \in 1 .. Len(r) : r[i] = r[j] => i = j
<1> DEFINE n == Len(r)
           D == 1 .. n
           T == ToSet(r)
<1>1. n \in Nat /\ r \in [D -> S] /\ DOMAIN r = D
  OBVIOUS
<1>2. T = {r[i] : i \in D}
  BY <1>1 DEF ToSet
<1>3. r \in [D -> T]
  BY <1>1, <1>2
<1>4. r \in Surjection(D, T)
  BY <1>2, <1>3 DEF Surjection
<1>5. IsFiniteSet(D) /\ Cardinality(D) = n
  BY <1>1, FS_Interval
<1>6. Cardinality(T) = Cardinality(D) <=> r \in Injection(D, T)
  <2> HIDE DEF T, D, n
  <2> QED
    BY <1>4, <1>5, FS_Surjection
<1>7. r \in Injection(D, T) <=> \A i, j \in D : r[i] = r[j] => i = j
  <2> HIDE DEF T, D, n
  <2> QED
    BY <1>3 DEF Injection, IsInjective
<1> QED
  BY <1>1, <1>5, <1>6, <1>7 DEF NoRepeats

(* validate_visit_order of the evaluation is the stricter of the two tests of an order. *)
LEMMA OrdersAgree ==
  ASSUME NEW p, IsProblem(p), NEW r \in Seq(Locations(p)), validate_visit_order(p, r)
  PROVE  validate_solution(p, r) /\ Len(r) >= 1
<1>1. CASE p.n = 1
  <2>1. r = << 0 >>
    BY <1>1 DEF validate_visit_order
  <2> QED
    BY <1>1, <2>1 DEF validate_solution
<1>2. CASE p.n # 1
  <2> DEFINE n == Len(r)
             inner == SubSeq(r, 2, n - 1)
  <2>1. /\ p.visit_policy = "ALL_REQUIRED" => n = p.n
        /\ n >= 2 /\ Head(r) = 0 /\ Last(r) = End(p)
        /\ NoRepeats(r) /\ p.required \subseteq ToSet(r)
    BY <1>2 DEF validate_visit_order
  <2>2. n \in Nat /\ r \in [1 .. n -> Locations(p)] /\ p.n \in Nat /\ 0 \in Locations(p) /\ End(p) \in Locations(p)
    BY DEF IsProblem, Locations, End
  <2>3. r[1] = 0 /\ r[n] = End(p)
    BY <2>1, <2>2 DEF Last
  <2>4. \A i, j \in 1 .. n : r[i] = r[j] => i = j
    BY <2>1, <2>2, NoRepeatsInjective
  <2>5. inner \in Seq(Locations(p)) /\ Len(inner) = n - 2 /\ \A k \in 1 .. n - 2 : inner[k] = r[k + 1]
    BY <2>1, <2>2
  <2>6. ToSet(inner) \subseteq Locations(p) \ {0, End(p)}
    <3> SUFFICES ASSUME NEW k \in 1 .. n - 2 PROVE inner[k] \in Locations(p) \ {0, End(p)}
      <4>1. DOMAIN inner = 1 .. n - 2
        BY <2>1, <2>2, <2>5
      <4> HIDE DEF inner, n
      <4> QED
        BY <4>1 DEF ToSet
    <3>1. k + 1 \in 1 .. n /\ k + 1 # 1 /\ k + 1 # n /\ 1 \in 1 .. n /\ n \in 1 .. n
      <4>1. n \in Nat /\ n >= 2
        BY <2>1, <2>2
      <4> HIDE DEF n
      <4> QED
        BY <4>1
    <3> QED
      BY <2>2, <2>3, <2>4, <2>5, <3>1
  <2>7. NoRepeats(inner)
    <3>1. \A i, j \in 1 .. n - 2 : inner[i] = inner[j] => i = j
      <4> SUFFICES ASSUME NEW i \in 1 .. n - 2, NEW j \in 1 .. n - 2, inner[i] = inner[j] PROVE i = j
        OBVIOUS
      <4>1. i + 1 \in 1 .. n /\ j + 1 \in 1 .. n /\ (i + 1 = j + 1 => i = j)
        BY <2>1, <2>2
      <4> QED
        BY <2>4, <2>5, <4>1
    <3> HIDE DEF inner
    <3> QED
      BY <2>1, <2>2, <2>5, <3>1, NoRepeatsInjective
  <2>8. ToSet(r) \subseteq ToSet(inner) \union {0, End(p)}
    <3> SUFFICES ASSUME NEW k \in 1 .. n, r[k] # 0, r[k] # End(p) PROVE r[k] \in ToSet(inner)
      BY <2>2 DEF ToSet
    <3>1. k - 1 \in 1 .. n - 2 /\ (k - 1) + 1 = k
      BY <2>1, <2>2, <2>3
    <3>2. inner[k - 1] = r[k] /\ k - 1 \in DOMAIN inner
      BY <2>2, <2>5, <3>1
    <3> QED
      BY <3>2 DEF ToSet
  <2>9. p.visit_policy = "ALL_REQUIRED" => ToSet(r) = Locations(p)
    <3> SUFFICES ASSUME n = p.n PROVE ToSet(r) = Locations(p)
      BY <2>1
    <3>1. IsFiniteSet(Locations(p)) /\ Cardinality(Locations(p)) = p.n
      <4>1. p.n - 1 \in Int /\ 0 \in Int /\ (IF 0 > p.n - 1 THEN 0 ELSE (p.n - 1) - 0 + 1) = p.n
        BY <2>2
      <4>2. Cardinality(0 .. (p.n - 1)) = p.n /\ IsFiniteSet(0 .. (p.n - 1))
        BY <4>1, FS_Interval
      <4> QED
        BY <4>2 DEF Locations
    <3>2. ToSet(r) \subseteq Locations(p)
      BY <2>2 DEF ToSet
    <3>3. Cardinality(ToSet(r)) = p.n
      BY <2>1 DEF NoRepeats
    <3> QED
      BY <3>1, <3>2, <3>3, FS_Subset
  <2> HIDE DEF inner
  <2> QED
    BY <1>2, <2>1, <2>2, <2>6, <2>7, <2>8, <2>9 DEF validate_solution, inner
<1> QED
  BY <1>1, <1>2

(* Leaving earlier never makes a route infeasible. *)
LEMMA EarlierIsFeasible ==
  ASSUME NEW p, IsProblem(p), NEW r \in Seq(Locations(p)), Len(r) >= 1,
         NEW t \in Nat, NEW u \in Nat, u <= t,
         Simulated(p, r, t)[Len(r)].time # None
  PROVE  Simulated(p, r, u)[Len(r)].time # None
<1> DEFINE n == Len(r)
           f == Simulated(p, r, t)
           g == Simulated(p, r, u)
           Before(x, y) == y.time # None => x.time # None /\ x.time <= y.time /\ x.at = y.at
           T == {k \in 1 .. n : Before(g[k], f[k])}
<1>1. n \in Nat \ {0} /\ n \in 1 .. n /\ \A k \in 1 .. n : r[k] \in Locations(p)
  OBVIOUS
<1>2. \A k \in 1 .. n :
        /\ f[k] \in SimulatedStates(p)
        /\ f[k] = IF k = 1 THEN SimulatedStart(p, t) ELSE SimulatedLeg(p, f[k - 1], r[k])
  BY SimulatedSteps
<1>3. \A k \in 1 .. n :
        /\ g[k] \in SimulatedStates(p)
        /\ g[k] = IF k = 1 THEN SimulatedStart(p, u) ELSE SimulatedLeg(p, g[k - 1], r[k])
  BY SimulatedSteps
<1> HIDE DEF n, f, g
<1>4. 1 \in T
  <2>1. 0 \in Locations(p) /\ p.close[0] \in Nat
    BY DEF IsProblem, Locations
  <2>2. Finish(p, 0, u) \in Nat /\ Finish(p, 0, t) \in Nat /\ Finish(p, 0, u) <= Finish(p, 0, t)
    BY <2>1, VisitTypes
  <2>3. InTime(p, 0, Finish(p, 0, t)) => InTime(p, 0, Finish(p, 0, u))
    BY <2>1, <2>2, MinutesPerDayAssumption DEF InTime
  <2>4. Before(SimulatedStart(p, u), SimulatedStart(p, t))
    BY <2>2, <2>3 DEF SimulatedStart, initial_service, None
  <2> HIDE DEF Before
  <2> QED
    BY <1>1, <1>2, <1>3, <2>4
<1>5. \A k \in 2 .. n : k - 1 \in T => k \in T
  <2> SUFFICES ASSUME NEW k \in 2 .. n, Before(g[k - 1], f[k - 1]) PROVE Before(g[k], f[k])
    BY <1>1
  <2> DEFINE x == g[k - 1]
             y == f[k - 1]
             to == r[k]
             travel == p.travel[y.at][to]
  <2>1. k \in 1 .. n /\ k - 1 \in 1 .. n /\ k # 1
    BY <1>1
  <2>2. /\ f[k] = SimulatedLeg(p, y, to) /\ g[k] = SimulatedLeg(p, x, to)
        /\ x \in SimulatedStates(p) /\ y \in SimulatedStates(p) /\ to \in Locations(p)
    BY <1>1, <1>2, <1>3, <2>1
  <2>3. Before(x, y)
    OBVIOUS
  <2> HIDE DEF x, y, to
  <2>4. /\ x.time \in Nat \union {None} /\ y.time \in Nat \union {None} /\ y.at \in Locations(p)
        /\ DOMAIN y = {"at", "time", "travel", "wait"}
    BY <2>2 DEF SimulatedStates
  <2>5. travel \in Nat \union {None} /\ p.close[to] \in Nat
    BY <2>2, <2>4 DEF IsProblem
  <2>6. CASE y.time = None \/ travel = None \/ ~ InTime(p, to, Finish(p, to, y.time + travel))
    <3>1. SimulatedLeg(p, y, to).time = None
      BY <2>4, <2>6 DEF SimulatedLeg
    <3> QED
      BY <2>2, <3>1
  <2>7. CASE ~ (y.time = None \/ travel = None \/ ~ InTime(p, to, Finish(p, to, y.time + travel)))
    <3>1. y.time \in Nat /\ x.time \in Nat /\ x.time # None /\ x.time <= y.time /\ travel \in Nat /\ x.at = y.at
      BY <2>3, <2>4, <2>5, <2>7
    <3>2. y.time + travel \in Nat /\ x.time + travel \in Nat /\ x.time + travel <= y.time + travel
      BY <3>1
    <3>3. /\ Finish(p, to, x.time + travel) \in Nat /\ Finish(p, to, y.time + travel) \in Nat
          /\ Finish(p, to, x.time + travel) <= Finish(p, to, y.time + travel)
      BY <2>2, <3>2, VisitTypes
    <3>4. InTime(p, to, Finish(p, to, x.time + travel))
      BY <2>5, <2>7, <3>3, MinutesPerDayAssumption DEF InTime
    <3>5. SimulatedLeg(p, y, to).time = Finish(p, to, y.time + travel) /\ SimulatedLeg(p, y, to).at = to
      BY <2>7 DEF SimulatedLeg
    <3>6. SimulatedLeg(p, x, to).time = Finish(p, to, x.time + travel) /\ SimulatedLeg(p, x, to).at = to
      BY <2>7, <3>1, <3>4 DEF SimulatedLeg
    <3> HIDE DEF travel
    <3> QED
      BY <2>2, <3>3, <3>5, <3>6 DEF None
  <2> QED
    BY <2>6, <2>7
<1> HIDE DEF T
<1>6. n \in T
  BY <1>1, <1>4, <1>5, VisitInduction
<1> QED
  BY <1>6 DEF T, n, f, g

(* The slot the bisection looks for. *)
IsLatest(lo, hi, good, x) ==
  /\ x \in lo .. hi
  /\ x = lo \/ good[x]
  /\ \A t \in lo .. hi : t > x => ~ good[t]

LEMMA LatestExists ==
  ASSUME NEW lo \in Int, NEW hi \in Int, lo <= hi, NEW good
  PROVE  \E x : IsLatest(lo, hi, good, x)
<1> DEFINE S == {hi - t : t \in {u \in lo .. hi : u = lo \/ good[u]}}
<1>1. S \subseteq Nat /\ hi - lo \in S
  <2>1. lo \in {u \in lo .. hi : u = lo \/ good[u]}
    OBVIOUS
  <2> QED
    BY <2>1
<1>2. PICK m \in S : \A y \in S : m <= y
  <2> HIDE DEF S
  <2> QED
    BY <1>1, LeastNumber
<1>3. PICK x \in lo .. hi : (x = lo \/ good[x]) /\ m = hi - x
  OBVIOUS
<1>4. \A t \in lo .. hi : t > x => ~ good[t]
  <2> SUFFICES ASSUME NEW t \in lo .. hi, t > x, good[t] PROVE FALSE
    OBVIOUS
  <2>1. hi - t \in S
    OBVIOUS
  <2> HIDE DEF S
  <2> QED
    BY <1>2, <1>3, <2>1
<1> QED
  BY <1>3, <1>4 DEF IsLatest

LEMMA LatestIsUnique ==
  ASSUME NEW lo \in Int, NEW hi \in Int, NEW good, NEW x, NEW y,
         IsLatest(lo, hi, good, x), IsLatest(lo, hi, good, y)
  PROVE  x = y
BY DEF IsLatest

(* One step of the bisection, for what is good up to some slot. *)
LEMMA BisectionStep ==
  ASSUME NEW a \in 0 .. (MinutesPerDay - 1), NEW b \in 0 .. (MinutesPerDay - 1), a < b, NEW good,
         \A t, u \in 0 .. (MinutesPerDay - 1) : u <= t /\ good[t] => good[u],
         NEW m, m = a + ((b - a) + 1) \div 2
  PROVE  /\ m \in (a + 1) .. b /\ m \in 0 .. (MinutesPerDay - 1) /\ m - 1 \in 0 .. (MinutesPerDay - 1)
         /\ good[m] => \A x : IsLatest(m, b, good, x) => IsLatest(a, b, good, x)
         /\ ~ good[m] => \A x : IsLatest(a, m - 1, good, x) => IsLatest(a, b, good, x)
<1>0. MinutesPerDay \in Nat
  BY MinutesPerDayAssumption
<1>1. m \in (a + 1) .. b
  BY <1>0
<1>2. m \in 0 .. (MinutesPerDay - 1) /\ m - 1 \in 0 .. (MinutesPerDay - 1)
  BY <1>0, <1>1
<1>3. ASSUME good[m], NEW x, IsLatest(m, b, good, x) PROVE IsLatest(a, b, good, x)
  BY <1>0, <1>1, <1>3 DEF IsLatest
<1>4. ASSUME ~ good[m], NEW x, IsLatest(a, m - 1, good, x) PROVE IsLatest(a, b, good, x)
  <2>1. x \in a .. m - 1 /\ (x = a \/ good[x])
    BY <1>4 DEF IsLatest
  <2>2. \A t \in a .. b : t > x => ~ good[t]
    <3> SUFFICES ASSUME NEW t \in a .. b, t > x PROVE ~ good[t]
      OBVIOUS
    <3>1. CASE t <= m - 1
      BY <1>0, <1>1, <1>4, <3>1 DEF IsLatest
    <3>2. CASE m <= t
      <4>1. t \in 0 .. (MinutesPerDay - 1)
        BY <1>0
      <4> QED
        BY <1>2, <1>4, <3>2, <4>1
    <3> QED
      BY <1>0, <1>1, <3>1, <3>2
  <2> QED
    BY <1>0, <1>1, <2>1, <2>2 DEF IsLatest
<1> QED
  BY <1>1, <1>2, <1>3, <1>4

(* The bisection finds it. *)
LEMMA BisectionFinds ==
  ASSUME NEW lo \in 0 .. (MinutesPerDay - 1), NEW hi \in 0 .. (MinutesPerDay - 1), lo <= hi,
         NEW good, \A t, u \in 0 .. (MinutesPerDay - 1) : u <= t /\ good[t] => good[u]
  PROVE  IsLatest(lo, hi, good, LatestStart(lo, hi, good))
<1> DEFINE Slots == 0 .. (MinutesPerDay - 1)
           mid(b) == b[1] + ((b[2] - b[1]) + 1) \div 2
           Rule(s, b) == IF b[1] >= b[2] THEN b[1]
                         ELSE IF good[mid(b)] THEN s[<<mid(b), b[2]>>]
                         ELSE s[<<b[1], mid(b) - 1>>]
           Obeys(s) == s = [b \in Slots \X Slots |-> Rule(s, b)]
           h == [b \in Slots \X Slots |->
                   IF b[1] >= b[2] THEN b[1] ELSE CHOOSE x : IsLatest(b[1], b[2], good, x)]
           f == CHOOSE s : Obeys(s)
<1>0. MinutesPerDay \in Nat
  BY MinutesPerDayAssumption
<1>1. \A a, b \in Slots : a <= b => IsLatest(a, b, good, h[<<a, b>>])
  <2> SUFFICES ASSUME NEW a \in Slots, NEW b \in Slots, a <= b PROVE IsLatest(a, b, good, h[<<a, b>>])
    OBVIOUS
  <2>1. CASE a = b
    <3>1. h[<<a, b>>] = a
      BY <1>0, <2>1
    <3> QED
      BY <1>0, <2>1, <3>1 DEF IsLatest
  <2>2. CASE a < b
    <3>1. h[<<a, b>>] = CHOOSE x : IsLatest(a, b, good, x)
      BY <1>0, <2>2
    <3> HIDE DEF h
    <3> QED
      BY <1>0, <3>1, LatestExists
  <2> QED
    BY <1>0, <2>1, <2>2
<1>2. Obeys(h)
  <2> SUFFICES ASSUME NEW a \in Slots, NEW b \in Slots PROVE h[<<a, b>>] = Rule(h, <<a, b>>)
    <3>1. DOMAIN h = Slots \X Slots /\ h = [b \in Slots \X Slots |-> h[b]]
      OBVIOUS
    <3> HIDE DEF h, Slots, Rule
    <3>2. \A b \in Slots \X Slots : h[b] = Rule(h, b)
      <4> SUFFICES ASSUME NEW b \in Slots \X Slots PROVE h[b] = Rule(h, b)
        OBVIOUS
      <4>1. PICK x \in Slots, y \in Slots : b = <<x, y>>
        OBVIOUS
      <4> QED
        BY <4>1
    <3> QED
      BY <3>1, <3>2
  <2>1. CASE a >= b
    BY <2>1
  <2>2. CASE a < b
    <3> DEFINE m == a + ((b - a) + 1) \div 2
    <3>1. /\ m \in (a + 1) .. b /\ m \in Slots /\ m - 1 \in Slots
          /\ good[m] => \A x : IsLatest(m, b, good, x) => IsLatest(a, b, good, x)
          /\ ~ good[m] => \A x : IsLatest(a, m - 1, good, x) => IsLatest(a, b, good, x)
      BY <2>2, BisectionStep
    <3>2. IsLatest(a, b, good, h[<<a, b>>])
      <4> HIDE DEF h
      <4> QED
        BY <1>0, <1>1, <2>2
    <3>3. Rule(h, <<a, b>>) = IF good[m] THEN h[<<m, b>>] ELSE h[<<a, m - 1>>]
      BY <1>0, <2>2
    <3>4. m <= b /\ a <= m - 1 /\ a \in Int /\ b \in Int
      BY <1>0, <3>1
    <3> HIDE DEF h, m, Rule
    <3>5. CASE good[m]
      BY <1>1, <3>1, <3>2, <3>3, <3>4, <3>5, LatestIsUnique
    <3>6. CASE ~ good[m]
      BY <1>1, <3>1, <3>2, <3>3, <3>4, <3>6, LatestIsUnique
    <3> QED
      BY <3>5, <3>6
  <2> QED
    BY <1>0, <2>1, <2>2
<1>3. Obeys(f)
  <2> HIDE DEF Obeys, h
  <2> QED
    BY <1>2
<1> HIDE DEF h
<1>4. \A a, b \in Slots : f[<<a, b>>] = Rule(f, <<a, b>>)
  <2> HIDE DEF f, Rule, Slots
  <2> QED
    BY <1>3
<1> DEFINE Wrong == {d \in Nat : \E a, b \in Slots : a <= b /\ d = b - a
                                   /\ ~ IsLatest(a, b, good, f[<<a, b>>])}
<1>5. Wrong = {}
  <2> SUFFICES ASSUME Wrong # {} PROVE FALSE
    OBVIOUS
  <2>1. PICK d \in Wrong : \A e \in Wrong : d <= e
    <3>1. Wrong \subseteq Nat
      OBVIOUS
    <3> HIDE DEF Wrong
    <3> QED
      BY <3>1, LeastNumber
  <2>2. PICK a \in Slots, b \in Slots : a <= b /\ d = b - a /\ ~ IsLatest(a, b, good, f[<<a, b>>])
    OBVIOUS
  <2>3. \A x, y \in Slots : x <= y /\ y - x < d => IsLatest(x, y, good, f[<<x, y>>])
    <3> SUFFICES ASSUME NEW x \in Slots, NEW y \in Slots, x <= y, y - x < d,
                        ~ IsLatest(x, y, good, f[<<x, y>>])
                 PROVE  FALSE
      OBVIOUS
    <3>1. y - x \in Nat /\ d \in Nat
      BY <1>0
    <3> HIDE DEF f
    <3>2. y - x \in Wrong
      BY <3>1
    <3> HIDE DEF Wrong
    <3> QED
      BY <2>1, <3>1, <3>2
  <2>4. CASE a = b
    <3>1. f[<<a, b>>] = a
      <4>1. Rule(f, <<a, b>>) = a
        <5> HIDE DEF f
        <5> QED
          BY <1>0, <2>4
      <4> HIDE DEF f, Rule
      <4> QED
        BY <1>4, <4>1
    <3>2. IsLatest(a, b, good, a)
      <4> HIDE DEF f, Wrong, Rule
      <4> QED
        BY <1>0, <2>4 DEF IsLatest
    <3> HIDE DEF f
    <3> QED
      BY <2>2, <3>1, <3>2
  <2>5. CASE a < b
    <3> DEFINE m == a + ((b - a) + 1) \div 2
    <3>1. /\ m \in (a + 1) .. b /\ m \in Slots /\ m - 1 \in Slots
          /\ good[m] => \A x : IsLatest(m, b, good, x) => IsLatest(a, b, good, x)
          /\ ~ good[m] => \A x : IsLatest(a, m - 1, good, x) => IsLatest(a, b, good, x)
      BY <2>5, BisectionStep
    <3>2. f[<<a, b>>] = IF good[m] THEN f[<<m, b>>] ELSE f[<<a, m - 1>>]
      <4>1. Rule(f, <<a, b>>) = IF good[m] THEN f[<<m, b>>] ELSE f[<<a, m - 1>>]
        <5> HIDE DEF f
        <5> QED
          BY <1>0, <2>5
      <4> HIDE DEF f, Rule
      <4> QED
        BY <1>4, <4>1
    <3>3. m <= b /\ a <= m - 1 /\ b - m < d /\ (m - 1) - a < d
      BY <1>0, <2>2, <3>1
    <3> HIDE DEF f, m, Rule
    <3> QED
      BY <2>2, <2>3, <3>1, <3>2, <3>3
  <2> QED
    BY <1>0, <2>2, <2>4, <2>5
<1>6. LatestStart(lo, hi, good) = f[<<lo, hi>>]
  BY DEF LatestStart
<1> HIDE DEF f
<1>7. hi - lo \in Nat
  BY <1>0
<1> QED
  BY <1>5, <1>6, <1>7

-----------------------------------------------------------------------------
(* Recursion over a ranked set: the value at an element depends on the     *)
(* values at the elements of smaller rank.                                 *)

Below(D, w, d) == {e \in D : w[e] < w[d]}

Arguments(D, w, V) == UNION {{d} \X [Below(D, w, d) -> V] : d \in D}

Obeys(f, D, w, G) == \A d \in D : f[d] = G[<<d, [e \in Below(D, w, d) |-> f[e]]>>]

(* An element that fails would have none below it that fails. *)
LEMMA RankedInduction ==
  ASSUME NEW D, NEW w \in [D -> Nat], NEW T,
         \A d \in D : (\A e \in Below(D, w, d) : e \in T) => d \in T
  PROVE  \A d \in D : d \in T
<1> DEFINE Ranks == {w[d] : d \in {e \in D : e \notin T}}
<1> SUFFICES ASSUME Ranks # {} PROVE FALSE
  OBVIOUS
<1>1. PICK m \in Ranks : \A x \in Ranks : m <= x
  <2>1. Ranks \subseteq Nat
    OBVIOUS
  <2> HIDE DEF Ranks
  <2> QED
    BY <2>1, LeastNumber
<1>2. PICK d \in D : d \notin T /\ m = w[d]
  OBVIOUS
<1>3. \A e \in Below(D, w, d) : e \in T
  <2> SUFFICES ASSUME NEW e \in D, w[e] < w[d], e \notin T PROVE FALSE
    BY DEF Below
  <2>1. w[e] \in Ranks
    OBVIOUS
  <2>2. w[d] <= w[e] /\ w[e] \in Nat /\ w[d] \in Nat
    BY <1>1, <1>2, <2>1
  <2> QED
    BY <2>2
<1> QED
  BY <1>2, <1>3

(* Such a recursion has a solution. *)
LEMMA RankedRecursion ==
  ASSUME NEW D, NEW w \in [D -> Nat], NEW V, NEW G,
         \A d \in D : \A h \in [Below(D, w, d) -> V] : G[<<d, h>>] \in V
  PROVE  \E f \in [D -> V] : Obeys(f, D, w, G)
<1> DEFINE Part(d) == Below(D, w, d) \union {d}
           Solves(d, f) == f \in [Part(d) -> V] /\ Obeys(f, Part(d), w, G)
           T == {d \in D : \E f : Solves(d, f)}
<1>0. \A d \in D : w[d] \in Nat
  OBVIOUS
<1>1. \A d \in D : \A e \in Part(d) : e \in D /\ Below(Part(d), w, e) = Below(D, w, e) /\ Below(D, w, e) \subseteq Part(d)
  BY <1>0 DEF Below
<1>2. \A d \in D : \A e \in Below(D, w, d) : Part(e) \subseteq Part(d) /\ Part(e) \subseteq Below(D, w, d)
  BY <1>0 DEF Below
<1> HIDE DEF Part
<1>3. ASSUME NEW d \in D, NEW f, Solves(d, f), NEW e \in D, NEW g, Solves(e, g)
      PROVE  \A x \in D : x \in Part(d) /\ x \in Part(e) => f[x] = g[x]
  <2> DEFINE U == {x \in D : x \in Part(d) /\ x \in Part(e) => f[x] = g[x]}
  <2>1. ASSUME NEW x \in D, \A y \in Below(D, w, x) : y \in U
        PROVE  x \in U
    <3> SUFFICES ASSUME x \in Part(d), x \in Part(e) PROVE f[x] = g[x]
      OBVIOUS
    <3>1. [y \in Below(D, w, x) |-> f[y]] = [y \in Below(D, w, x) |-> g[y]]
      BY <1>1, <2>1
    <3>2. /\ f[x] = G[<<x, [y \in Below(D, w, x) |-> f[y]]>>]
          /\ g[x] = G[<<x, [y \in Below(D, w, x) |-> g[y]]>>]
      BY <1>1, <1>3 DEF Obeys
    <3> QED
      BY <3>1, <3>2
  <2> HIDE DEF U
  <2>2. \A x \in D : x \in U
    BY <2>1, RankedInduction
  <2> QED
    BY <2>2 DEF U
<1>4. ASSUME NEW d \in D, \A e \in Below(D, w, d) : e \in T
      PROVE  d \in T
  <2> DEFINE sub == [e \in Below(D, w, d) |-> CHOOSE f : Solves(e, f)]
             h == [e \in Below(D, w, d) |-> sub[e][e]]
             f == [e \in Part(d) |-> IF e = d THEN G[<<d, h>>] ELSE h[e]]
  <2>1. \A e \in Below(D, w, d) : e \in D /\ e # d /\ e \in Part(d) /\ Solves(e, sub[e])
    <3> HIDE DEF Solves
    <3> QED
      BY <1>0, <1>1, <1>4 DEF Below, Part
  <2>2. h \in [Below(D, w, d) -> V]
    <3>1. \A e \in Below(D, w, d) : e \in Part(e)
      BY DEF Part
    <3> HIDE DEF sub
    <3> QED
      BY <2>1, <3>1
  <2>3. f \in [Part(d) -> V]
    <3>1. \A e \in Part(d) : e # d => e \in Below(D, w, d)
      BY DEF Part
    <3> HIDE DEF h
    <3> QED
      BY <2>2, <3>1
  <2>4. ASSUME NEW e \in Part(d)
        PROVE  f[e] = G[<<e, [x \in Below(Part(d), w, e) |-> f[x]]>>]
    <3>1. Below(Part(d), w, e) = Below(D, w, e) /\ e \in D
      BY <1>1
    <3>2. CASE e = d
      <4>1. [x \in Below(D, w, d) |-> f[x]] = h
        <5>1. \A x \in Below(D, w, d) : f[x] = h[x]
          BY <2>1
        <5> HIDE DEF f
        <5> QED
          BY <5>1
      <4>2. f[e] = G[<<d, h>>]
        BY <3>2
      <4> HIDE DEF f, h
      <4> QED
        BY <3>1, <3>2, <4>1, <4>2
    <3>3. CASE e # d
      <4>1. e \in Below(D, w, d) /\ f[e] = sub[e][e] /\ Solves(e, sub[e])
        <5>1. e \in Below(D, w, d)
          BY <3>3 DEF Part
        <5> HIDE DEF sub, Solves
        <5> QED
          BY <2>1, <3>3, <5>1
      <4>2. e \in Part(e) /\ Below(Part(e), w, e) = Below(D, w, e)
        BY <1>1, <3>1 DEF Part
      <4>3. sub[e][e] = G[<<e, [x \in Below(D, w, e) |-> sub[e][x]]>>]
        <5> HIDE DEF sub
        <5> QED
          BY <4>1, <4>2 DEF Obeys
      <4>4. \A x \in Below(D, w, e) : f[x] = sub[e][x]
        <5> SUFFICES ASSUME NEW x \in Below(D, w, e) PROVE f[x] = sub[e][x]
          OBVIOUS
        <5>1. x \in Below(D, w, d) /\ x \in D /\ x \in Part(x) /\ x \in Part(e) /\ x # d /\ x \in Part(d)
          BY <1>0, <4>1 DEF Below, Part
        <5>2. f[x] = sub[x][x]
          <6> HIDE DEF sub
          <6> QED
            BY <5>1
        <5>3. Solves(x, sub[x])
          BY <2>1, <5>1
        <5> HIDE DEF sub, f, Solves
        <5> QED
          BY <1>3, <3>1, <4>1, <5>1, <5>2, <5>3
      <4>5. [x \in Below(D, w, e) |-> sub[e][x]] = [x \in Below(D, w, e) |-> f[x]]
        <5> HIDE DEF sub, f
        <5> QED
          BY <4>4
      <4> HIDE DEF sub, f
      <4> QED
        BY <3>1, <4>1, <4>3, <4>5
    <3> QED
      BY <3>2, <3>3
  <2>5. Solves(d, f)
    <3> HIDE DEF f
    <3> QED
      BY <2>3, <2>4 DEF Obeys
  <2> HIDE DEF f, Solves
  <2> QED
    BY <2>5
<1>5. \A d \in D : d \in T
  <2> HIDE DEF T
  <2> QED
    BY <1>4, RankedInduction
<1> DEFINE sub == [d \in D |-> CHOOSE f : Solves(d, f)]
           f == [d \in D |-> sub[d][d]]
<1>6. \A d \in D : Solves(d, sub[d]) /\ d \in Part(d) /\ f[d] = sub[d][d]
  <2> HIDE DEF Solves
  <2> QED
    BY <1>5 DEF Part
<1> HIDE DEF sub, f
<1>7. \A d \in D : \A e \in Part(d) : sub[d][e] = f[e]
  <2> HIDE DEF Solves
  <2> QED
    BY <1>1, <1>3, <1>6
<1>8. \A d \in D : f[d] = G[<<d, [e \in Below(D, w, d) |-> f[e]]>>]
  <2> SUFFICES ASSUME NEW d \in D PROVE f[d] = G[<<d, [e \in Below(D, w, d) |-> f[e]]>>]
    OBVIOUS
  <2>1. sub[d][d] = G[<<d, [e \in Below(Part(d), w, d) |-> sub[d][e]]>>]
    BY <1>6 DEF Obeys
  <2>2. [e \in Below(Part(d), w, d) |-> sub[d][e]] = [e \in Below(D, w, d) |-> f[e]]
    BY <1>1, <1>6, <1>7
  <2> QED
    BY <1>6, <2>1, <2>2
<1>9. f \in [D -> V]
  BY <1>6 DEF f
<1> QED
  BY <1>8, <1>9 DEF Obeys

-----------------------------------------------------------------------------
(* Sums and bounds over finite sets. *)

Sizes(S) == [s \in SUBSET S |-> Cardinality(s)]

LEMMA SizesType ==
  ASSUME NEW S, IsFiniteSet(S)
  PROVE  /\ Sizes(S) \in [SUBSET S -> Nat]
         /\ \A s \in SUBSET S : \A x \in s : s \ {x} \in Below(SUBSET S, Sizes(S), s)
<1>1. \A s \in SUBSET S : Cardinality(s) \in Nat /\ \A x \in s : Cardinality(s \ {x}) = Cardinality(s) - 1
  BY FS_Subset, FS_CardinalityType, FS_RemoveElement
<1>2. ASSUME NEW s \in SUBSET S, NEW x \in s PROVE Cardinality(s \ {x}) < Cardinality(s)
  <2>1. Cardinality(s) \in Nat /\ Cardinality(s \ {x}) = Cardinality(s) - 1
    BY <1>1
  <2> QED
    BY <2>1
<1> QED
  BY <1>1, <1>2 DEF Sizes, Below

(* The sum of integers is an integer. *)
LEMMA SumIsInteger ==
  ASSUME NEW S, IsFiniteSet(S), NEW f, \A x \in S : f[x] \in Int
  PROVE  SumFunctionOnSet(f, S) \in Int
<1> DEFINE D == SUBSET S
           w == Sizes(S)
           Pick(s) == CHOOSE x \in s : TRUE
           Rec(g) == [s \in D |-> IF s = {} THEN 0 ELSE f[Pick(s)] + g[s \ {Pick(s)}]]
           c == CHOOSE g : g = Rec(g)
           G == [a \in Arguments(D, w, Int) |->
                   IF a[1] = {} THEN 0 ELSE f[Pick(a[1])] + a[2][a[1] \ {Pick(a[1])}]]
<1>1. w \in [D -> Nat] /\ \A s \in D : \A x \in s : s \ {x} \in Below(D, w, s)
  BY SizesType
<1>2. \A s \in D : s # {} => Pick(s) \in s /\ f[Pick(s)] \in Int /\ s \ {Pick(s)} \in Below(D, w, s)
  BY <1>1
<1>3. \A s \in D : \A h \in [Below(D, w, s) -> Int] :
        G[<<s, h>>] = IF s = {} THEN 0 ELSE f[Pick(s)] + h[s \ {Pick(s)}]
  <2> SUFFICES ASSUME NEW s \in D, NEW h \in [Below(D, w, s) -> Int]
               PROVE  G[<<s, h>>] = IF s = {} THEN 0 ELSE f[Pick(s)] + h[s \ {Pick(s)}]
    OBVIOUS
  <2>1. <<s, h>> \in Arguments(D, w, Int)
    <3>1. <<s, h>> \in {s} \X [Below(D, w, s) -> Int]
      OBVIOUS
    <3> HIDE DEF D, w
    <3> QED
      BY <3>1 DEF Arguments
  <2> HIDE DEF D, w, Pick
  <2> QED
    BY <2>1
<1> HIDE DEF D, w, Pick, G
<1>4. \A s \in D : \A h \in [Below(D, w, s) -> Int] : G[<<s, h>>] \in Int
  <2> SUFFICES ASSUME NEW s \in D, NEW h \in [Below(D, w, s) -> Int] PROVE G[<<s, h>>] \in Int
    OBVIOUS
  <2>1. s # {} => h[s \ {Pick(s)}] \in Int /\ f[Pick(s)] \in Int
    BY <1>2
  <2> QED
    BY <1>3, <2>1
<1>5. \E g \in [D -> Int] : Obeys(g, D, w, G)
  BY <1>1, <1>4, RankedRecursion
<1>6. PICK g \in [D -> Int] : Obeys(g, D, w, G)
  BY <1>5
<1>7. g = Rec(g)
  <2>1. \A s \in D : g[s] = IF s = {} THEN 0 ELSE f[Pick(s)] + g[s \ {Pick(s)}]
    <3> SUFFICES ASSUME NEW s \in D PROVE g[s] = IF s = {} THEN 0 ELSE f[Pick(s)] + g[s \ {Pick(s)}]
      OBVIOUS
    <3> DEFINE h == [e \in Below(D, w, s) |-> g[e]]
    <3>1. h \in [Below(D, w, s) -> Int] /\ (s # {} => h[s \ {Pick(s)}] = g[s \ {Pick(s)}])
      BY <1>2 DEF Below
    <3>2. g[s] = G[<<s, h>>]
      BY <1>6 DEF Obeys
    <3> HIDE DEF h
    <3> QED
      BY <1>3, <3>1, <3>2
  <2> QED
    BY <2>1
<1>8. c = Rec(c)
  BY <1>7
<1>9. SumFunctionOnSet(f, S) = c[S]
  BY DEF SumFunctionOnSet, FoldFunctionOnSet, MapThenFoldSet, D, Pick
<1> HIDE DEF c
<1>10. \A s \in D : c[s] = IF s = {} THEN 0 ELSE f[Pick(s)] + c[s \ {Pick(s)}]
  BY <1>8
<1> DEFINE T == {s \in D : c[s] \in Int}
<1>11. ASSUME NEW s \in D, \A e \in Below(D, w, s) : e \in T
       PROVE  s \in T
  <2>1. s # {} => c[s \ {Pick(s)}] \in Int /\ f[Pick(s)] \in Int
    BY <1>2, <1>11
  <2> QED
    BY <1>10, <2>1
<1> HIDE DEF T
<1>12. \A s \in D : s \in T
  BY <1>1, <1>11, RankedInduction
<1>13. S \in D
  BY DEF D
<1> QED
  BY <1>9, <1>12, <1>13 DEF T

(* Of the integers that belong to the members of a finite set, one is the  *)
(* least.                                                                  *)
LEMMA FiniteLeast ==
  ASSUME NEW S, IsFiniteSet(S), S # {}, NEW f, \A x \in S : f[x] \in Int
  PROVE  \E m \in S : \A x \in S : f[m] <= f[x]
<1> DEFINE Less(x) == {y \in S : f[y] < f[x]}
           Counts == {Cardinality(Less(x)) : x \in S}
<1>1. \A x \in S : IsFiniteSet(Less(x)) /\ Cardinality(Less(x)) \in Nat
  BY FS_Subset, FS_CardinalityType
<1>2. PICK n \in Counts : \A k \in Counts : n <= k
  <2>1. Counts \subseteq Nat /\ Counts # {}
    BY <1>1
  <2> HIDE DEF Counts
  <2> QED
    BY <2>1, LeastNumber
<1>3. PICK m \in S : n = Cardinality(Less(m))
  OBVIOUS
<1>4. ASSUME NEW x \in S, ~ (f[m] <= f[x]) PROVE FALSE
  <2>1. Less(x) \subseteq Less(m) /\ x \in Less(m) /\ x \notin Less(x)
    BY <1>4
  <2>2. Cardinality(Less(x)) <= Cardinality(Less(m)) /\ Cardinality(Less(x)) # Cardinality(Less(m))
    <3> HIDE DEF Less
    <3> QED
      BY <1>1, <2>1, FS_Subset
  <2>3. Cardinality(Less(m)) <= Cardinality(Less(x))
    BY <1>2, <1>3
  <2> QED
    BY <1>1, <2>2, <2>3
<1> QED
  BY <1>4

-----------------------------------------------------------------------------
(* The order of the objective. *)

MetricsOf ==
  [ok : {TRUE}, coverage : Int \X Int, start : Int, finish : Int, travel : Int, wait : Int]

StartKey(p, m) ==
  CASE p.start_policy = "FIXED"    -> 0
    [] p.start_policy = "EARLIEST" -> m.start
    [] p.start_policy = "LATEST"   -> -m.start

(* Better, criterion by criterion; the last of its keys decides nothing. *)
Outranks(p, a, b) ==
  \/ a.coverage[1] > b.coverage[1]
  \/ /\ a.coverage[1] = b.coverage[1]
     /\ \/ a.coverage[2] > b.coverage[2]
        \/ /\ a.coverage[2] = b.coverage[2]
           /\ \/ StartKey(p, a) < StartKey(p, b)
              \/ /\ StartKey(p, a) = StartKey(p, b)
                 /\ \/ a.finish < b.finish
                    \/ /\ a.finish = b.finish
                       /\ \/ a.travel < b.travel
                          \/ a.travel = b.travel /\ a.wait < b.wait

LEMMA MetricsTypes ==
  ASSUME NEW p, IsProblem(p), NEW m \in MetricsOf
  PROVE  /\ m.coverage[1] \in Int /\ m.coverage[2] \in Int /\ StartKey(p, m) \in Int
         /\ m.start \in Int /\ m.finish \in Int /\ m.travel \in Int /\ m.wait \in Int
         /\ p.start_policy = "FIXED" => StartKey(p, m) = 0
         /\ p.start_policy = "EARLIEST" => StartKey(p, m) = m.start
         /\ p.start_policy = "LATEST" => StartKey(p, m) = -m.start
<1>1. /\ m.coverage[1] \in Int /\ m.coverage[2] \in Int
      /\ m.start \in Int /\ m.finish \in Int /\ m.travel \in Int /\ m.wait \in Int
  BY DEF MetricsOf
<1>2. p.start_policy \in {"FIXED", "EARLIEST", "LATEST"}
  BY DEF IsProblem
<1>3. /\ p.start_policy = "FIXED" => StartKey(p, m) = 0
      /\ p.start_policy = "EARLIEST" => StartKey(p, m) = m.start
      /\ p.start_policy = "LATEST" => StartKey(p, m) = -m.start
  BY DEF StartKey
<1> QED
  BY <1>1, <1>2, <1>3

LEMMA BetterMeans ==
  ASSUME NEW p, IsProblem(p), NEW a \in MetricsOf, NEW b \in MetricsOf
  PROVE  Better(p, a, b) <=> Outranks(p, a, b)
<1> DEFINE k == Key(p, a)
           l == Key(p, b)
           Lex == \/ k[1] < l[1]
                  \/ k[1] = l[1] /\ k[2] < l[2]
                  \/ k[1] = l[1] /\ k[2] = l[2] /\ k[3] < l[3]
                  \/ k[1] = l[1] /\ k[2] = l[2] /\ k[3] = l[3] /\ k[4] < l[4]
                  \/ k[1] = l[1] /\ k[2] = l[2] /\ k[3] = l[3] /\ k[4] = l[4] /\ k[5] < l[5]
                  \/ /\ k[1] = l[1] /\ k[2] = l[2] /\ k[3] = l[3] /\ k[4] = l[4] /\ k[5] = l[5]
                     /\ k[6] < l[6]
                  \/ /\ k[1] = l[1] /\ k[2] = l[2] /\ k[3] = l[3] /\ k[4] = l[4] /\ k[5] = l[5]
                     /\ k[6] = l[6] /\ k[7] < l[7]
<1>1. /\ k[1] = -a.coverage[1] /\ k[2] = -a.coverage[2] /\ k[3] = StartKey(p, a)
      /\ k[4] = a.finish /\ k[5] = a.travel /\ k[6] = a.wait /\ k[7] = a.travel + a.wait
  BY DEF Key, StartKey
<1>2. /\ l[1] = -b.coverage[1] /\ l[2] = -b.coverage[2] /\ l[3] = StartKey(p, b)
      /\ l[4] = b.finish /\ l[5] = b.travel /\ l[6] = b.wait /\ l[7] = b.travel + b.wait
  BY DEF Key, StartKey
<1>3. Better(p, a, b) <=> \E i \in 1 .. 7 : k[i] < l[i] /\ \A j \in 1 .. (i - 1) : k[j] = l[j]
  BY DEF Better
<1> HIDE DEF k, l
<1>4. (\E i \in 1 .. 7 : k[i] < l[i] /\ \A j \in 1 .. (i - 1) : k[j] = l[j]) <=> Lex
  <2>1. ASSUME NEW i \in 1 .. 7, k[i] < l[i], \A j \in 1 .. (i - 1) : k[j] = l[j]
        PROVE  Lex
    <3>1. i = 1 \/ i = 2 \/ i = 3 \/ i = 4 \/ i = 5 \/ i = 6 \/ i = 7
      OBVIOUS
    <3>2. \A j \in 1 .. 6 : j < i => k[j] = l[j]
      BY <2>1
    <3> QED
      BY <2>1, <3>1, <3>2
  <2>2. ASSUME Lex PROVE \E i \in 1 .. 7 : k[i] < l[i] /\ \A j \in 1 .. (i - 1) : k[j] = l[j]
    <3>0. ASSUME NEW i \in 1 .. 7, k[i] < l[i],
                 /\ 1 < i => k[1] = l[1]
                 /\ 2 < i => k[2] = l[2]
                 /\ 3 < i => k[3] = l[3]
                 /\ 4 < i => k[4] = l[4]
                 /\ 5 < i => k[5] = l[5]
                 /\ 6 < i => k[6] = l[6]
          PROVE  \E x \in 1 .. 7 : k[x] < l[x] /\ \A j \in 1 .. (x - 1) : k[j] = l[j]
      <4>1. ASSUME NEW j \in 1 .. (i - 1) PROVE k[j] = l[j]
        <5>1. (j = 1 \/ j = 2 \/ j = 3 \/ j = 4 \/ j = 5 \/ j = 6) /\ j < i
          OBVIOUS
        <5> QED
          BY <3>0, <5>1
      <4> QED
        BY <3>0, <4>1
    <3>1. CASE k[1] < l[1]
      BY <3>0, <3>1
    <3>2. CASE k[1] = l[1] /\ k[2] < l[2]
      BY <3>0, <3>2
    <3>3. CASE k[1] = l[1] /\ k[2] = l[2] /\ k[3] < l[3]
      BY <3>0, <3>3
    <3>4. CASE k[1] = l[1] /\ k[2] = l[2] /\ k[3] = l[3] /\ k[4] < l[4]
      BY <3>0, <3>4
    <3>5. CASE k[1] = l[1] /\ k[2] = l[2] /\ k[3] = l[3] /\ k[4] = l[4] /\ k[5] < l[5]
      BY <3>0, <3>5
    <3>6. CASE /\ k[1] = l[1] /\ k[2] = l[2] /\ k[3] = l[3] /\ k[4] = l[4] /\ k[5] = l[5]
               /\ k[6] < l[6]
      BY <3>0, <3>6
    <3>7. CASE /\ k[1] = l[1] /\ k[2] = l[2] /\ k[3] = l[3] /\ k[4] = l[4] /\ k[5] = l[5]
               /\ k[6] = l[6] /\ k[7] < l[7]
      BY <3>0, <3>7
    <3> QED
      BY <2>2, <3>1, <3>2, <3>3, <3>4, <3>5, <3>6, <3>7
  <2> QED
    BY <2>1, <2>2
<1>5. Lex <=> Outranks(p, a, b)
  BY <1>1, <1>2, MetricsTypes DEF Outranks
<1> QED
  BY <1>3, <1>4, <1>5

(* Better is a strict order, and what is not beaten passes on. *)
LEMMA BetterOrders ==
  ASSUME NEW p, IsProblem(p), NEW a \in MetricsOf, NEW b \in MetricsOf, NEW c \in MetricsOf
  PROVE  /\ ~ Better(p, a, a)
         /\ Better(p, a, b) => ~ Better(p, b, a)
         /\ ~ Better(p, a, b) /\ ~ Better(p, b, c) => ~ Better(p, a, c)
<1>1. ~ Outranks(p, a, a)
  BY MetricsTypes DEF Outranks
<1>2. Outranks(p, a, b) => ~ Outranks(p, b, a)
  BY MetricsTypes DEF Outranks
<1>3. ~ Outranks(p, a, b) /\ ~ Outranks(p, b, c) => ~ Outranks(p, a, c)
  BY MetricsTypes DEF Outranks
<1> QED
  BY <1>1, <1>2, <1>3, BetterMeans

LEMMA CoverageType ==
  ASSUME NEW p, IsProblem(p), NEW S, S \subseteq Locations(p)
  PROVE  Coverage(p, S) \in Int \X Int
<1>1. IsFiniteSet(Locations(p))
  <2>1. p.n - 1 \in Int /\ 0 \in Int
    BY DEF IsProblem
  <2> QED
    BY <2>1, FS_Interval DEF Locations
<1>2. IsFiniteSet(S \ p.required) /\ Cardinality(S \ p.required) \in Int
  BY <1>1, FS_Subset, FS_CardinalityType
<1>3. \A i \in S \ p.required : p.priority[i] \in Int
  BY DEF IsProblem
<1>4. SumFunctionOnSet(p.priority, S \ p.required) \in Int
  BY <1>2, <1>3, SumIsInteger
<1> QED
  BY <1>2, <1>4 DEF Coverage

-----------------------------------------------------------------------------
(* What the evaluation of a route returns. *)

LEMMA ValidRoutes ==
  ASSUME NEW p, IsProblem(p), NEW r, validate_visit_order(p, r)
  PROVE  r \in Seq(Locations(p)) /\ Len(r) \in Nat /\ Len(r) >= 1
<1>1. CASE p.n = 1
  <2>1. r = << 0 >> /\ 0 \in Locations(p)
    BY <1>1 DEF validate_visit_order, Locations
  <2> QED
    BY <2>1
<1>2. CASE p.n # 1
  BY <1>2 DEF validate_visit_order
<1> QED
  BY <1>1, <1>2

LEMMA SimulatedMetrics ==
  ASSUME NEW p, IsProblem(p), NEW r \in Seq(Locations(p)), Len(r) >= 1, NEW t \in Nat
  PROVE  LET end == Simulated(p, r, t)[Len(r)]
             m   == simulate_solution(p, r, t)
         IN  /\ end \in SimulatedStates(p)
             /\ m.ok <=> end.time # None
             /\ m.ok => /\ m \in MetricsOf
                        /\ m = Metrics(p, ToSet(r), t, end.time, end.travel, end.wait)
                        /\ m.start = t /\ m.coverage = Coverage(p, ToSet(r)) /\ m.finish = end.time
                        /\ m.travel = end.travel /\ m.wait = end.wait
<1> DEFINE end == Simulated(p, r, t)[Len(r)]
           m == simulate_solution(p, r, t)
<1>1. end \in SimulatedStates(p)
  <2>1. Len(r) \in 1 .. Len(r)
    OBVIOUS
  <2> QED
    BY <2>1, SimulatedSteps
<1>2. Coverage(p, ToSet(r)) \in Int \X Int
  <2>1. ToSet(r) \subseteq Locations(p)
    BY DEF ToSet
  <2> QED
    BY <2>1, CoverageType
<1>3. m = IF end.time = None THEN NoFeasibleRoute
          ELSE Metrics(p, ToSet(r), t, end.time, end.travel, end.wait)
  BY DEF simulate_solution
<1> HIDE DEF end, m
<1>4. CASE end.time = None
  BY <1>1, <1>3, <1>4 DEF NoFeasibleRoute, Error, end, m
<1>5. CASE end.time # None
  <2>1. end.time \in Int /\ end.travel \in Int /\ end.wait \in Int
    BY <1>1, <1>5 DEF SimulatedStates
  <2> HIDE DEF end, m
  <2>2. /\ m \in MetricsOf /\ m.ok
        /\ m.start = t /\ m.coverage = Coverage(p, ToSet(r)) /\ m.finish = end.time
        /\ m.travel = end.travel /\ m.wait = end.wait
    BY <1>2, <1>3, <1>5, <2>1 DEF Metrics, MetricsOf
  <2> QED
    BY <1>1, <1>3, <1>5, <2>2 DEF end, m
<1> QED
  BY <1>4, <1>5

(* Leaving earlier keeps a route feasible. *)
LEMMA EarlierSimulates ==
  ASSUME NEW p, IsProblem(p), NEW r \in Seq(Locations(p)), Len(r) >= 1,
         NEW t \in Nat, NEW u \in Nat, u <= t, simulate_solution(p, r, t).ok
  PROVE  simulate_solution(p, r, u).ok
BY EarlierIsFeasible, SimulatedMetrics

(* The evaluation answers when the route can be driven at the requested    *)
(* start; under the latest start policy it cannot be driven any later than *)
(* the start it selects.                                                   *)
LEMMA EvaluationMeans ==
  ASSUME NEW p, IsProblem(p), NEW r, validate_visit_order(p, r)
  PROVE  LET m == evaluate_solution(p, r)
         IN  /\ m.ok <=> simulate_solution(p, r, p.start_time).ok
             /\ m.ok => /\ m \in MetricsOf
                        /\ m.start \in p.start_time .. (MinutesPerDay - 1)
                        /\ m = simulate_solution(p, r, m.start)
                        /\ p.start_policy # "LATEST" => m.start = p.start_time
                        /\ p.start_policy = "LATEST" =>
                             \A t \in (m.start + 1) .. (MinutesPerDay - 1) :
                               ~ simulate_solution(p, r, t).ok
<1> DEFINE day == 0 .. (MinutesPerDay - 1)
           sim(t) == simulate_solution(p, r, t)
           good == [t \in day |-> sim(t).ok]
           m == evaluate_solution(p, r)
           last == LatestStart(p.start_time, MinutesPerDay - 1, good)
<1>1. /\ r \in Seq(Locations(p)) /\ Len(r) >= 1 /\ MinutesPerDay \in Nat \ {0}
      /\ p.start_time \in day /\ p.start_time \in Nat /\ p.start_time <= MinutesPerDay - 1
      /\ MinutesPerDay - 1 \in day
  BY ValidRoutes, MinutesPerDayAssumption DEF IsProblem
<1>2. \A t \in Nat : sim(t).ok => sim(t) \in MetricsOf /\ sim(t).start = t
  BY <1>1, SimulatedMetrics
<1>3. \A t, u \in day : u <= t /\ good[t] => good[u]
  <2> SUFFICES ASSUME NEW t \in day, NEW u \in day, u <= t, sim(t).ok PROVE sim(u).ok
    OBVIOUS
  <2>1. t \in Nat /\ u \in Nat
    BY <1>1
  <2> QED
    BY <1>1, <2>1, EarlierSimulates
<1>4. m = IF ~ sim(p.start_time).ok THEN NoFeasibleRoute
          ELSE IF p.start_policy # "LATEST" THEN sim(p.start_time)
          ELSE sim(last)
  BY DEF evaluate_solution
<1>5. IsLatest(p.start_time, MinutesPerDay - 1, good, last)
  <2> HIDE DEF good, day
  <2> QED
    BY <1>1, <1>3, BisectionFinds DEF day
<1>6. /\ last \in p.start_time .. (MinutesPerDay - 1) /\ last \in Nat
      /\ last = p.start_time \/ sim(last).ok
      /\ \A t \in (last + 1) .. (MinutesPerDay - 1) : ~ sim(t).ok
  <2>1. last \in p.start_time .. (MinutesPerDay - 1) /\ last \in day /\ last \in Nat
    BY <1>1, <1>5 DEF IsLatest
  <2>2. last = p.start_time \/ good[last]
    BY <1>5 DEF IsLatest
  <2>3. ASSUME NEW t \in (last + 1) .. (MinutesPerDay - 1) PROVE ~ sim(t).ok
    <3>1. t \in p.start_time .. (MinutesPerDay - 1) /\ t > last /\ t \in day
      <4> HIDE DEF last
      <4> QED
        BY <1>1, <2>1
    <3>2. ~ good[t]
      <4> HIDE DEF good, last
      <4> QED
        BY <1>5, <3>1 DEF IsLatest
    <3> QED
      BY <3>1, <3>2
  <2> HIDE DEF last
  <2> QED
    BY <2>1, <2>2, <2>3
<1> HIDE DEF last, good, m, sim
<1>7. CASE ~ sim(p.start_time).ok
  BY <1>4, <1>7 DEF NoFeasibleRoute, Error, m, sim
<1>8. CASE sim(p.start_time).ok /\ p.start_policy # "LATEST"
  <2>1. m = sim(p.start_time) /\ m \in MetricsOf /\ m.start = p.start_time
    BY <1>1, <1>2, <1>4, <1>8
  <2> QED
    BY <1>1, <1>8, <2>1 DEF m, sim
<1>9. CASE sim(p.start_time).ok /\ p.start_policy = "LATEST"
  <2>1. m = sim(last) /\ sim(last).ok
    BY <1>4, <1>6, <1>9
  <2>2. m \in MetricsOf /\ m.start = last
    BY <1>2, <1>6, <2>1
  <2> QED
    BY <1>6, <1>9, <2>1, <2>2 DEF m, sim
<1> QED
  BY <1>7, <1>8, <1>9

LEMMA EvaluatedIsValid ==
  ASSUME NEW p, NEW r, evaluate_solution(p, r).ok
  PROVE  validate_visit_order(p, r)
BY DEF evaluate_solution, Error

-----------------------------------------------------------------------------
(* The penalised evaluation. *)

LEMMA NoViolations ==
  ASSUME NEW p, IsProblem(p), NEW r, validate_visit_order(p, r)
  PROVE  OrderViolations(p, r) = 0
<1> DEFINE Wrong == {k \in DOMAIN r : r[k] \notin Locations(p) \/ \E j \in 1 .. (k - 1) : r[j] = r[k]}
<1>1. r \in Seq(Locations(p)) /\ Len(r) \in Nat /\ Len(r) >= 1 /\ DOMAIN r = 1 .. Len(r)
  BY ValidRoutes
<1>2. /\ p.visit_policy = "ALL_REQUIRED" => Len(r) = p.n
      /\ Head(r) = 0 /\ Last(r) = End(p) /\ p.required \subseteq ToSet(r)
      /\ \A i, j \in 1 .. Len(r) : r[i] = r[j] => i = j
  <2>1. CASE p.n = 1
    <3>1. r = << 0 >> /\ p.required \subseteq {0} /\ End(p) = 0
      BY <2>1 DEF validate_visit_order, IsProblem, Locations, End
    <3>2. Len(r) = 1 /\ r[1] = 0 /\ ToSet(r) = {0} /\ 1 .. Len(r) = {1}
      BY <3>1 DEF ToSet
    <3> QED
      BY <2>1, <3>1, <3>2 DEF Last
  <2>2. CASE p.n # 1
    <3>1. NoRepeats(r)
      BY <2>2 DEF validate_visit_order
    <3>2. \A i, j \in 1 .. Len(r) : r[i] = r[j] => i = j
      BY <1>1, <3>1, NoRepeatsInjective
    <3> QED
      BY <2>2, <3>2 DEF validate_visit_order
  <2> QED
    BY <2>1, <2>2
<1>3. Wrong = {}
  <2> SUFFICES ASSUME NEW k \in 1 .. Len(r), NEW j \in 1 .. (k - 1), r[j] = r[k] PROVE FALSE
    BY <1>1
  <2>1. j \in 1 .. Len(r) /\ j # k
    BY <1>1
  <2> QED
    BY <1>2, <2>1
<1>4. Cardinality(Wrong) = 0 /\ Cardinality(p.required \ ToSet(r)) = 0
  <2>1. p.required \ ToSet(r) = {}
    BY <1>2
  <2> HIDE DEF Wrong
  <2> QED
    BY <1>3, <2>1, FS_EmptySet
<1>5. p.visit_policy = "ALL_REQUIRED" => Distance(Len(r), p.n) = 0
  BY <1>1, <1>2 DEF Distance, Later
<1>6. r # <<>>
  BY <1>1
<1>7. OrderViolations(p, r) =
          (IF p.visit_policy = "ALL_REQUIRED" THEN Distance(Len(r), p.n) ELSE 0)
        + Cardinality(Wrong)
        + Cardinality(p.required \ ToSet(r))
        + (IF r # <<>> /\ Head(r) = 0 THEN 0 ELSE 1)
        + (IF r # <<>> /\ Last(r) = End(p) THEN 0 ELSE 1)
  BY DEF OrderViolations
<1> HIDE DEF Wrong
<1> QED
  BY <1>2, <1>4, <1>5, <1>6, <1>7

PenalisedStates(p) ==
  [at : Locations(p), time : Nat, travel : Nat, wait : Nat, late : Nat, violations : Nat]

LEMMA PenalisedLegType ==
  ASSUME NEW p, IsProblem(p), NEW s \in PenalisedStates(p), NEW to \in Locations(p)
  PROVE  LET x == PenalisedLeg(p, s, to)
             travel == p.travel[s.at][to]
             t == Finish(p, to, s.time + travel)
         IN  /\ x \in PenalisedStates(p)
             /\ x.at = to
             /\ travel = None => x.violations = s.violations + 1
             /\ travel # None => /\ x.time = t /\ t \in Nat /\ t >= s.time /\ x.violations = s.violations
                                 /\ x.late = s.late + Later(t - p.close[to], 0)
             /\ x.time >= s.time /\ x.late >= s.late /\ x.violations >= s.violations
<1> DEFINE travel == p.travel[s.at][to]
           arrival == s.time + travel
           t == Finish(p, to, arrival)
           x == PenalisedLeg(p, s, to)
<1>1. /\ travel \in Nat \union {None} /\ s.at \in Locations(p) /\ p.close[to] \in Nat
      /\ s.time \in Nat /\ s.travel \in Nat /\ s.wait \in Nat /\ s.late \in Nat /\ s.violations \in Nat
      /\ DOMAIN s = {"at", "time", "travel", "wait", "late", "violations"}
  BY DEF IsProblem, PenalisedStates
<1>2. CASE travel = None
  <2>1. x = [s EXCEPT !.violations = s.violations + 1, !.at = to]
    BY <1>2 DEF PenalisedLeg
  <2>2. s.violations + 1 \in Nat
    BY <1>1
  <2> HIDE DEF x, travel
  <2>3. /\ x \in PenalisedStates(p) /\ x.at = to /\ x.violations = s.violations + 1
        /\ x.time = s.time /\ x.late = s.late
    BY <1>1, <2>1, <2>2 DEF PenalisedStates
  <2> QED
    BY <1>1, <1>2, <2>3 DEF x, travel
<1>3. CASE travel # None
  <2>1. travel \in Nat /\ arrival \in Nat
    BY <1>1, <1>3
  <2>2. /\ t \in Nat /\ t >= arrival /\ ServiceStart(p, to, arrival) - arrival \in Nat
    BY <2>1, VisitTypes
  <2>3. x = [at |-> to, time |-> t, travel |-> s.travel + travel,
             wait |-> s.wait + (ServiceStart(p, to, arrival) - arrival),
             late |-> s.late + Later(t - p.close[to], 0), violations |-> s.violations]
    BY <1>3 DEF PenalisedLeg
  <2>4. Later(t - p.close[to], 0) \in Nat
    BY <1>1, <2>2 DEF Later
  <2>5. t >= s.time
    BY <1>1, <2>1, <2>2
  <2> HIDE DEF x, t, arrival, travel
  <2>6. x \in PenalisedStates(p)
    BY <1>1, <2>1, <2>2, <2>3, <2>4 DEF PenalisedStates
  <2>7. x.at = to /\ x.time = t /\ x.late = s.late + Later(t - p.close[to], 0) /\ x.violations = s.violations
    BY <2>3
  <2> QED
    BY <1>1, <1>3, <2>2, <2>4, <2>5, <2>6, <2>7 DEF x, t, arrival, travel
<1> QED
  BY <1>2, <1>3

LEMMA PenalisedSteps ==
  ASSUME NEW p, IsProblem(p), NEW r, validate_visit_order(p, r)
  PROVE  LET f == Penalised(p, r)
         IN  \A k \in 1 .. Len(r) :
               /\ f[k] \in PenalisedStates(p)
               /\ f[k] = IF k = 1 THEN PenalisedStart(p, r) ELSE PenalisedLeg(p, f[k - 1], r[k])
<1> DEFINE n == Len(r)
           S == PenalisedStates(p)
           c == PenalisedStart(p, r)
           D == [x \in S \X (2 .. n) |-> PenalisedLeg(p, x[1], r[x[2]])]
           Steps(g) == g = [k \in 1 .. n |-> IF k = 1 THEN c ELSE PenalisedLeg(p, g[k - 1], r[k])]
           f == Penalised(p, r)
<1>1. n \in Nat \ {0} /\ \A k \in 1 .. n : r[k] \in Locations(p)
  BY ValidRoutes
<1>2. c \in S
  <2>1. 0 \in Locations(p) /\ p.start_time \in Nat /\ p.close[0] \in Nat
    BY MinutesPerDayAssumption DEF IsProblem, Locations
  <2>2. /\ Finish(p, 0, p.start_time) \in Nat
        /\ ServiceStart(p, 0, p.start_time) - p.start_time \in Nat
    BY <2>1, VisitTypes
  <2>3. Later(Finish(p, 0, p.start_time) - p.close[0], 0) \in Nat
    BY <2>1, <2>2 DEF Later
  <2> QED
    BY <2>1, <2>2, <2>3, NoViolations DEF PenalisedStart, PenalisedStates
<1>3. \A s \in S : \A k \in 2 .. n : PenalisedLeg(p, s, r[k]) \in S /\ D[<<s, k>>] = PenalisedLeg(p, s, r[k])
  BY <1>1, PenalisedLegType
<1> HIDE DEF n, S, c, D
<1>4. PICK g \in [1 .. n -> S] : Passed(g, n, c, D)
  <2>1. Passes(D, S, n)
    BY <1>3 DEF Passes
  <2> QED
    BY <1>1, <1>2, <2>1, VisitsExist
<1>5. Steps(g)
  <2>1. \A k \in 1 .. n : k # 1 => k - 1 \in 1 .. n /\ k \in 2 .. n
    BY <1>1
  <2>2. \A k \in 1 .. n : g[k] = IF k = 1 THEN c ELSE PenalisedLeg(p, g[k - 1], r[k])
    BY <1>3, <1>4, <2>1 DEF Passed
  <2> QED
    BY <2>2
<1>6. f = CHOOSE h : Steps(h)
  BY DEF Penalised, n, c
<1>7. Steps(f)
  <2> HIDE DEF Steps, f
  <2> QED
    BY <1>5, <1>6
<1>8. \A k \in 1 .. n : f[k] = IF k = 1 THEN c ELSE PenalisedLeg(p, f[k - 1], r[k])
  <2> HIDE DEF f
  <2> QED
    BY <1>7
<1> HIDE DEF f, Steps
<1>9. \A k \in 1 .. n : k \in {j \in 1 .. n : f[j] \in S}
  <2>1. 1 \in {j \in 1 .. n : f[j] \in S}
    BY <1>1, <1>2, <1>8
  <2>2. \A k \in 2 .. n : k - 1 \in {j \in 1 .. n : f[j] \in S} => k \in {j \in 1 .. n : f[j] \in S}
    <3> SUFFICES ASSUME NEW k \in 2 .. n, f[k - 1] \in S PROVE f[k] \in S
      BY <1>1
    <3>1. k \in 1 .. n /\ k # 1
      BY <1>1
    <3> QED
      BY <1>3, <1>8, <3>1
  <2> QED
    BY <1>1, <2>1, <2>2, VisitInduction
<1> QED
  BY <1>8, <1>9 DEF f, n, S, c

(* What the two evaluations have in common. *)
Unpenalised(q) == q.violations = 0 /\ q.late = 0 /\ q.time < MinutesPerDay

SameVisit(s, q) ==
  /\ s.at = q.at
  /\ s.time # None <=> Unpenalised(q)
  /\ s.time # None => s.time = q.time

LEMMA PenalisedStartAgrees ==
  ASSUME NEW p, IsProblem(p), NEW r, validate_visit_order(p, r)
  PROVE  SameVisit(SimulatedStart(p, p.start_time), PenalisedStart(p, r))
<1> DEFINE t == Finish(p, 0, p.start_time)
<1>1. 0 \in Locations(p) /\ p.start_time \in Nat /\ p.close[0] \in Nat /\ MinutesPerDay \in Nat
  BY MinutesPerDayAssumption DEF IsProblem, Locations
<1>2. t \in Nat
  BY <1>1, VisitTypes
<1>3. Later(t - p.close[0], 0) = 0 <=> t <= p.close[0]
  BY <1>1, <1>2 DEF Later
<1>4. /\ PenalisedStart(p, r).violations = 0 /\ PenalisedStart(p, r).time = t
      /\ PenalisedStart(p, r).late = Later(t - p.close[0], 0) /\ PenalisedStart(p, r).at = 0
  BY NoViolations DEF PenalisedStart
<1>5. /\ SimulatedStart(p, p.start_time).at = 0
      /\ SimulatedStart(p, p.start_time).time = IF InTime(p, 0, t) THEN t ELSE None
  BY DEF SimulatedStart, initial_service
<1> HIDE DEF t
<1> QED
  BY <1>1, <1>2, <1>3, <1>4, <1>5 DEF SameVisit, Unpenalised, InTime, None

LEMMA PenalisedLegAgrees ==
  ASSUME NEW p, IsProblem(p), NEW s \in SimulatedStates(p), NEW q \in PenalisedStates(p),
         NEW to \in Locations(p), SameVisit(s, q)
  PROVE  SameVisit(SimulatedLeg(p, s, to), PenalisedLeg(p, q, to))
<1> DEFINE travel == p.travel[q.at][to]
           t == Finish(p, to, q.time + travel)
           x == SimulatedLeg(p, s, to)
           y == PenalisedLeg(p, q, to)
<1>1. /\ y \in PenalisedStates(p)
      /\ y.at = to
      /\ travel = None => y.violations = q.violations + 1
      /\ travel # None => /\ y.time = t /\ t \in Nat /\ t >= q.time /\ y.violations = q.violations
                          /\ y.late = q.late + Later(t - p.close[to], 0)
      /\ y.time >= q.time /\ y.late >= q.late /\ y.violations >= q.violations
  BY PenalisedLegType
<1>2. /\ y.time \in Nat /\ y.late \in Nat /\ y.violations \in Nat
      /\ q.time \in Nat /\ q.late \in Nat /\ q.violations \in Nat /\ MinutesPerDay \in Nat
      /\ p.close[to] \in Nat /\ s.time \in Nat \union {None} /\ DOMAIN s = {"at", "time", "travel", "wait"}
  BY <1>1, MinutesPerDayAssumption DEF PenalisedStates, SimulatedStates, IsProblem
<1>3. s.at = q.at /\ (s.time # None <=> Unpenalised(q)) /\ (s.time # None => s.time = q.time)
  BY DEF SameVisit
<1>4. Unpenalised(y) => Unpenalised(q)
  <2> HIDE DEF y
  <2> QED
    BY <1>1, <1>2 DEF Unpenalised
<1>5. CASE s.time = None
  <2>1. x.at = to /\ x.time = None
    BY <1>2, <1>5 DEF SimulatedLeg
  <2> HIDE DEF x, y
  <2> QED
    BY <1>1, <1>3, <1>4, <1>5, <2>1 DEF SameVisit, x, y
<1>6. CASE s.time # None /\ travel = None
  <2>1. x.at = to /\ x.time = None
    BY <1>2, <1>3, <1>6 DEF SimulatedLeg
  <2>2. ~ Unpenalised(y)
    <3> HIDE DEF y
    <3> QED
      BY <1>1, <1>2, <1>6 DEF Unpenalised
  <2> HIDE DEF x, y
  <2> QED
    BY <1>1, <2>1, <2>2 DEF SameVisit, x, y
<1>7. CASE s.time # None /\ travel # None
  <2>1. x.at = to /\ x.time = IF InTime(p, to, t) THEN t ELSE None
    BY <1>2, <1>3, <1>7 DEF SimulatedLeg
  <2>2. Later(t - p.close[to], 0) = 0 <=> t <= p.close[to]
    BY <1>1, <1>2, <1>7 DEF Later
  <2>3. Unpenalised(y) <=> InTime(p, to, t)
    <3> HIDE DEF y, t, travel
    <3> QED
      BY <1>1, <1>2, <1>3, <1>7, <2>2 DEF Unpenalised, InTime, Later
  <2>4. t # None
    BY <1>1, <1>7 DEF None
  <2> HIDE DEF x, y, t, travel
  <2> QED
    BY <1>1, <1>7, <2>1, <2>3, <2>4 DEF SameVisit, x, y
<1> QED
  BY <1>5, <1>6, <1>7

(* A route of a valid order is free of penalties exactly when it can be    *)
(* driven from the requested start.                                        *)
LEMMA PenaltiesAgree ==
  ASSUME NEW p, IsProblem(p), NEW r, validate_visit_order(p, r)
  PROVE  ConstraintFree(PenalisedRoute(p, r)) <=> evaluate_solution(p, r).ok
<1> DEFINE n == Len(r)
           f == Simulated(p, r, p.start_time)
           g == Penalised(p, r)
           T == {k \in 1 .. n : SameVisit(f[k], g[k])}
<1>1. /\ r \in Seq(Locations(p)) /\ n \in Nat \ {0} /\ n \in 1 .. n /\ \A k \in 1 .. n : r[k] \in Locations(p)
      /\ p.start_time \in Nat /\ MinutesPerDay \in Nat
  BY ValidRoutes, MinutesPerDayAssumption DEF IsProblem
<1>2. \A k \in 1 .. n :
        /\ f[k] \in SimulatedStates(p)
        /\ f[k] = IF k = 1 THEN SimulatedStart(p, p.start_time) ELSE SimulatedLeg(p, f[k - 1], r[k])
  BY <1>1, SimulatedSteps
<1>3. \A k \in 1 .. n :
        /\ g[k] \in PenalisedStates(p)
        /\ g[k] = IF k = 1 THEN PenalisedStart(p, r) ELSE PenalisedLeg(p, g[k - 1], r[k])
  BY PenalisedSteps
<1>4. evaluate_solution(p, r).ok <=> f[n].time # None
  BY <1>1, SimulatedMetrics, EvaluationMeans
<1>5. LET s == g[n]
      IN  PenalisedRoute(p, r) = [late |-> s.late, overflow |-> Later(s.time - (MinutesPerDay - 1), 0),
                                  violations |-> s.violations, score |-> s.travel + s.wait]
  BY DEF PenalisedRoute
<1> HIDE DEF n, f, g
<1>6. 1 \in T
  BY <1>1, <1>2, <1>3, PenalisedStartAgrees
<1>7. \A k \in 2 .. n : k - 1 \in T => k \in T
  <2> SUFFICES ASSUME NEW k \in 2 .. n, SameVisit(f[k - 1], g[k - 1]) PROVE SameVisit(f[k], g[k])
    BY <1>1
  <2>1. k \in 1 .. n /\ k - 1 \in 1 .. n /\ k # 1
    BY <1>1
  <2> QED
    BY <1>1, <1>2, <1>3, <2>1, PenalisedLegAgrees
<1> HIDE DEF T
<1>8. n \in T
  BY <1>1, <1>6, <1>7, VisitInduction
<1>9. f[n].time # None <=> Unpenalised(g[n])
  BY <1>8 DEF T, SameVisit
<1>10. Later(g[n].time - (MinutesPerDay - 1), 0) = 0 <=> g[n].time < MinutesPerDay
  <2>1. g[n].time \in Nat
    BY <1>1, <1>3 DEF PenalisedStates
  <2> QED
    BY <1>1, <2>1 DEF Later
<1> QED
  BY <1>4, <1>5, <1>9, <1>10 DEF ConstraintFree, Unpenalised

-----------------------------------------------------------------------------
(* Orders: what the neighbourhood of the annealing search does to them. *)

ValidShape(p, r) ==
  /\ r \in Seq(Locations(p)) /\ Len(r) >= 2
  /\ r[1] = 0 /\ r[Len(r)] = End(p)
  /\ \A i, j \in 1 .. Len(r) : r[i] = r[j] => i = j
  /\ \A i \in p.required : \E k \in 1 .. Len(r) : r[k] = i
  /\ p.visit_policy = "ALL_REQUIRED" => Len(r) = p.n

LEMMA ShapeIsValid ==
  ASSUME NEW p, IsProblem(p), p.n # 1, NEW r
  PROVE  validate_visit_order(p, r) <=> ValidShape(p, r)
<1>1. ASSUME r \in Seq(Locations(p)), Len(r) >= 2
      PROVE  /\ Head(r) = r[1] /\ Last(r) = r[Len(r)]
             /\ NoRepeats(r) <=> \A i, j \in 1 .. Len(r) : r[i] = r[j] => i = j
             /\ ToSet(r) = {r[k] : k \in 1 .. Len(r)}
  <2>1. r # <<>>
    BY <1>1
  <2> QED
    BY <1>1, <2>1, NoRepeatsInjective DEF Last, ToSet
<1>2. ASSUME r \in Seq(Locations(p)), Len(r) >= 2
      PROVE  p.required \subseteq ToSet(r) <=> \A i \in p.required : \E k \in 1 .. Len(r) : r[k] = i
  BY <1>1, <1>2
<1> QED
  BY <1>1, <1>2 DEF validate_visit_order, ValidShape

(* An order is kept valid by a permutation that leaves its ends alone. *)
LEMMA Permuted ==
  ASSUME NEW p, NEW r, ValidShape(p, r), NEW x, NEW f, NEW g,
         f \in [1 .. Len(r) -> 1 .. Len(r)], g \in [1 .. Len(r) -> 1 .. Len(r)],
         \A k \in 1 .. Len(r) : f[g[k]] = k /\ g[f[k]] = k,
         f[1] = 1, f[Len(r)] = Len(r),
         x = [k \in 1 .. Len(r) |-> r[f[k]]]
  PROVE  ValidShape(p, x)
<1> DEFINE n == Len(r)
<1>1. n \in Nat /\ n >= 2 /\ r \in [1 .. n -> Locations(p)]
  BY DEF ValidShape
<1>2. x \in Seq(Locations(p)) /\ Len(x) = n /\ \A k \in 1 .. n : x[k] = r[f[k]]
  <2>1. x \in [1 .. n -> Locations(p)]
    BY <1>1
  <2> QED
    BY <1>1, <2>1
<1>3. x[1] = 0 /\ x[n] = End(p)
  BY <1>1, <1>2 DEF ValidShape
<1>4. ASSUME NEW i \in 1 .. n, NEW j \in 1 .. n, x[i] = x[j] PROVE i = j
  <2>1. f[i] \in 1 .. n /\ f[j] \in 1 .. n /\ r[f[i]] = r[f[j]]
    BY <1>2, <1>4
  <2>2. f[i] = f[j]
    BY <2>1 DEF ValidShape
  <2> QED
    BY <2>2
<1>5. ASSUME NEW i \in p.required PROVE \E k \in 1 .. n : x[k] = i
  <2>1. PICK k \in 1 .. n : r[k] = i
    BY DEF ValidShape
  <2>2. g[k] \in 1 .. n /\ x[g[k]] = i
    BY <1>2, <2>1
  <2> QED
    BY <2>2
<1>6. p.visit_policy = "ALL_REQUIRED" => n = p.n
  BY DEF ValidShape
<1> HIDE DEF n
<1> QED
  BY <1>1, <1>2, <1>3, <1>4, <1>5, <1>6 DEF ValidShape

LEMMA RemoveAtValues ==
  ASSUME NEW S, NEW r \in Seq(S), NEW i \in 1 .. Len(r)
  PROVE  /\ RemoveAt(r, i) \in Seq(S) /\ Len(RemoveAt(r, i)) = Len(r) - 1
         /\ \A k \in 1 .. (Len(r) - 1) : RemoveAt(r, i)[k] = IF k < i THEN r[k] ELSE r[k + 1]
<1> DEFINE a == SubSeq(r, 1, i - 1)
           b == SubSeq(r, i + 1, Len(r))
<1>1. Len(r) \in Nat /\ a \in Seq(S) /\ Len(a) = i - 1 /\ \A k \in 1 .. (i - 1) : a[k] = r[k]
  OBVIOUS
<1>2. b \in Seq(S) /\ Len(b) = Len(r) - i /\ \A k \in 1 .. (Len(r) - i) : b[k] = r[k + i]
  OBVIOUS
<1> HIDE DEF a, b
<1>3. /\ a \o b \in Seq(S) /\ Len(a \o b) = Len(a) + Len(b)
      /\ \A k \in 1 .. (Len(a) + Len(b)) :
           (a \o b)[k] = IF k <= Len(a) THEN a[k] ELSE b[k - Len(a)]
  BY <1>1, <1>2, ConcatProperties
<1>0. i \in Nat /\ 1 <= i /\ i <= Len(r) /\ Len(a) + Len(b) = Len(r) - 1
  BY <1>1, <1>2
<1>4. ASSUME NEW k \in 1 .. (Len(r) - 1) PROVE (a \o b)[k] = IF k < i THEN r[k] ELSE r[k + 1]
  <2>0. k \in Nat /\ 1 <= k /\ k <= Len(r) - 1
    BY <1>1
  <2>1. CASE k < i
    <3>1. k \in 1 .. (i - 1) /\ k <= i - 1
      BY <1>0, <2>0, <2>1
    <3> QED
      BY <1>0, <1>1, <1>3, <2>1, <3>1
  <2>2. CASE k >= i
    <3>1. k - (i - 1) \in 1 .. (Len(r) - i) /\ k - (i - 1) + i = k + 1 /\ ~ (k <= i - 1) /\ ~ (k < i)
      BY <1>0, <1>1, <2>0, <2>2
    <3>2. (a \o b)[k] = b[k - (i - 1)]
      BY <1>0, <1>1, <1>3, <3>1
    <3>3. b[k - (i - 1)] = r[k + 1]
      BY <1>2, <3>1
    <3> QED
      BY <3>1, <3>2, <3>3
  <2> QED
    BY <1>0, <2>0, <2>1, <2>2
<1> QED
  BY <1>0, <1>3, <1>4 DEF RemoveAt, a, b

LEMMA InsertAtValues ==
  ASSUME NEW S, NEW r \in Seq(S), NEW i \in 1 .. (Len(r) + 1), NEW e \in S
  PROVE  /\ InsertAt(r, i, e) \in Seq(S) /\ Len(InsertAt(r, i, e)) = Len(r) + 1
         /\ \A k \in 1 .. (Len(r) + 1) :
              InsertAt(r, i, e)[k] = IF k < i THEN r[k] ELSE IF k = i THEN e ELSE r[k - 1]
<1> DEFINE a == SubSeq(r, 1, i - 1)
           b == SubSeq(r, i, Len(r))
           c == a \o <<e>>
<1>1. Len(r) \in Nat /\ a \in Seq(S) /\ Len(a) = i - 1 /\ \A k \in 1 .. (i - 1) : a[k] = r[k]
  OBVIOUS
<1>2. b \in Seq(S) /\ Len(b) = Len(r) - i + 1 /\ \A k \in 1 .. (Len(r) - i + 1) : b[k] = r[k + i - 1]
  OBVIOUS
<1>3. InsertAt(r, i, e) = c \o b
  BY DEF InsertAt
<1> HIDE DEF a, b
<1>4. c \in Seq(S) /\ Len(c) = i /\ c[i] = e /\ \A k \in 1 .. (i - 1) : c[k] = r[k]
  BY <1>1
<1> HIDE DEF c
<1>0. i \in Nat /\ 1 <= i /\ i <= Len(r) + 1 /\ Len(c) + Len(b) = Len(r) + 1
  BY <1>1, <1>2, <1>4
<1>5. /\ c \o b \in Seq(S) /\ Len(c \o b) = Len(c) + Len(b)
      /\ \A k \in 1 .. (Len(c) + Len(b)) :
           (c \o b)[k] = IF k <= Len(c) THEN c[k] ELSE b[k - Len(c)]
  BY <1>2, <1>4, ConcatProperties
<1>6. ASSUME NEW k \in 1 .. (Len(r) + 1)
      PROVE  (c \o b)[k] = IF k < i THEN r[k] ELSE IF k = i THEN e ELSE r[k - 1]
  <2>0. k \in Nat /\ 1 <= k /\ k <= Len(r) + 1
    BY <1>1
  <2>1. CASE k <= i
    <3>1. k < i => k \in 1 .. (i - 1)
      BY <1>0, <2>0
    <3>2. (c \o b)[k] = c[k]
      BY <1>0, <1>4, <1>5, <2>1
    <3> QED
      BY <1>0, <1>4, <2>0, <2>1, <3>1, <3>2
  <2>2. CASE k > i
    <3>1. k - i \in 1 .. (Len(r) - i + 1) /\ k - i + i - 1 = k - 1 /\ ~ (k <= i) /\ ~ (k < i) /\ k # i
      BY <1>0, <1>1, <2>0, <2>2
    <3>2. (c \o b)[k] = b[k - i]
      BY <1>0, <1>4, <1>5, <3>1
    <3>3. b[k - i] = r[k - 1]
      BY <1>2, <3>1
    <3> QED
      BY <3>1, <3>2, <3>3
  <2> QED
    BY <1>0, <2>0, <2>1, <2>2
<1> QED
  BY <1>0, <1>3, <1>5, <1>6

LEMMA ReorderedAreValid ==
  ASSUME NEW p, NEW r, ValidShape(p, r), NEW x \in Reordered(r)
  PROVE  ValidShape(p, x)
<1> DEFINE n == Len(r)
           D == 1 .. n
<1>1. n \in Nat /\ n >= 2 /\ r \in Seq(Locations(p)) /\ r \in [D -> Locations(p)] /\ DOMAIN r = D
  BY DEF ValidShape
<1>2. PICK y \in Interior(r) \X Interior(r) :
        /\ y[1] # y[2]
        /\ \/ x = Swap(r, y[1], y[2])
           \/ x = InsertAt(RemoveAt(r, y[1]), y[2], r[y[1]])
           \/ x = [k \in DOMAIN r |-> IF k \in (y[1] .. y[2]) \union (y[2] .. y[1])
                                      THEN r[y[1] + y[2] - k] ELSE r[k]]
  BY DEF Reordered
<1> DEFINE i == y[1]
           j == y[2]
<1>3. i \in 2 .. (n - 1) /\ j \in 2 .. (n - 1) /\ i # j
  BY <1>2 DEF Interior
<1> HIDE DEF n, i, j
<1>4. CASE x = Swap(r, i, j)
  <2> DEFINE f == [k \in D |-> IF k = i THEN j ELSE IF k = j THEN i ELSE k]
  <2>1. f \in [D -> D] /\ f[1] = 1 /\ f[n] = n /\ \A k \in D : f[f[k]] = k
    BY <1>1, <1>3
  <2>2. x = [k \in D |-> r[f[k]]]
    BY <1>1, <1>3, <1>4 DEF Swap
  <2> HIDE DEF f
  <2> QED
    BY <2>1, <2>2, Permuted DEF n
<1>5. CASE x = [k \in D |-> IF k \in (i .. j) \union (j .. i) THEN r[i + j - k] ELSE r[k]]
  <2> DEFINE f == [k \in D |-> IF k \in (i .. j) \union (j .. i) THEN i + j - k ELSE k]
  <2>1. f \in [D -> D] /\ f[1] = 1 /\ f[n] = n
    BY <1>1, <1>3
  <2>2. ASSUME NEW k \in D PROVE f[f[k]] = k
    <3>1. CASE k \in (i .. j) \union (j .. i)
      <4>1. f[k] = i + j - k /\ i + j - k \in (i .. j) \union (j .. i) /\ i + j - k \in D
        BY <1>1, <1>3, <3>1
      <4>2. f[i + j - k] = i + j - (i + j - k)
        BY <4>1
      <4> HIDE DEF f
      <4> QED
        BY <1>1, <1>3, <4>1, <4>2
    <3>2. CASE k \notin (i .. j) \union (j .. i)
      BY <3>2
    <3> QED
      BY <3>1, <3>2
  <2>3. x = [k \in D |-> r[f[k]]]
    <3>1. \A k \in D : r[f[k]] = IF k \in (i .. j) \union (j .. i) THEN r[i + j - k] ELSE r[k]
      OBVIOUS
    <3> HIDE DEF f
    <3> QED
      BY <1>5, <3>1
  <2> HIDE DEF f
  <2> QED
    BY <2>1, <2>2, <2>3, Permuted DEF n
<1>6. CASE x = InsertAt(RemoveAt(r, i), j, r[i])
  <2> DEFINE Move(k, a, b) == IF k = b THEN a
                              ELSE IF k < b THEN IF k < a THEN k ELSE k + 1
                              ELSE IF k - 1 < a THEN k - 1 ELSE k
             f == [k \in D |-> Move(k, i, j)]
             g == [k \in D |-> Move(k, j, i)]
             q == RemoveAt(r, i)
  <2>1. f \in [D -> D] /\ g \in [D -> D] /\ f[1] = 1 /\ f[n] = n
    BY <1>1, <1>3
  <2>2. ASSUME NEW k \in D PROVE f[g[k]] = k /\ g[f[k]] = k
    <3>1. Move(k, i, j) \in D /\ Move(k, j, i) \in D
      BY <1>1, <1>3
    <3>2. Move(Move(k, j, i), i, j) = k /\ Move(Move(k, i, j), j, i) = k
      BY <1>1, <1>3
    <3> HIDE DEF Move
    <3> QED
      BY <3>1, <3>2
  <2>3. q \in Seq(Locations(p)) /\ Len(q) = n - 1 /\ \A k \in 1 .. (n - 1) : q[k] = IF k < i THEN r[k] ELSE r[k + 1]
    <3>1. i \in 1 .. Len(r)
      BY <1>1, <1>3 DEF n
    <3> QED
      BY <1>1, <3>1, RemoveAtValues DEF n
  <2>4. x \in Seq(Locations(p)) /\ Len(x) = n
        /\ \A k \in 1 .. n : x[k] = IF k < j THEN q[k] ELSE IF k = j THEN r[i] ELSE q[k - 1]
    <3>1. j \in 1 .. (Len(q) + 1) /\ r[i] \in Locations(p) /\ Len(q) + 1 = n
      BY <1>1, <1>3, <2>3
    <3> HIDE DEF q
    <3>2. x = InsertAt(q, j, r[i])
      BY <1>6 DEF q
    <3> HIDE DEF D
    <3>3. /\ InsertAt(q, j, r[i]) \in Seq(Locations(p)) /\ Len(InsertAt(q, j, r[i])) = Len(q) + 1
          /\ \A k \in 1 .. (Len(q) + 1) :
               InsertAt(q, j, r[i])[k] = IF k < j THEN q[k] ELSE IF k = j THEN r[i] ELSE q[k - 1]
      <4> DEFINE e == r[i]
                 S == Locations(p)
      <4>1. q \in Seq(S) /\ j \in 1 .. (Len(q) + 1) /\ e \in S
        BY <2>3, <3>1
      <4> HIDE DEF e, S
      <4>2. /\ InsertAt(q, j, e) \in Seq(S) /\ Len(InsertAt(q, j, e)) = Len(q) + 1
            /\ \A k \in 1 .. (Len(q) + 1) :
                 InsertAt(q, j, e)[k] = IF k < j THEN q[k] ELSE IF k = j THEN e ELSE q[k - 1]
        BY <4>1, InsertAtValues
      <4> QED
        BY <4>2 DEF e, S
    <3> QED
      BY <3>1, <3>2, <3>3
  <2> HIDE DEF q
  <2>5. \A k \in D : x[k] = r[Move(k, i, j)]
    <3> SUFFICES ASSUME NEW k \in D PROVE x[k] = r[Move(k, i, j)]
      OBVIOUS
    <3>1. CASE k = j
      BY <1>3, <2>4, <3>1
    <3>2. CASE k < j
      <4>1. k \in 1 .. (n - 1) /\ k # j
        BY <1>1, <1>3, <3>2
      <4>2. x[k] = q[k] /\ q[k] = IF k < i THEN r[k] ELSE r[k + 1]
        BY <2>3, <2>4, <3>2, <4>1
      <4>3. Move(k, i, j) = IF k < i THEN k ELSE k + 1
        BY <3>2, <4>1
      <4> HIDE DEF Move
      <4> QED
        BY <4>2, <4>3
    <3>3. CASE k > j
      <4>1. k - 1 \in 1 .. (n - 1) /\ (k - 1) + 1 = k /\ k # j /\ ~ (k < j)
        BY <1>1, <1>3, <3>3
      <4>2. x[k] = q[k - 1]
        BY <2>4, <4>1
      <4>3. q[k - 1] = IF k - 1 < i THEN r[k - 1] ELSE r[k]
        BY <2>3, <4>1
      <4>4. Move(k, i, j) = IF k - 1 < i THEN k - 1 ELSE k
        BY <4>1
      <4> HIDE DEF Move
      <4> QED
        BY <4>2, <4>3, <4>4
    <3> QED
      BY <1>1, <1>3, <3>1, <3>2, <3>3
  <2>6. x = [k \in D |-> r[f[k]]]
    <3>1. x \in [D -> Locations(p)] /\ DOMAIN x = D
      BY <1>1, <2>4
    <3> HIDE DEF Move
    <3> QED
      BY <2>5, <3>1
  <2> HIDE DEF f, g
  <2> QED
    BY <2>1, <2>2, <2>6, Permuted DEF n
<1> QED
  BY <1>1, <1>2, <1>4, <1>5, <1>6 DEF i, j

LEMMA InsertedIsValid ==
  ASSUME NEW p, IsProblem(p), p.visit_policy # "ALL_REQUIRED", NEW r, ValidShape(p, r),
         NEW i \in 2 .. Len(r), NEW e \in Locations(p), e \notin ToSet(r)
  PROVE  ValidShape(p, InsertAt(r, i, e))
<1> DEFINE n == Len(r)
           x == InsertAt(r, i, e)
           at(k) == IF k < i THEN k ELSE k + 1
<1>1. /\ n \in Nat /\ n >= 2 /\ r \in Seq(Locations(p)) /\ r[1] = 0 /\ r[n] = End(p)
      /\ \A a, b \in 1 .. n : r[a] = r[b] => a = b
      /\ \A a \in p.required : \E k \in 1 .. n : r[k] = a
      /\ \A k \in 1 .. n : r[k] # e
  BY DEF ValidShape, ToSet
<1>2. i \in 1 .. (n + 1) /\ i \in 2 .. n
  BY <1>1
<1>3. /\ x \in Seq(Locations(p)) /\ Len(x) = n + 1
      /\ \A k \in 1 .. (n + 1) : x[k] = IF k < i THEN r[k] ELSE IF k = i THEN e ELSE r[k - 1]
  <2> HIDE DEF x
  <2> QED
    BY <1>1, <1>2, InsertAtValues DEF x, n
<1> HIDE DEF n, x
<1>4. x[1] = 0 /\ x[n + 1] = End(p)
  <2>1. 1 \in 1 .. (n + 1) /\ n + 1 \in 1 .. (n + 1) /\ 1 < i /\ ~ (n + 1 < i) /\ n + 1 # i /\ (n + 1) - 1 = n
    BY <1>1, <1>2
  <2> QED
    BY <1>1, <1>3, <2>1
<1>5. ASSUME NEW a \in 1 .. (n + 1), NEW b \in 1 .. (n + 1), x[a] = x[b] PROVE a = b
  <2> DEFINE from(k) == IF k < i THEN k ELSE k - 1
  <2>1. \A k \in 1 .. (n + 1) : k # i => from(k) \in 1 .. n /\ x[k] = r[from(k)] /\ x[k] # e
    <3> SUFFICES ASSUME NEW k \in 1 .. (n + 1), k # i
                 PROVE  from(k) \in 1 .. n /\ x[k] = r[from(k)] /\ x[k] # e
      OBVIOUS
    <3>1. from(k) \in 1 .. n
      BY <1>1, <1>2
    <3>2. x[k] = r[from(k)]
      BY <1>3
    <3> QED
      BY <1>1, <3>1, <3>2
  <2>2. x[i] = e
    BY <1>2, <1>3
  <2>3. CASE a = i \/ b = i
    BY <1>5, <2>1, <2>2, <2>3
  <2>4. CASE a # i /\ b # i
    <3>1. from(a) = from(b)
      <4> HIDE DEF from
      <4> QED
        BY <1>1, <1>5, <2>1, <2>4
    <3> QED
      BY <1>1, <1>2, <2>4, <3>1
  <2> QED
    BY <2>3, <2>4
<1>6. ASSUME NEW a \in p.required PROVE \E k \in 1 .. (n + 1) : x[k] = a
  <2>1. PICK k \in 1 .. n : r[k] = a
    BY <1>1
  <2>2. at(k) \in 1 .. (n + 1) /\ at(k) # i
    BY <1>1, <1>2
  <2>3. x[at(k)] = r[k]
    <3>1. CASE k < i
      BY <1>3, <2>2, <3>1
    <3>2. CASE ~ (k < i)
      <4>1. at(k) = k + 1 /\ ~ (k + 1 < i) /\ k + 1 # i /\ (k + 1) - 1 = k
        BY <1>1, <1>2, <3>2
      <4> QED
        BY <1>3, <2>2, <4>1
    <3> QED
      BY <3>1, <3>2
  <2> HIDE DEF at
  <2> QED
    BY <2>1, <2>2, <2>3
<1>7. n + 1 >= 2
  BY <1>1
<1> QED
  BY <1>3, <1>4, <1>5, <1>6, <1>7 DEF ValidShape, x

LEMMA RemovedIsValid ==
  ASSUME NEW p, IsProblem(p), p.visit_policy # "ALL_REQUIRED", NEW r, ValidShape(p, r),
         NEW i \in 2 .. (Len(r) - 1), r[i] \notin p.required
  PROVE  ValidShape(p, RemoveAt(r, i))
<1> DEFINE n == Len(r)
           x == RemoveAt(r, i)
           from(k) == IF k < i THEN k ELSE k + 1
<1>1. /\ n \in Nat /\ n >= 2 /\ r \in Seq(Locations(p)) /\ r[1] = 0 /\ r[n] = End(p)
      /\ \A a, b \in 1 .. n : r[a] = r[b] => a = b
      /\ \A a \in p.required : \E k \in 1 .. n : r[k] = a
  BY DEF ValidShape
<1>2. i \in 1 .. n /\ i \in 2 .. (n - 1) /\ n >= 3
  BY <1>1
<1>3. /\ x \in Seq(Locations(p)) /\ Len(x) = n - 1
      /\ \A k \in 1 .. (n - 1) : x[k] = r[from(k)]
  <2>1. \A k \in 1 .. (n - 1) : x[k] = IF k < i THEN r[k] ELSE r[k + 1]
    <3> HIDE DEF x
    <3> QED
      BY <1>1, <1>2, RemoveAtValues DEF x, n
  <2>2. x \in Seq(Locations(p)) /\ Len(x) = n - 1
    <3> HIDE DEF x
    <3> QED
      BY <1>1, <1>2, RemoveAtValues DEF x, n
  <2> HIDE DEF x
  <2> QED
    BY <2>1, <2>2
<1> HIDE DEF n, x
<1>4. x[1] = 0 /\ x[n - 1] = End(p)
  <2>1. 1 \in 1 .. (n - 1) /\ n - 1 \in 1 .. (n - 1) /\ from(1) = 1 /\ from(n - 1) = n
    BY <1>1, <1>2
  <2> HIDE DEF from
  <2> QED
    BY <1>1, <1>3, <2>1
<1>5. ASSUME NEW a \in 1 .. (n - 1), NEW b \in 1 .. (n - 1), x[a] = x[b] PROVE a = b
  <2>1. from(a) \in 1 .. n /\ from(b) \in 1 .. n
    BY <1>1, <1>2
  <2>2. from(a) = from(b)
    <3> HIDE DEF from
    <3> QED
      BY <1>1, <1>3, <1>5, <2>1
  <2> QED
    BY <1>1, <1>2, <2>2
<1>6. ASSUME NEW a \in p.required PROVE \E k \in 1 .. (n - 1) : x[k] = a
  <2>1. PICK k \in 1 .. n : r[k] = a
    BY <1>1
  <2>2. k # i
    BY <2>1
  <2> DEFINE at == IF k < i THEN k ELSE k - 1
  <2>3. at \in 1 .. (n - 1) /\ from(at) = k
    BY <1>1, <1>2, <2>2
  <2> HIDE DEF from, at
  <2> QED
    BY <1>3, <2>1, <2>3
<1>7. n - 1 >= 2
  BY <1>1, <1>2
<1> QED
  BY <1>3, <1>4, <1>5, <1>6, <1>7 DEF ValidShape, x

LEMMA ReplacedIsValid ==
  ASSUME NEW p, IsProblem(p), p.visit_policy # "ALL_REQUIRED", NEW r, ValidShape(p, r),
         NEW i \in 2 .. (Len(r) - 1), r[i] \notin p.required,
         NEW e \in Locations(p), e \notin ToSet(r)
  PROVE  ValidShape(p, ReplaceAt(r, i, e))
<1> DEFINE n == Len(r)
           x == ReplaceAt(r, i, e)
<1>1. /\ n \in Nat /\ n >= 2 /\ r \in Seq(Locations(p)) /\ r[1] = 0 /\ r[n] = End(p)
      /\ \A a, b \in 1 .. n : r[a] = r[b] => a = b
      /\ \A a \in p.required : \E k \in 1 .. n : r[k] = a
      /\ \A k \in 1 .. n : r[k] # e
  BY DEF ValidShape, ToSet
<1>2. i \in 1 .. n /\ i # 1 /\ i # n
  BY <1>1
<1>3. x \in Seq(Locations(p)) /\ Len(x) = n /\ \A k \in 1 .. n : x[k] = IF k = i THEN e ELSE r[k]
  <2>1. x \in [1 .. n -> Locations(p)] /\ \A k \in 1 .. n : x[k] = IF k = i THEN e ELSE r[k]
    BY <1>1, <1>2 DEF ReplaceAt
  <2> QED
    BY <1>1, <2>1
<1> HIDE DEF n, x
<1>4. x[1] = 0 /\ x[n] = End(p) /\ \A a, b \in 1 .. n : x[a] = x[b] => a = b
  BY <1>1, <1>2, <1>3
<1>5. \A a \in p.required : \E k \in 1 .. n : x[k] = a
  BY <1>1, <1>3
<1> QED
  BY <1>1, <1>3, <1>4, <1>5 DEF ValidShape, x

(* Every neighbour of a valid order is valid. *)
LEMMA NeighboursAreValid ==
  ASSUME NEW p, IsProblem(p), NEW r, validate_visit_order(p, r), NEW x \in Neighbours(p, r)
  PROVE  validate_visit_order(p, x)
<1> DEFINE unvisited == (Intermediate(p) \ p.required) \ ToSet(r)
           removable == {k \in Interior(r) : r[k] \notin p.required}
<1>1. CASE p.n = 1
  <2>1. r = << 0 >> /\ Len(r) = 1
    BY <1>1 DEF validate_visit_order
  <2>2. Reordered(r) = {} /\ Interior(r) = {} /\ Intermediate(p) = {}
    BY <1>1, <2>1 DEF Reordered, Interior, Intermediate, End
  <2>3. x \in {}
    BY <2>2 DEF Neighbours
  <2> QED
    BY <2>3
<1>2. CASE p.n # 1
  <2>1. ValidShape(p, r) /\ \A y : ValidShape(p, y) => validate_visit_order(p, y)
    BY <1>2, ShapeIsValid
  <2>2. \A e \in unvisited : e \in Locations(p) /\ e \notin ToSet(r)
    BY DEF Intermediate, Locations, End, IsProblem
  <2>3. CASE x \in Reordered(r)
    BY <2>1, <2>3, ReorderedAreValid
  <2>4. CASE /\ p.visit_policy # "ALL_REQUIRED"
             /\ x \in {InsertAt(r, k, e) : k \in 2 .. Len(r), e \in unvisited}
    <3>1. PICK k \in 2 .. Len(r), e \in unvisited : x = InsertAt(r, k, e)
      BY <2>4
    <3> QED
      BY <2>1, <2>2, <2>4, <3>1, InsertedIsValid
  <2>5. CASE p.visit_policy # "ALL_REQUIRED" /\ x \in {RemoveAt(r, k) : k \in removable}
    <3>1. PICK k \in removable : x = RemoveAt(r, k)
      BY <2>5
    <3>2. k \in 2 .. (Len(r) - 1) /\ r[k] \notin p.required
      BY DEF Interior
    <3> QED
      BY <2>1, <2>5, <3>1, <3>2, RemovedIsValid
  <2>6. CASE /\ p.visit_policy # "ALL_REQUIRED"
             /\ x \in {ReplaceAt(r, k, e) : k \in removable, e \in unvisited}
    <3>1. PICK k \in removable, e \in unvisited : x = ReplaceAt(r, k, e)
      BY <2>6
    <3>2. k \in 2 .. (Len(r) - 1) /\ r[k] \notin p.required
      BY DEF Interior
    <3> QED
      BY <2>1, <2>2, <2>6, <3>1, <3>2, ReplacedIsValid
  <2> QED
    BY <2>3, <2>4, <2>5, <2>6 DEF Neighbours
<1> QED
  BY <1>1, <1>2

(* A route around the locations f. *)
LEMMA RouteBetween ==
  ASSUME NEW p, IsProblem(p), p.n # 1, NEW S, S \subseteq Intermediate(p),
         p.required \subseteq S \union {0, End(p)},
         p.visit_policy = "ALL_REQUIRED" => S = Intermediate(p),
         NEW f \in SetToSeqs(S)
  PROVE  /\ ValidShape(p, << 0 >> \o f \o <<End(p)>>)
         /\ ToSet(<< 0 >> \o f \o <<End(p)>>) = S \union {0, End(p)}
<1> DEFINE c == Cardinality(S)
           n == c + 2
           x == << 0 >> \o f \o <<End(p)>>
<1>1. /\ IsFiniteSet(Intermediate(p)) /\ Cardinality(Intermediate(p)) = p.n - 2
      /\ p.n \in Nat /\ p.n >= 2 /\ 0 \in Locations(p) /\ End(p) \in Locations(p) /\ End(p) # 0
  <2>1. p.n \in Nat /\ p.n >= 2 /\ End(p) = p.n - 1
    BY DEF IsProblem, End
  <2> DEFINE b == End(p) - 1
  <2>2. b \in Int /\ 1 \in Int /\ (IF 1 > b THEN 0 ELSE b - 1 + 1) = p.n - 2
    BY <2>1
  <2> HIDE DEF b
  <2>3. IsFiniteSet(1 .. b) /\ Cardinality(1 .. b) = p.n - 2
    BY <2>2, FS_Interval
  <2> QED
    BY <2>1, <2>3 DEF Intermediate, Locations, b
<1>2. IsFiniteSet(S) /\ c \in Nat
  BY <1>1, FS_Subset, FS_CardinalityType
<1>3. /\ f \in [1 .. c -> S] /\ \A i, j \in 1 .. c : f[i] = f[j] => i = j
  BY DEF SetToSeqs
<1>4. \A s \in S : \E k \in 1 .. c : f[k] = s
  <2>1. f \in Injection(1 .. c, S)
    BY <1>3 DEF Injection, IsInjective
  <2>2. IsFiniteSet(1 .. c) /\ Cardinality(1 .. c) = c
    BY <1>2, FS_Interval
  <2>3. f \in Surjection(1 .. c, S)
    BY <1>2, <2>1, <2>2, FS_Injection
  <2> QED
    BY <2>3 DEF Surjection
<1>5. S \subseteq Locations(p) /\ 0 \notin S /\ End(p) \notin S
  BY <1>1 DEF Intermediate, Locations, End
<1> HIDE DEF c
<1>6. f \in Seq(Locations(p)) /\ Len(f) = c
  BY <1>2, <1>3, <1>5
<1>7. /\ x \in Seq(Locations(p)) /\ Len(x) = n
      /\ x[1] = 0 /\ x[n] = End(p) /\ \A k \in 2 .. (n - 1) : x[k] = f[k - 1]
  <2> DEFINE y == << 0 >> \o f
  <2>1. y \in Seq(Locations(p)) /\ Len(y) = 1 + c /\ y[1] = 0 /\ \A k \in 2 .. (1 + c) : y[k] = f[k - 1]
    BY <1>1, <1>2, <1>6
  <2>2. x = y \o <<End(p)>>
    OBVIOUS
  <2> HIDE DEF y, x
  <2>3. x \in Seq(Locations(p)) /\ Len(x) = n
    BY <1>1, <1>2, <2>1, <2>2
  <2>4. x[1] = 0 /\ x[n] = End(p)
    BY <1>1, <1>2, <2>1, <2>2
  <2>5. \A k \in 2 .. (n - 1) : x[k] = y[k]
    BY <1>1, <1>2, <2>1, <2>2
  <2> QED
    BY <1>2, <2>1, <2>3, <2>4, <2>5
<1> HIDE DEF x
<1>8. \A k \in 1 .. c : k + 1 \in 2 .. (n - 1) /\ (k + 1) - 1 = k
  BY <1>2
<1>9. \A s \in S : \E k \in 1 .. n : x[k] = s
  <2> SUFFICES ASSUME NEW s \in S PROVE \E k \in 1 .. n : x[k] = s
    OBVIOUS
  <2>1. PICK k \in 1 .. c : f[k] = s
    BY <1>4
  <2>2. k + 1 \in 1 .. n /\ x[k + 1] = s
    BY <1>2, <1>7, <1>8, <2>1
  <2> QED
    BY <2>2
<1>10. \A k \in 2 .. (n - 1) : k - 1 \in 1 .. c /\ x[k] \in S
  BY <1>2, <1>3, <1>7
<1>11. ASSUME NEW i \in 1 .. n, NEW j \in 1 .. n, x[i] = x[j] PROVE i = j
  <2>1. i = 1 \/ i = n \/ i \in 2 .. (n - 1)
    BY <1>2
  <2>2. j = 1 \/ j = n \/ j \in 2 .. (n - 1)
    BY <1>2
  <2>3. CASE i \in 2 .. (n - 1) /\ j \in 2 .. (n - 1)
    <3>1. f[i - 1] = f[j - 1] /\ i - 1 \in 1 .. c /\ j - 1 \in 1 .. c
      BY <1>7, <1>10, <1>11, <2>3
    <3>2. i - 1 = j - 1
      BY <1>3, <3>1
    <3> QED
      BY <1>2, <2>3, <3>2
  <2> QED
    BY <1>1, <1>5, <1>7, <1>10, <1>11, <2>1, <2>2, <2>3
<1>12. \A i \in p.required : \E k \in 1 .. n : x[k] = i
  <2>1. 1 \in 1 .. n /\ n \in 1 .. n
    BY <1>2
  <2> QED
    BY <1>7, <1>9, <2>1
<1>13. p.visit_policy = "ALL_REQUIRED" => n = p.n
  BY <1>1 DEF c
<1>14. ToSet(x) = S \union {0, End(p)}
  <2>1. DOMAIN x = 1 .. n /\ 1 \in 1 .. n /\ n \in 1 .. n
    BY <1>2, <1>7
  <2>2. ASSUME NEW k \in 1 .. n PROVE x[k] \in S \union {0, End(p)}
    <3>1. k = 1 \/ k = n \/ k \in 2 .. (n - 1)
      BY <1>2
    <3> QED
      BY <1>7, <1>10, <3>1
  <2> QED
    BY <1>7, <1>9, <2>1, <2>2 DEF ToSet
<1>15. n >= 2
  BY <1>2
<1> QED
  BY <1>7, <1>11, <1>12, <1>13, <1>14, <1>15 DEF ValidShape, x

(* The route a search starts from has a valid order. *)
LEMMA InitialIsValid ==
  ASSUME NEW p, IsProblem(p), NEW r,
         is_structurally_valid_initial_solution(p, r) \/ \E g \in random(p) : r = g.route
  PROVE  validate_visit_order(p, r)
<1>1. CASE p.n = 1
  <2>1. CASE is_structurally_valid_initial_solution(p, r)
    <3>1. r \in Seq(Locations(p)) /\ Len(r) \in Nat /\ Len(r) >= 2 /\ NoRepeats(r)
      BY <2>1 DEF is_structurally_valid_initial_solution
    <3>2. \A i, j \in 1 .. Len(r) : r[i] = r[j] => i = j
      BY <3>1, NoRepeatsInjective
    <3>3. 1 \in 1 .. Len(r) /\ 2 \in 1 .. Len(r) /\ Locations(p) = {0}
      BY <1>1, <3>1 DEF Locations
    <3>4. r[1] = 0 /\ r[2] = 0
      BY <3>1, <3>3
    <3> QED
      BY <3>2, <3>3, <3>4
  <2>2. ASSUME NEW g \in random(p), r = g.route PROVE validate_visit_order(p, r)
    BY <1>1, <2>2 DEF random, Routed, validate_visit_order
  <2> QED
    BY <2>1, <2>2
<1>2. CASE p.n # 1
  <2>1. CASE is_structurally_valid_initial_solution(p, r)
    BY <1>2, <2>1 DEF is_structurally_valid_initial_solution, validate_visit_order
  <2>2. ASSUME NEW g \in random(p), r = g.route PROVE validate_visit_order(p, r)
    <3>1. PICK f \in SetToSeqs(Intermediate(p)) : g = Routed(<< 0 >> \o f \o <<End(p)>>)
      BY <1>2 DEF random
    <3>2. r = << 0 >> \o f \o <<End(p)>>
      BY <2>2, <3>1 DEF Routed
    <3>3. p.required \subseteq Intermediate(p) \union {0, End(p)}
      BY DEF IsProblem, Locations, Intermediate, End
    <3>4. ValidShape(p, << 0 >> \o f \o <<End(p)>>)
      BY <1>2, <3>3, RouteBetween
    <3> QED
      BY <1>2, <3>2, <3>4, ShapeIsValid
  <2> QED
    BY <2>1, <2>2
<1> QED
  BY <1>1, <1>2

-----------------------------------------------------------------------------
(* The annealing search keeps its best route. *)

IsFound(p, x) ==
  \/ x = Nothing
  \/ \E r : evaluate_solution(p, r).ok /\ x = Found(r, evaluate_solution(p, r))

ExactPhases == {"exact", "exact_target", "exact_feasible", "exact_probe", "exact_search"}

ClusterPhases == {"clustered", "cluster", "improve"}

InitialPhases == {"generate", "generate_mst", "generate_greedy", "initial"}

Searching == {"loop", "finish", "verify"}

CallHeld ==
  /\ problem \in Problems
  /\ \/ solver = "exact" /\ pc \in ExactPhases \union {"done"}
     \/ solver = "clustered" /\ pc \in ClusterPhases \union {"done"}
     \/ solver = "annealing" /\ pc \in ClusterPhases \union InitialPhases \union Searching \union {"done"}

(* The inductive part of NothingBetterIsDropped. *)
BestHeld ==
  /\ IsFound(problem, best) /\ IsFound(problem, initial)
  /\ initial.ok => best.ok /\ ~ Better(problem, initial.metrics, best.metrics)
  /\ pc \in Searching =>
       LET m == evaluate_solution(problem, route)
       IN  /\ validate_visit_order(problem, route)
           /\ ~ cancelled /\ m.ok => best.ok /\ ~ Better(problem, m, best.metrics)
  /\ pc \notin Searching \union {"done"} => best = Nothing /\ initial = Nothing
  /\ interrupted => pc \in {"finish", "done"}
  /\ pc = "verify" => best.ok

AnswerHeld ==
  pc = "done" =>
    /\ solver # "exact" /\ result.ok => IsFound(problem, result)
    /\ solver = "annealing" =>
         /\ result.ok => best.ok /\ result = best
         /\ interrupted => result = IF best.ok THEN best ELSE NoFeasibleRoute
         /\ best.ok => result.ok \/ result = Cancelled

SearchHeld == CallHeld /\ BestHeld /\ AnswerHeld

LEMMA Errors ==
  /\ ~ Nothing.ok /\ ~ Cancelled.ok /\ ~ NoFeasibleRoute.ok
  /\ Nothing # Cancelled /\ Nothing # NoFeasibleRoute
  /\ ~ Error("UnsupportedLocationCount").ok /\ ~ Error("InvalidVisitOrder").ok
BY DEF Nothing, Cancelled, NoFeasibleRoute, Error

LEMMA FoundFacts ==
  ASSUME NEW p, IsProblem(p), NEW x, IsFound(p, x), x.ok
  PROVE  /\ validate_visit_order(p, x.route) /\ evaluate_solution(p, x.route).ok
         /\ x = Found(x.route, evaluate_solution(p, x.route))
         /\ x.metrics = evaluate_solution(p, x.route) /\ x.metrics \in MetricsOf
<1>1. PICK r : evaluate_solution(p, r).ok /\ x = Found(r, evaluate_solution(p, r))
  BY Errors DEF IsFound
<1>2. x.route = r /\ x.metrics = evaluate_solution(p, r)
  BY <1>1 DEF Found
<1>3. validate_visit_order(p, r)
  BY <1>1, EvaluatedIsValid
<1>4. evaluate_solution(p, r) \in MetricsOf
  BY <1>1, <1>3, EvaluationMeans
<1> QED
  BY <1>1, <1>2, <1>3, <1>4

LEMMA FoundAgain ==
  ASSUME NEW p, NEW r, evaluate_solution(p, r).ok
  PROVE  /\ IsFound(p, Found(r, evaluate_solution(p, r))) /\ Found(r, evaluate_solution(p, r)).ok
         /\ Found(r, evaluate_solution(p, r)).metrics = evaluate_solution(p, r)
BY DEF IsFound, Found

(* What the penalised evaluation of a valid order hands over. *)
LEMMA PenalisedMetrics ==
  ASSUME NEW p, IsProblem(p), NEW r, validate_visit_order(p, r), NEW v,
         v = evaluate_solution(p, r) \/ v = Cancelled
  PROVE  LET e == evaluate_solution_with_penalties(p, r, v)
         IN  /\ e.metrics.ok => e.metrics = evaluate_solution(p, r)
             /\ v = evaluate_solution(p, r) => (e.metrics.ok <=> evaluate_solution(p, r).ok)
<1> DEFINE e == evaluate_solution_with_penalties(p, r, v)
<1>1. e.metrics = IF ConstraintFree(PenalisedRoute(p, r)) THEN v ELSE NoFeasibleRoute
  BY DEF evaluate_solution_with_penalties
<1> HIDE DEF e
<1> QED
  BY <1>1, Errors, PenaltiesAgree DEF e

LEMMA EarlyHolds ==
  ASSUME SearchHeld, pc \notin Searching \union {"done"},
         UNCHANGED annealVars, problem' = problem, solver' = solver,
         pc' \notin Searching,
         pc' = "done" /\ result'.ok =>
           solver # "annealing" /\ (solver # "exact" => IsFound(problem, result'))
  PROVE  BestHeld' /\ AnswerHeld'
<1>1. /\ best' = best /\ initial' = initial /\ interrupted' = interrupted
      /\ best = Nothing /\ initial = Nothing /\ ~ interrupted
  BY DEF SearchHeld, BestHeld, annealVars, Searching
<1>2. BestHeld'
  BY <1>1, Errors DEF SearchHeld, BestHeld, Searching
<1>3. AnswerHeld'
  BY <1>1, Errors DEF AnswerHeld
<1> QED
  BY <1>2, <1>3

LEMMA ExactHolds ==
  ASSUME SearchHeld,
         exact_begin \/ exact_target \/ exact_feasible \/ exact_probe \/ exact_probed \/ exact_search
  PROVE  SearchHeld'
<1>1. solver = "exact" /\ pc \in ExactPhases /\ pc \notin Searching \union {"done"}
  BY DEF SearchHeld, CallHeld, ExactPhases, ClusterPhases, InitialPhases, Searching, At,
         exact_begin, exact_target, exact_feasible, exact_probe, exact_probed, exact_search
<1>2. UNCHANGED annealVars /\ problem' = problem /\ solver' = solver
  BY DEF OnlyExact, Answer, Goto, callVars,
         exact_begin, exact_target, exact_feasible, exact_probe, exact_probed, exact_search
<1>3. pc' \in ExactPhases \union {"done"}
  BY <1>1 DEF ExactPhases, Answer, Goto,
         exact_begin, exact_target, exact_feasible, exact_probe, exact_probed, exact_search
<1>4. pc' \notin Searching
  BY <1>3 DEF ExactPhases, Searching
<1>5. BestHeld' /\ AnswerHeld'
  BY <1>1, <1>2, <1>4, EarlyHolds
<1>6. CallHeld'
  BY <1>1, <1>2, <1>3 DEF SearchHeld, CallHeld
<1> QED
  BY <1>5, <1>6 DEF SearchHeld

(* A step of the clustered solver goes on, fails or delivers. *)
LEMMA ClusterSteps ==
  ASSUME SearchHeld,
         clustered_begin \/ solve_one_cluster \/ merge_clusters \/ improve_boundary \/ verify_clustered
  PROVE  /\ pc \in ClusterPhases /\ UNCHANGED annealVars
         /\ \/ \E step \in ClusterPhases : Goto(step)
            \/ \E outcome : ~ outcome.ok /\ Fail(outcome)
            \/ \E found : found.ok /\ IsFound(problem, found) /\ Deliver(found)
<1>1. CASE clustered_begin
  <2> DEFINE failure ==
        IF cancelled THEN Cancelled
        ELSE IF problem.n > 1 /\ order = "mst_double_tree" /\ MstOrderFails(problem) THEN NoFeasibleRoute
        ELSE IF problem.n > 1 /\ initial_service(problem, problem.start_time).departure = None
        THEN NoFeasibleRoute
        ELSE Nothing
  <2>1. ~ failure.ok
    BY Errors
  <2>2. pc \in ClusterPhases /\ UNCHANGED annealVars
    BY <1>1 DEF clustered_begin, At, ClusterPhases, Unclustered
  <2>3. (failure # Nothing /\ Fail(failure)) \/ Goto("cluster")
    BY <1>1 DEF clustered_begin
  <2> HIDE DEF failure
  <2> QED
    BY <2>1, <2>2, <2>3 DEF ClusterPhases
<1>2. CASE solve_one_cluster
  <2>1. pc \in ClusterPhases /\ UNCHANGED annealVars
    BY <1>2 DEF solve_one_cluster, At, ClusterPhases, Unclustered
  <2>2. Fail(Cancelled) \/ Fail(NoFeasibleRoute) \/ Goto("cluster")
    BY <1>2 DEF solve_one_cluster
  <2> QED
    BY <2>1, <2>2, Errors DEF ClusterPhases
<1>3. CASE merge_clusters
  <2>1. pc \in ClusterPhases /\ UNCHANGED annealVars
    BY <1>3 DEF merge_clusters, At, ClusterPhases, Unclustered
  <2>2. Fail(Cancelled) \/ (\E outcome : ~ outcome.ok /\ Fail(outcome)) \/ Goto("improve")
    BY <1>3 DEF merge_clusters
  <2> QED
    BY <2>1, <2>2, Errors DEF ClusterPhases
<1>4. CASE improve_boundary
  <2>1. pc \in ClusterPhases /\ UNCHANGED annealVars
    BY <1>4 DEF improve_boundary, At, ClusterPhases, Unclustered
  <2>2. Fail(Cancelled) \/ Goto("improve")
    BY <1>4 DEF improve_boundary
  <2> QED
    BY <2>1, <2>2, Errors DEF ClusterPhases
<1>5. CASE verify_clustered
  <2> DEFINE m == evaluate_solution(problem, route)
  <2>1. pc \in ClusterPhases /\ UNCHANGED annealVars
    BY <1>5 DEF verify_clustered, At, ClusterPhases, Unclustered
  <2>2. Fail(Cancelled) \/ (m.ok /\ Deliver(Found(route, m))) \/ (~ m.ok /\ Fail(m))
    BY <1>5 DEF verify_clustered
  <2>3. m.ok => IsFound(problem, Found(route, m)) /\ Found(route, m).ok
    BY FoundAgain
  <2> HIDE DEF m
  <2> QED
    BY <2>1, <2>2, <2>3, Errors
<1> QED
  BY <1>1, <1>2, <1>3, <1>4, <1>5

LEMMA ClusterHolds ==
  ASSUME SearchHeld,
         clustered_begin \/ solve_one_cluster \/ merge_clusters \/ improve_boundary \/ verify_clustered
  PROVE  SearchHeld'
<1>1. /\ pc \in ClusterPhases /\ UNCHANGED annealVars
      /\ \/ \E step \in ClusterPhases : Goto(step)
         \/ \E outcome : ~ outcome.ok /\ Fail(outcome)
         \/ \E found : found.ok /\ IsFound(problem, found) /\ Deliver(found)
  BY ClusterSteps
<1>2. /\ pc \notin Searching \union {"done"} /\ solver \in {"clustered", "annealing"}
  BY <1>1 DEF SearchHeld, CallHeld, ExactPhases, ClusterPhases, Searching
<1>3. problem' = problem /\ solver' = solver
  BY <1>1 DEF Goto, Fail, Deliver, Answer, callVars
<1>4. \/ pc' \in ClusterPhases
      \/ solver = "annealing" /\ pc' \in InitialPhases
      \/ pc' = "done" /\ ~ result'.ok
      \/ pc' = "done" /\ solver # "annealing" /\ IsFound(problem, result')
  BY <1>1 DEF Goto, Fail, Deliver, Answer, InitialPhases
<1>5. pc' \notin Searching
  BY <1>4 DEF ClusterPhases, InitialPhases, Searching
<1>6. pc' = "done" /\ result'.ok => solver # "annealing" /\ IsFound(problem, result')
  BY <1>4 DEF ClusterPhases, InitialPhases
<1>7. BestHeld' /\ AnswerHeld'
  BY <1>1, <1>2, <1>3, <1>5, <1>6, EarlyHolds
<1>8. CallHeld'
  BY <1>2, <1>3, <1>4 DEF SearchHeld, CallHeld
<1> QED
  BY <1>7, <1>8 DEF SearchHeld

LEMMA GenerateHolds ==
  ASSUME SearchHeld, generate \/ generate_mst \/ generate_greedy
  PROVE  SearchHeld'
<1>1. pc \in InitialPhases /\ UNCHANGED annealVars
  BY DEF generate, generate_mst, generate_greedy, At, InitialPhases, Unsearched
<1>2. pc \notin Searching \union {"done"} /\ solver = "annealing"
  BY <1>1 DEF SearchHeld, CallHeld, ExactPhases, ClusterPhases, InitialPhases, Searching
<1>3. /\ \/ \E step \in ClusterPhases \union InitialPhases : Goto(step)
         \/ \E outcome : ~ outcome.ok /\ Answer(outcome)
  <2>1. CASE generate
    <3>1. \/ Answer(Cancelled) \/ Goto("clustered")
          \/ \E g \in Generated(start) : IF g.ok THEN Goto("initial") ELSE Answer(g)
      BY <2>1 DEF generate
    <3> QED
      BY <3>1, Errors DEF ClusterPhases, InitialPhases
  <2>2. CASE generate_mst
    <3>1. Answer(Cancelled) \/ Goto("initial") \/ Goto("generate_greedy")
      BY <2>2 DEF generate_mst
    <3> QED
      BY <3>1, Errors DEF InitialPhases
  <2>3. CASE generate_greedy
    <3>1. Answer(Cancelled) \/ Goto("initial")
      BY <2>3 DEF generate_greedy
    <3> QED
      BY <3>1, Errors DEF InitialPhases
  <2> QED
    BY <2>1, <2>2, <2>3
<1>4. problem' = problem /\ solver' = solver
  BY <1>3 DEF Goto, Answer, callVars
<1>5. \/ pc' \in ClusterPhases \union InitialPhases
      \/ pc' = "done" /\ ~ result'.ok
  BY <1>3 DEF Goto, Answer
<1>6. pc' \notin Searching /\ ~ (pc' = "done" /\ result'.ok)
  BY <1>5 DEF ClusterPhases, InitialPhases, Searching
<1>7. BestHeld' /\ AnswerHeld'
  BY <1>1, <1>2, <1>4, <1>6, EarlyHolds
<1>8. CallHeld'
  BY <1>2, <1>4, <1>5 DEF SearchHeld, CallHeld
<1> QED
  BY <1>7, <1>8 DEF SearchHeld

(* Accepting a route: the best one stays at least as good as all it was. *)
LEMMA BestImproves ==
  ASSUME NEW p, IsProblem(p), NEW x, IsFound(p, x), NEW y, IsFound(p, y), y.ok,
         x.ok => y = x \/ Better(p, y.metrics, x.metrics),
         NEW m \in MetricsOf, x.ok, ~ Better(p, m, x.metrics)
  PROVE  ~ Better(p, m, y.metrics)
<1>1. x.metrics \in MetricsOf /\ y.metrics \in MetricsOf
  BY FoundFacts
<1>2. CASE y = x
  BY <1>2
<1>3. CASE Better(p, y.metrics, x.metrics)
  <2>1. ~ Better(p, x.metrics, y.metrics)
    BY <1>1, <1>3, BetterOrders
  <2> QED
    BY <1>1, <2>1, BetterOrders
<1> QED
  BY <1>2, <1>3

LEMMA InitialHolds ==
  ASSUME SearchHeld, evaluate_initial
  PROVE  SearchHeld'
<1>1. IsProblem(problem) /\ pc = "initial" /\ solver = "annealing"
  BY RouteSearchAssumption DEF SearchHeld, CallHeld, evaluate_initial, At, ExactPhases, ClusterPhases
<1>2. CASE Answer(Cancelled) /\ UNCHANGED <<routeVars, energy, best, initial>>
  <2>1. /\ UNCHANGED annealVars /\ problem' = problem /\ solver' = solver /\ pc' = "done"
        /\ result' = Cancelled
    BY <1>2 DEF evaluate_initial, annealVars, Answer, callVars
  <2>2. pc \notin Searching \union {"done"} /\ pc' \notin Searching /\ ~ result'.ok
    BY <1>1, <2>1, Errors DEF Searching
  <2>3. BestHeld' /\ AnswerHeld'
    BY <2>1, <2>2, EarlyHolds
  <2>4. CallHeld'
    BY <1>1, <2>1 DEF SearchHeld, CallHeld
  <2> QED
    BY <2>3, <2>4 DEF SearchHeld
<1>3. ASSUME NEW r, is_structurally_valid_initial_solution(problem, r) \/ \E g \in random(problem) : r = g.route,
             NEW n \in Evaluations(r),
             LET e == evaluate_solution_with_penalties(problem, r, n.metrics)
             IN  /\ cancelled' = n.cancelled
                 /\ pc' = "loop"
                 /\ UNCHANGED <<callVars, result>>
                 /\ route' = r
                 /\ best' = FoundBy(r, e)
                 /\ initial' = FoundBy(r, e)
      PROVE  SearchHeld'
  <2> DEFINE e == evaluate_solution_with_penalties(problem, r, n.metrics)
             m == evaluate_solution(problem, r)
  <2>1. validate_visit_order(problem, r)
    BY <1>1, <1>3, InitialIsValid
  <2>2. /\ n.metrics = m \/ n.metrics = Cancelled
        /\ ~ n.cancelled => n.metrics = m
    BY DEF Evaluations
  <2>3. /\ e.metrics.ok => e.metrics = m
        /\ n.metrics = m => (e.metrics.ok <=> m.ok)
    BY <1>1, <2>1, <2>2, PenalisedMetrics
  <2>4. /\ problem' = problem /\ solver' = solver /\ pc' = "loop" /\ route' = r
        /\ cancelled' = n.cancelled /\ best' = FoundBy(r, e) /\ initial' = FoundBy(r, e)
    BY <1>3 DEF callVars
  <2>5. ~ interrupted'
    BY <1>1 DEF evaluate_initial, SearchHeld, BestHeld
  <2>6. m.ok => m \in MetricsOf
    BY <1>1, <2>1, EvaluationMeans
  <2> HIDE DEF e, m
  <2>7. \/ ~ e.metrics.ok /\ best' = Nothing /\ initial' = Nothing
        \/ /\ e.metrics.ok /\ m.ok /\ best' = Found(r, m) /\ initial' = Found(r, m)
    BY <2>3, <2>4 DEF FoundBy
  <2>8. m.ok => IsFound(problem, Found(r, m)) /\ Found(r, m).ok /\ Found(r, m).metrics = m
    BY FoundAgain DEF m
  <2>9. m.ok => ~ Better(problem, m, m)
    BY <1>1, <2>6, BetterOrders
  <2>10. IsFound(problem, Nothing)
    BY DEF IsFound
  <2>11. ~ cancelled' /\ m.ok => e.metrics.ok
    BY <2>2, <2>3, <2>4
  <2>12. BestHeld'
    BY <2>1, <2>4, <2>5, <2>7, <2>8, <2>9, <2>10, <2>11, Errors DEF BestHeld, Searching, m
  <2>13. AnswerHeld'
    BY <2>4 DEF AnswerHeld
  <2>14. CallHeld'
    BY <1>1, <2>4 DEF SearchHeld, CallHeld, Searching
  <2> QED
    BY <2>12, <2>13, <2>14 DEF SearchHeld
<1>4. CASE ~ cancelled
  <2>1. PICK r \in IF is_structurally_valid_initial_solution(problem, route) THEN {route}
                   ELSE {g.route : g \in random(problem)} :
            \E n \in Evaluations(r) :
              LET e == evaluate_solution_with_penalties(problem, r, n.metrics)
              IN  /\ cancelled' = n.cancelled
                  /\ pc' = "loop"
                  /\ UNCHANGED <<callVars, result>>
                  /\ route' = r
                  /\ best' = FoundBy(r, e)
                  /\ initial' = FoundBy(r, e)
    BY <1>4 DEF evaluate_initial
  <2>2. is_structurally_valid_initial_solution(problem, r) \/ \E g \in random(problem) : r = g.route
    BY <2>1
  <2> QED
    BY <1>3, <2>1, <2>2
<1>5. CASE cancelled
  BY <1>2, <1>5 DEF evaluate_initial
<1> QED
  BY <1>4, <1>5

LEMMA AnnealHolds ==
  ASSUME SearchHeld, anneal
  PROVE  SearchHeld'
<1>1. IsProblem(problem) /\ pc = "loop" /\ ~ cancelled /\ solver = "annealing" /\ ~ interrupted
  BY RouteSearchAssumption
     DEF SearchHeld, CallHeld, BestHeld, anneal, InLoop, At, ExactPhases, ClusterPhases
<1>2. PICK r \in Neighbours(problem, route) : \E n \in Evaluations(r) :
        /\ cancelled' = n.cancelled
        /\ consider_candidate(r, evaluate_solution_with_penalties(problem, r, n.metrics))
  BY DEF anneal
<1>3. PICK n \in Evaluations(r) :
        /\ cancelled' = n.cancelled
        /\ consider_candidate(r, evaluate_solution_with_penalties(problem, r, n.metrics))
  BY <1>2
<1> DEFINE e == evaluate_solution_with_penalties(problem, r, n.metrics)
           m == evaluate_solution(problem, r)
           old == evaluate_solution(problem, route)
<1>4. validate_visit_order(problem, route) /\ validate_visit_order(problem, r)
  BY <1>1, NeighboursAreValid DEF SearchHeld, BestHeld, Searching
<1>5. /\ n.metrics = m \/ n.metrics = Cancelled
      /\ ~ n.cancelled => n.metrics = m
  BY DEF Evaluations
<1>6. /\ e.metrics.ok => e.metrics = m
      /\ n.metrics = m => (e.metrics.ok <=> m.ok)
  BY <1>1, <1>4, <1>5, PenalisedMetrics
<1>7. (m.ok => m \in MetricsOf) /\ (old.ok => old \in MetricsOf)
  BY <1>1, <1>4, EvaluationMeans
<1>8. m.ok => IsFound(problem, Found(r, m)) /\ Found(r, m).ok /\ Found(r, m).metrics = m
  BY FoundAgain
<1>9. /\ best' = IF e.metrics.ok /\ (best.ok => Better(problem, e.metrics, best.metrics))
                 THEN Found(r, e.metrics) ELSE best
      /\ route' \in {r, route}
  BY <1>3 DEF consider_candidate, routeVars
<1>10. /\ problem' = problem /\ solver' = solver /\ pc' = pc /\ initial' = initial
       /\ interrupted' = interrupted /\ cancelled' = n.cancelled
  BY <1>3 DEF anneal, callVars
<1>11. /\ IsFound(problem, best) /\ IsFound(problem, initial)
       /\ initial.ok => best.ok /\ ~ Better(problem, initial.metrics, best.metrics)
       /\ old.ok => best.ok /\ ~ Better(problem, old, best.metrics)
  BY <1>1 DEF SearchHeld, BestHeld, Searching
<1>12. initial.ok => initial.metrics \in MetricsOf
  BY <1>1, <1>11, FoundFacts
<1> HIDE DEF e, m, old
<1>13. \/ best' = best /\ ~ (e.metrics.ok /\ (best.ok => Better(problem, m, best.metrics)))
       \/ m.ok /\ best' = Found(r, m) /\ (best.ok => Better(problem, m, best.metrics))
  BY <1>6, <1>9
<1>14. /\ IsFound(problem, best') /\ (best.ok => best'.ok)
       /\ best.ok => best' = best \/ Better(problem, best'.metrics, best.metrics)
  BY <1>8, <1>11, <1>13
<1>15. \A x \in MetricsOf : best.ok /\ ~ Better(problem, x, best.metrics) => ~ Better(problem, x, best'.metrics)
  BY <1>1, <1>11, <1>14, BestImproves
<1>16. ~ cancelled' /\ m.ok => best'.ok /\ ~ Better(problem, m, best'.metrics)
  <2> SUFFICES ASSUME ~ cancelled', m.ok PROVE best'.ok /\ ~ Better(problem, m, best'.metrics)
    OBVIOUS
  <2>1. e.metrics.ok
    BY <1>5, <1>6, <1>10
  <2>2. CASE best' = Found(r, m)
    BY <1>1, <1>7, <1>8, <2>2, BetterOrders
  <2>3. CASE best' = best /\ best.ok /\ ~ Better(problem, m, best.metrics)
    BY <2>3
  <2> QED
    BY <1>13, <2>1, <2>2, <2>3
<1>17. old.ok => best'.ok /\ ~ Better(problem, old, best'.metrics)
  BY <1>7, <1>11, <1>14, <1>15
<1>18. initial.ok => best'.ok /\ ~ Better(problem, initial.metrics, best'.metrics)
  BY <1>11, <1>12, <1>14, <1>15
<1>19. evaluate_solution(problem, route') = m \/ evaluate_solution(problem, route') = old
  BY <1>9 DEF m, old
<1>20. validate_visit_order(problem, route')
  BY <1>4, <1>9
<1>21. ~ cancelled' /\ evaluate_solution(problem, route').ok =>
         best'.ok /\ ~ Better(problem, evaluate_solution(problem, route'), best'.metrics)
  BY <1>16, <1>17, <1>19
<1>22. BestHeld'
  BY <1>1, <1>10, <1>11, <1>14, <1>18, <1>20, <1>21 DEF BestHeld, Searching
<1>23. AnswerHeld'
  BY <1>1, <1>10 DEF AnswerHeld
<1>24. CallHeld'
  BY <1>10 DEF SearchHeld, CallHeld
<1> QED
  BY <1>22, <1>23, <1>24 DEF SearchHeld

LEMMA FinishHolds ==
  ASSUME SearchHeld, leave_loop \/ finish \/ verify
  PROVE  SearchHeld'
<1>1. IsProblem(problem) /\ pc \in Searching /\ solver = "annealing"
  BY RouteSearchAssumption
     DEF SearchHeld, CallHeld, leave_loop, finish, verify, At, ExactPhases, ClusterPhases, Searching
<1>2. /\ problem' = problem /\ solver' = solver /\ cancelled' = cancelled
      /\ route' = route /\ best' = best /\ initial' = initial
  BY DEF leave_loop, finish, verify, Goto, Answer, callVars, routeVars, annealVars
<1>3. CASE leave_loop
  <2>1. pc = "loop" /\ pc' = "finish"
    BY <1>3 DEF leave_loop, At, Goto
  <2>2. BestHeld'
    BY <1>2, <2>1 DEF SearchHeld, BestHeld, Searching
  <2>3. AnswerHeld' /\ CallHeld'
    BY <1>1, <1>2, <2>1 DEF AnswerHeld, SearchHeld, CallHeld, Searching
  <2> QED
    BY <2>2, <2>3 DEF SearchHeld
<1>4. CASE finish
  <2>1. pc = "finish" /\ interrupted' = interrupted
    BY <1>4 DEF finish, At, annealVars
  <2>2. \/ pc' = "done" /\ ~ best.ok /\ result' = NoFeasibleRoute
        \/ pc' = "done" /\ best.ok /\ result' = best
        \/ pc' = "verify" /\ best.ok /\ ~ interrupted
    BY <1>4 DEF finish, Answer, Goto
  <2>3. BestHeld'
    BY <1>2, <2>1, <2>2 DEF SearchHeld, BestHeld, Searching
  <2>4. AnswerHeld'
    BY <1>2, <2>1, <2>2, Errors DEF AnswerHeld, SearchHeld, BestHeld
  <2>5. CallHeld'
    BY <1>1, <1>2, <2>2 DEF SearchHeld, CallHeld, Searching
  <2> QED
    BY <2>3, <2>4, <2>5 DEF SearchHeld
<1>5. CASE verify
  <2>1. pc = "verify" /\ interrupted' = interrupted /\ pc' = "done" /\ ~ interrupted /\ best.ok
    BY <1>5 DEF verify, At, annealVars, Answer, SearchHeld, BestHeld
  <2>2. /\ IsFound(problem, best) /\ evaluate_solution(problem, best.route).ok
        /\ best = Found(best.route, evaluate_solution(problem, best.route))
    BY <1>1, <2>1, FoundFacts DEF SearchHeld, BestHeld
  <2>3. result' = Cancelled \/ result' = best
    BY <1>5, <2>2 DEF verify, Answer
  <2>4. BestHeld'
    BY <1>2, <2>1 DEF SearchHeld, BestHeld, Searching
  <2>5. AnswerHeld'
    BY <1>2, <2>1, <2>2, <2>3, Errors DEF AnswerHeld
  <2>6. CallHeld'
    BY <1>1, <1>2, <2>1 DEF SearchHeld, CallHeld
  <2> QED
    BY <2>4, <2>5, <2>6 DEF SearchHeld
<1> QED
  BY <1>3, <1>4, <1>5

LEMMA SearchStays ==
  ASSUME SearchHeld, cancel \/ UNCHANGED vars
  PROVE  SearchHeld'
<1>1. CASE cancel
  <2>1. /\ problem' = problem /\ solver' = solver /\ pc' = pc /\ route' = route /\ best' = best
        /\ initial' = initial /\ interrupted' = interrupted /\ result' = result /\ cancelled' = TRUE
    BY <1>1 DEF cancel, callVars, routeVars, annealVars
  <2> QED
    BY <2>1 DEF SearchHeld, CallHeld, BestHeld, AnswerHeld
<1>2. CASE UNCHANGED vars
  <2>1. /\ problem' = problem /\ solver' = solver /\ pc' = pc /\ route' = route /\ best' = best
        /\ initial' = initial /\ interrupted' = interrupted /\ result' = result
        /\ cancelled' = cancelled
    BY <1>2 DEF vars, callVars, routeVars, annealVars
  <2> QED
    BY <2>1 DEF SearchHeld, CallHeld, BestHeld, AnswerHeld
<1> QED
  BY <1>1, <1>2

(* What every state of a call holds: the call is in a phase of its solver, *)
(* the best route is one that evaluates to its metrics and nothing the     *)
(* annealing search has seen is better, and the answer is that best route  *)
(* or the failure the phase allows.                                        *)
THEOREM SearchIsSound == Spec => []SearchHeld
<1>1. Init => SearchHeld
  <2> SUFFICES ASSUME Init PROVE SearchHeld
    OBVIOUS
  <2>1. IsFound(problem, best) /\ IsFound(problem, initial) /\ ~ best.ok /\ ~ initial.ok
    BY Errors DEF Init, IsFound
  <2>2. /\ \/ solver = "exact" /\ pc = "exact"
           \/ solver = "clustered" /\ pc = "clustered"
           \/ solver = "annealing" /\ pc = "generate"
    BY DEF Init
  <2>3. BestHeld
    BY <2>1, <2>2 DEF Init, BestHeld, Searching
  <2> QED
    BY <2>2, <2>3
       DEF Init, SearchHeld, CallHeld, AnswerHeld, ExactPhases, ClusterPhases, InitialPhases
<1>2. SearchHeld /\ [Next]_vars => SearchHeld'
  BY ExactHolds, ClusterHolds, GenerateHolds, InitialHolds, AnnealHolds, FinishHolds, SearchStays
     DEF Next, Step, Finished
<1> QED
  BY <1>1, <1>2, PTL DEF Spec

(* Nothing better than the answer is dropped: not by the annealing loop    *)
(* (AnnealingSolver::solve), whose best route no route it accepted         *)
(* outranks and whose penalties agree with the objective about what can be *)
(* driven, and not by an interruption, which still answers with that best  *)
(* route.                                                                  *)
THEOREM NothingDropped == Spec => []NothingBetterIsDropped
<1>1. SearchHeld => NothingBetterIsDropped
  <2> SUFFICES ASSUME SearchHeld PROVE NothingBetterIsDropped
    OBVIOUS
  <2>1. IsProblem(problem)
    BY RouteSearchAssumption DEF SearchHeld, CallHeld
  <2>2. BestIsKept
    BY <2>1, PenaltiesAgree DEF SearchHeld, BestHeld, BestIsKept, Searching
  <2>3. InterruptedKeepsItsBest
    BY DEF SearchHeld, BestHeld, AnswerHeld, InterruptedKeepsItsBest
  <2> QED
    BY <2>2, <2>3 DEF NothingBetterIsDropped
<1> QED
  BY <1>1, SearchIsSound, PTL

-----------------------------------------------------------------------------
(* The exact search: what a cell keeps of its states. *)

(* All that dominance compares. *)
Clocks(s) == s.time \in Nat /\ s.travel \in Nat /\ s.wait \in Nat

LEMMA DominanceOrders ==
  ASSUME NEW a, NEW b, NEW c, Clocks(a), Clocks(b), Clocks(c)
  PROVE  /\ dominates(a, a)
         /\ dominates(a, b) /\ dominates(b, c) => dominates(a, c)
BY DEF Clocks, dominates

(* A visit keeps the dominance of the states it extends. *)
LEMMA DominanceExtends ==
  ASSUME NEW p, IsProblem(p), NEW a \in SimulatedStates(p), NEW b \in SimulatedStates(p),
         a.at = b.at, a.time # None, dominates(a, b),
         NEW to \in Locations(p), SimulatedLeg(p, b, to).time # None
  PROVE  SimulatedLeg(p, a, to).time # None /\ dominates(SimulatedLeg(p, a, to), SimulatedLeg(p, b, to))
<1> DEFINE d == p.travel[b.at][to]
           x == a.time + d
           y == b.time + d
<1>1. /\ a.time \in Nat /\ b.time \in Nat \union {None} /\ a.at \in Locations(p) /\ b.at \in Locations(p)
      /\ a.travel \in Nat /\ b.travel \in Nat /\ a.wait \in Nat /\ b.wait \in Nat
  BY DEF SimulatedStates
<1>2. /\ d \in Nat \union {None} /\ b.time # None /\ d # None /\ InTime(p, to, Finish(p, to, y))
      /\ SimulatedLeg(p, b, to) = [at |-> to, time |-> Finish(p, to, y), travel |-> b.travel + d,
                                   wait |-> b.wait + (ServiceStart(p, to, y) - y)]
  <2>1. d \in Nat \union {None}
    BY <1>1 DEF IsProblem
  <2>2. b.time # None /\ d # None /\ InTime(p, to, Finish(p, to, y))
    BY DEF SimulatedLeg
  <2> QED
    BY <2>1, <2>2 DEF SimulatedLeg
<1>3. d \in Nat /\ b.time \in Nat /\ a.time <= b.time /\ x \in Nat /\ y \in Nat /\ x <= y
  BY <1>1, <1>2 DEF dominates
<1>4. /\ p.open[to] \in Nat /\ p.close[to] \in Nat /\ p.stay[to] \in Nat /\ MinutesPerDay \in Nat
  BY MinutesPerDayAssumption DEF IsProblem
<1>5. /\ Finish(p, to, x) \in Nat /\ Finish(p, to, y) \in Nat /\ Finish(p, to, x) <= Finish(p, to, y)
      /\ ServiceStart(p, to, x) \in Nat /\ ServiceStart(p, to, y) \in Nat
      /\ Finish(p, to, x) = ServiceStart(p, to, x) + p.stay[to]
      /\ Finish(p, to, y) = ServiceStart(p, to, y) + p.stay[to]
  BY <1>3, VisitTypes DEF Finish
<1>6. InTime(p, to, Finish(p, to, x))
  BY <1>2, <1>4, <1>5 DEF InTime
<1>7. SimulatedLeg(p, a, to) = [at |-> to, time |-> Finish(p, to, x), travel |-> a.travel + d,
                                wait |-> a.wait + (ServiceStart(p, to, x) - x)]
  BY <1>2, <1>6 DEF SimulatedLeg
<1>8. a.travel < b.travel \/ (a.travel = b.travel /\ a.wait + (b.time - a.time) <= b.wait)
  BY DEF dominates
<1>9. y - x = b.time - a.time
  BY <1>1, <1>3
<1> DEFINE fx == Finish(p, to, x)
           fy == Finish(p, to, y)
           sx == ServiceStart(p, to, x)
           sy == ServiceStart(p, to, y)
<1>10. fy - fx = sy - sx
  <2> HIDE DEF x, y
  <2> QED
    BY <1>4, <1>5
<1>11. \/ a.travel + d < b.travel + d
       \/ a.travel + d = b.travel + d /\ (a.wait + (sx - x)) + (fy - fx) <= b.wait + (sy - y)
  <2> HIDE DEF x, y, d, fx, fy, sx, sy
  <2>1. sx \in Nat /\ sy \in Nat /\ fx \in Nat /\ fy \in Nat
    BY <1>5 DEF fx, fy, sx, sy
  <2> QED
    BY <1>1, <1>3, <1>8, <1>9, <1>10, <2>1
<1>12. fx # None
  BY <1>5 DEF None
<1> HIDE DEF x, y, d, fx, fy, sx, sy
<1> QED
  BY <1>2, <1>5, <1>7, <1>11, <1>12 DEF dominates, fx, fy, sx, sy

ExactStates(p) ==
  [time : Nat, travel : Nat, wait : Nat, route : {r \in Seq(Locations(p)) : Len(r) >= 1}]

(* A frontier holds a state at least as good as any that was offered. *)
LEMMA FrontierKeeps ==
  ASSUME NEW offered, NEW x \in offered,
         \A s \in offered : Clocks(s) /\ s.route[Len(s.route) - 1] \in Nat
  PROVE  \E y \in Frontier(offered) : dominates(y, x)
<1> DEFINE before(s) == s.route[Len(s.route) - 1]
           minimal == {s \in offered : \A t \in offered : dominates(t, s) => dominates(s, t)}
           A == {s \in offered : dominates(s, x)}
<1>1. \A a, b, c \in offered : dominates(a, a) /\ (dominates(a, b) /\ dominates(b, c) => dominates(a, c))
  BY DominanceOrders
<1>2. x \in A /\ A \subseteq offered
  BY <1>1
<1>3. PICK a \in A : \A s \in A : a.time <= s.time
  <2> DEFINE N == {s.time : s \in A}
  <2>1. N \subseteq Nat /\ N # {}
    BY <1>2 DEF Clocks
  <2> HIDE DEF N
  <2>2. PICK m \in N : \A v \in N : m <= v
    BY <2>1, LeastNumber
  <2> QED
    BY <2>2 DEF N
<1>4. PICK b \in A : /\ b.time = a.time
                     /\ \A s \in A : s.time = a.time => b.travel <= s.travel
  <2> DEFINE N == {s.travel : s \in {u \in A : u.time = a.time}}
  <2>1. N \subseteq Nat /\ N # {}
    BY <1>2, <1>3 DEF Clocks
  <2>2. \A s \in A : s.time = a.time => s.travel \in N
    OBVIOUS
  <2> HIDE DEF N
  <2>3. PICK m \in N : \A v \in N : m <= v
    BY <2>1, LeastNumber
  <2> QED
    BY <2>2, <2>3 DEF N
<1>5. PICK y \in A : /\ y.time = b.time /\ y.travel = b.travel
                     /\ \A s \in A : s.time = b.time /\ s.travel = b.travel => y.wait <= s.wait
  <2> DEFINE N == {s.wait : s \in {u \in A : u.time = b.time /\ u.travel = b.travel}}
  <2>1. N \subseteq Nat /\ N # {}
    BY <1>2, <1>4 DEF Clocks
  <2>2. \A s \in A : s.time = b.time /\ s.travel = b.travel => s.wait \in N
    OBVIOUS
  <2> HIDE DEF N
  <2>3. PICK m \in N : \A v \in N : m <= v
    BY <2>1, LeastNumber
  <2> QED
    BY <2>2, <2>3 DEF N
<1>6. y \in minimal
  <2> SUFFICES ASSUME NEW t \in offered, dominates(t, y) PROVE dominates(y, t)
    OBVIOUS
  <2>1. t \in A
    BY <1>1
  <2>2. Clocks(t) /\ Clocks(y)
    OBVIOUS
  <2>3. t.time <= y.time /\ t.travel <= y.travel
    BY <2>2 DEF dominates, Clocks
  <2>4. a.time <= t.time /\ y.time = a.time
    BY <1>3, <1>4, <1>5, <2>1
  <2>5. t.time = y.time
    BY <2>2, <2>3, <2>4 DEF Clocks
  <2>6. b.travel <= t.travel
    BY <1>4, <2>1, <2>4, <2>5
  <2>7. t.travel = y.travel
    BY <1>5, <2>2, <2>3, <2>6 DEF Clocks
  <2>8. y.wait <= t.wait
    BY <1>4, <1>5, <2>1, <2>5, <2>7
  <2> QED
    BY <2>2, <2>5, <2>7, <2>8 DEF dominates, Clocks
<1> DEFINE B == {t \in minimal : dominates(t, y)}
<1>7. PICK z \in B : \A t \in B : before(z) <= before(t)
  <2> DEFINE N == {before(s) : s \in B}
  <2>1. N \subseteq Nat /\ N # {}
    BY <1>1, <1>6
  <2> HIDE DEF N
  <2>2. PICK m \in N : \A v \in N : m <= v
    BY <2>1, LeastNumber
  <2> QED
    BY <2>2 DEF N
<1>8. \A t \in minimal : dominates(t, z) => before(z) <= before(t)
  BY <1>1, <1>7
<1>9. z \in Frontier(offered)
  BY <1>7, <1>8 DEF Frontier
<1>10. dominates(z, x)
  BY <1>1, <1>2, <1>7
<1> QED
  BY <1>9, <1>10

(* The visit a partial route has reached. *)
Visit(s) == [at |-> Last(s.route), time |-> s.time, travel |-> s.travel, wait |-> s.wait]

LEMMA TransitionMeans ==
  ASSUME NEW p, IsProblem(p), NEW s \in ExactStates(p), NEW to \in Locations(p)
  PROVE  LET leg == SimulatedLeg(p, Visit(s), to)
         IN  /\ Visit(s) \in SimulatedStates(p)
             /\ leg \in SimulatedStates(p) /\ leg.at = to
             /\ leg.time # None => transition(p, s, to) # {}
             /\ \A x \in transition(p, s, to) :
                  /\ x \in ExactStates(p) /\ x.route = Append(s.route, to)
                  /\ Visit(x) = leg /\ x.time # None
<1> DEFINE leg == SimulatedLeg(p, Visit(s), to)
           from == Last(s.route)
           arrival == s.time + p.travel[from][to]
           f == Finish(p, to, arrival)
<1>1. /\ s.time \in Nat /\ s.travel \in Nat /\ s.wait \in Nat /\ s.route \in Seq(Locations(p))
      /\ Len(s.route) >= 1 /\ from \in Locations(p)
  BY DEF ExactStates, Last
<1>2. Visit(s) \in SimulatedStates(p)
  BY <1>1 DEF SimulatedStates, Visit
<1>3. leg \in SimulatedStates(p)
  BY <1>2, SimulatedLegType
<1>4. p.travel[from][to] \in Nat \union {None} /\ s.time # None
  BY <1>1 DEF IsProblem, None
<1>5. p.travel[from][to] # None => f # None
  <2>1. p.travel[from][to] # None => arrival \in Nat
    BY <1>1, <1>4
  <2>2. p.travel[from][to] # None => f \in Nat
    BY <2>1, VisitTypes
  <2> QED
    BY <2>2 DEF None
<1>6. Visit(s).at = from /\ Visit(s).time = s.time /\ Visit(s).travel = s.travel /\ Visit(s).wait = s.wait
  BY DEF Visit
<1>7. CASE p.travel[from][to] = None \/ ~ InTime(p, to, f)
  <2>1. transition(p, s, to) = {}
    BY <1>7 DEF transition
  <2>2. leg = [Visit(s) EXCEPT !.time = None, !.at = to]
    BY <1>6, <1>7 DEF SimulatedLeg
  <2>3. leg.time = None /\ leg.at = to
    BY <2>2 DEF Visit
  <2> HIDE DEF leg
  <2> QED
    BY <1>2, <1>3, <2>1, <2>3 DEF leg
<1>8. CASE p.travel[from][to] # None /\ InTime(p, to, f)
  <2>1. leg = [at |-> to, time |-> f, travel |-> s.travel + p.travel[from][to],
               wait |-> s.wait + (ServiceStart(p, to, arrival) - arrival)]
    BY <1>4, <1>6, <1>8 DEF SimulatedLeg
  <2>2. transition(p, s, to) = {[time |-> f, travel |-> s.travel + p.travel[from][to],
             wait |-> s.wait + (ServiceStart(p, to, arrival) - arrival),
             route |-> Append(s.route, to)]}
    BY <1>8 DEF transition
  <2>3. leg.time # None /\ leg.at = to
    BY <1>5, <1>8, <2>1
  <2>4. transition(p, s, to) = {[time |-> leg.time, travel |-> leg.travel, wait |-> leg.wait,
                                 route |-> Append(s.route, to)]}
    BY <2>1, <2>2
  <2> HIDE DEF leg
  <2>5. /\ leg.time \in Nat /\ leg.travel \in Nat /\ leg.wait \in Nat
        /\ leg = [at |-> to, time |-> leg.time, travel |-> leg.travel, wait |-> leg.wait]
    BY <1>3, <2>3 DEF SimulatedStates
  <2>6. /\ Append(s.route, to) \in Seq(Locations(p)) /\ Len(Append(s.route, to)) >= 1
        /\ Last(Append(s.route, to)) = to
    BY <1>1 DEF Last
  <2> DEFINE x == [time |-> leg.time, travel |-> leg.travel, wait |-> leg.wait, route |-> Append(s.route, to)]
  <2>7. x \in ExactStates(p)
    BY <2>5, <2>6 DEF ExactStates
  <2>8. Visit(x) = leg
    BY <2>5, <2>6 DEF Visit
  <2>9. x.route = Append(s.route, to) /\ x.time # None
    BY <2>3
  <2> HIDE DEF x
  <2> QED
    BY <1>2, <1>3, <2>3, <2>4, <2>7, <2>8, <2>9 DEF leg, x
<1> QED
  BY <1>7, <1>8

(* How the search fills its cells. *)
Filled(p, t, f) ==
  \A c \in Cells(p) :
    f[c] = IF c = <<{0}, 0>>
           THEN {[time |-> initial_service(p, t).departure, travel |-> 0,
                  wait |-> initial_service(p, t).wait, route |-> << 0 >>]}
           ELSE Frontier(Offered(p, c, [l \in Locations(p) |-> f[<<c[1] \ {c[2]}, l>>]]))

LEMMA CellRanks ==
  ASSUME NEW p, IsProblem(p)
  PROVE  LET w == [c \in Cells(p) |-> Cardinality(c[1])]
         IN  /\ w \in [Cells(p) -> Nat]
             /\ \A c \in Cells(p) : c[2] \in c[1] =>
                  \A l \in Locations(p) : <<c[1] \ {c[2]}, l>> \in Below(Cells(p), w, c)
<1> DEFINE w == [c \in Cells(p) |-> Cardinality(c[1])]
<1>1. IsFiniteSet(Locations(p))
  BY FS_Interval DEF IsProblem, Locations
<1>2. \A s \in SUBSET Locations(p) :
        Cardinality(s) \in Nat /\ \A x \in s : Cardinality(s \ {x}) = Cardinality(s) - 1
  BY <1>1, FS_Subset, FS_CardinalityType, FS_RemoveElement
<1>3. \A c \in Cells(p) : c[1] \in SUBSET Locations(p) /\ c[2] \in Locations(p)
  BY DEF Cells
<1>4. \A c \in Cells(p) : Cardinality(c[1]) \in Nat
  BY <1>2, <1>3
<1>5. ASSUME NEW c \in Cells(p), c[2] \in c[1], NEW l \in Locations(p)
      PROVE  <<c[1] \ {c[2]}, l>> \in Below(Cells(p), w, c)
  <2>1. <<c[1] \ {c[2]}, l>> \in Cells(p)
    BY <1>3 DEF Cells
  <2>2. Cardinality(c[1] \ {c[2]}) = Cardinality(c[1]) - 1 /\ Cardinality(c[1]) \in Nat
    BY <1>2, <1>3, <1>5
  <2>3. Cardinality(c[1] \ {c[2]}) < Cardinality(c[1])
    BY <2>2
  <2>4. w[<<c[1] \ {c[2]}, l>>] < w[c]
    BY <2>1, <2>3
  <2> QED
    BY <2>1, <2>4 DEF Below
<1> QED
  BY <1>4, <1>5

LEMMA ExactStart ==
  ASSUME NEW p, IsProblem(p), NEW t \in Nat, initial_service(p, t).departure # None
  PROVE  LET x == [time |-> initial_service(p, t).departure, travel |-> 0,
                   wait |-> initial_service(p, t).wait, route |-> << 0 >>]
         IN  x \in ExactStates(p) /\ Visit(x) = SimulatedStart(p, t) /\ << 0 >> \in Seq(Locations(p))
<1>1. 0 \in Locations(p)
  BY DEF IsProblem, Locations
<1>2. << 0 >> \in Seq(Locations(p)) /\ Len(<< 0 >>) = 1 /\ Last(<< 0 >>) = 0
  BY <1>1 DEF Last
<1>3. SimulatedStart(p, t) \in SimulatedStates(p)
  BY SimulatedStartType
<1>4. initial_service(p, t).departure \in Nat /\ initial_service(p, t).wait \in Nat
  BY <1>3 DEF SimulatedStart, SimulatedStates
<1> QED
  BY <1>2, <1>4 DEF ExactStates, Visit, SimulatedStart

LEMMA OfferedTypes ==
  ASSUME NEW p, IsProblem(p), NEW c \in Cells(p), NEW from,
         Enterable(p, c) => from \in [Locations(p) -> SUBSET ExactStates(p)]
  PROVE  /\ Offered(p, c, from) \subseteq ExactStates(p)
         /\ \A x \in Offered(p, c, from) :
              /\ Enterable(p, c)
              /\ \E l \in Locations(p) \ {End(p)} : \E s \in from[l] :
                   s \in ExactStates(p) /\ x \in transition(p, s, c[2])
<1>1. c[2] \in Locations(p)
  BY DEF Cells
<1>2. ASSUME NEW x \in Offered(p, c, from)
      PROVE  /\ x \in ExactStates(p) /\ Enterable(p, c)
             /\ \E l \in Locations(p) \ {End(p)} : \E s \in from[l] :
                   s \in ExactStates(p) /\ x \in transition(p, s, c[2])
  <2>1. Enterable(p, c)
    BY DEF Offered
  <2>2. PICK l \in Locations(p) \ {End(p)} : \E s \in from[l] : x \in transition(p, s, c[2])
    BY <2>1 DEF Offered
  <2>3. PICK s \in from[l] : x \in transition(p, s, c[2])
    BY <2>2
  <2>4. s \in ExactStates(p)
    BY <2>1, <2>3
  <2>5. x \in ExactStates(p)
    BY <1>1, <2>3, <2>4, TransitionMeans
  <2> QED
    BY <2>1, <2>3, <2>4, <2>5
<1> QED
  BY <1>2

LEMMA FrontierWithin ==
  ASSUME NEW offered
  PROVE  Frontier(offered) \subseteq offered
BY DEF Frontier

LEMMA FrontiersFilled ==
  ASSUME NEW p, IsProblem(p), NEW t \in Nat, initial_service(p, t).departure # None
  PROVE  /\ Frontiers(p, t) \in [Cells(p) -> SUBSET ExactStates(p)]
         /\ Filled(p, t, Frontiers(p, t))
<1> DEFINE D == Cells(p)
           L == Locations(p)
           V == SUBSET ExactStates(p)
           w == [c \in Cells(p) |-> Cardinality(c[1])]
           first == {[time |-> initial_service(p, t).departure, travel |-> 0,
                      wait |-> initial_service(p, t).wait, route |-> << 0 >>]}
           from(c, h) == [l \in Locations(p) |-> h[<<c[1] \ {c[2]}, l>>]]
           Rule(c, h) == IF c = <<{0}, 0>> THEN first ELSE Frontier(Offered(p, c, from(c, h)))
           G == [a \in Arguments(D, w, V) |-> Rule(a[1], a[2])]
           Rec(g) == [c \in D |-> Rule(c, g)]
           f == Frontiers(p, t)
<1>1. /\ w \in [D -> Nat]
      /\ \A c \in D : c[2] \in c[1] => \A l \in L : <<c[1] \ {c[2]}, l>> \in Below(D, w, c)
  BY CellRanks
<1>2. first \in V
  BY ExactStart
<1>3. \A c \in D : \A h \in [Below(D, w, c) -> V] : G[<<c, h>>] = Rule(c, h)
  <2> SUFFICES ASSUME NEW c \in D, NEW h \in [Below(D, w, c) -> V] PROVE G[<<c, h>>] = Rule(c, h)
    OBVIOUS
  <2>1. <<c, h>> \in Arguments(D, w, V)
    <3>1. <<c, h>> \in {c} \X [Below(D, w, c) -> V]
      OBVIOUS
    <3> HIDE DEF D, w, V
    <3> QED
      BY <3>1 DEF Arguments
  <2> HIDE DEF D, w, V, Rule
  <2> QED
    BY <2>1
<1> HIDE DEF w, first, G
<1>4. \A c \in D : \A h : (\A l \in L : Enterable(p, c) => h[<<c[1] \ {c[2]}, l>>] \in V) => Rule(c, h) \in V
  <2> SUFFICES ASSUME NEW c \in D, NEW h, \A l \in L : Enterable(p, c) => h[<<c[1] \ {c[2]}, l>>] \in V
               PROVE  Rule(c, h) \in V
    OBVIOUS
  <2>1. Enterable(p, c) => from(c, h) \in [Locations(p) -> SUBSET ExactStates(p)]
    OBVIOUS
  <2> HIDE DEF from
  <2>2. Offered(p, c, from(c, h)) \subseteq ExactStates(p)
    BY <2>1, OfferedTypes
  <2>3. Frontier(Offered(p, c, from(c, h))) \in V
    BY <2>2, FrontierWithin
  <2> QED
    BY <1>2, <2>3
<1>5. \A c \in D : \A h \in [Below(D, w, c) -> V] : G[<<c, h>>] \in V
  <2> SUFFICES ASSUME NEW c \in D, NEW h \in [Below(D, w, c) -> V] PROVE G[<<c, h>>] \in V
    OBVIOUS
  <2>1. \A l \in L : Enterable(p, c) => h[<<c[1] \ {c[2]}, l>>] \in V
    BY <1>1 DEF Enterable
  <2> HIDE DEF D, V, Rule, L
  <2> QED
    BY <1>3, <1>4, <2>1
<1>6. PICK g \in [D -> V] : Obeys(g, D, w, G)
  <2> HIDE DEF D, V, Rule
  <2> QED
    BY <1>1, <1>5, RankedRecursion
<1>7. g = Rec(g)
  <2>1. \A c \in D : g[c] = Rule(c, g)
    <3> SUFFICES ASSUME NEW c \in D PROVE g[c] = Rule(c, g)
      OBVIOUS
    <3> DEFINE h == [e \in Below(D, w, c) |-> g[e]]
    <3>1. h \in [Below(D, w, c) -> V]
      BY DEF Below
    <3>2. g[c] = Rule(c, h)
      <4>1. g[c] = G[<<c, h>>]
        <5> HIDE DEF D, V, Rule
        <5> QED
          BY <1>6 DEF Obeys
      <4> HIDE DEF h, D, V, Rule
      <4> QED
        BY <1>3, <3>1, <4>1
    <3>3. CASE Enterable(p, c)
      <4>1. \A l \in L : h[<<c[1] \ {c[2]}, l>>] = g[<<c[1] \ {c[2]}, l>>]
        BY <1>1, <3>3 DEF Enterable
      <4> HIDE DEF h
      <4>2. from(c, h) = from(c, g)
        BY <4>1
      <4> HIDE DEF from
      <4> QED
        BY <3>2, <4>2
    <3>4. CASE ~ Enterable(p, c)
      <4>1. Offered(p, c, from(c, h)) = {} /\ Offered(p, c, from(c, g)) = {}
        BY <3>4 DEF Offered
      <4> HIDE DEF h, from
      <4> QED
        BY <3>2, <4>1
    <3> QED
      BY <3>3, <3>4
  <2> HIDE DEF D, V, Rule
  <2> QED
    BY <2>1
<1>8. f = CHOOSE h : h = Rec(h)
  BY DEF Frontiers, first
<1>9. f = Rec(f)
  <2> HIDE DEF f, Rec
  <2> QED
    BY <1>7, <1>8
<1>10. \A c \in D : f[c] = Rule(c, f)
  <2> HIDE DEF f, Rule, D
  <2> QED
    BY <1>9
<1>11. Filled(p, t, f)
  <2> HIDE DEF f
  <2> QED
    BY <1>10 DEF Filled, first
<1>12. \A c \in D : c \in {d \in D : f[d] \in V}
  <2> DEFINE T == {d \in D : f[d] \in V}
  <2>1. ASSUME NEW c \in D, \A e \in Below(D, w, c) : e \in T
        PROVE  c \in T
    <3>1. \A l \in L : Enterable(p, c) => <<c[1] \ {c[2]}, l>> \in Below(D, w, c)
      BY <1>1 DEF Enterable
    <3> HIDE DEF f, Rule
    <3>2. \A l \in L : Enterable(p, c) => f[<<c[1] \ {c[2]}, l>>] \in V
      BY <2>1, <3>1
    <3> HIDE DEF V, D, L
    <3> QED
      BY <1>4, <1>10, <3>2
  <2> HIDE DEF T, D, f
  <2>2. \A c \in D : c \in T
    BY <1>1, <2>1, RankedInduction
  <2> QED
    BY <2>2 DEF T
<1>13. f \in [D -> V]
  <2>1. DOMAIN f = D /\ f = [c \in D |-> f[c]]
    <3> HIDE DEF f, Rule, D
    <3> QED
      BY <1>9
  <2> HIDE DEF f, V, D
  <2> QED
    BY <1>12, <2>1
<1> QED
  BY <1>11, <1>13

(* A route begins as its prefix does. *)
LEMMA SimulatedPrefix ==
  ASSUME NEW p, IsProblem(p), NEW r \in Seq(Locations(p)), Len(r) >= 1, NEW t \in Nat, NEW to \in Locations(p)
  PROVE  LET q == Append(r, to)
             n == Len(r)
         IN  Simulated(p, q, t)[Len(q)] = SimulatedLeg(p, Simulated(p, r, t)[n], to)
<1> DEFINE q == Append(r, to)
           n == Len(r)
           f == Simulated(p, r, t)
           g == Simulated(p, q, t)
           T == {k \in 1 .. n : f[k] = g[k]}
<1>1. /\ q \in Seq(Locations(p)) /\ Len(q) = n + 1 /\ n \in Nat \ {0} /\ Len(q) >= 1 /\ q[n + 1] = to
      /\ \A k \in 1 .. n : q[k] = r[k]
  OBVIOUS
<1>2. \A k \in 1 .. n : f[k] = IF k = 1 THEN SimulatedStart(p, t) ELSE SimulatedLeg(p, f[k - 1], r[k])
  BY SimulatedSteps
<1>3. \A k \in 1 .. (n + 1) : g[k] = IF k = 1 THEN SimulatedStart(p, t) ELSE SimulatedLeg(p, g[k - 1], q[k])
  <2> HIDE DEF q
  <2>1. \A k \in 1 .. Len(q) : g[k] = IF k = 1 THEN SimulatedStart(p, t) ELSE SimulatedLeg(p, g[k - 1], q[k])
    BY <1>1, SimulatedSteps
  <2> QED
    BY <1>1, <2>1
<1> HIDE DEF f, g, q, n
<1>4. 1 \in T
  BY <1>1, <1>2, <1>3
<1>5. \A k \in 2 .. n : k - 1 \in T => k \in T
  <2> SUFFICES ASSUME NEW k \in 2 .. n, f[k - 1] = g[k - 1] PROVE f[k] = g[k]
    BY <1>1
  <2>1. k \in 1 .. n /\ k \in 1 .. (n + 1) /\ k # 1
    BY <1>1
  <2> QED
    BY <1>1, <1>2, <1>3, <2>1
<1> HIDE DEF T
<1>6. n \in T
  <2>1. n \in Nat \ {0} /\ n \in 1 .. n
    BY <1>1
  <2>2. \A k \in 1 .. n : k \in T
    BY <1>4, <1>5, <2>1, VisitInduction
  <2> QED
    BY <2>1, <2>2
<1>7. f[n] = g[n] /\ n + 1 \in 1 .. (n + 1) /\ n + 1 # 1 /\ (n + 1) - 1 = n
  BY <1>1, <1>6 DEF T
<1> QED
  BY <1>1, <1>3, <1>7 DEF f, g, q, n

(* What a state of a cell stands for: a path from the start through the    *)
(* locations of the mask, as the clock of src/solver.rs has it.            *)
Path(p, c, r) ==
  /\ r \in Seq(Locations(p)) /\ Len(r) >= 1
  /\ r[1] = 0 /\ Last(r) = c[2] /\ ToSet(r) = c[1]
  /\ \A i, j \in 1 .. Len(r) : r[i] = r[j] => i = j
  /\ \A k \in 1 .. (Len(r) - 1) : r[k] # End(p)

Sound(p, t, c, s) ==
  /\ s \in ExactStates(p) /\ Path(p, c, s.route) /\ s.time # None
  /\ Visit(s) = Simulated(p, s.route, t)[Len(s.route)]
  /\ c = <<{0}, 0>> \/ Enterable(p, c)

LEMMA FirstPath ==
  ASSUME NEW p, IsProblem(p), NEW t \in Nat
  PROVE  Path(p, <<{0}, 0>>, << 0 >>) /\ Simulated(p, << 0 >>, t)[1] = SimulatedStart(p, t)
<1>1. 0 \in Locations(p)
  BY DEF IsProblem, Locations
<1>2. /\ << 0 >> \in Seq(Locations(p)) /\ Len(<< 0 >>) = 1 /\ Last(<< 0 >>) = 0 /\ << 0 >>[1] = 0
      /\ ToSet(<< 0 >>) = {0}
  BY <1>1 DEF Last, ToSet
<1> DEFINE r == << 0 >>
<1> HIDE DEF r
<1>3. Simulated(p, r, t)[1] = SimulatedStart(p, t)
  <2>1. r \in Seq(Locations(p)) /\ Len(r) >= 1 /\ 1 \in 1 .. Len(r)
    BY <1>2 DEF r
  <2> QED
    BY <2>1, SimulatedSteps
<1>4. Path(p, <<{0}, 0>>, r)
  <2>1. /\ r \in Seq(Locations(p)) /\ Len(r) = 1 /\ Last(r) = 0 /\ r[1] = 0 /\ ToSet(r) = {0}
    BY <1>2 DEF r
  <2> QED
    BY <2>1 DEF Path
<1> QED
  BY <1>3, <1>4 DEF r

LEMMA LongerPath ==
  ASSUME NEW p, IsProblem(p), NEW c \in Cells(p), c[2] \in c[1],
         NEW l \in Locations(p), l # End(p),
         NEW r, Path(p, <<c[1] \ {c[2]}, l>>, r)
  PROVE  Path(p, c, Append(r, c[2]))
<1> DEFINE x == c[2]
           q == Append(r, x)
<1>1. /\ r \in Seq(Locations(p)) /\ Len(r) >= 1 /\ r[1] = 0 /\ Last(r) = l /\ ToSet(r) = c[1] \ {x}
      /\ \A i, j \in 1 .. Len(r) : r[i] = r[j] => i = j
      /\ \A k \in 1 .. (Len(r) - 1) : r[k] # End(p)
  BY DEF Path
<1>2. x \in Locations(p)
  BY DEF Cells
<1>3. /\ q \in Seq(Locations(p)) /\ Len(q) = Len(r) + 1 /\ Len(r) \in Nat /\ q[Len(r) + 1] = x
      /\ \A k \in 1 .. Len(r) : q[k] = r[k]
  BY <1>1, <1>2
<1>4. \A k \in 1 .. Len(r) : r[k] \in c[1] /\ r[k] # x
  BY <1>1 DEF ToSet
<1>5. \A k \in 1 .. Len(r) : r[k] # End(p)
  BY <1>1 DEF Last
<1> HIDE DEF q, x
<1>6. ToSet(q) = c[1]
  <2>1. ToSet(q) = {q[k] : k \in 1 .. Len(q)}
    BY <1>3 DEF ToSet
  <2>2. ToSet(r) = {r[k] : k \in 1 .. Len(r)}
    BY <1>1 DEF ToSet
  <2>3. \A y \in ToSet(q) : y \in c[1]
    <3> SUFFICES ASSUME NEW k \in 1 .. Len(q) PROVE q[k] \in c[1]
      BY <2>1
    <3>1. CASE k = Len(q)
      BY <1>3, <3>1 DEF x
    <3>2. CASE k # Len(q)
      <4>1. k \in 1 .. Len(r)
        BY <1>3, <3>2
      <4> QED
        BY <1>3, <1>4, <4>1
    <3> QED
      BY <3>1, <3>2
  <2>4. \A y \in c[1] : y \in ToSet(q)
    <3> SUFFICES ASSUME NEW y \in c[1] PROVE y \in ToSet(q)
      OBVIOUS
    <3>1. CASE y = x
      <4>1. Len(r) + 1 \in 1 .. Len(q)
        BY <1>3
      <4> QED
        BY <1>3, <2>1, <3>1, <4>1
    <3>2. CASE y # x
      <4>1. PICK k \in 1 .. Len(r) : r[k] = y
        BY <1>1, <2>2, <3>2
      <4>2. k \in 1 .. Len(q) /\ q[k] = y
        BY <1>3, <4>1
      <4> QED
        BY <2>1, <4>2
    <3> QED
      BY <3>1, <3>2
  <2> QED
    BY <2>3, <2>4
<1>7. Last(q) = x /\ q[1] = 0 /\ Len(q) >= 1
  BY <1>1, <1>3 DEF Last
<1>8. ASSUME NEW i \in 1 .. Len(q), NEW j \in 1 .. Len(q), q[i] = q[j] PROVE i = j
  BY <1>1, <1>3, <1>4, <1>8
<1>9. \A k \in 1 .. (Len(q) - 1) : q[k] # End(p)
  BY <1>3, <1>5
<1> QED
  BY <1>3, <1>6, <1>7, <1>8, <1>9 DEF Path, q, x

LEMMA CellsAreSound ==
  ASSUME NEW p, IsProblem(p), NEW t \in Nat, initial_service(p, t).departure # None
  PROVE  \A c \in Cells(p) : \A s \in Frontiers(p, t)[c] : Sound(p, t, c, s)
<1> DEFINE D == Cells(p)
           L == Locations(p)
           w == [c \in Cells(p) |-> Cardinality(c[1])]
           f == Frontiers(p, t)
           T == {c \in D : \A s \in f[c] : Sound(p, t, c, s)}
<1>1. /\ w \in [D -> Nat]
      /\ \A c \in D : c[2] \in c[1] => \A l \in L : <<c[1] \ {c[2]}, l>> \in Below(D, w, c)
  BY CellRanks
<1>2. f \in [D -> SUBSET ExactStates(p)] /\ Filled(p, t, f)
  BY FrontiersFilled
<1> HIDE DEF f, w
<1>3. ASSUME NEW c \in D, \A e \in Below(D, w, c) : e \in T
      PROVE  c \in T
  <2> SUFFICES ASSUME NEW s \in f[c] PROVE Sound(p, t, c, s)
    OBVIOUS
  <2>1. CASE c = <<{0}, 0>>
    <3>1. s = [time |-> initial_service(p, t).departure, travel |-> 0,
               wait |-> initial_service(p, t).wait, route |-> << 0 >>]
      BY <1>2, <2>1 DEF Filled
    <3>2. s \in ExactStates(p) /\ Visit(s) = SimulatedStart(p, t)
      BY <3>1, ExactStart
    <3>3. s.route = << 0 >> /\ s.time # None /\ Len(<< 0 >>) = 1
      BY <3>1
    <3>4. Path(p, c, s.route) /\ Simulated(p, s.route, t)[Len(s.route)] = SimulatedStart(p, t)
      BY <2>1, <3>3, FirstPath
    <3> QED
      BY <2>1, <3>2, <3>3, <3>4 DEF Sound
  <2>2. CASE c # <<{0}, 0>>
    <3> DEFINE from == [l \in Locations(p) |-> f[<<c[1] \ {c[2]}, l>>]]
    <3>1. f[c] = Frontier(Offered(p, c, from))
      BY <1>2, <2>2 DEF Filled
    <3>2. \A l \in L : <<c[1] \ {c[2]}, l>> \in D
      BY DEF Cells
    <3>3. from \in [Locations(p) -> SUBSET ExactStates(p)]
      BY <1>2, <3>2
    <3>4. s \in Offered(p, c, from)
      <4> HIDE DEF from
      <4> QED
        BY <3>1, FrontierWithin
    <3>5. /\ Enterable(p, c)
          /\ \E l \in Locations(p) \ {End(p)} : \E q \in from[l] :
               q \in ExactStates(p) /\ s \in transition(p, q, c[2])
      <4> HIDE DEF from
      <4> QED
        BY <3>3, <3>4, OfferedTypes
    <3>6. PICK l \in Locations(p) \ {End(p)} : \E q \in from[l] :
               q \in ExactStates(p) /\ s \in transition(p, q, c[2])
      BY <3>5
    <3>7. PICK q \in from[l] : q \in ExactStates(p) /\ s \in transition(p, q, c[2])
      BY <3>6
    <3>8. c[2] \in c[1] /\ c[2] \in Locations(p)
      BY <3>5 DEF Enterable, Cells
    <3>9. <<c[1] \ {c[2]}, l>> \in T
      BY <1>1, <1>3, <3>8
    <3>10. Sound(p, t, <<c[1] \ {c[2]}, l>>, q)
      BY <3>7, <3>9
    <3>11. /\ s \in ExactStates(p) /\ s.route = Append(q.route, c[2])
           /\ Visit(s) = SimulatedLeg(p, Visit(q), c[2]) /\ s.time # None
      BY <3>7, <3>8, TransitionMeans
    <3>12. Path(p, c, s.route)
      BY <3>8, <3>10, <3>11, LongerPath DEF Sound
    <3>13. Visit(s) = Simulated(p, s.route, t)[Len(s.route)]
      <4>1. q.route \in Seq(Locations(p)) /\ Len(q.route) >= 1 /\ Visit(q) = Simulated(p, q.route, t)[Len(q.route)]
        BY <3>10 DEF Sound, Path
      <4> QED
        BY <3>8, <3>11, <4>1, SimulatedPrefix
    <3> QED
      BY <3>5, <3>11, <3>12, <3>13 DEF Sound
  <2> QED
    BY <2>1, <2>2
<1> HIDE DEF T, D
<1>4. \A c \in D : c \in T
  BY <1>1, <1>3, RankedInduction
<1> QED
  BY <1>4 DEF T, D, f

(* The route of a call, as the search goes along it. *)
LEMMA ValidRouteFacts ==
  ASSUME NEW p, IsProblem(p), NEW r, validate_visit_order(p, r)
  PROVE  /\ r \in Seq(Locations(p)) /\ Len(r) \in Nat /\ Len(r) >= 1 /\ r[1] = 0 /\ r[Len(r)] = End(p)
         /\ \A i, j \in 1 .. Len(r) : r[i] = r[j] => i = j
         /\ ToSet(r) = {r[k] : k \in 1 .. Len(r)} /\ ToSet(r) \subseteq Locations(p)
         /\ TerminalMask(p, ToSet(r))
<1>1. r \in Seq(Locations(p)) /\ Len(r) \in Nat /\ Len(r) >= 1
  BY ValidRoutes
<1>2. ToSet(r) = {r[k] : k \in 1 .. Len(r)} /\ ToSet(r) \subseteq Locations(p)
  BY <1>1 DEF ToSet
<1>3. validate_solution(p, r)
  BY <1>1, OrdersAgree
<1>4. p.visit_policy \in {"ALL_REQUIRED", "BEST_EFFORT_ON_FAILURE"} /\ p.required \subseteq Locations(p)
  BY DEF IsProblem
<1>5. CASE p.n = 1
  <2>1. r = << 0 >> /\ Len(r) = 1 /\ r[1] = 0 /\ End(p) = 0 /\ Locations(p) = {0}
    BY <1>5 DEF validate_visit_order, End, Locations
  <2>2. ToSet(r) = {0}
    BY <1>2, <2>1
  <2>3. TerminalMask(p, ToSet(r))
    BY <1>4, <2>1, <2>2 DEF TerminalMask
  <2>4. \A i, j \in 1 .. Len(r) : i = j
    BY <2>1
  <2> QED
    BY <1>1, <1>2, <2>1, <2>3, <2>4
<1>6. CASE p.n # 1
  <2>1. /\ Head(r) = 0 /\ Last(r) = End(p) /\ NoRepeats(r) /\ p.required \subseteq ToSet(r)
    BY <1>6 DEF validate_visit_order
  <2>2. r[1] = 0 /\ r[Len(r)] = End(p)
    BY <1>1, <2>1 DEF Last
  <2>3. \A i, j \in 1 .. Len(r) : r[i] = r[j] => i = j
    BY <1>1, <2>1, NoRepeatsInjective
  <2>4. p.visit_policy = "ALL_REQUIRED" => ToSet(r) = Locations(p)
    BY <1>3, <1>6 DEF validate_solution
  <2> QED
    BY <1>1, <1>2, <1>4, <2>1, <2>2, <2>3, <2>4 DEF TerminalMask, partial
<1> QED
  BY <1>5, <1>6

(* A route that is driven to its end is never given up on the way. *)
LEMMA SimulatedOnTheWay ==
  ASSUME NEW p, IsProblem(p), NEW r \in Seq(Locations(p)), Len(r) >= 1, r[1] = 0, NEW t \in Nat,
         Simulated(p, r, t)[Len(r)].time # None
  PROVE  \A k \in 1 .. Len(r) : Simulated(p, r, t)[k].time # None /\ Simulated(p, r, t)[k].at = r[k]
<1> DEFINE n == Len(r)
           f == Simulated(p, r, t)
<1>1. n \in Nat \ {0} /\ \A k \in 1 .. n : r[k] \in Locations(p)
  OBVIOUS
<1>2. \A k \in 1 .. n :
        /\ f[k] \in SimulatedStates(p)
        /\ f[k] = IF k = 1 THEN SimulatedStart(p, t) ELSE SimulatedLeg(p, f[k - 1], r[k])
  BY SimulatedSteps
<1>3. \A s \in SimulatedStates(p) : \A to \in Locations(p) :
        /\ SimulatedLeg(p, s, to).at = to
        /\ s.time = None => SimulatedLeg(p, s, to).time = None
  BY DEF SimulatedLeg, SimulatedStates
<1>4. SimulatedStart(p, t).at = 0
  BY DEF SimulatedStart
<1> HIDE DEF n, f
<1>5. ASSUME NEW k \in 1 .. n PROVE f[k].at = r[k]
  <2>1. k # 1 => k - 1 \in 1 .. n
    BY <1>1
  <2> QED
    BY <1>1, <1>2, <1>3, <1>4, <2>1
<1>6. ASSUME NEW i \in 1 .. n, f[i].time = None PROVE FALSE
  <2> DEFINE T == {k \in 1 .. n : k >= i => f[k].time = None}
  <2>1. 1 \in T
    BY <1>1, <1>6
  <2>2. \A k \in 2 .. n : k - 1 \in T => k \in T
    <3> SUFFICES ASSUME NEW k \in 2 .. n, k - 1 \in T, k >= i PROVE f[k].time = None
      BY <1>1
    <3>1. k \in 1 .. n /\ k - 1 \in 1 .. n /\ k # 1 /\ (k = i \/ k - 1 >= i)
      BY <1>1
    <3> QED
      BY <1>1, <1>2, <1>3, <1>6, <3>1
  <2> HIDE DEF T
  <2>3. \A k \in 1 .. n : k \in T
    BY <1>1, <2>1, <2>2, VisitInduction
  <2>4. f[n].time = None
    BY <1>1, <2>3 DEF T
  <2> QED
    BY <2>4 DEF f, n
<1> QED
  BY <1>5, <1>6 DEF n, f

Mask(r, k) == {r[j] : j \in 1 .. k}

LEMMA RouteCells ==
  ASSUME NEW p, IsProblem(p), NEW r, validate_visit_order(p, r), NEW k \in 2 .. Len(r)
  PROVE  /\ <<Mask(r, k), r[k]>> \in Cells(p) /\ r[k] \in Mask(r, k)
         /\ Mask(r, k) \ {r[k]} = Mask(r, k - 1)
         /\ Enterable(p, <<Mask(r, k), r[k]>>) /\ r[k - 1] \in Locations(p) \ {End(p)}
         /\ <<Mask(r, k), r[k]>> # <<{0}, 0>>
<1>1. /\ r \in Seq(Locations(p)) /\ Len(r) \in Nat /\ Len(r) >= 1 /\ r[1] = 0 /\ r[Len(r)] = End(p)
      /\ \A i, j \in 1 .. Len(r) : r[i] = r[j] => i = j
      /\ ToSet(r) = {r[i] : i \in 1 .. Len(r)}
      /\ TerminalMask(p, ToSet(r))
  BY ValidRouteFacts
<1>2. /\ k \in 1 .. Len(r) /\ k - 1 \in 1 .. Len(r) /\ 1 \in 1 .. k /\ k \in 1 .. k /\ k # 1 /\ k - 1 # Len(r)
      /\ Len(r) \in 1 .. Len(r) /\ 1 \in 1 .. Len(r)
      /\ \A j \in 1 .. k : j \in 1 .. Len(r) /\ (j = k \/ j \in 1 .. (k - 1))
      /\ \A j \in 1 .. (k - 1) : j \in 1 .. k /\ j \in 1 .. Len(r) /\ j # k
  BY <1>1
<1>3. r[k] \in Mask(r, k) /\ 0 \in Mask(r, k) /\ r[k] # 0
  BY <1>1, <1>2 DEF Mask
<1>4. Mask(r, k) \subseteq Locations(p) /\ r[k] \in Locations(p) /\ r[k - 1] \in Locations(p)
  BY <1>1, <1>2 DEF Mask
<1>5. Mask(r, k) \ {r[k]} = Mask(r, k - 1)
  BY <1>1, <1>2 DEF Mask
<1>6. r[k] = End(p) => TerminalMask(p, Mask(r, k))
  <2>1. r[k] = End(p) => k = Len(r)
    BY <1>1, <1>2
  <2>2. k = Len(r) => Mask(r, k) = ToSet(r)
    BY <1>1 DEF Mask
  <2> QED
    BY <1>1, <2>1, <2>2
<1>7. r[k - 1] # End(p)
  BY <1>1, <1>2
<1> QED
  BY <1>3, <1>4, <1>5, <1>6, <1>7 DEF Cells, Enterable

LEMMA CellsAreComplete ==
  ASSUME NEW p, IsProblem(p), NEW t \in Nat, NEW r, validate_visit_order(p, r),
         Simulated(p, r, t)[Len(r)].time # None
  PROVE  /\ initial_service(p, t).departure # None
         /\ \E s \in Frontiers(p, t)[<<ToSet(r), End(p)>>] :
              dominates(s, Simulated(p, r, t)[Len(r)])
<1> DEFINE n == Len(r)
           v == Simulated(p, r, t)
           f == Frontiers(p, t)
           T == {k \in 1 .. n : \E s \in f[<<Mask(r, k), r[k]>>] : dominates(s, v[k])}
<1>1. /\ r \in Seq(Locations(p)) /\ Len(r) \in Nat /\ Len(r) >= 1 /\ r[1] = 0 /\ r[Len(r)] = End(p)
      /\ ToSet(r) = {r[i] : i \in 1 .. Len(r)}
  BY ValidRouteFacts
<1>2. n \in Nat \ {0} /\ \A k \in 1 .. n : r[k] \in Locations(p)
  BY <1>1
<1>3. \A k \in 1 .. n :
        /\ v[k] \in SimulatedStates(p)
        /\ v[k] = IF k = 1 THEN SimulatedStart(p, t) ELSE SimulatedLeg(p, v[k - 1], r[k])
  BY <1>1, SimulatedSteps
<1>4. \A k \in 1 .. n : v[k].time # None /\ v[k].at = r[k]
  BY <1>1, SimulatedOnTheWay
<1> HIDE DEF n, v
<1>5. \A k \in 1 .. n : Clocks(v[k])
  BY <1>3, <1>4 DEF SimulatedStates, Clocks
<1>6. initial_service(p, t).departure # None
  <2>1. v[1] = SimulatedStart(p, t) /\ v[1].time # None
    BY <1>2, <1>3, <1>4
  <2> QED
    BY <2>1 DEF SimulatedStart
<1>7. f \in [Cells(p) -> SUBSET ExactStates(p)] /\ Filled(p, t, f)
  BY <1>6, FrontiersFilled
<1>8. \A c \in Cells(p) : \A s \in f[c] : Sound(p, t, c, s)
  BY <1>6, CellsAreSound
<1> HIDE DEF f
<1>9. \A s \in ExactStates(p) : Clocks(s)
  BY DEF ExactStates, Clocks
<1>10. 1 \in T
  <2> DEFINE x == [time |-> initial_service(p, t).departure, travel |-> 0,
                   wait |-> initial_service(p, t).wait, route |-> << 0 >>]
  <2>1. Mask(r, 1) = {0} /\ r[1] = 0 /\ 1 \in 1 .. n
    BY <1>1, <1>2 DEF Mask
  <2>2. <<{0}, 0>> \in Cells(p)
    BY <1>1, <1>2, <2>1 DEF Cells
  <2>3. f[<<{0}, 0>>] = {x}
    BY <1>7, <2>2 DEF Filled
  <2>4. Visit(x) = v[1] /\ x \in ExactStates(p)
    BY <1>3, <1>6, <2>1, ExactStart
  <2>5. dominates(x, v[1])
    <3>1. Clocks(x) /\ dominates(x, x)
      BY <1>9, <2>4, DominanceOrders
    <3>2. x.time = v[1].time /\ x.travel = v[1].travel /\ x.wait = v[1].wait
      BY <2>4 DEF Visit
    <3> HIDE DEF x
    <3> QED
      BY <3>1, <3>2 DEF dominates
  <2> HIDE DEF x
  <2> QED
    BY <2>1, <2>3, <2>5
<1>11. \A k \in 2 .. n : k - 1 \in T => k \in T
  <2> SUFFICES ASSUME NEW k \in 2 .. n, NEW s \in f[<<Mask(r, k - 1), r[k - 1]>>], dominates(s, v[k - 1])
               PROVE  \E y \in f[<<Mask(r, k), r[k]>>] : dominates(y, v[k])
    BY <1>2
  <2> DEFINE c == <<Mask(r, k), r[k]>>
             from == [l \in Locations(p) |-> f[<<c[1] \ {c[2]}, l>>]]
  <2>1. k \in 1 .. n /\ k - 1 \in 1 .. n /\ k # 1
    BY <1>2
  <2>2. /\ c \in Cells(p) /\ r[k] \in Mask(r, k) /\ c[1] \ {c[2]} = Mask(r, k - 1)
        /\ Enterable(p, c) /\ r[k - 1] \in Locations(p) \ {End(p)} /\ c # <<{0}, 0>>
    BY RouteCells DEF n
  <2>3. <<Mask(r, k - 1), r[k - 1]>> \in Cells(p)
    BY <2>2 DEF Cells
  <2>4. Sound(p, t, <<Mask(r, k - 1), r[k - 1]>>, s)
    BY <1>8, <2>3
  <2>5. s \in ExactStates(p) /\ Last(s.route) = r[k - 1] /\ s.time # None
    BY <2>4 DEF Sound, Path
  <2>6. /\ Visit(s).at = r[k - 1] /\ Visit(s).time = s.time
        /\ Visit(s).travel = s.travel /\ Visit(s).wait = s.wait
    BY <2>5 DEF Visit
  <2>7. dominates(Visit(s), v[k - 1])
    BY <2>6 DEF dominates
  <2>8. r[k] \in Locations(p) /\ Visit(s) \in SimulatedStates(p)
    BY <1>2, <2>1, <2>5, TransitionMeans
  <2>9. v[k] = SimulatedLeg(p, v[k - 1], r[k]) /\ v[k].time # None
    BY <1>3, <1>4, <2>1
  <2>10. /\ SimulatedLeg(p, Visit(s), r[k]).time # None
         /\ dominates(SimulatedLeg(p, Visit(s), r[k]), v[k])
    BY <1>3, <1>4, <2>1, <2>5, <2>6, <2>7, <2>8, <2>9, DominanceExtends
  <2>11. PICK x \in transition(p, s, r[k]) : x \in ExactStates(p) /\ dominates(x, v[k])
    <3>1. PICK x \in transition(p, s, r[k]) : x \in ExactStates(p) /\ Visit(x) = SimulatedLeg(p, Visit(s), r[k])
      BY <2>5, <2>8, <2>10, TransitionMeans
    <3>2. /\ Visit(x).time = x.time /\ Visit(x).travel = x.travel /\ Visit(x).wait = x.wait
      BY DEF Visit
    <3>3. dominates(Visit(x), v[k])
      BY <2>10, <3>1
    <3>4. dominates(x, v[k])
      BY <3>2, <3>3 DEF dominates
    <3> QED
      BY <3>1, <3>4
  <2>12. from \in [Locations(p) -> SUBSET ExactStates(p)]
    <3>1. \A l \in Locations(p) : <<c[1] \ {c[2]}, l>> \in Cells(p)
      BY <2>2 DEF Cells
    <3> QED
      BY <1>7, <3>1
  <2>13. f[c] = Frontier(Offered(p, c, from))
    <3> HIDE DEF c
    <3> QED
      BY <1>7, <2>2 DEF Filled
  <2>14. s \in from[r[k - 1]] /\ c[2] = r[k]
    BY <2>2
  <2> HIDE DEF c, from
  <2>15. x \in Offered(p, c, from)
    BY <2>2, <2>11, <2>14 DEF Offered
  <2>16. \A y \in Offered(p, c, from) : Clocks(y) /\ y.route[Len(y.route) - 1] \in Nat
    <3> SUFFICES ASSUME NEW y \in Offered(p, c, from) PROVE Clocks(y) /\ y.route[Len(y.route) - 1] \in Nat
      OBVIOUS
    <3>1. PICK l \in Locations(p) \ {End(p)} : \E q \in from[l] : q \in ExactStates(p) /\ y \in transition(p, q, c[2])
      BY <2>2, <2>12, OfferedTypes
    <3>2. PICK q \in from[l] : q \in ExactStates(p) /\ y \in transition(p, q, c[2])
      BY <3>1
    <3>3. y \in ExactStates(p) /\ y.route = Append(q.route, r[k])
      BY <1>2, <2>1, <2>14, <3>2, TransitionMeans
    <3>4. q.route \in Seq(Locations(p)) /\ Len(q.route) >= 1
      BY <3>2 DEF ExactStates
    <3>5. y.route[Len(y.route) - 1] = q.route[Len(q.route)]
      BY <3>3, <3>4
    <3>6. q.route[Len(q.route)] \in Nat
      <4>1. q.route[Len(q.route)] \in Locations(p)
        BY <3>4
      <4> QED
        BY <4>1 DEF Locations, IsProblem
    <3> QED
      BY <1>9, <3>3, <3>5, <3>6
  <2>17. PICK y \in Frontier(Offered(p, c, from)) : dominates(y, x)
    BY <2>15, <2>16, FrontierKeeps
  <2>18. Clocks(y)
    BY <2>16, <2>17, FrontierWithin
  <2>19. dominates(y, v[k])
    BY <1>5, <1>9, <2>1, <2>11, <2>17, <2>18, DominanceOrders
  <2> QED
    BY <2>13, <2>17, <2>19 DEF c
<1> HIDE DEF T
<1>12. n \in T
  <2>1. \A k \in 1 .. n : k \in T
    BY <1>2, <1>10, <1>11, VisitInduction
  <2> QED
    BY <1>2, <2>1
<1>13. Mask(r, n) = ToSet(r) /\ r[n] = End(p)
  BY <1>1 DEF Mask, n
<1> QED
  BY <1>6, <1>12, <1>13 DEF T, n, v, f

(* The least of finitely many keys. *)
LEMMA LeastKey ==
  ASSUME NEW X, X # {}, NEW M, IsFiniteSet(M), NEW g, \A x \in X : g[x] \in M,
         NEW f, \A m \in M : f[m] \in Int
  PROVE  \E x \in X : \A y \in X : f[g[x]] <= f[g[y]]
<1> DEFINE S == {g[x] : x \in X}
<1>1. S \subseteq M /\ S # {}
  OBVIOUS
<1>2. IsFiniteSet(S)
  BY <1>1, FS_Subset
<1> HIDE DEF S
<1>3. PICK m \in S : \A y \in S : f[m] <= f[y]
  BY <1>1, <1>2, FiniteLeast
<1> QED
  BY <1>3 DEF S

LEMMA LeastValue ==
  ASSUME NEW X, X # {}, NEW f, \A x \in X : f[x] \in Nat
  PROVE  \E x \in X : \A y \in X : f[x] <= f[y]
<1> DEFINE S == {f[x] : x \in X}
<1>1. S \subseteq Nat /\ S # {}
  OBVIOUS
<1> HIDE DEF S
<1>2. PICK m \in S : \A y \in S : m <= y
  BY <1>1, LeastNumber
<1> QED
  BY <1>2 DEF S

LEMMA MasksAreFinite ==
  ASSUME NEW p, IsProblem(p)
  PROVE  /\ IsFiniteSet(Locations(p)) /\ IsFiniteSet(SUBSET Locations(p))
         /\ Cardinality(Locations(p)) = p.n
         /\ \A m \in SUBSET Locations(p) : MaskNumber(m) \in Int
<1>1. p.n \in Nat \ {0} /\ Locations(p) = 0 .. (p.n - 1)
  BY DEF IsProblem, Locations
<1>2. IsFiniteSet(Locations(p)) /\ Cardinality(Locations(p)) = p.n
  BY <1>1, FS_Interval
<1>3. IsFiniteSet(SUBSET Locations(p))
  BY <1>2, FS_SUBSET
<1>4. ASSUME NEW m \in SUBSET Locations(p) PROVE MaskNumber(m) \in Int
  <2> DEFINE f == [i \in m |-> 2^i]
  <2>1. \A i \in m : i \in Nat
    BY <1>1
  <2>2. \A i \in m : f[i] \in Int
    BY <2>1
  <2>3. IsFiniteSet(m)
    BY <1>2, FS_Subset
  <2> HIDE DEF f
  <2>4. SumFunctionOnSet(f, m) \in Int
    BY <2>2, <2>3, SumIsInteger
  <2> QED
    BY <2>4 DEF MaskNumber, f
<1> QED
  BY <1>2, <1>3, <1>4

(* Among routes that start at one time some route is beaten by none. *)
LEMMA LeastMetrics ==
  ASSUME NEW p, IsProblem(p), NEW t \in Nat, NEW X, X # {}, NEW val, NEW mask,
         \A x \in X : /\ val[x] \in MetricsOf /\ mask[x] \in SUBSET Locations(p)
                      /\ val[x].coverage = Coverage(p, mask[x]) /\ val[x].start = t
                      /\ val[x].finish \in Nat /\ val[x].travel \in Nat /\ val[x].wait \in Nat
  PROVE  \E x \in X : \A y \in X : ~ Better(p, val[y], val[x])
<1> DEFINE M == SUBSET Locations(p)
           count == [m \in M |-> -Coverage(p, m)[1]]
           worth == [m \in M |-> -Coverage(p, m)[2]]
<1>1. IsFiniteSet(M)
  BY MasksAreFinite
<1>2. \A m \in M : count[m] \in Int /\ worth[m] \in Int
  BY CoverageType
<1>3. \A x \in X : /\ mask[x] \in M
                   /\ count[mask[x]] = -val[x].coverage[1] /\ worth[mask[x]] = -val[x].coverage[2]
  OBVIOUS
<1> HIDE DEF count, worth, M
<1>4. PICK a \in X : \A y \in X : count[mask[a]] <= count[mask[y]]
  BY <1>1, <1>2, <1>3, LeastKey
<1> DEFINE X1 == {x \in X : count[mask[x]] = count[mask[a]]}
<1>5. PICK b \in X1 : \A y \in X1 : worth[mask[b]] <= worth[mask[y]]
  <2>1. X1 # {} /\ \A x \in X1 : mask[x] \in M
    BY <1>3
  <2> HIDE DEF X1
  <2> QED
    BY <1>1, <1>2, <2>1, LeastKey
<1> DEFINE X2 == {x \in X1 : worth[mask[x]] = worth[mask[b]]}
<1>6. PICK c \in X2 : \A y \in X2 : val[c].finish <= val[y].finish
  <2> DEFINE f == [x \in X2 |-> val[x].finish]
  <2>1. X2 # {} /\ \A x \in X2 : f[x] \in Nat /\ f[x] = val[x].finish
    OBVIOUS
  <2> HIDE DEF f, X2
  <2>2. PICK x \in X2 : \A y \in X2 : f[x] <= f[y]
    BY <2>1, LeastValue
  <2> QED
    BY <2>1, <2>2
<1> DEFINE X3 == {x \in X2 : val[x].finish = val[c].finish}
<1>7. PICK d \in X3 : \A y \in X3 : val[d].travel <= val[y].travel
  <2> DEFINE f == [x \in X3 |-> val[x].travel]
  <2>1. X3 # {} /\ \A x \in X3 : f[x] \in Nat /\ f[x] = val[x].travel
    OBVIOUS
  <2> HIDE DEF f, X3
  <2>2. PICK x \in X3 : \A y \in X3 : f[x] <= f[y]
    BY <2>1, LeastValue
  <2> QED
    BY <2>1, <2>2
<1> DEFINE X4 == {x \in X3 : val[x].travel = val[d].travel}
<1>8. PICK e \in X4 : \A y \in X4 : val[e].wait <= val[y].wait
  <2> DEFINE f == [x \in X4 |-> val[x].wait]
  <2>1. X4 # {} /\ \A x \in X4 : f[x] \in Nat /\ f[x] = val[x].wait
    OBVIOUS
  <2> HIDE DEF f, X4
  <2>2. PICK x \in X4 : \A y \in X4 : f[x] <= f[y]
    BY <2>1, LeastValue
  <2> QED
    BY <2>1, <2>2
<1>9. ASSUME NEW y \in X PROVE ~ Better(p, val[y], val[e])
  <2>1. /\ val[y] \in MetricsOf /\ val[e] \in MetricsOf /\ val[y].start = t /\ val[e].start = t
    OBVIOUS
  <2>2. StartKey(p, val[y]) = StartKey(p, val[e])
    BY <2>1 DEF StartKey
  <2>3. val[e].coverage[1] >= val[y].coverage[1]
    <3>1. count[mask[e]] <= count[mask[y]]
      BY <1>4
    <3> QED
      BY <1>3, <2>1, <3>1, MetricsTypes
  <2>4. val[y].coverage[1] = val[e].coverage[1] => val[e].coverage[2] >= val[y].coverage[2]
    <3>1. val[y].coverage[1] = val[e].coverage[1] => y \in X1
      BY <1>3
    <3>2. y \in X1 => worth[mask[e]] <= worth[mask[y]]
      BY <1>5
    <3>3. /\ val[y].coverage[2] \in Int /\ val[e].coverage[2] \in Int
          /\ worth[mask[y]] = -val[y].coverage[2] /\ worth[mask[e]] = -val[e].coverage[2]
      BY <1>3, <2>1, MetricsTypes
    <3> HIDE DEF X1
    <3> QED
      BY <3>1, <3>2, <3>3
  <2>5. val[y].coverage[1] = val[e].coverage[1] /\ val[y].coverage[2] = val[e].coverage[2] => y \in X2
    BY <1>3
  <2>6. y \in X2 => val[e].finish <= val[y].finish
    BY <1>6
  <2>7. y \in X2 /\ val[y].finish = val[e].finish => y \in X3 /\ val[e].travel <= val[y].travel
    BY <1>7
  <2>8. y \in X3 /\ val[y].travel = val[e].travel => val[e].wait <= val[y].wait
    BY <1>8
  <2>9. ~ Outranks(p, val[y], val[e])
    <3>1. /\ val[y].coverage[1] \in Int /\ val[y].coverage[2] \in Int /\ StartKey(p, val[y]) \in Int
          /\ val[y].finish \in Int /\ val[y].travel \in Int /\ val[y].wait \in Int
      BY <2>1, MetricsTypes
    <3>2. /\ val[e].coverage[1] \in Int /\ val[e].coverage[2] \in Int /\ StartKey(p, val[e]) \in Int
          /\ val[e].finish \in Int /\ val[e].travel \in Int /\ val[e].wait \in Int
      BY <2>1, MetricsTypes
    <3> HIDE DEF X1, X2, X3, X4
    <3> QED
      BY <2>2, <2>3, <2>4, <2>5, <2>6, <2>7, <2>8, <3>1, <3>2 DEF Outranks
  <2> QED
    BY <2>1, <2>9, BetterMeans
<1> QED
  BY <1>9

(* A path that ends at the destination is a route the problem allows. *)
LEMMA PathIsValid ==
  ASSUME NEW p, IsProblem(p), NEW mask \in SUBSET Locations(p),
         TerminalMask(p, mask), NEW r, Path(p, <<mask, End(p)>>, r)
  PROVE  validate_visit_order(p, r)
<1>1. /\ r \in Seq(Locations(p)) /\ Len(r) >= 1 /\ r[1] = 0 /\ Last(r) = End(p) /\ ToSet(r) = mask
      /\ \A i, j \in 1 .. Len(r) : r[i] = r[j] => i = j
  BY DEF Path
<1>2. Len(r) \in Nat /\ NoRepeats(r) /\ r[Len(r)] = End(p)
  BY <1>1, NoRepeatsInjective DEF Last
<1>3. CASE p.n = 1
  <2>1. Locations(p) = {0}
    BY <1>3 DEF Locations
  <2>2. \A k \in 1 .. Len(r) : r[k] = 0
    BY <1>1, <2>1
  <2>3. Len(r) = 1
    <3>1. Len(r) >= 2 => 1 \in 1 .. Len(r) /\ 2 \in 1 .. Len(r)
      BY <1>2
    <3>2. Len(r) >= 2 => r[2] = r[1]
      BY <2>2, <3>1
    <3>3. ~ (Len(r) >= 2)
      BY <1>1, <3>1, <3>2
    <3>4. \A k \in Nat : k >= 1 /\ ~ (k >= 2) => k = 1
      OBVIOUS
    <3> QED
      BY <1>1, <1>2, <3>3, <3>4
  <2>4. r = << 0 >>
    BY <1>1, <2>3
  <2> QED
    BY <1>3, <2>4 DEF validate_visit_order
<1>4. CASE p.n # 1
  <2>1. p.n \in Nat /\ End(p) # 0
    BY <1>4 DEF End, IsProblem
  <2>2. Len(r) >= 2
    BY <1>1, <1>2, <2>1
  <2>3. p.visit_policy = "ALL_REQUIRED" => Len(r) = p.n
    <3>1. p.visit_policy = "ALL_REQUIRED" => ToSet(r) = Locations(p)
      BY <1>1 DEF TerminalMask, partial
    <3> QED
      BY <1>2, <3>1, MasksAreFinite DEF NoRepeats
  <2>4. Head(r) = 0
    BY <1>1
  <2>5. p.required \subseteq ToSet(r)
    BY <1>1 DEF TerminalMask
  <2> QED
    BY <1>1, <1>2, <1>4, <2>2, <2>3, <2>4, <2>5 DEF validate_visit_order
<1> QED
  BY <1>3, <1>4

LEMMA TerminalMeans ==
  ASSUME NEW p, IsProblem(p), NEW t \in Nat, NEW mask \in SUBSET Locations(p),
         TerminalMask(p, mask), NEW s, Sound(p, t, <<mask, End(p)>>, s)
  PROVE  /\ validate_visit_order(p, s.route) /\ ToSet(s.route) = mask
         /\ simulate_solution(p, s.route, t) = Metrics(p, ToSet(s.route), t, s.time, s.travel, s.wait)
         /\ simulate_solution(p, s.route, t).ok
<1> DEFINE r == s.route
<1>1. /\ Path(p, <<mask, End(p)>>, r) /\ r \in Seq(Locations(p)) /\ Len(r) >= 1 /\ ToSet(r) = mask
      /\ s.time # None /\ Visit(s) = Simulated(p, r, t)[Len(r)]
  BY DEF Sound, Path
<1>2. validate_visit_order(p, r)
  BY <1>1, PathIsValid
<1> HIDE DEF r
<1> QED
  BY <1>1, <1>2, SimulatedMetrics DEF Visit, r

(* The search at one start time answers with a route that can be driven    *)
(* and that no other route driven from this start time beats; without an   *)
(* answer there is none.                                                   *)
LEMMA SearchMeans ==
  ASSUME NEW p, IsProblem(p), NEW t \in Nat
  PROVE  LET x == search_at_start(p, t)
         IN  /\ x.ok => /\ validate_visit_order(p, x.route)
                        /\ simulate_solution(p, x.route, t).ok
                        /\ x.metrics = simulate_solution(p, x.route, t)
             /\ ~ x.ok => x = NoFeasibleRoute
             /\ \A r : validate_visit_order(p, r) /\ simulate_solution(p, r, t).ok =>
                  x.ok /\ ~ Better(p, simulate_solution(p, r, t), x.metrics)
<1> DEFINE f == Frontiers(p, t)
           masks == {m \in SUBSET Locations(p) : End(p) \in m /\ TerminalMask(p, m)}
           terminals == UNION {f[<<mask, End(p)>>] : mask \in masks}
           metrics(s) == Metrics(p, ToSet(s.route), t, s.time, s.travel, s.wait)
           bests == {s \in terminals : \A u \in terminals : ~ Better(p, metrics(u), metrics(s))}
           chosen == CHOOSE s \in bests : \A u \in bests : MaskNumber(ToSet(s.route)) <= MaskNumber(ToSet(u.route))
           x == search_at_start(p, t)
<1>1. x = IF initial_service(p, t).departure = None \/ terminals = {} THEN NoFeasibleRoute
          ELSE [ok |-> TRUE, route |-> chosen.route, metrics |-> metrics(chosen)]
  BY DEF search_at_start
<1> HIDE DEF f, chosen, x
<1>2. ASSUME NEW r, validate_visit_order(p, r), simulate_solution(p, r, t).ok
      PROVE  /\ initial_service(p, t).departure # None /\ ToSet(r) \in masks
             /\ \E s \in f[<<ToSet(r), End(p)>>] : dominates(s, Simulated(p, r, t)[Len(r)])
  <2>1. /\ r \in Seq(Locations(p)) /\ Len(r) \in Nat /\ Len(r) >= 1 /\ r[Len(r)] = End(p)
        /\ ToSet(r) = {r[k] : k \in 1 .. Len(r)} /\ ToSet(r) \subseteq Locations(p)
        /\ TerminalMask(p, ToSet(r))
    BY <1>2, ValidRouteFacts
  <2>2. ToSet(r) \in masks
    BY <2>1
  <2>3. Simulated(p, r, t)[Len(r)].time # None
    BY <1>2, <2>1, SimulatedMetrics
  <2> QED
    BY <1>2, <2>2, <2>3, CellsAreComplete DEF f
<1>3. CASE initial_service(p, t).departure = None \/ terminals = {}
  <2>1. x = NoFeasibleRoute /\ ~ x.ok
    BY <1>1, <1>3, Errors
  <2>2. ASSUME NEW r, validate_visit_order(p, r), simulate_solution(p, r, t).ok PROVE FALSE
    <3>1. initial_service(p, t).departure # None /\ ToSet(r) \in masks
      BY <1>2, <2>2
    <3>2. PICK s \in f[<<ToSet(r), End(p)>>] : TRUE
      BY <1>2, <2>2
    <3> HIDE DEF masks
    <3>3. s \in terminals
      BY <3>1, <3>2
    <3> QED
      BY <1>3, <3>1, <3>3
  <2> HIDE DEF terminals
  <2> QED
    BY <2>1, <2>2 DEF x
<1>4. CASE initial_service(p, t).departure # None /\ terminals # {}
  <2>1. x = [ok |-> TRUE, route |-> chosen.route, metrics |-> metrics(chosen)]
    BY <1>1, <1>4
  <2>2. \A s \in terminals : \E mask \in masks : Sound(p, t, <<mask, End(p)>>, s)
    <3> SUFFICES ASSUME NEW s \in terminals PROVE \E mask \in masks : Sound(p, t, <<mask, End(p)>>, s)
      OBVIOUS
    <3>1. PICK mask \in masks : s \in f[<<mask, End(p)>>]
      OBVIOUS
    <3>2. <<mask, End(p)>> \in Cells(p)
      BY DEF Cells
    <3> QED
      BY <1>4, <3>1, <3>2, CellsAreSound DEF f
  <2>3. \A s \in terminals : /\ validate_visit_order(p, s.route) /\ ToSet(s.route) \in SUBSET Locations(p)
                             /\ simulate_solution(p, s.route, t) = metrics(s)
                             /\ simulate_solution(p, s.route, t).ok
                             /\ s.time \in Nat /\ s.travel \in Nat /\ s.wait \in Nat
    <3> SUFFICES ASSUME NEW s \in terminals
                 PROVE  /\ validate_visit_order(p, s.route) /\ ToSet(s.route) \in SUBSET Locations(p)
                        /\ simulate_solution(p, s.route, t) = metrics(s)
                        /\ simulate_solution(p, s.route, t).ok
                        /\ s.time \in Nat /\ s.travel \in Nat /\ s.wait \in Nat
      OBVIOUS
    <3>1. PICK mask \in masks : Sound(p, t, <<mask, End(p)>>, s)
      BY <2>2
    <3>2. s.time \in Nat /\ s.travel \in Nat /\ s.wait \in Nat
      BY <3>1 DEF Sound, ExactStates
    <3>3. mask \in SUBSET Locations(p) /\ End(p) \in mask /\ TerminalMask(p, mask)
      OBVIOUS
    <3> HIDE DEF terminals, masks
    <3> QED
      BY <3>1, <3>2, <3>3, TerminalMeans
  <2> HIDE DEF terminals, masks
  <2>4. \A s \in terminals : metrics(s) \in MetricsOf
    <3> SUFFICES ASSUME NEW s \in terminals PROVE metrics(s) \in MetricsOf
      OBVIOUS
    <3>1. /\ validate_visit_order(p, s.route) /\ simulate_solution(p, s.route, t) = metrics(s)
          /\ simulate_solution(p, s.route, t).ok
      BY <2>3
    <3> HIDE DEF metrics
    <3> QED
      BY <3>1, ValidRoutes, SimulatedMetrics
  <2>5. bests # {}
    <3> DEFINE val == [s \in terminals |-> metrics(s)]
               mask == [s \in terminals |-> ToSet(s.route)]
    <3>0. \A s \in terminals : val[s] = metrics(s)
      OBVIOUS
    <3>1. \A s \in terminals :
            /\ val[s] \in MetricsOf /\ mask[s] \in SUBSET Locations(p)
            /\ val[s].coverage = Coverage(p, mask[s]) /\ val[s].start = t
            /\ val[s].finish \in Nat /\ val[s].travel \in Nat /\ val[s].wait \in Nat
      BY <2>3, <2>4 DEF Metrics
    <3> HIDE DEF val, mask
    <3>2. \E s \in terminals : \A u \in terminals : ~ Better(p, val[u], val[s])
      <4>1. terminals # {}
        BY <1>4
      <4> QED
        BY <3>1, <4>1, LeastMetrics
    <3>3. \E s \in terminals : \A u \in terminals : ~ Better(p, metrics(u), metrics(s))
      BY <3>0, <3>2
    <3> QED
      BY <3>3
  <2>6. \E s \in bests : \A u \in bests : MaskNumber(ToSet(s.route)) <= MaskNumber(ToSet(u.route))
    <3> DEFINE M == SUBSET Locations(p)
               g == [s \in bests |-> ToSet(s.route)]
               h == [m \in M |-> MaskNumber(m)]
    <3>1. IsFiniteSet(M) /\ \A m \in M : h[m] \in Int /\ h[m] = MaskNumber(m)
      BY MasksAreFinite
    <3>2. \A s \in bests : g[s] \in M /\ g[s] = ToSet(s.route)
      BY <2>3
    <3> HIDE DEF M, g, h, bests
    <3>3. PICK s \in bests : \A u \in bests : h[g[s]] <= h[g[u]]
      BY <2>5, <3>1, <3>2, LeastKey
    <3> QED
      BY <3>1, <3>2, <3>3
  <2>7. chosen \in bests
    <3> HIDE DEF bests
    <3> QED
      BY <2>6 DEF chosen
  <2>8. /\ x.ok /\ x.route = chosen.route /\ x.metrics = metrics(chosen)
        /\ validate_visit_order(p, x.route) /\ simulate_solution(p, x.route, t).ok
        /\ x.metrics = simulate_solution(p, x.route, t)
    BY <2>1, <2>3, <2>7
  <2>9. ASSUME NEW r, validate_visit_order(p, r), simulate_solution(p, r, t).ok
        PROVE  ~ Better(p, simulate_solution(p, r, t), x.metrics)
    <3> DEFINE m == simulate_solution(p, r, t)
               v == Simulated(p, r, t)[Len(r)]
    <3>1. PICK s \in f[<<ToSet(r), End(p)>>] : dominates(s, v)
      BY <1>2, <2>9
    <3>2. s \in terminals /\ ToSet(s.route) = ToSet(r)
      <4>1. ToSet(r) \in masks
        BY <1>2, <2>9
      <4>2. <<ToSet(r), End(p)>> \in Cells(p)
        BY <4>1 DEF masks, Cells
      <4>3. Sound(p, t, <<ToSet(r), End(p)>>, s)
        BY <1>4, <3>1, <4>2, CellsAreSound DEF f
      <4> QED
        BY <3>1, <4>1, <4>3 DEF terminals, Sound, Path
    <3>3. /\ m \in MetricsOf /\ m.coverage = Coverage(p, ToSet(r)) /\ m.start = t
          /\ m.finish = v.time /\ m.travel = v.travel /\ m.wait = v.wait
      BY <2>9, ValidRoutes, SimulatedMetrics
    <3>4. /\ metrics(s) \in MetricsOf /\ metrics(s).coverage = m.coverage /\ metrics(s).start = t
          /\ metrics(s).finish = s.time /\ metrics(s).travel = s.travel /\ metrics(s).wait = s.wait
      BY <2>4, <3>2, <3>3 DEF Metrics
    <3>5. metrics(chosen) \in MetricsOf /\ ~ Better(p, metrics(s), metrics(chosen))
      BY <2>4, <2>7, <3>2
    <3>6. ~ Better(p, m, metrics(s))
      <4> DEFINE b == metrics(s)
      <4>1. /\ b.coverage = m.coverage /\ b.start = m.start /\ b.finish <= m.finish /\ b.travel <= m.travel
            /\ b.finish = m.finish /\ b.travel = m.travel => b.wait <= m.wait
            /\ b \in MetricsOf /\ m \in MetricsOf
        <5>1. /\ s.time \in Nat /\ s.travel \in Nat /\ s.wait \in Nat
              /\ m.finish \in Int /\ m.travel \in Int /\ m.wait \in Int
          BY <2>3, <3>2, <3>3 DEF MetricsOf
        <5>2. /\ s.time <= m.finish
              /\ \/ s.travel < m.travel
                 \/ s.travel = m.travel /\ s.wait + (m.finish - s.time) <= m.wait
          BY <3>1, <3>3 DEF dominates
        <5> HIDE DEF m, v, metrics
        <5> QED
          BY <3>3, <3>4, <5>1, <5>2
      <4> HIDE DEF b, m
      <4>2. StartKey(p, b) = StartKey(p, m)
        BY <4>1 DEF StartKey
      <4>3. ~ Outranks(p, m, b)
        <5>1. /\ m.coverage[1] \in Int /\ m.coverage[2] \in Int /\ StartKey(p, m) \in Int
              /\ m.finish \in Int /\ m.travel \in Int /\ m.wait \in Int
          BY <4>1, MetricsTypes
        <5>2. b.finish \in Int /\ b.travel \in Int /\ b.wait \in Int
          BY <4>1, MetricsTypes
        <5> QED
          BY <4>1, <4>2, <5>1, <5>2 DEF Outranks
      <4> QED
        BY <4>1, <4>3, BetterMeans DEF b
    <3> HIDE DEF m, metrics
    <3>7. ~ Better(p, m, metrics(chosen))
      BY <3>3, <3>4, <3>5, <3>6, BetterOrders
    <3> QED
      BY <2>8, <3>7 DEF m
  <2> QED
    BY <2>8, <2>9 DEF x
<1> QED
  BY <1>3, <1>4

(* The feasibility search: one earliest finish per cell. *)

Entered(p, c) ==
  /\ c[2] \in c[1] /\ 0 \in c[1] /\ c[2] # 0
  /\ c[2] = End(p) => c[1] = Locations(p)

LEMMA TransitionTimes ==
  ASSUME NEW p, IsProblem(p), NEW l \in Locations(p), NEW to \in Locations(p), NEW t \in Nat
  PROVE  /\ transition_time(p, l, to, t) \in Nat \union {None}
         /\ \A u \in Nat : u <= t /\ transition_time(p, l, to, t) # None =>
              /\ transition_time(p, l, to, u) # None
              /\ transition_time(p, l, to, u) <= transition_time(p, l, to, t)
         /\ \A s \in SimulatedStates(p) : s.at = l /\ s.time = t =>
              SimulatedLeg(p, s, to).time = transition_time(p, l, to, t)
<1> DEFINE d == p.travel[l][to]
<1>1. d \in Nat \union {None} /\ p.close[to] \in Nat /\ MinutesPerDay \in Nat
  BY MinutesPerDayAssumption DEF IsProblem
<1>2. ASSUME NEW u \in Nat, d # None PROVE u + d \in Nat /\ Finish(p, to, u + d) \in Nat
  <2>1. u + d \in Nat
    BY <1>1, <1>2
  <2> QED
    BY <2>1, VisitTypes
<1>3. \A u \in Nat : transition_time(p, l, to, u) = IF d # None /\ InTime(p, to, Finish(p, to, u + d))
                                                    THEN Finish(p, to, u + d) ELSE None
  BY DEF transition_time
<1>4. transition_time(p, l, to, t) \in Nat \union {None}
  BY <1>2, <1>3
<1>5. ASSUME NEW u \in Nat, u <= t, transition_time(p, l, to, t) # None
      PROVE  /\ transition_time(p, l, to, u) # None
             /\ transition_time(p, l, to, u) <= transition_time(p, l, to, t)
  <2>1. d # None /\ InTime(p, to, Finish(p, to, t + d)) /\ d \in Nat
    BY <1>1, <1>3, <1>5
  <2>2. Finish(p, to, u + d) <= Finish(p, to, t + d)
    <3>1. u + d \in Nat /\ t + d \in Nat /\ u + d <= t + d
      BY <1>5, <2>1
    <3> QED
      BY <3>1, VisitTypes
  <2>3. Finish(p, to, u + d) \in Nat /\ Finish(p, to, t + d) \in Nat
    BY <1>2, <2>1
  <2>4. InTime(p, to, Finish(p, to, u + d))
    BY <1>1, <2>1, <2>2, <2>3 DEF InTime
  <2>5. Finish(p, to, u + d) # None
    BY <2>3 DEF None
  <2> HIDE DEF d
  <2> QED
    BY <1>3, <2>1, <2>2, <2>4, <2>5
<1>6. ASSUME NEW s \in SimulatedStates(p), s.at = l, s.time = t
      PROVE  SimulatedLeg(p, s, to).time = transition_time(p, l, to, t)
  <2>1. t # None
    BY DEF None
  <2> QED
    BY <1>6, <2>1 DEF SimulatedLeg, transition_time, SimulatedStates
<1> QED
  BY <1>4, <1>5, <1>6

LEMMA EarliestMeans ==
  ASSUME NEW p, IsProblem(p), NEW c \in Cells(p), NEW from \in [Locations(p) -> Nat \union {None}]
  PROVE  LET e == EarliestIn(p, c, from)
         IN  /\ e \in Nat \union {None}
             /\ e # None => /\ Entered(p, c)
                            /\ \E l \in Locations(p) : from[l] # None /\ e = transition_time(p, l, c[2], from[l])
             /\ Entered(p, c) =>
                  \A l \in Locations(p) :
                    from[l] # None /\ transition_time(p, l, c[2], from[l]) # None =>
                      e # None /\ e <= transition_time(p, l, c[2], from[l])
<1> DEFINE times == {transition_time(p, l, c[2], from[l]) :
                       l \in {x \in Locations(p) : from[x] # None}} \ {None}
           e == EarliestIn(p, c, from)
<1>1. e = IF Entered(p, c) /\ times # {} THEN Min(times) ELSE None
  BY DEF EarliestIn, Entered
<1>2. c[2] \in Locations(p)
  BY DEF Cells
<1>3. times \subseteq Nat
  <2> SUFFICES ASSUME NEW l \in Locations(p), from[l] # None
               PROVE  transition_time(p, l, c[2], from[l]) \in Nat \union {None}
    OBVIOUS
  <2>1. from[l] \in Nat
    OBVIOUS
  <2> QED
    BY <1>2, <2>1, TransitionTimes
<1>4. \A m \in times : \E l \in Locations(p) : from[l] # None /\ m = transition_time(p, l, c[2], from[l])
  OBVIOUS
<1>5. \A l \in Locations(p) : from[l] # None /\ transition_time(p, l, c[2], from[l]) # None =>
        transition_time(p, l, c[2], from[l]) \in times
  OBVIOUS
<1> HIDE DEF times
<1>6. times # {} => Min(times) \in times /\ \A m \in times : Min(times) <= m
  <2> SUFFICES ASSUME times # {} PROVE Min(times) \in times /\ \A m \in times : Min(times) <= m
    OBVIOUS
  <2>1. \E m \in times : \A v \in times : m <= v
    BY <1>3, LeastNumber
  <2> QED
    BY <2>1 DEF Min
<1>7. \A m \in times : m # None
  BY <1>3 DEF None
<1> HIDE DEF e
<1> QED
  BY <1>1, <1>3, <1>4, <1>5, <1>6, <1>7 DEF e

Earliest(p, t, f) ==
  \A c \in Cells(p) :
    f[c] = IF c = <<{0}, 0>> THEN initial_service(p, t).departure
           ELSE EarliestIn(p, c, [l \in Locations(p) |-> f[<<c[1] \ {c[2]}, l>>]])

LEMMA EarliestFilled ==
  ASSUME NEW p, IsProblem(p), NEW t \in Nat
  PROVE  \E f \in [Cells(p) -> Nat \union {None}] :
           /\ Earliest(p, t, f)
           /\ is_feasible_at_start(p, t) <=>
                /\ initial_service(p, t).departure # None
                /\ p.n = 1 \/ f[<<Locations(p), End(p)>>] # None
<1> DEFINE D == Cells(p)
           L == Locations(p)
           V == Nat \union {None}
           w == [c \in Cells(p) |-> Cardinality(c[1])]
           first == initial_service(p, t).departure
           from(c, h) == [l \in Locations(p) |-> h[<<c[1] \ {c[2]}, l>>]]
           Rule(c, h) == IF c = <<{0}, 0>> THEN first ELSE EarliestIn(p, c, from(c, h))
           G == [a \in Arguments(D, w, V) |-> Rule(a[1], a[2])]
           Rec(g) == [c \in D |-> Rule(c, g)]
           f == CHOOSE h : h = Rec(h)
<1>1. /\ w \in [D -> Nat]
      /\ \A c \in D : c[2] \in c[1] => \A l \in L : <<c[1] \ {c[2]}, l>> \in Below(D, w, c)
  BY CellRanks
<1>2. first \in V
  <2>1. SimulatedStart(p, t) \in SimulatedStates(p)
    BY SimulatedStartType
  <2> QED
    BY <2>1 DEF SimulatedStart, SimulatedStates
<1>3. \A c \in D : \A h \in [Below(D, w, c) -> V] : G[<<c, h>>] = Rule(c, h)
  <2> SUFFICES ASSUME NEW c \in D, NEW h \in [Below(D, w, c) -> V] PROVE G[<<c, h>>] = Rule(c, h)
    OBVIOUS
  <2>1. <<c, h>> \in Arguments(D, w, V)
    <3>1. <<c, h>> \in {c} \X [Below(D, w, c) -> V]
      OBVIOUS
    <3> HIDE DEF D, w, V
    <3> QED
      BY <3>1 DEF Arguments
  <2> HIDE DEF D, w, V, Rule
  <2> QED
    BY <2>1
<1> HIDE DEF w, first, G
<1>4. \A c \in D : \A h : ~ Entered(p, c) /\ c # <<{0}, 0>> => Rule(c, h) = None
  BY DEF EarliestIn, Entered
<1>5. \A c \in D : \A h : (\A l \in L : Entered(p, c) => h[<<c[1] \ {c[2]}, l>>] \in V) => Rule(c, h) \in V
  <2> SUFFICES ASSUME NEW c \in D, NEW h, \A l \in L : Entered(p, c) => h[<<c[1] \ {c[2]}, l>>] \in V
               PROVE  Rule(c, h) \in V
    OBVIOUS
  <2>1. CASE c = <<{0}, 0>>
    BY <1>2, <2>1
  <2>2. CASE c # <<{0}, 0>> /\ ~ Entered(p, c)
    <3> HIDE DEF Rule
    <3> QED
      BY <1>4, <2>2
  <2>3. CASE c # <<{0}, 0>> /\ Entered(p, c)
    <3>1. from(c, h) \in [Locations(p) -> Nat \union {None}]
      BY <2>3
    <3> HIDE DEF from
    <3> QED
      BY <2>3, <3>1, EarliestMeans
  <2> QED
    BY <2>1, <2>2, <2>3
<1>6. \A c \in D : \A h \in [Below(D, w, c) -> V] : G[<<c, h>>] \in V
  <2> SUFFICES ASSUME NEW c \in D, NEW h \in [Below(D, w, c) -> V] PROVE G[<<c, h>>] \in V
    OBVIOUS
  <2>1. \A l \in L : Entered(p, c) => h[<<c[1] \ {c[2]}, l>>] \in V
    BY <1>1 DEF Entered
  <2> HIDE DEF D, V, Rule, L
  <2> QED
    BY <1>3, <1>5, <2>1
<1>7. PICK g \in [D -> V] : Obeys(g, D, w, G)
  <2> HIDE DEF D, V, Rule
  <2> QED
    BY <1>1, <1>6, RankedRecursion
<1>8. g = Rec(g)
  <2>1. \A c \in D : g[c] = Rule(c, g)
    <3> SUFFICES ASSUME NEW c \in D PROVE g[c] = Rule(c, g)
      OBVIOUS
    <3> DEFINE h == [e \in Below(D, w, c) |-> g[e]]
    <3>1. h \in [Below(D, w, c) -> V]
      BY DEF Below
    <3>2. g[c] = Rule(c, h)
      <4>1. g[c] = G[<<c, h>>]
        <5> HIDE DEF D, V, Rule
        <5> QED
          BY <1>7 DEF Obeys
      <4> HIDE DEF h, D, V, Rule
      <4> QED
        BY <1>3, <3>1, <4>1
    <3>3. CASE Entered(p, c)
      <4>1. \A l \in L : h[<<c[1] \ {c[2]}, l>>] = g[<<c[1] \ {c[2]}, l>>]
        BY <1>1, <3>3 DEF Entered
      <4> HIDE DEF h
      <4>2. from(c, h) = from(c, g)
        BY <4>1
      <4> HIDE DEF from
      <4> QED
        BY <3>2, <4>2
    <3>4. CASE ~ Entered(p, c)
      <4>1. CASE c = <<{0}, 0>>
        BY <3>2, <4>1
      <4>2. CASE c # <<{0}, 0>>
        <5> HIDE DEF h, Rule
        <5> QED
          BY <1>4, <3>2, <3>4, <4>2
      <4> QED
        BY <4>1, <4>2
    <3> QED
      BY <3>3, <3>4
  <2> HIDE DEF D, V, Rule
  <2> QED
    BY <2>1
<1>9. f = Rec(f)
  <2> HIDE DEF Rec
  <2> QED
    BY <1>8
<1>10. is_feasible_at_start(p, t) <=>
         /\ initial_service(p, t).departure # None
         /\ p.n = 1 \/ f[<<Locations(p), End(p)>>] # None
  BY DEF is_feasible_at_start, first
<1> HIDE DEF f
<1>11. \A c \in D : f[c] = Rule(c, f)
  <2> HIDE DEF Rule, D
  <2> QED
    BY <1>9
<1>12. Earliest(p, t, f)
  BY <1>11 DEF Earliest, first
<1>13. \A c \in D : c \in {d \in D : f[d] \in V}
  <2> DEFINE T == {d \in D : f[d] \in V}
  <2>1. ASSUME NEW c \in D, \A e \in Below(D, w, c) : e \in T
        PROVE  c \in T
    <3>1. \A l \in L : Entered(p, c) => <<c[1] \ {c[2]}, l>> \in Below(D, w, c)
      BY <1>1 DEF Entered
    <3> HIDE DEF Rule
    <3>2. \A l \in L : Entered(p, c) => f[<<c[1] \ {c[2]}, l>>] \in V
      BY <2>1, <3>1
    <3> HIDE DEF V, D, L
    <3> QED
      BY <1>5, <1>11, <3>2
  <2> HIDE DEF T, D
  <2>2. \A c \in D : c \in T
    BY <1>1, <2>1, RankedInduction
  <2> QED
    BY <2>2 DEF T
<1>14. f \in [D -> V]
  <2>1. DOMAIN f = D /\ f = [c \in D |-> f[c]]
    <3> HIDE DEF Rule, D
    <3> QED
      BY <1>9
  <2> HIDE DEF V, D
  <2> QED
    BY <1>13, <2>1
<1> QED
  BY <1>10, <1>12, <1>14

LEMMA EarliestIsSound ==
  ASSUME NEW p, IsProblem(p), NEW t \in Nat, initial_service(p, t).departure # None,
         NEW f \in [Cells(p) -> Nat \union {None}], Earliest(p, t, f)
  PROVE  \A c \in Cells(p) : f[c] # None =>
           \E r : Path(p, c, r) /\ Simulated(p, r, t)[Len(r)].time = f[c]
<1> DEFINE D == Cells(p)
           L == Locations(p)
           w == [c \in Cells(p) |-> Cardinality(c[1])]
           T == {c \in D : f[c] # None =>
                   /\ c[2] = End(p) => c[1] = Locations(p)
                   /\ \E r : Path(p, c, r) /\ Simulated(p, r, t)[Len(r)].time = f[c]}
<1>1. /\ w \in [D -> Nat]
      /\ \A c \in D : c[2] \in c[1] => \A l \in L : <<c[1] \ {c[2]}, l>> \in Below(D, w, c)
  BY CellRanks
<1> HIDE DEF w
<1>2. ASSUME NEW c \in D, \A e \in Below(D, w, c) : e \in T
      PROVE  c \in T
  <2> SUFFICES ASSUME f[c] # None
               PROVE  /\ c[2] = End(p) => c[1] = Locations(p)
                      /\ \E r : Path(p, c, r) /\ Simulated(p, r, t)[Len(r)].time = f[c]
    OBVIOUS
  <2>1. CASE c = <<{0}, 0>>
    <3>1. f[c] = initial_service(p, t).departure
      BY <2>1 DEF Earliest
    <3>2. Path(p, c, << 0 >>) /\ Simulated(p, << 0 >>, t)[1] = SimulatedStart(p, t) /\ Len(<< 0 >>) = 1
      BY <2>1, FirstPath
    <3>3. SimulatedStart(p, t).time = initial_service(p, t).departure
      BY DEF SimulatedStart
    <3>4. c[2] = End(p) => c[1] = Locations(p)
      BY <2>1 DEF End, Locations, IsProblem
    <3> QED
      BY <3>1, <3>2, <3>3, <3>4
  <2>2. CASE c # <<{0}, 0>>
    <3> DEFINE from == [l \in Locations(p) |-> f[<<c[1] \ {c[2]}, l>>]]
    <3>1. f[c] = EarliestIn(p, c, from)
      BY <2>2 DEF Earliest
    <3>2. \A l \in L : <<c[1] \ {c[2]}, l>> \in D
      BY DEF Cells
    <3>3. from \in [Locations(p) -> Nat \union {None}]
      BY <3>2
    <3>4. /\ Entered(p, c)
          /\ \E l \in Locations(p) : from[l] # None /\ f[c] = transition_time(p, l, c[2], from[l])
      <4> HIDE DEF from
      <4> QED
        BY <3>1, <3>3, EarliestMeans
    <3>5. PICK l \in Locations(p) : from[l] # None /\ f[c] = transition_time(p, l, c[2], from[l])
      BY <3>4
    <3>6. c[2] \in c[1] /\ c[2] \in Locations(p)
      BY <3>4 DEF Entered, Cells
    <3> DEFINE b == <<c[1] \ {c[2]}, l>>
    <3>7. b \in T /\ f[b] = from[l] /\ f[b] # None /\ f[b] \in Nat /\ b \in D
      BY <1>1, <1>2, <3>2, <3>5, <3>6
    <3>8. l # End(p)
      <4>1. b[1] = c[1] \ {c[2]} /\ b[2] = l
        OBVIOUS
      <4>2. b[2] = End(p) => b[1] = Locations(p)
        BY <3>7
      <4>3. b[1] # Locations(p)
        BY <3>6, <4>1
      <4> QED
        BY <4>1, <4>2, <4>3
    <3>9. PICK r : Path(p, b, r) /\ Simulated(p, r, t)[Len(r)].time = f[b]
      BY <3>7
    <3> DEFINE q == Append(r, c[2])
               v == Simulated(p, r, t)[Len(r)]
    <3>10. Path(p, c, q)
      BY <3>6, <3>8, <3>9, LongerPath
    <3>11. /\ r \in Seq(Locations(p)) /\ Len(r) >= 1 /\ r[1] = 0 /\ Last(r) = l
      BY <3>9 DEF Path
    <3>12. v \in SimulatedStates(p) /\ v.time = f[b] /\ v.at = l
      <4>1. Len(r) \in 1 .. Len(r) /\ r[Len(r)] = l
        BY <3>11 DEF Last
      <4>2. v \in SimulatedStates(p)
        BY <3>11, <4>1, SimulatedSteps
      <4>3. v.at = r[Len(r)]
        <5>1. v.time # None
          BY <3>7, <3>9
        <5> HIDE DEF b
        <5> QED
          BY <3>11, <4>1, <5>1, SimulatedOnTheWay
      <4> QED
        BY <3>9, <4>1, <4>2, <4>3
    <3>13. Simulated(p, q, t)[Len(q)] = SimulatedLeg(p, v, c[2])
      BY <3>6, <3>11, SimulatedPrefix
    <3>14. SimulatedLeg(p, v, c[2]).time = transition_time(p, l, c[2], f[b])
      <4> HIDE DEF v, b
      <4> QED
        BY <3>6, <3>7, <3>12, TransitionTimes
    <3>15. Simulated(p, q, t)[Len(q)].time = f[c]
      <4> HIDE DEF v, b, q, from
      <4> QED
        BY <3>5, <3>7, <3>13, <3>14
    <3>16. c[2] = End(p) => c[1] = Locations(p)
      BY <3>4 DEF Entered
    <3> HIDE DEF q
    <3> QED
      BY <3>10, <3>15, <3>16
  <2> QED
    BY <2>1, <2>2
<1> HIDE DEF T, D
<1>3. \A c \in D : c \in T
  BY <1>1, <1>2, RankedInduction
<1> QED
  BY <1>3 DEF T, D

LEMMA EarliestIsComplete ==
  ASSUME NEW p, IsProblem(p), ~ partial(p), NEW t \in Nat, NEW r, validate_visit_order(p, r),
         Simulated(p, r, t)[Len(r)].time # None,
         NEW f \in [Cells(p) -> Nat \union {None}], Earliest(p, t, f)
  PROVE  initial_service(p, t).departure # None /\ f[<<Locations(p), End(p)>>] # None
<1> DEFINE n == Len(r)
           v == Simulated(p, r, t)
           T == {k \in 1 .. n : f[<<Mask(r, k), r[k]>>] # None /\ f[<<Mask(r, k), r[k]>>] <= v[k].time}
<1>1. /\ r \in Seq(Locations(p)) /\ Len(r) \in Nat /\ Len(r) >= 1 /\ r[1] = 0 /\ r[Len(r)] = End(p)
      /\ ToSet(r) = {r[i] : i \in 1 .. Len(r)} /\ TerminalMask(p, ToSet(r))
  BY ValidRouteFacts
<1>2. n \in Nat \ {0} /\ \A k \in 1 .. n : r[k] \in Locations(p)
  BY <1>1
<1>3. \A k \in 1 .. n :
        /\ v[k] \in SimulatedStates(p)
        /\ v[k] = IF k = 1 THEN SimulatedStart(p, t) ELSE SimulatedLeg(p, v[k - 1], r[k])
  BY <1>1, SimulatedSteps
<1>4. \A k \in 1 .. n : v[k].time # None /\ v[k].at = r[k]
  BY <1>1, SimulatedOnTheWay
<1> HIDE DEF n, v
<1>5. \A k \in 1 .. n : v[k].time \in Nat
  BY <1>3, <1>4 DEF SimulatedStates
<1>6. v[1].time = initial_service(p, t).departure /\ initial_service(p, t).departure # None
  <2>1. v[1] = SimulatedStart(p, t) /\ v[1].time # None
    BY <1>2, <1>3, <1>4
  <2> QED
    BY <2>1 DEF SimulatedStart
<1>7. 1 \in T
  <2>1. Mask(r, 1) = {0} /\ r[1] = 0 /\ 1 \in 1 .. n
    BY <1>1, <1>2 DEF Mask
  <2>2. <<{0}, 0>> \in Cells(p)
    BY <1>1, <1>2, <2>1 DEF Cells
  <2>3. f[<<{0}, 0>>] = initial_service(p, t).departure
    BY <2>2 DEF Earliest
  <2>4. f[<<Mask(r, 1), r[1]>>] = v[1].time /\ v[1].time \in Nat /\ v[1].time # None
    BY <1>4, <1>5, <1>6, <2>1, <2>3
  <2> QED
    BY <2>1, <2>4
<1>8. \A k \in 2 .. n : k - 1 \in T => k \in T
  <2> SUFFICES ASSUME NEW k \in 2 .. n, f[<<Mask(r, k - 1), r[k - 1]>>] # None,
                      f[<<Mask(r, k - 1), r[k - 1]>>] <= v[k - 1].time
               PROVE  f[<<Mask(r, k), r[k]>>] # None /\ f[<<Mask(r, k), r[k]>>] <= v[k].time
    BY <1>2
  <2> DEFINE c == <<Mask(r, k), r[k]>>
             from == [l \in Locations(p) |-> f[<<c[1] \ {c[2]}, l>>]]
             b == <<Mask(r, k - 1), r[k - 1]>>
  <2>1. k \in 1 .. n /\ k - 1 \in 1 .. n /\ k # 1
    BY <1>2
  <2>2. /\ c \in Cells(p) /\ r[k] \in Mask(r, k) /\ c[1] \ {c[2]} = Mask(r, k - 1)
        /\ Enterable(p, c) /\ r[k - 1] \in Locations(p) \ {End(p)} /\ c # <<{0}, 0>>
    BY RouteCells DEF n
  <2>3. Entered(p, c)
    <3> HIDE DEF c
    <3> QED
      BY <2>2 DEF Entered, Enterable, TerminalMask
  <2>4. from \in [Locations(p) -> Nat \union {None}]
    <3>1. \A l \in Locations(p) : <<c[1] \ {c[2]}, l>> \in Cells(p)
      BY <2>2 DEF Cells
    <3> QED
      BY <3>1
  <2>5. f[c] = EarliestIn(p, c, from)
    <3> HIDE DEF c
    <3> QED
      BY <2>2 DEF Earliest
  <2>6. from[r[k - 1]] = f[b] /\ c[2] = r[k]
    BY <2>2
  <2>7. f[b] \in Nat /\ f[b] <= v[k - 1].time /\ f[b] # None
    <3>1. b \in Cells(p)
      BY <2>2 DEF Cells
    <3> QED
      BY <3>1
  <2>8. v[k].time = transition_time(p, r[k - 1], r[k], v[k - 1].time) /\ v[k].time # None
    <3>1. /\ v[k - 1] \in SimulatedStates(p) /\ v[k - 1].at = r[k - 1] /\ v[k - 1].time \in Nat
          /\ v[k] = SimulatedLeg(p, v[k - 1], r[k]) /\ v[k].time # None
          /\ r[k - 1] \in Locations(p) /\ r[k] \in Locations(p)
      BY <1>2, <1>3, <1>4, <1>5, <2>1
    <3> QED
      BY <3>1, TransitionTimes
  <2> HIDE DEF c, from, b
  <2>9. /\ transition_time(p, r[k - 1], r[k], f[b]) # None
        /\ transition_time(p, r[k - 1], r[k], f[b]) <= v[k].time
        /\ transition_time(p, r[k - 1], r[k], f[b]) \in Nat \union {None}
    <3>1. r[k - 1] \in Locations(p) /\ r[k] \in Locations(p) /\ v[k - 1].time \in Nat
      BY <1>2, <1>5, <2>1
    <3> QED
      BY <2>7, <2>8, <3>1, TransitionTimes
  <2>10. /\ f[c] # None /\ f[c] <= transition_time(p, r[k - 1], r[k], f[b])
         /\ f[c] \in Nat \union {None}
    BY <2>2, <2>3, <2>4, <2>5, <2>6, <2>7, <2>9, EarliestMeans
  <2>11. f[c] <= v[k].time
    <3>1. v[k].time \in Nat
      BY <1>5, <2>1
    <3> QED
      BY <2>9, <2>10, <3>1
  <2> QED
    BY <2>10, <2>11 DEF c
<1> HIDE DEF T
<1>9. n \in T
  <2>1. \A k \in 1 .. n : k \in T
    BY <1>2, <1>7, <1>8, VisitInduction
  <2> QED
    BY <1>2, <2>1
<1>10. Mask(r, n) = Locations(p) /\ r[n] = End(p)
  BY <1>1 DEF Mask, n, TerminalMask
<1> QED
  BY <1>6, <1>9, <1>10 DEF T

(* With every location required, the feasibility search decides whether    *)
(* some route can be driven.                                               *)
LEMMA FeasibleMeans ==
  ASSUME NEW p, IsProblem(p), ~ partial(p), NEW t \in Nat
  PROVE  is_feasible_at_start(p, t) <=>
           \E r : validate_visit_order(p, r) /\ simulate_solution(p, r, t).ok
<1> DEFINE goal == <<Locations(p), End(p)>>
<1>1. PICK f \in [Cells(p) -> Nat \union {None}] :
        /\ Earliest(p, t, f)
        /\ is_feasible_at_start(p, t) <=>
             /\ initial_service(p, t).departure # None
             /\ p.n = 1 \/ f[<<Locations(p), End(p)>>] # None
  BY EarliestFilled
<1>2. ASSUME is_feasible_at_start(p, t)
      PROVE  \E r : validate_visit_order(p, r) /\ simulate_solution(p, r, t).ok
  <2>1. initial_service(p, t).departure # None /\ (p.n = 1 \/ f[goal] # None)
    BY <1>1, <1>2
  <2>2. goal \in Cells(p)
    BY DEF Cells, End, Locations, IsProblem
  <2>3. f[goal] # None
    <3>1. p.n = 1 => goal = <<{0}, 0>>
      BY DEF Locations, End
    <3>2. p.n = 1 => f[goal] = initial_service(p, t).departure
      <4> HIDE DEF goal
      <4> QED
        BY <1>1, <2>2, <3>1 DEF Earliest
    <3> QED
      BY <2>1, <3>2
  <2>4. PICK r : Path(p, goal, r) /\ Simulated(p, r, t)[Len(r)].time = f[goal]
    <3> HIDE DEF goal
    <3> QED
      BY <1>1, <2>1, <2>2, <2>3, EarliestIsSound
  <2>5. TerminalMask(p, Locations(p))
    BY DEF TerminalMask, IsProblem
  <2>6. validate_visit_order(p, r)
    BY <2>4, <2>5, PathIsValid
  <2>7. simulate_solution(p, r, t).ok
    BY <2>3, <2>4, <2>6, ValidRoutes, SimulatedMetrics
  <2> QED
    BY <2>6, <2>7
<1>3. ASSUME NEW r, validate_visit_order(p, r), simulate_solution(p, r, t).ok
      PROVE  is_feasible_at_start(p, t)
  <2>1. Simulated(p, r, t)[Len(r)].time # None
    BY <1>3, ValidRoutes, SimulatedMetrics
  <2> QED
    BY <1>1, <1>3, <2>1, EarliestIsComplete
<1> QED
  BY <1>2, <1>3

(* The reference orders are the ones the solvers accept. *)
LEMMA ValidOrdersMean ==
  ASSUME NEW p, IsProblem(p), NEW r
  PROVE  r \in ValidOrders(p) <=> validate_visit_order(p, r)
<1>1. CASE p.n = 1
  BY <1>1 DEF ValidOrders, validate_visit_order
<1>2. CASE p.n # 1
  <2> DEFINE Sets == {T \in SUBSET Intermediate(p) :
                        /\ p.required \subseteq T \union {0, End(p)}
                        /\ p.visit_policy = "ALL_REQUIRED" => T = Intermediate(p)}
  <2>1. r \in ValidOrders(p) <=> \E S \in Sets : \E f \in SetToSeqs(S) : r = << 0 >> \o f \o <<End(p)>>
    BY <1>2 DEF ValidOrders
  <2>2. ASSUME NEW S \in Sets, NEW f \in SetToSeqs(S), r = << 0 >> \o f \o <<End(p)>>
        PROVE  validate_visit_order(p, r)
    BY <1>2, <2>2, RouteBetween, ShapeIsValid
  <2>3. ASSUME validate_visit_order(p, r)
        PROVE  \E S \in Sets : \E f \in SetToSeqs(S) : r = << 0 >> \o f \o <<End(p)>>
    <3> DEFINE c == Len(r) - 2
               f == [k \in 1 .. c |-> r[k + 1]]
               S == ToSet(f)
    <3>1. /\ r \in Seq(Locations(p)) /\ Len(r) >= 2 /\ r[1] = 0 /\ r[Len(r)] = End(p)
          /\ \A i, j \in 1 .. Len(r) : r[i] = r[j] => i = j
          /\ \A i \in p.required : \E k \in 1 .. Len(r) : r[k] = i
      BY <1>2, <2>3, ShapeIsValid DEF ValidShape
    <3>2. c \in Nat /\ Len(r) = c + 2 /\ \A k \in 1 .. Len(r) : r[k] \in Locations(p)
      BY <3>1
    <3>3. \A k \in 1 .. c : k + 1 \in 1 .. Len(r) /\ k + 1 # 1 /\ k + 1 # Len(r)
      <4> HIDE DEF c
      <4> QED
        BY <3>2
    <3>4. \A k \in 1 .. c : f[k] = r[k + 1] /\ f[k] \in Locations(p) /\ f[k] # 0 /\ f[k] # End(p)
      <4>1. 1 \in 1 .. Len(r) /\ Len(r) \in 1 .. Len(r)
        BY <3>2
      <4> HIDE DEF c
      <4> QED
        BY <3>1, <3>2, <3>3, <4>1
    <3>5. f \in Seq(Locations(p)) /\ Len(f) = c /\ DOMAIN f = 1 .. c
      <4> HIDE DEF c
      <4> QED
        BY <3>2, <3>4
    <3>6. \A i, j \in 1 .. c : f[i] = f[j] => i = j
      <4> SUFFICES ASSUME NEW i \in 1 .. c, NEW j \in 1 .. c, f[i] = f[j] PROVE i = j
        OBVIOUS
      <4>1. r[i + 1] = r[j + 1] /\ i + 1 \in 1 .. Len(r) /\ j + 1 \in 1 .. Len(r)
        BY <3>3, <3>4
      <4>2. i + 1 = j + 1
        BY <3>1, <4>1
      <4> HIDE DEF c
      <4> QED
        BY <3>2, <4>2
    <3> HIDE DEF f, c
    <3>7. Cardinality(S) = c
      BY <3>5, <3>6, NoRepeatsInjective DEF NoRepeats
    <3>8. S = {f[k] : k \in 1 .. c}
      BY <3>5 DEF ToSet
    <3> HIDE DEF S
    <3>9. f \in SetToSeqs(S)
      <4>1. f \in [1 .. c -> S]
        BY <3>5, <3>8
      <4> QED
        BY <3>6, <3>7, <4>1 DEF SetToSeqs
    <3>10. r = << 0 >> \o f \o <<End(p)>>
      <4> DEFINE y == << 0 >> \o f
                 x == << 0 >> \o f \o <<End(p)>>
      <4>0. 0 \in Locations(p) /\ End(p) \in Locations(p)
        BY DEF IsProblem, Locations, End
      <4>1. y \in Seq(Locations(p)) /\ Len(y) = 1 + c /\ y[1] = 0 /\ \A k \in 2 .. (1 + c) : y[k] = f[k - 1]
        BY <3>2, <3>5, <4>0
      <4>2. x = y \o <<End(p)>>
        OBVIOUS
      <4> HIDE DEF y, x
      <4>3. x \in Seq(Locations(p)) /\ Len(x) = c + 2 /\ x[c + 2] = End(p)
        BY <3>2, <4>0, <4>1, <4>2
      <4>4. \A k \in 1 .. (c + 1) : x[k] = y[k]
        BY <3>2, <4>0, <4>1, <4>2
      <4>5. ASSUME NEW k \in 1 .. (c + 2) PROVE x[k] = r[k]
        <5>1. k = 1 \/ k = c + 2 \/ k \in 2 .. (1 + c)
          BY <3>2
        <5>2. CASE k \in 2 .. (1 + c)
          <6>1. k - 1 \in 1 .. c /\ (k - 1) + 1 = k /\ k \in 1 .. (c + 1)
            BY <3>2, <5>2
          <6> QED
            BY <3>4, <4>1, <4>4, <5>2, <6>1
        <5>3. CASE k = 1
          <6>1. 1 \in 1 .. (c + 1)
            BY <3>2
          <6> QED
            BY <3>1, <4>1, <4>4, <5>3, <6>1
        <5> QED
          BY <3>1, <3>2, <4>3, <5>1, <5>2, <5>3
      <4>6. x = r
        BY <3>1, <3>2, <4>3, <4>5, SeqEqual
      <4> QED
        BY <4>6 DEF x
    <3>11. S \in Sets
      <4>1. S \subseteq Intermediate(p)
        <5>1. \A i \in Locations(p) : i # 0 /\ i # End(p) => i \in Intermediate(p)
          BY DEF Intermediate, Locations, End, IsProblem
        <5> QED
          BY <3>4, <3>8, <5>1
      <4>2. p.required \subseteq S \union {0, End(p)}
        <5> SUFFICES ASSUME NEW i \in p.required, i # 0, i # End(p) PROVE i \in S
          OBVIOUS
        <5>1. PICK k \in 1 .. Len(r) : r[k] = i
          BY <3>1
        <5>2. k # 1 /\ k # Len(r)
          BY <3>1, <5>1
        <5>3. k - 1 \in 1 .. c /\ (k - 1) + 1 = k
          BY <3>2, <5>2
        <5> QED
          BY <3>4, <3>8, <5>1, <5>3
      <4>3. p.visit_policy = "ALL_REQUIRED" => S = Intermediate(p)
        <5> SUFFICES ASSUME p.visit_policy = "ALL_REQUIRED", NEW i \in Intermediate(p) PROVE i \in S
          BY <4>1
        <5>1. ToSet(r) = Locations(p) /\ ToSet(r) = {r[k] : k \in 1 .. Len(r)}
          BY <2>3, ValidRouteFacts DEF TerminalMask, partial
        <5>2. i \in Locations(p) /\ i # 0 /\ i # End(p)
          BY DEF Intermediate, Locations, End, IsProblem
        <5>3. PICK k \in 1 .. Len(r) : r[k] = i
          BY <5>1, <5>2
        <5>4. k # 1 /\ k # Len(r)
          BY <3>1, <5>2, <5>3
        <5>5. k - 1 \in 1 .. c /\ (k - 1) + 1 = k
          BY <3>2, <5>4
        <5> QED
          BY <3>4, <3>8, <5>3, <5>5
      <4> QED
        BY <4>1, <4>2, <4>3
    <3> HIDE DEF Sets
    <3> QED
      BY <3>9, <3>10, <3>11
  <2> HIDE DEF Sets
  <2> QED
    BY <2>1, <2>2, <2>3
<1> QED
  BY <1>1, <1>2

-----------------------------------------------------------------------------
(* The exact solver: the bisection over start times. *)

Drivable(p, r, t) == validate_visit_order(p, r) /\ simulate_solution(p, r, t).ok

Covers(p, c, r) == partial(p) => CoverageAtLeast(Coverage(p, ToSet(r)), c)

(* Some route that starts at t gives nothing up. *)
Kept(p, c, t) == \E r : Drivable(p, r, t) /\ Covers(p, c, r)

(* No more than c can be covered from the requested start on. *)
Limits(p, c) ==
  partial(p) => \A r : Drivable(p, r, p.start_time) => CoverageAtLeast(c, Coverage(p, ToSet(r)))

LEMMA CoverageOrders ==
  ASSUME NEW a \in Int \X Int, NEW b \in Int \X Int, NEW c \in Int \X Int
  PROVE  /\ CoverageAtLeast(a, a)
         /\ CoverageAtLeast(a, b) /\ CoverageAtLeast(b, c) => CoverageAtLeast(a, c)
         /\ CoverageAtLeast(a, b) /\ CoverageAtLeast(b, a) => a = b
<1>1. /\ a[1] \in Int /\ a[2] \in Int /\ b[1] \in Int /\ b[2] \in Int /\ c[1] \in Int /\ c[2] \in Int
      /\ a = <<a[1], a[2]>> /\ b = <<b[1], b[2]>>
  OBVIOUS
<1>2. /\ CoverageAtLeast(a, a)
      /\ CoverageAtLeast(a, b) /\ CoverageAtLeast(b, c) => CoverageAtLeast(a, c)
      /\ CoverageAtLeast(a, b) /\ CoverageAtLeast(b, a) => a[1] = b[1] /\ a[2] = b[2]
  BY <1>1 DEF CoverageAtLeast
<1> QED
  BY <1>1, <1>2

(* What is not better does not cover more. *)
LEMMA NotBetterCovers ==
  ASSUME NEW p, IsProblem(p), NEW a \in MetricsOf, NEW b \in MetricsOf, ~ Better(p, a, b)
  PROVE  CoverageAtLeast(b.coverage, a.coverage)
<1>1. ~ Outranks(p, a, b)
  BY BetterMeans
<1>2. /\ a.coverage[1] \in Int /\ a.coverage[2] \in Int /\ b.coverage[1] \in Int /\ b.coverage[2] \in Int
  BY MetricsTypes
<1> QED
  BY <1>1, <1>2 DEF Outranks, CoverageAtLeast

LEMMA DrivableFacts ==
  ASSUME NEW p, IsProblem(p), NEW r, NEW t \in Nat, Drivable(p, r, t)
  PROVE  LET m == simulate_solution(p, r, t)
         IN  /\ m \in MetricsOf /\ m.start = t /\ m.coverage = Coverage(p, ToSet(r))
             /\ Coverage(p, ToSet(r)) \in Int \X Int
             /\ \A u \in Nat : u <= t => Drivable(p, r, u)
<1>1. r \in Seq(Locations(p)) /\ Len(r) >= 1 /\ ToSet(r) \subseteq Locations(p)
  BY ValidRouteFacts DEF Drivable
<1>2. \A u \in Nat : u <= t => Drivable(p, r, u)
  BY <1>1, EarlierSimulates DEF Drivable
<1>3. Coverage(p, ToSet(r)) \in Int \X Int
  BY <1>1, CoverageType
<1> QED
  BY <1>1, <1>2, <1>3, SimulatedMetrics DEF Drivable

(* SearchMeans in these words. *)
LEMMA SearchFinds ==
  ASSUME NEW p, IsProblem(p), NEW t \in Nat
  PROVE  LET x == search_at_start(p, t)
         IN  /\ x.ok => Drivable(p, x.route, t) /\ x.metrics = simulate_solution(p, x.route, t)
             /\ ~ x.ok => x = NoFeasibleRoute
             /\ \A r : Drivable(p, r, t) =>
                  /\ x.ok /\ ~ Better(p, simulate_solution(p, r, t), x.metrics)
                  /\ CoverageAtLeast(x.metrics.coverage, Coverage(p, ToSet(r)))
<1> DEFINE x == search_at_start(p, t)
<1>1. /\ x.ok => Drivable(p, x.route, t) /\ x.metrics = simulate_solution(p, x.route, t)
      /\ ~ x.ok => x = NoFeasibleRoute
      /\ \A r : Drivable(p, r, t) => x.ok /\ ~ Better(p, simulate_solution(p, r, t), x.metrics)
  BY SearchMeans DEF Drivable
<1> HIDE DEF x
<1>2. ASSUME NEW r, Drivable(p, r, t)
      PROVE  CoverageAtLeast(x.metrics.coverage, Coverage(p, ToSet(r)))
  <2>1. simulate_solution(p, r, t) \in MetricsOf /\ simulate_solution(p, r, t).coverage = Coverage(p, ToSet(r))
    BY <1>2, DrivableFacts
  <2>2. x.ok /\ x.metrics \in MetricsOf /\ ~ Better(p, simulate_solution(p, r, t), x.metrics)
    <3>1. x.ok
      BY <1>1, <1>2
    <3> QED
      BY <1>1, <1>2, <3>1, DrivableFacts
  <2>3. CoverageAtLeast(x.metrics.coverage, simulate_solution(p, r, t).coverage)
    BY <2>1, <2>2, NotBetterCovers
  <2> QED
    BY <2>1, <2>3
<1> QED
  BY <1>1, <1>2 DEF x

LEMMA PreservesMeans ==
  ASSUME IsProblem(problem), target \in Int \X Int, NEW t \in Nat
  PROVE  Preserves(t) <=> Kept(problem, target, t)
<1> DEFINE x == search_at_start(problem, t)
<1>1. CASE partial(problem)
  <2>1. Preserves(t) <=> x.ok /\ CoverageAtLeast(x.metrics.coverage, target)
    BY <1>1 DEF Preserves
  <2>2. /\ x.ok => Drivable(problem, x.route, t) /\ x.metrics = simulate_solution(problem, x.route, t)
        /\ \A r : Drivable(problem, r, t) =>
             x.ok /\ CoverageAtLeast(x.metrics.coverage, Coverage(problem, ToSet(r)))
    BY SearchFinds
  <2> HIDE DEF x
  <2>3. x.ok => x.metrics.coverage = Coverage(problem, ToSet(x.route)) /\ x.metrics.coverage \in Int \X Int
    BY <2>2, DrivableFacts
  <2>4. ASSUME Preserves(t) PROVE Kept(problem, target, t)
    BY <2>1, <2>2, <2>3, <2>4 DEF Kept, Covers
  <2>5. ASSUME NEW r, Drivable(problem, r, t), Covers(problem, target, r) PROVE Preserves(t)
    <3>1. x.ok /\ CoverageAtLeast(x.metrics.coverage, Coverage(problem, ToSet(r)))
      BY <2>2, <2>5
    <3>2. CoverageAtLeast(Coverage(problem, ToSet(r)), target)
      BY <1>1, <2>5 DEF Covers
    <3>3. Coverage(problem, ToSet(r)) \in Int \X Int
      BY <2>5, DrivableFacts
    <3> QED
      BY <2>1, <2>3, <3>1, <3>2, <3>3, CoverageOrders
  <2> QED
    BY <2>4, <2>5 DEF Kept
<1>2. CASE ~ partial(problem)
  <2>1. Preserves(t) <=> is_feasible_at_start(problem, t)
    BY <1>2 DEF Preserves
  <2>2. Preserves(t) <=> \E r : Drivable(problem, r, t)
    BY <1>2, <2>1, FeasibleMeans DEF Drivable
  <2> QED
    BY <1>2, <2>2 DEF Kept, Covers
<1> QED
  BY <1>1, <1>2

LEMMA KeptEarlier ==
  ASSUME NEW p, IsProblem(p), NEW c, NEW t \in Nat, NEW u \in Nat, u <= t, Kept(p, c, t)
  PROVE  Kept(p, c, u)
<1>1. PICK r : Drivable(p, r, t) /\ Covers(p, c, r)
  BY DEF Kept
<1>2. Drivable(p, r, u)
  BY <1>1, DrivableFacts
<1> QED
  BY <1>1, <1>2 DEF Kept

(* An answer that nothing beats, at any start time. *)
Optimal(p, x) ==
  IF x.ok
  THEN /\ x.metrics.start \in StartTimes(p)
       /\ Drivable(p, x.route, x.metrics.start)
       /\ x.metrics = simulate_solution(p, x.route, x.metrics.start)
       /\ p.start_policy = "LATEST" =>
            \A t \in (x.metrics.start + 1) .. (MinutesPerDay - 1) : ~ simulate_solution(p, x.route, t).ok
       /\ \A t \in StartTimes(p) : \A r :
            Drivable(p, r, t) => ~ Better(p, simulate_solution(p, r, t), x.metrics)
  ELSE \A t \in StartTimes(p) : \A r : ~ Drivable(p, r, t)

LEMMA StartTimesTypes ==
  ASSUME NEW p, IsProblem(p)
  PROVE  /\ StartTimes(p) \subseteq Nat /\ p.start_time \in Nat /\ p.start_time \in StartTimes(p)
         /\ \A t \in StartTimes(p) : p.start_time <= t
BY MinutesPerDayAssumption DEF StartTimes, IsProblem

LEMMA FixedIsOptimal ==
  ASSUME NEW p, IsProblem(p), p.start_policy # "LATEST"
  PROVE  Optimal(p, search_at_start(p, p.start_time))
<1> DEFINE x == search_at_start(p, p.start_time)
<1>1. StartTimes(p) = {p.start_time} /\ p.start_time \in Nat
  BY StartTimesTypes DEF StartTimes
<1>2. /\ x.ok => Drivable(p, x.route, p.start_time) /\ x.metrics = simulate_solution(p, x.route, p.start_time)
      /\ \A r : Drivable(p, r, p.start_time) =>
           x.ok /\ ~ Better(p, simulate_solution(p, r, p.start_time), x.metrics)
  BY <1>1, SearchFinds
<1> HIDE DEF x
<1>3. x.ok => x.metrics.start = p.start_time
  BY <1>1, <1>2, DrivableFacts
<1> QED
  BY <1>1, <1>2, <1>3 DEF Optimal, x

LEMMA LatestIsOptimal ==
  ASSUME NEW p, IsProblem(p), p.start_policy = "LATEST", NEW c \in Int \X Int,
         NEW t \in StartTimes(p), Kept(p, c, t), Limits(p, c),
         \A u \in (t + 1) .. (MinutesPerDay - 1) : ~ Kept(p, c, u)
  PROVE  Optimal(p, search_at_start(p, t))
<1> DEFINE x == search_at_start(p, t)
           w == x.metrics
<1>1. /\ t \in Nat /\ StartTimes(p) = p.start_time .. (MinutesPerDay - 1) /\ p.start_time \in Nat
      /\ MinutesPerDay \in Nat
  BY StartTimesTypes, MinutesPerDayAssumption DEF StartTimes
<1>2. /\ x.ok => Drivable(p, x.route, t) /\ w = simulate_solution(p, x.route, t)
      /\ \A r : Drivable(p, r, t) =>
           /\ x.ok /\ ~ Better(p, simulate_solution(p, r, t), w)
           /\ CoverageAtLeast(w.coverage, Coverage(p, ToSet(r)))
  BY <1>1, SearchFinds
<1> HIDE DEF x
<1>3. PICK k : Drivable(p, k, t) /\ Covers(p, c, k)
  BY DEF Kept
<1>4. x.ok /\ Drivable(p, x.route, t) /\ w = simulate_solution(p, x.route, t)
  BY <1>2, <1>3
<1>5. /\ w \in MetricsOf /\ w.start = t /\ w.coverage = Coverage(p, ToSet(x.route)) /\ w.coverage \in Int \X Int
  BY <1>1, <1>4, DrivableFacts
<1>6. partial(p) => CoverageAtLeast(w.coverage, c)
  <2>1. CoverageAtLeast(w.coverage, Coverage(p, ToSet(k)))
    BY <1>2, <1>3
  <2>2. Coverage(p, ToSet(k)) \in Int \X Int
    BY <1>1, <1>3, DrivableFacts
  <2> QED
    BY <1>3, <1>5, <2>1, <2>2, CoverageOrders DEF Covers
<1>7. ASSUME NEW u \in (t + 1) .. (MinutesPerDay - 1), simulate_solution(p, x.route, u).ok PROVE FALSE
  <2>1. Drivable(p, x.route, u) /\ Covers(p, c, x.route)
    BY <1>4, <1>5, <1>6, <1>7 DEF Drivable, Covers
  <2> QED
    BY <2>1 DEF Kept
<1>8. ASSUME NEW u \in StartTimes(p), NEW r, Drivable(p, r, u)
      PROVE  ~ Better(p, simulate_solution(p, r, u), w)
  <2> DEFINE m == simulate_solution(p, r, u)
  <2>1. u \in Nat /\ p.start_time <= u /\ u <= MinutesPerDay - 1
    BY <1>1, <1>8
  <2>2. m \in MetricsOf /\ m.start = u /\ m.coverage = Coverage(p, ToSet(r)) /\ m.coverage \in Int \X Int
    BY <1>8, <2>1, DrivableFacts
  <2>3. CoverageAtLeast(w.coverage, m.coverage)
    <3>1. CASE partial(p)
      <4>1. Drivable(p, r, p.start_time)
        BY <1>1, <1>8, <2>1, DrivableFacts
      <4>2. CoverageAtLeast(c, m.coverage)
        BY <2>2, <3>1, <4>1 DEF Limits
      <4> HIDE DEF m
      <4> QED
        BY <1>5, <1>6, <2>2, <3>1, <4>2, CoverageOrders
    <3>2. CASE ~ partial(p)
      <4>1. ToSet(r) = Locations(p) /\ ToSet(x.route) = Locations(p)
        BY <1>4, <1>8, <3>2, ValidRouteFacts DEF Drivable, TerminalMask
      <4>2. m.coverage = w.coverage
        BY <1>5, <2>2, <4>1
      <4> HIDE DEF m
      <4> QED
        BY <1>5, <4>2, CoverageOrders
    <3> QED
      BY <3>1, <3>2
  <2>4. m.coverage = w.coverage => u <= t
    <3> SUFFICES ASSUME m.coverage = w.coverage, ~ (u <= t) PROVE FALSE
      OBVIOUS
    <3>1. u \in (t + 1) .. (MinutesPerDay - 1)
      BY <1>1, <2>1
    <3>2. Covers(p, c, r)
      BY <1>6, <2>2 DEF Covers
    <3> QED
      BY <1>8, <3>1, <3>2 DEF Kept
  <2>5. u = t => ~ Better(p, m, w)
    BY <1>2, <1>8
  <2> HIDE DEF m
  <2>6. CASE u = t
    BY <2>5, <2>6 DEF m
  <2>7. CASE u # t
    <3>1. StartKey(p, m) = -u /\ StartKey(p, w) = -t
      BY <1>5, <2>2, MetricsTypes
    <3>2. /\ w.coverage = <<w.coverage[1], w.coverage[2]>> /\ m.coverage = <<m.coverage[1], m.coverage[2]>>
          /\ w.coverage[1] \in Int /\ w.coverage[2] \in Int /\ m.coverage[1] \in Int /\ m.coverage[2] \in Int
      BY <1>5, <2>2
    <3>3. m.coverage[1] = w.coverage[1] /\ m.coverage[2] = w.coverage[2] => u < t
      <4>1. m.coverage[1] = w.coverage[1] /\ m.coverage[2] = w.coverage[2] => m.coverage = w.coverage
        BY <3>2
      <4> QED
        BY <1>1, <2>1, <2>4, <2>7, <4>1
    <3>4. ~ Outranks(p, m, w)
      BY <1>1, <2>1, <2>3, <3>1, <3>2, <3>3 DEF Outranks, CoverageAtLeast
    <3> QED
      BY <1>5, <2>2, <3>4, BetterMeans DEF m
  <2> QED
    BY <2>6, <2>7
<1>9. w.start \in StartTimes(p)
  BY <1>5
<1> QED
  BY <1>4, <1>5, <1>7, <1>8, <1>9 DEF Optimal, x

-----------------------------------------------------------------------------
(* The call of the exact solver. *)

(* The bisection: a start that keeps the target, and none after `high'. *)
Bounds ==
  /\ problem.start_policy = "LATEST"
  /\ low \in Nat /\ high \in Nat
  /\ problem.start_time <= low /\ low <= high /\ high <= MinutesPerDay - 1
  /\ Limits(problem, target)
  /\ Kept(problem, target, low)
  /\ \A t \in (high + 1) .. (MinutesPerDay - 1) : ~ Kept(problem, target, t)

ExactHeld ==
  /\ problem \in Problems
  /\ target \in Int \X Int
  /\ solver = "exact" => pc \in ExactPhases \union {"done"}
  /\ pc \in {"exact_target", "exact_feasible"} =>
       /\ problem.start_policy = "LATEST"
       /\ low = problem.start_time /\ high = MinutesPerDay - 1
       /\ pc = "exact_target" <=> partial(problem)
  /\ pc = "exact_probe" => Bounds
  /\ pc = "exact_search" =>
       IF problem.start_policy = "LATEST" THEN Bounds /\ low = high ELSE low = problem.start_time
  /\ pc = "done" /\ solver = "exact" =>
       \/ Optimal(problem, result)
       \/ result = Cancelled
       \/ ~ result.ok /\ problem.n > ExactMaxLocations

(* Nothing can be driven at all when nothing can be at the requested start. *)
LEMMA NothingIsOptimal ==
  ASSUME NEW p, IsProblem(p), \A r : ~ Drivable(p, r, p.start_time)
  PROVE  Optimal(p, NoFeasibleRoute)
<1>1. ASSUME NEW t \in StartTimes(p), NEW r, Drivable(p, r, t) PROVE FALSE
  <2>1. t \in Nat /\ p.start_time \in Nat /\ p.start_time <= t
    BY StartTimesTypes
  <2>2. Drivable(p, r, p.start_time)
    BY <1>1, <2>1, DrivableFacts
  <2> QED
    BY <2>2
<1> QED
  BY <1>1, Errors DEF Optimal

LEMMA ExactBegins ==
  ASSUME ExactHeld, exact_begin
  PROVE  ExactHeld'
<1>1. IsProblem(problem)
  BY RouteSearchAssumption DEF ExactHeld
<1>2. /\ problem' = problem /\ solver' = solver /\ target' = target
      /\ low' = problem.start_time /\ high' = MinutesPerDay - 1
  BY DEF exact_begin, Answer, Goto, callVars
<1>3. \/ pc' = "done" /\ result' = Cancelled
      \/ /\ pc' = "done" /\ result' = Error("UnsupportedLocationCount")
         /\ problem.n > ExactMaxLocations
      \/ pc' = "exact_search" /\ problem.start_policy # "LATEST"
      \/ pc' = "exact_target" /\ problem.start_policy = "LATEST" /\ partial(problem)
      \/ pc' = "exact_feasible" /\ problem.start_policy = "LATEST" /\ ~ partial(problem)
  BY DEF exact_begin, Answer, Goto
<1> QED
  BY <1>2, <1>3, Errors DEF ExactHeld, ExactPhases, partial

(* The first probe: at the requested start. *)
LEMMA FirstBounds ==
  ASSUME IsProblem(problem), problem.start_policy = "LATEST", NEW c,
         Limits(problem, c), Kept(problem, c, problem.start_time),
         problem' = problem, target' = c,
         low' = problem.start_time, high' = MinutesPerDay - 1
  PROVE  Bounds'
<1>1. /\ problem.start_time \in Nat /\ MinutesPerDay - 1 \in Nat
      /\ problem.start_time <= MinutesPerDay - 1
  BY MinutesPerDayAssumption DEF IsProblem
<1>2. ((MinutesPerDay - 1) + 1) .. (MinutesPerDay - 1) = {}
  BY MinutesPerDayAssumption
<1> QED
  BY <1>1, <1>2 DEF Bounds

LEMMA ExactTargets ==
  ASSUME ExactHeld, exact_target
  PROVE  ExactHeld'
<1> DEFINE x == search_at_start(problem, problem.start_time)
<1>1. IsProblem(problem) /\ problem.start_time \in Nat
  BY RouteSearchAssumption, StartTimesTypes DEF ExactHeld
<1>2. /\ problem.start_policy = "LATEST" /\ partial(problem)
      /\ low = problem.start_time /\ high = MinutesPerDay - 1
  BY DEF ExactHeld, exact_target, At
<1>3. /\ x.ok => Drivable(problem, x.route, problem.start_time)
                   /\ x.metrics = simulate_solution(problem, x.route, problem.start_time)
      /\ \A r : Drivable(problem, r, problem.start_time) =>
           x.ok /\ CoverageAtLeast(x.metrics.coverage, Coverage(problem, ToSet(r)))
  BY <1>1, SearchFinds
<1>4. /\ problem' = problem /\ solver' = solver /\ low' = low /\ high' = high
      /\ \/ pc' = "done" /\ result' = Cancelled /\ target' = target
         \/ pc' = "done" /\ result' = NoFeasibleRoute /\ ~ x.ok /\ target' = target
         \/ pc' = "exact_probe" /\ x.ok /\ target' = x.metrics.coverage
  BY <1>2 DEF exact_target, Answer, Goto, callVars
<1> HIDE DEF x
<1>5. CASE pc' = "done" /\ result' = Cancelled /\ target' = target
  BY <1>4, <1>5 DEF ExactHeld, ExactPhases
<1>6. CASE pc' = "done" /\ result' = NoFeasibleRoute /\ ~ x.ok /\ target' = target
  <2>1. Optimal(problem, result')
    BY <1>1, <1>3, <1>6, NothingIsOptimal
  <2> QED
    BY <1>4, <1>6, <2>1 DEF ExactHeld, ExactPhases
<1>7. CASE pc' = "exact_probe" /\ x.ok /\ target' = x.metrics.coverage
  <2> DEFINE c == x.metrics.coverage
  <2>1. c = Coverage(problem, ToSet(x.route)) /\ c \in Int \X Int
    BY <1>1, <1>3, <1>7, DrivableFacts
  <2>2. Limits(problem, c)
    BY <1>3 DEF Limits
  <2> HIDE DEF c
  <2>3. Kept(problem, c, problem.start_time)
    BY <1>3, <1>7, <2>1, CoverageOrders DEF Kept, Covers
  <2>4. Bounds'
    BY <1>1, <1>2, <1>4, <1>7, <2>2, <2>3, FirstBounds DEF c
  <2> QED
    BY <1>4, <1>7, <2>1, <2>4 DEF ExactHeld, ExactPhases, c
<1> QED
  BY <1>4, <1>5, <1>6, <1>7

LEMMA ExactIsFeasible ==
  ASSUME ExactHeld, exact_feasible
  PROVE  ExactHeld'
<1>1. IsProblem(problem) /\ problem.start_time \in Nat
  BY RouteSearchAssumption, StartTimesTypes DEF ExactHeld
<1>2. /\ problem.start_policy = "LATEST" /\ ~ partial(problem)
      /\ low = problem.start_time /\ high = MinutesPerDay - 1
  BY DEF ExactHeld, exact_feasible, At
<1>3. is_feasible_at_start(problem, problem.start_time) <=>
        \E r : Drivable(problem, r, problem.start_time)
  BY <1>1, <1>2, FeasibleMeans DEF Drivable
<1>4. /\ problem' = problem /\ solver' = solver /\ low' = low /\ high' = high /\ target' = target
      /\ \/ pc' = "done" /\ result' = Cancelled
         \/ /\ pc' = "done" /\ result' = NoFeasibleRoute
            /\ ~ is_feasible_at_start(problem, problem.start_time)
         \/ pc' = "exact_probe" /\ is_feasible_at_start(problem, problem.start_time)
  BY <1>2 DEF exact_feasible, Answer, Goto, callVars, exactVars
<1>5. CASE pc' = "done" /\ result' = Cancelled
  BY <1>4, <1>5 DEF ExactHeld, ExactPhases
<1>6. CASE /\ pc' = "done" /\ result' = NoFeasibleRoute
           /\ ~ is_feasible_at_start(problem, problem.start_time)
  <2>1. Optimal(problem, result')
    BY <1>1, <1>3, <1>6, NothingIsOptimal
  <2> QED
    BY <1>4, <1>6, <2>1 DEF ExactHeld, ExactPhases
<1>7. CASE pc' = "exact_probe" /\ is_feasible_at_start(problem, problem.start_time)
  <2>1. Limits(problem, target) /\ Kept(problem, target, problem.start_time)
    BY <1>2, <1>3, <1>7 DEF Limits, Kept, Covers
  <2>2. Bounds'
    BY <1>1, <1>2, <1>4, <2>1, FirstBounds
  <2> QED
    BY <1>4, <1>7, <2>2 DEF ExactHeld, ExactPhases
<1> QED
  BY <1>4, <1>5, <1>6, <1>7

(* One round of the bisection halves the bounds and keeps what they say. *)
LEMMA ExactProbes ==
  ASSUME ExactHeld, exact_probe
  PROVE  ExactHeld'
<1> DEFINE middle == Middle
<1>1. IsProblem(problem) /\ problem.start_time \in Nat /\ target \in Int \X Int /\ Bounds
  BY RouteSearchAssumption, StartTimesTypes DEF ExactHeld, exact_probe, At
<1>2. low \in Nat /\ high \in Nat /\ low < high /\ high <= MinutesPerDay - 1 /\ MinutesPerDay \in Nat
  BY <1>1, MinutesPerDayAssumption DEF Bounds, exact_probe
<1>3. middle \in Nat /\ low < middle /\ middle <= high
  BY <1>2 DEF Middle
<1>4. /\ problem' = problem /\ solver' = solver /\ target' = target
      /\ \/ pc' = "done" /\ result' = Cancelled
         \/ pc' = pc /\ Preserves(middle) /\ low' = middle /\ high' = high
         \/ pc' = pc /\ ~ Preserves(middle) /\ low' = low /\ high' = middle - 1
  BY DEF exact_probe, Answer, Goto, callVars
<1>5. pc = "exact_probe"
  BY DEF exact_probe, At
<1> HIDE DEF middle
<1>6. Preserves(middle) <=> Kept(problem, target, middle)
  BY <1>1, <1>3, PreservesMeans
<1>7. CASE pc' = "done" /\ result' = Cancelled
  BY <1>4, <1>7 DEF ExactHeld, ExactPhases
<1>8. CASE pc' = pc /\ Preserves(middle) /\ low' = middle /\ high' = high
  <2>1. Bounds'
    BY <1>1, <1>2, <1>3, <1>4, <1>6, <1>8 DEF Bounds
  <2> QED
    BY <1>4, <1>5, <1>8, <2>1 DEF ExactHeld, ExactPhases
<1>9. CASE pc' = pc /\ ~ Preserves(middle) /\ low' = low /\ high' = middle - 1
  <2>1. ASSUME NEW t \in ((middle - 1) + 1) .. (MinutesPerDay - 1), Kept(problem, target, t) PROVE FALSE
    <3>1. t \in Nat /\ middle <= t
      BY <1>2, <1>3
    <3> QED
      BY <1>1, <1>3, <1>6, <1>9, <2>1, <3>1, KeptEarlier
  <2>2. middle - 1 \in Nat /\ low <= middle - 1 /\ middle - 1 <= MinutesPerDay - 1
    BY <1>2, <1>3
  <2>3. Bounds'
    BY <1>1, <1>4, <1>9, <2>1, <2>2 DEF Bounds
  <2> QED
    BY <1>4, <1>5, <1>9, <2>3 DEF ExactHeld, ExactPhases
<1> QED
  BY <1>4, <1>7, <1>8, <1>9

LEMMA ExactProbed ==
  ASSUME ExactHeld, exact_probed
  PROVE  ExactHeld'
<1>1. Bounds
  BY DEF ExactHeld, exact_probed, At
<1>2. low = high /\ problem.start_policy = "LATEST"
  BY <1>1 DEF Bounds, exact_probed
<1>3. /\ problem' = problem /\ solver' = solver /\ target' = target /\ low' = low /\ high' = high
      /\ pc' = "exact_search"
  BY DEF exact_probed, Goto, callVars, exactVars
<1>4. Bounds'
  BY <1>1, <1>3 DEF Bounds
<1> QED
  BY <1>2, <1>3, <1>4 DEF ExactHeld, ExactPhases

LEMMA ExactSearches ==
  ASSUME ExactHeld, exact_search
  PROVE  ExactHeld'
<1>1. IsProblem(problem) /\ target \in Int \X Int
  BY RouteSearchAssumption DEF ExactHeld
<1>2. /\ problem' = problem /\ solver' = solver /\ target' = target
      /\ pc' = "done"
      /\ result' = Cancelled \/ result' = search_at_start(problem, low)
  BY DEF exact_search, Answer, callVars, exactVars
<1>3. Optimal(problem, search_at_start(problem, low))
  <2>1. CASE problem.start_policy = "LATEST"
    <3>1. Bounds /\ low = high
      BY <2>1 DEF ExactHeld, exact_search, At
    <3>2. low \in StartTimes(problem)
      BY <1>1, <2>1, <3>1, StartTimesTypes DEF Bounds, StartTimes
    <3> QED
      BY <1>1, <2>1, <3>1, <3>2, LatestIsOptimal DEF Bounds
  <2>2. CASE problem.start_policy # "LATEST"
    BY <1>1, <2>2, FixedIsOptimal DEF ExactHeld, exact_search, At
  <2> QED
    BY <2>1, <2>2
<1> QED
  BY <1>2, <1>3 DEF ExactHeld, ExactPhases

(* The other solvers' steps. *)
LEMMA OthersKeepExact ==
  ASSUME SearchHeld, ExactHeld,
         \/ clustered_begin \/ solve_one_cluster \/ merge_clusters \/ improve_boundary
         \/ verify_clustered
         \/ generate \/ generate_mst \/ generate_greedy \/ evaluate_initial
         \/ anneal \/ leave_loop \/ finish \/ verify
  PROVE  ExactHeld'
<1>1. solver # "exact"
  <2>1. pc \in ClusterPhases \union InitialPhases \union Searching
    BY DEF At, InLoop, ClusterPhases, InitialPhases, Searching, clustered_begin, solve_one_cluster,
           merge_clusters, improve_boundary, verify_clustered, generate, generate_mst,
           generate_greedy, evaluate_initial, anneal, leave_loop, finish, verify
  <2> QED
    BY <2>1 DEF SearchHeld, CallHeld, ExactPhases, ClusterPhases, InitialPhases, Searching
<1>2. SearchHeld'
  BY ClusterHolds, GenerateHolds, InitialHolds, AnnealHolds, FinishHolds
<1>3. target' = target
  BY DEF Unclustered, Unsearched, exactVars, clustered_begin, solve_one_cluster,
         merge_clusters, improve_boundary, verify_clustered, generate, generate_mst,
         generate_greedy, evaluate_initial, anneal, leave_loop, finish, verify
<1>4. problem' = problem /\ solver' = solver
  <2>1. CASE \/ clustered_begin \/ solve_one_cluster \/ merge_clusters \/ improve_boundary
             \/ verify_clustered
    BY <2>1, ClusterSteps DEF Goto, Fail, Answer, Deliver, callVars
  <2>2. CASE generate \/ generate_mst \/ generate_greedy
    BY <2>2 DEF Goto, Answer, callVars, generate, generate_mst, generate_greedy
  <2>3. CASE evaluate_initial \/ anneal
    BY <2>3 DEF Answer, callVars, evaluate_initial, anneal
  <2>4. CASE leave_loop \/ finish \/ verify
    BY <2>4 DEF Goto, Answer, callVars, leave_loop, finish, verify
  <2> QED
    BY <2>1, <2>2, <2>3, <2>4
<1>5. pc' \notin {"exact_target", "exact_feasible", "exact_probe", "exact_search"}
  BY <1>1, <1>2, <1>4 DEF SearchHeld, CallHeld, ClusterPhases, InitialPhases, Searching
<1> QED
  BY <1>1, <1>3, <1>4, <1>5 DEF ExactHeld

LEMMA ExactStays ==
  ASSUME ExactHeld, cancel \/ UNCHANGED vars
  PROVE  ExactHeld'
<1>1. /\ problem' = problem /\ solver' = solver /\ pc' = pc /\ target' = target
      /\ low' = low /\ high' = high /\ result' = result
  BY DEF cancel, vars, callVars, exactVars
<1>2. Bounds' <=> Bounds
  BY <1>1 DEF Bounds
<1> QED
  BY <1>1, <1>2 DEF ExactHeld

(* What every state of a call of the exact solver holds: the bisection     *)
(* keeps a start that gives nothing up and has ruled out every later one,  *)
(* and the answer is the best that can be done, unless the call was        *)
(* cancelled or the problem is too large.                                  *)
THEOREM ExactIsSound == Spec => []ExactHeld
<1>1. Init => ExactHeld
  <2> SUFFICES ASSUME Init PROVE ExactHeld
    OBVIOUS
  <2>1. pc \in {"exact", "clustered", "generate"} /\ (solver = "exact" => pc = "exact")
    BY DEF Init
  <2> QED
    BY <2>1 DEF Init, ExactHeld, ExactPhases
<1>2. SearchHeld /\ ExactHeld /\ [Next]_vars => ExactHeld'
  BY ExactBegins, ExactTargets, ExactIsFeasible, ExactProbes, ExactProbed, ExactSearches,
     OthersKeepExact, ExactStays
     DEF Next, Step, Finished
<1> QED
  BY <1>1, <1>2, SearchIsSound, PTL DEF Spec

-----------------------------------------------------------------------------
(* What the properties ask of the answer. *)

(* A route that can be driven is one the schedule accepts, with the same   *)
(* times.                                                                  *)
LEMMA DrivableIsScheduled ==
  ASSUME NEW p, IsProblem(p), NEW r, NEW t \in 0 .. (MinutesPerDay - 1), Drivable(p, r, t)
  PROVE  LET m    == simulate_solution(p, r, t)
             plan == calculate_schedule_from(p, r, t)
         IN  /\ plan.ok
             /\ plan.finish = m.finish /\ plan.travel = m.travel /\ plan.wait = m.wait
<1> DEFINE n == Len(r)
           s == Simulated(p, r, t)[n]
           q == Planned(p, r, t)[n]
           m == simulate_solution(p, r, t)
           plan == calculate_schedule_from(p, r, t)
<1>1. r \in Seq(Locations(p)) /\ n \in Nat /\ n >= 1 /\ t \in Nat
  BY ValidRoutes, MinutesPerDayAssumption DEF Drivable
<1>2. validate_solution(p, r)
  BY <1>1, OrdersAgree DEF Drivable
<1>3. /\ s \in SimulatedStates(p) /\ s.time # None
      /\ m.finish = s.time /\ m.travel = s.travel /\ m.wait = s.wait
  BY <1>1, SimulatedMetrics DEF Drivable
<1>4. Agree(s, q)
  BY <1>1, ClocksAgree
<1>5. /\ q.error # NoError => plan = q.error
      /\ q.error = NoError =>
           plan = [ok |-> TRUE, departures |-> q.departures, finish |-> Last(q.departures),
                   travel |-> q.travel, wait |-> q.wait]
  BY <1>2 DEF calculate_schedule_from
<1> HIDE DEF s, q, m, plan
<1>6. q.error = NoError /\ Last(q.departures) = s.time /\ q.travel = s.travel /\ q.wait = s.wait
  BY <1>3, <1>4 DEF Agree
<1> QED
  BY <1>3, <1>5, <1>6 DEF m, plan

(* Every route a solver answers with is the one the client's schedule      *)
(* (src/schedule.rs) accepts and times exactly as the solver's metrics     *)
(* (src/solver.rs, src/solver/exact/bit_dp.rs) do, and a latest start      *)
(* cannot be moved back by a minute.                                       *)
THEOREM AnswersAreScheduled == Spec => []AnswerIsTheSchedule
<1>1. SearchHeld /\ ExactHeld => AnswerIsTheSchedule
  <2> SUFFICES ASSUME SearchHeld, ExactHeld, pc = "done", result.ok
               PROVE  LET m    == result.metrics
                          plan == calculate_schedule_from(problem, result.route,
                                                          selected_start_time(problem, m))
                      IN  /\ plan.ok
                          /\ plan.finish = m.finish /\ plan.travel = m.travel /\ plan.wait = m.wait
                          /\ problem.start_policy = "LATEST" =>
                               \A t \in (m.start + 1) .. (MinutesPerDay - 1) :
                                 ~ simulate_solution(problem, result.route, t).ok
    BY DEF AnswerIsTheSchedule
  <2> DEFINE m == result.metrics
             r == result.route
  <2>1. IsProblem(problem)
    BY RouteSearchAssumption DEF ExactHeld
  <2>2. /\ m.start \in StartTimes(problem) /\ Drivable(problem, r, m.start)
        /\ m = simulate_solution(problem, r, m.start)
        /\ problem.start_policy = "LATEST" =>
             \A t \in (m.start + 1) .. (MinutesPerDay - 1) : ~ simulate_solution(problem, r, t).ok
    <3>1. CASE solver = "exact"
      BY <3>1, Errors DEF ExactHeld, Optimal
    <3>2. CASE solver # "exact"
      <4>1. IsFound(problem, result)
        BY <3>2 DEF SearchHeld, AnswerHeld
      <4>2. /\ validate_visit_order(problem, r) /\ m.ok /\ m = evaluate_solution(problem, r)
        BY <2>1, <4>1, FoundFacts
      <4>3. /\ m.start \in problem.start_time .. (MinutesPerDay - 1)
            /\ m = simulate_solution(problem, r, m.start)
            /\ problem.start_policy # "LATEST" => m.start = problem.start_time
            /\ problem.start_policy = "LATEST" =>
                 \A t \in (m.start + 1) .. (MinutesPerDay - 1) : ~ simulate_solution(problem, r, t).ok
        BY <2>1, <4>2, EvaluationMeans
      <4> QED
        BY <4>2, <4>3 DEF StartTimes, Drivable
    <3> QED
      BY <3>1, <3>2
  <2> HIDE DEF m, r
  <2>3. m.start \in 0 .. (MinutesPerDay - 1) /\ selected_start_time(problem, m) = m.start
    <3>1. problem.start_time \in 0 .. (MinutesPerDay - 1) /\ MinutesPerDay \in Nat
      BY <2>1, MinutesPerDayAssumption DEF IsProblem
    <3> QED
      BY <2>2, <3>1 DEF StartTimes, selected_start_time
  <2>4. LET plan == calculate_schedule_from(problem, r, m.start)
        IN  plan.ok /\ plan.finish = m.finish /\ plan.travel = m.travel /\ plan.wait = m.wait
    BY <2>1, <2>2, <2>3, DrivableIsScheduled
  <2> QED
    BY <2>2, <2>3, <2>4 DEF m, r
<1> QED
  BY <1>1, SearchIsSound, ExactIsSound, PTL

(* The exact solver (src/solver/exact/bit_dp.rs) answers with a route      *)
(* whenever one can be driven, and no order at any start time is better:   *)
(* neither the pruning of a cell by its frontier nor the bisection over    *)
(* the start times loses the optimum.                                      *)
THEOREM ExactFindsTheOptimum == Spec => []ExactIsOptimal
<1>1. ExactHeld => ExactIsOptimal
  <2> SUFFICES ASSUME ExactHeld, pc = "done", solver = "exact", result # Cancelled,
                      problem.n <= ExactMaxLocations
               PROVE  IF result.ok
                      THEN /\ result.metrics \in Possible(problem)
                           /\ \A m \in Possible(problem) : ~ Better(problem, m, result.metrics)
                      ELSE Possible(problem) = {}
    BY DEF ExactIsOptimal
  <2>1. IsProblem(problem) /\ problem.n \in Nat /\ ExactMaxLocations \in Nat
    BY RouteSearchAssumption DEF ExactHeld, IsProblem
  <2>2. Optimal(problem, result)
    BY <2>1 DEF ExactHeld
  <2>3. \A m : m \in Possible(problem) <=>
               \E t \in StartTimes(problem) : \E r :
                 Drivable(problem, r, t) /\ m = simulate_solution(problem, r, t)
    <3>1. \A r : r \in ValidOrders(problem) <=> validate_visit_order(problem, r)
      BY <2>1, ValidOrdersMean
    <3> QED
      BY <3>1 DEF Possible, Drivable
  <2>4. CASE result.ok
    BY <2>2, <2>3, <2>4 DEF Optimal
  <2>5. CASE ~ result.ok
    BY <2>2, <2>3, <2>5 DEF Optimal
  <2> QED
    BY <2>4, <2>5
<1> QED
  BY <1>1, ExactIsSound, PTL

=============================================================================
