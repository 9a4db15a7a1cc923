---------------------------- MODULE RouteProblem -----------------------------
(***************************************************************************)
(* A routing problem and the three ways the code has to judge a route:     *)
(* evaluate_solution (src/solver.rs), which every solver uses, the         *)
(* penalised evaluation of the annealing search                            *)
(* (src/solver/heuristic/annealing/penalty.rs) and the schedule that is    *)
(* returned to the client (src/schedule.rs).                               *)
(*                                                                         *)
(* A problem p is a record: p.n locations numbered from 0, p.travel[i][j]  *)
(* in minutes or None for an unreachable arc, p.open, p.close, p.stay and  *)
(* p.priority per location, the set p.required, p.start_time,              *)
(* p.start_policy and p.visit_policy.  A slot is a minute                  *)
(* (TIME_SLOT_MINUTES is 1), and sums stay far below the u32 range.        *)
(***************************************************************************)
EXTENDS Integers, Sequences, FiniteSets, SequencesExt

CONSTANT MinutesPerDay   \* 1440 in the code

ASSUME MinutesPerDayAssumption == MinutesPerDay \in Nat \ {0}

None == -1

Locations(p) == 0 .. (p.n - 1)

(* end_location_index; the start has index 0. *)
End(p) == p.n - 1

(* What the types of a problem guarantee. *)
IsProblem(p) ==
  /\ p.n \in Nat \ {0} /\ p.required \subseteq Locations(p)
  /\ p.start_time \in 0 .. (MinutesPerDay - 1)
  /\ p.start_policy \in {"FIXED", "EARLIEST", "LATEST"}
  /\ p.visit_policy \in {"ALL_REQUIRED", "BEST_EFFORT_ON_FAILURE"}
  /\ \A i \in Locations(p) :
       p.open[i] \in Nat /\ p.close[i] \in Nat /\ p.stay[i] \in Nat /\ p.priority[i] \in Nat
  /\ \A i, j \in Locations(p) : p.travel[i][j] \in Nat \union {None}

Later(a, b) == IF a >= b THEN a ELSE b

Error(name) == [ok |-> FALSE, error |-> name]

Cancelled == Error("Cancelled")

NoFeasibleRoute == Error("NoFeasibleRoute")

NoError == Error("none")

-----------------------------------------------------------------------------
(* Orders. *)

NoRepeats(r) == Cardinality(ToSet(r)) = Len(r)

validate_visit_order(p, r) ==
  IF p.n = 1 THEN r = <<0>>
  ELSE /\ p.visit_policy = "ALL_REQUIRED" => Len(r) = p.n
       /\ Len(r) >= 2
       /\ Head(r) = 0 /\ Last(r) = End(p)
       /\ r \in Seq(Locations(p)) /\ NoRepeats(r)
       /\ p.required \subseteq ToSet(r)

(* A route of one location ends where it starts and never passes this test. *)
is_structurally_valid_initial_solution(p, r) ==
  /\ p.visit_policy = "ALL_REQUIRED" => Len(r) = p.n
  /\ Len(r) >= 2
  /\ Head(r) = 0 /\ Last(r) = End(p)
  /\ r \in Seq(Locations(p)) /\ NoRepeats(r)
  /\ p.required \subseteq ToSet(r)

-----------------------------------------------------------------------------
(* One visit: wait for the opening, stay, leave before the closing and the *)
(* end of the day.                                                         *)

ServiceStart(p, i, arrival) == Later(arrival, p.open[i])

Finish(p, i, arrival) == ServiceStart(p, i, arrival) + p.stay[i]

InTime(p, i, finish) == finish <= p.close[i] /\ finish < MinutesPerDay

(* The departure of the start location, or None. *)
initial_service(p, start) ==
  LET departure == Finish(p, 0, start)
  IN  IF InTime(p, 0, departure)
      THEN [departure |-> departure, wait |-> ServiceStart(p, 0, start) - start]
      ELSE [departure |-> None, wait |-> 0]

transition_time(p, from, to, time) ==
  LET finish == Finish(p, to, time + p.travel[from][to])
  IN  IF p.travel[from][to] # None /\ InTime(p, to, finish) THEN finish ELSE None

-----------------------------------------------------------------------------
(* evaluate_solution *)

(* visited_optional_count and visited_optional_priority *)
Coverage(p, S) ==
  <<Cardinality(S \ p.required), SumFunctionOnSet(p.priority, S \ p.required)>>

CoverageAtLeast(a, b) == a[1] > b[1] \/ (a[1] = b[1] /\ a[2] >= b[2])

Metrics(p, visited, start, finish, travel, wait) ==
  [ok |-> TRUE, coverage |-> Coverage(p, visited), start |-> start, finish |-> finish,
   travel |-> travel, wait |-> wait]

SimulatedStart(p, start) ==
  LET first == initial_service(p, start)
  IN  [at |-> 0, time |-> first.departure, travel |-> 0, wait |-> first.wait]

(* A time of None means that the route was given up. *)
SimulatedLeg(p, s, to) ==
  LET travel  == p.travel[s.at][to]
      arrival == s.time + travel
      finish  == Finish(p, to, arrival)
  IN  IF s.time = None \/ travel = None \/ ~ InTime(p, to, finish)
      THEN [s EXCEPT !.time = None, !.at = to]
      ELSE [at |-> to, time |-> finish, travel |-> s.travel + travel,
            wait |-> s.wait + (ServiceStart(p, to, arrival) - arrival)]

Simulated(p, r, start) ==
  LET visit[k \in 1 .. Len(r)] ==
        IF k = 1 THEN SimulatedStart(p, start) ELSE SimulatedLeg(p, visit[k - 1], r[k])
  IN  visit

simulate_solution(p, r, start) ==
  LET end == Simulated(p, r, start)[Len(r)]
  IN  IF end.time = None THEN NoFeasibleRoute
      ELSE Metrics(p, ToSet(r), start, end.time, end.travel, end.wait)

(* The loop of evaluate_solution and of the exact solver: the last slot of *)
(* low .. high, low being good, that the bisection finds to be good.       *)
LatestStart(low, high, good) ==
  LET slots == 0 .. (MinutesPerDay - 1)
      search[b \in slots \X slots] ==
        LET middle == b[1] + ((b[2] - b[1]) + 1) \div 2
        IN  IF b[1] >= b[2] THEN b[1]
            ELSE IF good[middle] THEN search[<<middle, b[2]>>]
            ELSE search[<<b[1], middle - 1>>]
  IN  search[<<low, high>>]

evaluate_solution(p, r) ==
  LET at(start) == simulate_solution(p, r, start)
      good      == [t \in 0 .. (MinutesPerDay - 1) |-> at(t).ok]
  IN  IF ~ validate_visit_order(p, r) THEN Error("InvalidVisitOrder")
      ELSE IF ~ at(p.start_time).ok THEN NoFeasibleRoute
      ELSE IF p.start_policy # "LATEST" THEN at(p.start_time)
      ELSE at(LatestStart(p.start_time, MinutesPerDay - 1, good))

(* Seeded fault: the latest start that was found is not used. *)
selected_start_time_requested(p, m) == p.start_time

(* The start the client is told. *)
selected_start_time(p, m) == IF p.start_policy = "LATEST" THEN m.start ELSE p.start_time

(* The order of DefaultObjectivePolicy.compare; the smaller key is better. *)
Key(p, m) ==
  <<-m.coverage[1], -m.coverage[2],
    CASE p.start_policy = "FIXED"    -> 0
      [] p.start_policy = "EARLIEST" -> m.start
      [] p.start_policy = "LATEST"   -> -m.start,
    m.finish, m.travel, m.wait, m.travel + m.wait>>

Better(p, a, b) ==
  \E i \in 1 .. 7 :
    /\ Key(p, a)[i] < Key(p, b)[i]
    /\ \A j \in 1 .. (i - 1) : Key(p, a)[j] = Key(p, b)[j]

-----------------------------------------------------------------------------
(* calculate_schedule_from; a stop is abstracted to the time it is left. *)

validate_solution(p, r) ==
  IF p.n = 1 THEN r = <<0>>
  ELSE /\ p.visit_policy = "ALL_REQUIRED" => Len(r) = p.n
       /\ Len(r) >= 2
       /\ Head(r) = 0 /\ Last(r) = End(p)
       /\ LET inner == SubSeq(r, 2, Len(r) - 1)
          IN  /\ ToSet(inner) \subseteq Locations(p) \ {0, End(p)}
              /\ NoRepeats(inner)
              /\ p.required \subseteq ToSet(inner) \union {0, End(p)}
              /\ p.visit_policy = "ALL_REQUIRED" => ToSet(r) = Locations(p)

(* TimeOfDay::checked_add: None past midnight. *)
checked_add(time, minutes) ==
  IF time + minutes >= MinutesPerDay THEN None ELSE time + minutes

(* What the schedule reports about the first stop that is left too late. *)
TimeWindowViolation(p, s, i, begin, departure, arrival) ==
  [location |-> i, service_start |-> begin, required_departure |-> departure,
   close |-> p.close[i], start |-> s.start, wait |-> s.wait + (begin - arrival),
   is_start |-> i = 0, is_destination |-> i = End(p), stay |-> p.stay[i],
   suggested_max_stay |-> Later(p.close[i] - begin, 0)]

ScheduledStop(p, s, i, arrival) ==
  LET begin     == Later(arrival, p.open[i])
      departure == checked_add(begin, p.stay[i])
  IN  IF arrival = None \/ departure = None
      THEN [s EXCEPT !.error = Error("OutsideSingleDay")]
      ELSE IF departure > p.close[i]
      THEN [s EXCEPT !.error =
              [ok |-> FALSE, error |-> "TimeWindowViolation",
               violation |-> TimeWindowViolation(p, s, i, begin, departure, arrival)]]
      ELSE [s EXCEPT !.at = i, !.wait = @ + (begin - arrival), !.departures = Append(@, departure)]

ScheduledStart(p, start) ==
  ScheduledStop(p, [at |-> 0, start |-> start, departures |-> <<>>, travel |-> 0, wait |-> 0,
                    error |-> NoError], 0, start)

ScheduledLeg(p, s, to) ==
  LET travel == p.travel[s.at][to]
  IN  IF s.error # NoError THEN s
      ELSE IF travel = None THEN [s EXCEPT !.error = Error("UnreachableArc")]
      ELSE ScheduledStop(p, [s EXCEPT !.travel = @ + travel], to,
                         checked_add(Last(s.departures), travel))

Planned(p, r, start) ==
  LET visit[k \in 1 .. Len(r)] ==
        IF k = 1 THEN ScheduledStart(p, start) ELSE ScheduledLeg(p, visit[k - 1], r[k])
  IN  visit

calculate_schedule_from(p, r, start) ==
  LET plan == Planned(p, r, start)[Len(r)]
  IN  IF ~ validate_solution(p, r) THEN Error("InvalidVisitOrder")
      ELSE IF plan.error # NoError THEN plan.error
      ELSE [ok |-> TRUE, departures |-> plan.departures, finish |-> Last(plan.departures),
            travel |-> plan.travel, wait |-> plan.wait]

-----------------------------------------------------------------------------
(* evaluate_solution_with_penalties *)

(* The default weights. *)
LateMinute == 100

OverflowMinute == 500

RequiredViolation == 1000000

LatestStartReward == 1

Distance(a, b) == Later(a, b) - (IF a >= b THEN b ELSE a)

(* Locations left out, visited twice or out of place. *)
OrderViolations(p, r) ==
    (IF p.visit_policy = "ALL_REQUIRED" THEN Distance(Len(r), p.n) ELSE 0)
  + Cardinality({k \in DOMAIN r : r[k] \notin Locations(p) \/ \E j \in 1 .. (k - 1) : r[j] = r[k]})
  + Cardinality(p.required \ ToSet(r))
  + (IF r # <<>> /\ Head(r) = 0 THEN 0 ELSE 1)
  + (IF r # <<>> /\ Last(r) = End(p) THEN 0 ELSE 1)

PenalisedStart(p, r) ==
  LET first == Finish(p, 0, p.start_time)
  IN  [at |-> 0, time |-> first, travel |-> 0,
       wait |-> ServiceStart(p, 0, p.start_time) - p.start_time,
       late |-> Later(first - p.close[0], 0), violations |-> OrderViolations(p, r)]

(* An unreachable leg counts as a violation and takes no time. *)
PenalisedLeg(p, s, to) ==
  LET travel  == p.travel[s.at][to]
      arrival == s.time + travel
      finish  == Finish(p, to, arrival)
  IN  IF travel = None THEN [s EXCEPT !.violations = @ + 1, !.at = to]
      ELSE [at |-> to, time |-> finish, travel |-> s.travel + travel,
            wait |-> s.wait + (ServiceStart(p, to, arrival) - arrival),
            late |-> s.late + Later(finish - p.close[to], 0), violations |-> s.violations]

Penalised(p, r) ==
  LET visit[k \in 1 .. Len(r)] ==
        IF k = 1 THEN PenalisedStart(p, r) ELSE PenalisedLeg(p, visit[k - 1], r[k])
  IN  visit

PenalisedRoute(p, r) ==
  LET s == Penalised(p, r)[Len(r)]
  IN  [late |-> s.late, overflow |-> Later(s.time - (MinutesPerDay - 1), 0),
       violations |-> s.violations, score |-> s.travel + s.wait]

ConstraintFree(s) == s.violations = 0 /\ s.late = 0 /\ s.overflow = 0

(* `evaluated' is the nested call of evaluate_solution for a route without *)
(* violations: its error, cancellation included, is dropped.               *)
evaluate_solution_with_penalties(p, r, evaluated) ==
  LET s       == PenalisedRoute(p, r)
      metrics == IF ConstraintFree(s) THEN evaluated ELSE NoFeasibleRoute
      base    == IF metrics.ok THEN metrics.travel + metrics.wait ELSE s.score
      reward  == IF metrics.ok /\ p.start_policy = "LATEST"
                 THEN metrics.start - p.start_time ELSE 0
  IN  [metrics |-> metrics,
       energy  |-> base + s.late * LateMinute + s.overflow * OverflowMinute
                   + s.violations * RequiredViolation - reward * LatestStartReward]
=============================================================================
