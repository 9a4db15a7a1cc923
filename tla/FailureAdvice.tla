---------------------------- MODULE FailureAdvice ----------------------------
(***************************************************************************)
(* What a failed optimization tells the client (src/failure.rs): the       *)
(* failure detail, the suggestions and their ranking, and the three        *)
(* classifications of the same error: the code that is reported while the  *)
(* job runs (src/service/progress.rs), the code that is stored             *)
(* (src/jobs.rs) and the code and status of the response                   *)
(* (src/http/error.rs).                                                    *)
(*                                                                         *)
(* A service error is [kind, cause], with the violation of a schedule      *)
(* error; wordings are left out.  `known' says that the request holds the  *)
(* travel times, as opposed to a provider or coordinates.                  *)
(***************************************************************************)
EXTENDS ExactSolver

ServiceError(kind, cause) == [kind |-> kind, cause |-> cause]

ScheduleError(e) ==
  IF e.error = "TimeWindowViolation"
  THEN [kind |-> "Schedule", cause |-> e.error, violation |-> e.violation]
  ELSE ServiceError("Schedule", e.error)

CancelledError == ServiceError("Cancelled", "Cancelled")

Infeasible(e) ==
  \/ e.kind = "Solver" /\ e.cause = "NoFeasibleRoute"
  \/ e.kind = "Schedule" /\ e.cause \in {"OutsideSingleDay", "TimeWindowViolation"}

-----------------------------------------------------------------------------
(* Suggestions.  `shift' is change_magnitude_minutes, None where the code  *)
(* has no two numbers to compare; `value' is the suggested value.          *)

Suggestion(type, confidence, location, value, shift) ==
  [type |-> type, confidence |-> confidence, location |-> location, value |-> value,
   shift |-> shift]

(* Every route leaves every location but the last and enters every         *)
(* location but the first.                                                 *)
minimum_duration_lower_bound(p, known) ==
  LET stays       == MapThenSumSet(LAMBDA i : p.stay[i], Locations(p))
      least(arcs) == IF arcs \ {None} = {} THEN 0 ELSE Min(arcs \ {None})
      outgoing    == MapThenSumSet(
                       LAMBDA i : least({p.travel[i][j] : j \in Locations(p) \ {i}}),
                       Locations(p) \ {End(p)})
      incoming    == MapThenSumSet(
                       LAMBDA j : least({p.travel[i][j] : i \in Locations(p) \ {j}}),
                       Locations(p) \ {0})
  IN  IF known /\ p.n >= 2 THEN stays + Later(outgoing, incoming) ELSE stays

latest_necessary_start(p, known) ==
  Later(p.close[End(p)] - minimum_duration_lower_bound(p, known), 0)

(* Necessary conditions that the request alone violates. *)
no_feasible_suggestions(p, known) ==
  LET window(i) == Later(p.close[i] - p.open[i], 0)
      bound     == minimum_duration_lower_bound(p, known)
      latest    == latest_necessary_start(p, known)
      stays     == [k \in 1 .. p.n |->
                      IF p.stay[k - 1] > window(k - 1)
                      THEN <<Suggestion("REDUCE_STAY_TIME", "exact", k - 1, window(k - 1),
                                        p.stay[k - 1] - window(k - 1))>>
                      ELSE <<>>]
      split     == IF bound > p.close[End(p)]
                   THEN <<Suggestion("SPLIT_DAY", "heuristic", None,
                                     Later((bound + MinutesPerDay - 1) \div MinutesPerDay, 2), None)>>
                   ELSE <<>>
      earlier   == IF p.start_time > latest
                   THEN <<Suggestion("START_EARLIER", "heuristic", None, latest,
                                     p.start_time - latest)>> ELSE <<>>
      policy    == IF p.start_time > latest /\ p.start_policy \in {"FIXED", "LATEST"}
                   THEN <<Suggestion("CHANGE_START_POLICY", "heuristic", None, 0, None)>> ELSE <<>>
  IN  FlattenSeq(stays) \o split \o earlier \o policy

(* What would have helped at the violated stop of the evaluated route. *)
schedule_suggestions(v) ==
  LET excess      == v.required_departure - v.close
      latest      == v.service_start - excess
      route_shift == excess + v.wait
      stay    == IF v.service_start <= v.close /\ v.stay > v.suggested_max_stay
                 THEN <<Suggestion("REDUCE_STAY_TIME", "exact", v.location,
                                   v.suggested_max_stay, v.stay - v.suggested_max_stay)>>
                 ELSE <<>>
      move    == IF latest >= 0 /\ ~ v.is_start /\ ~ v.is_destination
                 THEN <<Suggestion("MOVE_LOCATION_EARLIER", "exact", v.location, latest, excess)>>
                 ELSE <<>>
      earlier == IF v.is_destination /\ v.start >= route_shift
                 THEN <<Suggestion("START_EARLIER", "exact", None, v.start - route_shift,
                                   route_shift)>>
                 ELSE <<>>
  IN  stay \o move \o earlier

SameAction(a, b) == a.type = b.type /\ a.location = b.location

service_suggestions(e, p, known) ==
  CASE e.kind = "Routing" ->
         IF e.cause \in {"Provider", "MatrixBuild"}
         THEN <<Suggestion("RETRY_ROUTING", "heuristic", None, None, None)>> ELSE <<>>
    [] e.kind = "Solver" /\ Infeasible(e) -> no_feasible_suggestions(p, known)
    [] e.kind = "Schedule" ->
         LET own       == IF e.cause = "TimeWindowViolation"
                          THEN schedule_suggestions(e.violation) ELSE <<>>
             add(s, x) == IF \E i \in DOMAIN s : SameAction(s[i], x) THEN s ELSE Append(s, x)
         IN  IF Infeasible(e) THEN FoldLeft(add, own, no_feasible_suggestions(p, known)) ELSE own
    [] OTHER -> <<>>

push_unique(suggestions, x) ==
  IF \E i \in DOMAIN suggestions : SameAction(suggestions[i], x) /\ suggestions[i].value = x.value
  THEN suggestions ELSE Append(suggestions, x)

-----------------------------------------------------------------------------
(* rank_failure_suggestions *)

Types ==
  <<"START_EARLIER", "REDUCE_STAY_TIME", "MOVE_LOCATION_EARLIER", "CHANGE_START_POLICY",
    "CHANGE_TRAVEL_MODE", "RETRY_ROUTING", "REMOVE_LOCATION", "SPLIT_DAY">>

suggestion_type_order(type) == CHOOSE i \in DOMAIN Types : Types[i] = type

type_priority(type) ==
  CASE type = "START_EARLIER"         -> 1
    [] type = "REDUCE_STAY_TIME"      -> 2
    [] type = "MOVE_LOCATION_EARLIER" -> 3
    [] type = "CHANGE_START_POLICY"   -> 4
    [] type \in {"CHANGE_TRAVEL_MODE", "RETRY_ROUTING"} -> 5
    [] type = "REMOVE_LOCATION"       -> 7
    [] type = "SPLIT_DAY"             -> 8

penalties(type) ==
  CASE type = "CHANGE_START_POLICY"   -> 5000
    [] type = "RETRY_ROUTING"         -> 8000 + 3000
    [] type = "CHANGE_TRAVEL_MODE"    -> 1000
    [] type \in {"REMOVE_LOCATION", "SPLIT_DAY"} -> 0
    [] OTHER                          -> 2000

score(s) ==
  type_priority(s.type) * 100000 + (IF s.confidence = "exact" THEN 0 ELSE 20000)
    + penalties(s.type) + (IF s.shift = None \/ s.shift > 9999 THEN 9999 ELSE s.shift)

ranking_key(s, index) ==
  <<score(s), suggestion_type_order(s.type), s.location, s.value, index>>

(* Actions that exclude each other. *)
conflict_key(s) ==
  CASE s.type = "MOVE_LOCATION_EARLIER"                 -> <<"move", s.location>>
    [] s.type \in {"REDUCE_STAY_TIME", "REMOVE_LOCATION"} -> <<s.type, s.location>>
    [] OTHER                                            -> <<s.type, None>>

KeyBefore(a, b) ==
  \E i \in DOMAIN a : a[i] < b[i] /\ \A j \in 1 .. (i - 1) : a[j] = b[j]

rank_failure_suggestions(suggestions, maximum) ==
  LET order  == SetToSortSeq(DOMAIN suggestions,
                  LAMBDA i, j : KeyBefore(ranking_key(suggestions[i], i),
                                          ranking_key(suggestions[j], j)))
      take(kept, i) ==
        IF \/ Len(kept) = maximum
           \/ \E k \in DOMAIN kept : conflict_key(kept[k]) = conflict_key(suggestions[i])
        THEN kept ELSE Append(kept, suggestions[i])
  IN  FoldLeft(take, <<>>, order)

-----------------------------------------------------------------------------
(* Failure details and codes. *)

start_policy_failure_detail(p, known) ==
  LET suggestions == ToSet(no_feasible_suggestions(p, known))
  IN  /\ p.start_policy \in {"FIXED", "LATEST"}
      /\ \E s \in suggestions : s.type = "START_EARLIER"
      /\ \A s \in suggestions : s.type # "REDUCE_STAY_TIME"

service_failure_detail(e, p, known) ==
  CASE e.kind \in {"Cancelled", "InvalidRequest"} -> e.kind
    [] e.kind = "Routing" ->
         IF e.cause \in {"ProviderResolution", "ProviderNotConfigured",
                         "UnsupportedProviderCapability"} THEN e.cause
         ELSE IF e.cause = "MatrixBuild" THEN "RoutingPairFailed" ELSE "RoutingUnavailable"
    [] e.kind = "Solver" /\ e.cause = "NoFeasibleRoute" ->
         IF start_policy_failure_detail(p, known) THEN "StartPolicyInfeasible"
         ELSE "NoFeasibleRoute"
    [] e.kind = "Schedule" /\ e.cause = "TimeWindowViolation" ->
         IF e.violation.is_destination /\ start_policy_failure_detail(p, known)
         THEN "StartPolicyInfeasible" ELSE "TimeWindowViolation"
    [] e.kind = "Schedule" /\ e.cause = "OutsideSingleDay" -> "OutsideSingleDay"
    [] OTHER -> "Internal"

(* Of a feasibility failure, whoever classifies it. *)
FeasibilityCode(detail) ==
  CASE detail = "StartPolicyInfeasible" -> "START_POLICY_INFEASIBLE"
    [] detail = "TimeWindowViolation"   -> "TIME_WINDOW_VIOLATION"
    [] OTHER                            -> "NO_FEASIBLE_ROUTE"

(* The routing errors that have a code of their own. *)
RoutingCode(cause) ==
  CASE cause = "ProviderResolution"            -> "ROUTE_PROVIDER_RESOLUTION_ERROR"
    [] cause = "ProviderOverrideDisabled"      -> "PROVIDER_OVERRIDE_DISABLED"
    [] cause = "ProviderNotConfigured"         -> "PROVIDER_NOT_CONFIGURED"
    [] cause = "UnsupportedProviderCapability" -> "UNSUPPORTED_PROVIDER_CAPABILITY"
    [] cause = "MatrixBuild"                   -> "ROUTING_PAIR_FAILED"
    [] cause = "Provider"                      -> "ROUTING_UNAVAILABLE"

NamedRoutingCauses ==
  {"ProviderResolution", "ProviderOverrideDisabled", "ProviderNotConfigured",
   "UnsupportedProviderCapability", "MatrixBuild", "Provider"}

(* report_error *)
reported_code(e) ==
  CASE e.kind = "InvalidRequest" -> "INVALID_REQUEST"
    [] e.kind = "Routing"        -> "ROUTING_UNAVAILABLE"
    [] Infeasible(e)             -> "NO_FEASIBLE_ROUTE"
    [] e.kind = "Solver" /\ ~ Infeasible(e)   -> "SOLVER_ERROR"
    [] e.kind = "Schedule" /\ ~ Infeasible(e) -> "SCHEDULE_ERROR"

stored_error(e, detail) ==
  CASE e.kind = "Cancelled"      -> "JOB_CANCELLED"
    [] e.kind = "InvalidRequest" -> "INVALID_REQUEST"
    [] e.kind = "Routing"        -> IF e.cause \in NamedRoutingCauses THEN RoutingCode(e.cause)
                                    ELSE "ROUTING_UNAVAILABLE"
    [] Infeasible(e)             -> FeasibilityCode(detail)
    [] e.kind = "Solver" /\ ~ Infeasible(e)   -> "SOLVER_ERROR"
    [] e.kind = "Schedule" /\ ~ Infeasible(e) -> "SCHEDULE_ERROR"

(* ApiError::from_service_with_request *)
from_service(e, detail) ==
  CASE e.kind = "Cancelled"      -> [status |-> 409, code |-> "JOB_CANCELLED"]
    [] e.kind = "InvalidRequest" -> [status |-> 400, code |-> "INVALID_REQUEST"]
    [] e.kind = "Routing" ->
         IF e.cause \notin NamedRoutingCauses
         THEN [status |-> 500, code |-> "ROUTING_MATRIX_ERROR"]
         ELSE [status |-> IF e.cause \in {"ProviderOverrideDisabled",
                                          "UnsupportedProviderCapability"} THEN 400 ELSE 503,
               code   |-> RoutingCode(e.cause)]
    [] Infeasible(e)             -> [status |-> 422, code |-> FeasibilityCode(detail)]
    [] OTHER                     -> [status |-> 500, code |-> "INTERNAL_ERROR"]

(* The response of a persisted job takes three codes from its record. *)
optimization_api_error(e, detail, persisted) ==
  [from_service(e, detail) EXCEPT !.code =
     IF persisted \in {"TIME_WINDOW_VIOLATION", "START_POLICY_INFEASIBLE", "ROUTING_PAIR_FAILED"}
     THEN persisted ELSE @]
=============================================================================
