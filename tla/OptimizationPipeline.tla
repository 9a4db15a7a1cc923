------------------------ MODULE OptimizationPipeline -------------------------
(***************************************************************************)
(* One optimization from the accepted request to the answer and the advice *)
(* for a failed one (src/service.rs and src/service/): the pipeline's      *)
(* stages with their token reads and progress reports, the revalidation of *)
(* a dated route leg by leg through the tcache client, the report of the   *)
(* error, and the remediation probes.                                      *)
(*                                                                         *)
(* The solver and the matrix build have modules of their own; here they    *)
(* return any result they may return, while their threads report progress. *)
(* A step reaches from one read of the token to the next.                  *)
(***************************************************************************)
EXTENDS FailureAdvice, RequestValidation, TcacheClient

CONSTANTS
  Cases,              \* pairs of a configuration of the server and a request
  RevalidationBudget, \* TIME_DEPENDENT_REVALIDATION_BUDGET, in ticks
  MaxRemoveProbes,    \* max_remove_probes
  MaxSuggestions      \* max_suggestions

ASSUME PipelineAssumption ==
  RevalidationBudget \in Nat /\ MaxRemoveProbes \in Nat /\ MaxSuggestions \in Nat \ {0}

VARIABLES
  conf,          \* the configuration the server started with
  request,       \* the request, with the defaults applied
  problem,       \* the problem, once the request was accepted
  selection,     \* the provider that was selected
  token,         \* the caller's CancellationToken
  pc,            \* the next step of the service
  stage, progress,   \* the state of the ProgressCoordinator
  pairs,         \* travel times fetched
  order, start,  \* the solver's route and start time
  static_plan,   \* its schedule
  leg,           \* the leg being revalidated
  rows,          \* the travel times with the revalidated legs
  revalidation,  \* what the response says of it
  plan,          \* the schedule of the response
  response,
  error,         \* the error of the pipeline
  results, errors,   \* what the reporter was told
  outcome,       \* what the service returned
  active,        \* the remediation has budget left
  probe,         \* the location or travel mode it tries next
  suggestions    \* the suggestions

progressVars == <<stage, progress>>
inputVars == <<conf, request>>
preparedVars == <<problem, selection>>
routeVars == <<order, start, static_plan, plan, response>>
legVars == <<leg, rows, revalidation>>
reportVars == <<results, errors>>
adviceVars == <<active, probe, suggestions>>
vars == <<inputVars, preparedVars, token, pc, progressVars, pairs, routeVars, legVars, error,
          reportVars, outcome, adviceVars, tcacheVars>>

Problem == problem
Local == LocalSources(request) # {}
Known == request.supplied # {}
PairCount == Problem.n * (Problem.n - 1)

-----------------------------------------------------------------------------
(* Progress *)

Accepted == 1
ValidatingRequest == 2
SelectingProvider == 3
PreparingMatrix == 4
FetchingTravelTimes == 5
BuildingMatrix == 6
GeneratingCandidates == 7
OptimizingRoute == 8
SelectingBestCandidate == 9
Scheduling == 10
ValidatingSchedule == 11
FinalizingResult == 12

range ==
  <<<<0, 0>>, <<5, 5>>, <<10, 10>>, <<15, 15>>, <<20, 45>>, <<48, 52>>, <<55, 65>>,
    <<65, 80>>, <<82, 86>>, <<88, 92>>, <<94, 96>>, <<98, 98>>>>

interpolate(s, completed, total) ==
  LET least == IF completed <= total THEN completed ELSE total
  IN  IF total = 0 THEN range[s][1]
      ELSE range[s][1] + ((range[s][2] - range[s][1]) * least) \div total

(* Seeded fault: the percentage is taken as it comes. *)
report_raw(s, percent) ==
  IF s < stage THEN UNCHANGED progressVars ELSE stage' = s /\ progress' = percent

(* ProgressCoordinator.report, under its mutex. *)
report(s, percent) ==
  IF s < stage THEN UNCHANGED progressVars
  ELSE stage' = s /\ progress' = Later(progress, percent)

-----------------------------------------------------------------------------
NoProblem == [n |-> 0]

(* A server with an invalid configuration does not start. *)
Init ==
  /\ \E c \in Cases :
       /\ from_config_sources(c[1]).ok
       /\ conf = c[1]
       /\ request = apply_request_defaults(c[1], c[2])
  /\ problem = NoProblem /\ selection = NoError /\ response = NoError
  /\ token = FALSE
  /\ pc = "accept"
  /\ stage = 0 /\ progress = 0 /\ pairs = 0
  /\ order = <<>> /\ start = 0 /\ static_plan = NoError /\ plan = NoError
  /\ leg = 0 /\ rows = <<>> /\ revalidation = "none"
  /\ error = NoError /\ results = 0 /\ errors = <<>>
  /\ outcome = NoError
  /\ active = FALSE /\ probe = 0 /\ suggestions = <<>>
  /\ TcacheInit

Elsewhere == UNCHANGED <<inputVars, token, outcome, adviceVars>>

NoLegs == UNCHANGED <<legVars, tcacheVars>>

Goto(step) == pc' = step /\ UNCHANGED error

Fail(e) == pc' = "report_error" /\ error' = e

(* check_cancelled *)
Checked(step) == IF token THEN Fail(CancelledError) ELSE Goto(step)

cancel ==
  /\ pc # "done" /\ ~ token
  /\ token' = TRUE
  /\ UNCHANGED <<inputVars, preparedVars, pc, progressVars, pairs, routeVars, legVars, error,
                 reportVars, outcome, adviceVars, tcacheVars>>

-----------------------------------------------------------------------------
(* The request and its matrix *)

Stays == UNCHANGED <<preparedVars, pairs, routeVars, reportVars>> /\ Elsewhere /\ NoLegs

accept ==
  /\ pc = "accept"
  /\ report(Accepted, range[Accepted][1])
  /\ Checked("validate")
  /\ Stays

(* What the preparation expects of an accepted request: coordinates for    *)
(* every distance, and a country that has a code.                          *)
PreparationPanics(r) ==
  \/ /\ r.use_euclidean_matrix /\ Len(r.locations) > 1
     /\ \E k \in DOMAIN r.locations : r.locations[k].coordinates # "complete"
  \/ /\ r.country_code # NoCountry
     /\ normalize_country_code(r.country_code) = InvalidCountry

validate ==
  /\ pc = "validate"
  /\ report(ValidatingRequest, range[ValidatingRequest][1])
  /\ IF ~ RequestAccepted(request)
     THEN UNCHANGED problem /\ Fail(ServiceError("InvalidRequest", "RequestValidationError"))
     ELSE IF PreparationPanics(request) THEN UNCHANGED problem /\ Goto("panicked")
     ELSE problem' = try_from(request) /\ Checked("select")
  /\ UNCHANGED <<selection, pairs, routeVars, reportVars>> /\ Elsewhere /\ NoLegs

(* resolve_routing *)
select_provider ==
  /\ pc = "select"
  /\ report(SelectingProvider, range[SelectingProvider][1])
  /\ IF token \/ Local THEN UNCHANGED selection /\ Checked("prepare_matrix")
     ELSE LET chosen == resolve(from_config_sources(conf), context_of(request))
          IN  /\ selection' = chosen
              /\ IF chosen.ok THEN Goto("prepare_matrix")
                 ELSE Fail(ServiceError("Routing", chosen.error))
  /\ UNCHANGED <<problem, pairs, routeVars, reportVars>> /\ Elsewhere /\ NoLegs

prepare_matrix ==
  /\ pc = "prepare_matrix"
  /\ report(PreparingMatrix, range[PreparingMatrix][1])
  /\ Checked("fetch")
  /\ Stays

(* The code cannot go on with two sources of travel times. *)
fetch ==
  /\ pc = "fetch"
  /\ report(FetchingTravelTimes, range[FetchingTravelTimes][1])
  /\ Goto(IF Cardinality(LocalSources(request)) > 1 THEN "panicked" ELSE "build")
  /\ Stays

pairs_completed ==
  /\ pc = "build" /\ ~ Local
  /\ pairs < PairCount
  /\ pairs' = pairs + 1
  /\ report(FetchingTravelTimes, interpolate(FetchingTravelTimes, pairs + 1, PairCount))
  /\ UNCHANGED <<preparedVars, pc, error, routeVars, reportVars>> /\ Elsewhere /\ NoLegs

(* TravelTimeMatrix::new_sparse *)
MatrixUsable(travel, n) ==
  /\ DOMAIN travel = 0 .. (n - 1)
  /\ \A i \in DOMAIN travel : DOMAIN travel[i] = DOMAIN travel /\ travel[i][i] = 0

(* What the types of the request and of the configuration guarantee        *)
(* (src/api.rs, src/routing/provider_selection/policy.rs), and that a      *)
(* provider's travel times are a matrix of the locations (MatrixBuilder).  *)
ASSUME CasesAssumption ==
  \A c \in Cases :
    LET r == apply_request_defaults(c[1], c[2])
    IN  /\ Len(r.locations) \in Nat /\ DOMAIN r.locations = 1 .. Len(r.locations)
        /\ r.supplied \subseteq {"dense", "sparse"}
        /\ r.use_euclidean_matrix \in BOOLEAN
        /\ r.visit_policy \in {Nothing, "ALL_REQUIRED", "BEST_EFFORT_ON_FAILURE"}
        /\ r.travel_mode \in Modes \union {Nothing}
        /\ c[1].policy = NoPolicy \/ IsPolicy(c[1].policy)
        /\ RequestAccepted(r) /\ LocalSources(r) = {} => MatrixUsable(r.travel, Len(r.locations))

(* MatrixService.build *)
build_matrix ==
  /\ pc = "build"
  /\ UNCHANGED progressVars
  /\ \/ token /\ Fail(CancelledError)
     \/ ~ token /\ ~ Local /\ Fail(ServiceError("Routing", "MatrixBuild"))
     \/ /\ ~ token /\ (Local \/ pairs = PairCount)
        /\ IF MatrixUsable(Problem.travel, Problem.n) THEN Goto("matrix_built")
           ELSE Fail(ServiceError("Routing", "InvalidMatrix"))
  /\ Stays

matrix_built ==
  /\ pc = "matrix_built"
  /\ IF token THEN UNCHANGED progressVars
     ELSE report(BuildingMatrix, range[BuildingMatrix][2])
  /\ Checked("generate")
  /\ Stays

-----------------------------------------------------------------------------
(* The solver *)

generate ==
  /\ pc = "generate"
  /\ IF token THEN UNCHANGED progressVars
     ELSE report(GeneratingCandidates, range[GeneratingCandidates][1])
  /\ Checked("optimize")
  /\ Stays

optimize ==
  /\ pc = "optimize"
  /\ IF token THEN UNCHANGED progressVars
     ELSE report(OptimizingRoute, range[OptimizingRoute][1])
  /\ Checked("solve")
  /\ Stays

(* Strategies start and complete on several threads; an annealing run      *)
(* reports its number and then starts like a strategy.                     *)
on_progress ==
  /\ pc \in {"solve", "solving"}
  /\ \E percent \in {66, 68} \union (70 .. 79) : report(OptimizingRoute, percent)
  /\ pc' = "solving" /\ UNCHANGED error
  /\ Stays

selection_started ==
  /\ pc \in {"solve", "solving"}
  /\ report(SelectingBestCandidate, range[SelectingBestCandidate][1])
  /\ Goto("solved")
  /\ Stays

(* The routes through S from start to end. *)
Through(p, S) == {<<0>> \o r \o <<End(p)>> : r \in SetToSeqs(S \ {0, End(p)})}

(* Any order that can be driven. *)
Solutions(p) ==
  {r \in UNION {Through(p, p.required \union S) : S \in SUBSET (Locations(p) \ p.required)} :
     evaluate_solution(p, r).ok}

(* Without a route the order of the request is scheduled to find out why. *)
diagnose_input_order_schedule(p) ==
  LET e == calculate_schedule_from(p, [k \in 1 .. p.n |-> k - 1], p.start_time)
  IN  IF ~ e.ok /\ e.error = "TimeWindowViolation" THEN ScheduleError(e)
      ELSE ServiceError("Solver", "NoFeasibleRoute")

(* Only a search that found something is sure to reach the selection. *)
solve_prepared ==
  /\ pc \in {"solve", "solving", "solved"}
  /\ \/ /\ IF pc = "solve" /\ token THEN Fail(CancelledError)
           ELSE \/ Fail(diagnose_input_order_schedule(Problem))
                \/ Fail(ServiceError("Solver", "Failed"))
                \/ token /\ Fail(CancelledError)
        /\ UNCHANGED <<progressVars, order, start>>
     \/ /\ pc = "solved"
        /\ report(SelectingBestCandidate, range[SelectingBestCandidate][2])
        /\ \E r \in Solutions(Problem) :
             /\ order' = r
             /\ start' = selected_start_time(Problem, evaluate_solution(Problem, r))
        /\ Checked("schedule")
  /\ UNCHANGED <<preparedVars, pairs, static_plan, plan, response, reportVars>>
  /\ Elsewhere /\ NoLegs

-----------------------------------------------------------------------------
(* The schedule *)

begin_schedule ==
  /\ pc = "schedule"
  /\ IF token THEN UNCHANGED progressVars ELSE report(Scheduling, range[Scheduling][1])
  /\ Checked("render")
  /\ Stays

(* shuffle_solution: another order of the intermediates, if there is one. *)
shuffle_solution(p, r) == IF Len(r) <= 3 THEN {r} ELSE Through(p, ToSet(r)) \ {r}

render ==
  /\ pc = "render"
  /\ UNCHANGED progressVars
  /\ \E r \in IF request.shuffle THEN shuffle_solution(Problem, order) ELSE {order} :
       LET s == calculate_schedule_from(Problem, r, start)
       IN  /\ order' = r
           /\ static_plan' = s
           /\ plan' = s
           /\ IF token THEN Fail(CancelledError)
              ELSE IF ~ s.ok THEN Fail(ScheduleError(s))
              ELSE Goto("scheduled")
  /\ UNCHANGED <<preparedVars, pairs, start, response, reportVars>> /\ Elsewhere /\ NoLegs

(* A dated request that was routed by a provider is revalidated. *)
scheduled ==
  /\ pc = "scheduled"
  /\ UNCHANGED <<preparedVars, progressVars, pairs, routeVars, reportVars>> /\ Elsewhere
  /\ Checked(IF request.travel_date # Nothing /\ ~ Local THEN "leg" ELSE "validate_schedule")
  /\ UNCHANGED <<revalidation, tcacheVars>>
  /\ leg' = 1
  /\ rows' = Problem.travel

-----------------------------------------------------------------------------
(* revalidate_selected_route *)

Legs == Len(order) - 1

Unapplied(why) ==
  /\ revalidation' = why
  /\ plan' = static_plan
  /\ Goto("validate_schedule")

KeepsRoute == UNCHANGED <<preparedVars, order, start, static_plan, response>>

(* A leg whose local departure time does not exist or is ambiguous ends    *)
(* the revalidation; otherwise a matrix build of its two locations begins. *)
begin_leg ==
  /\ pc = "leg" /\ leg <= Legs
  /\ UNCHANGED <<progressVars, pairs, leg, rows, reportVars>> /\ Elsewhere /\ KeepsRoute
  /\ \/ token /\ Fail(CancelledError) /\ UNCHANGED <<plan, revalidation, tcacheVars>>
     \/ ~ token /\ Unapplied("unavailable") /\ UNCHANGED tcacheVars
     \/ /\ ~ token
        /\ Goto("query") /\ UNCHANGED <<plan, revalidation>>
        /\ begin_call(RevalidationBudget)

(* The watchdog of the build, or a failure of the opposite direction, sets *)
(* the token the pair query reads.                                         *)
stop_query ==
  /\ pc = "query" /\ call # "ended"
  /\ ~ stop
  /\ stop' = TRUE
  /\ UNCHANGED <<now, deadline, call, verdict, remote, undelivered, answer>>
  /\ UNCHANGED <<inputVars, preparedVars, token, pc, progressVars, pairs, routeVars, legVars, error,
                 reportVars, outcome, adviceVars>>

tcache_step ==
  /\ Client \/ Service
  /\ UNCHANGED <<inputVars, preparedVars, token, pc, progressVars, pairs, routeVars, legVars, error,
                 reportVars, outcome, adviceVars>>

ResetCall ==
  /\ call' = "idle" /\ verdict' = "none" /\ answer' = NoAnswer /\ stop' = FALSE
  /\ UNCHANGED <<now, deadline, remote, undelivered>>

(* Seeded fault: the legs revalidated so far are kept when one fails. *)
end_leg_partial ==
  /\ pc = "query" /\ call = "ended"
  /\ UNCHANGED <<progressVars, pairs, reportVars>> /\ Elsewhere /\ KeepsRoute /\ ResetCall
  /\ IF token THEN Fail(CancelledError) /\ UNCHANGED <<plan, legVars>>
     ELSE IF answer.kind = "minutes" /\ now < RevalidationBudget
     THEN /\ rows' = [rows EXCEPT ![order[leg]][order[leg + 1]] = answer.minutes]
          /\ leg' = leg + 1
          /\ Goto("leg") /\ UNCHANGED <<plan, revalidation>>
     ELSE /\ revalidation' = "unavailable"
          /\ plan' = calculate_schedule_from([Problem EXCEPT !.travel = rows], order, start)
          /\ Goto("validate_schedule") /\ UNCHANGED <<leg, rows>>

(* The build reports the caller's cancellation first, then a failure; an   *)
(* answer past the deadline is one.                                        *)
end_leg ==
  /\ pc = "query" /\ call = "ended"
  /\ UNCHANGED <<progressVars, pairs, reportVars>> /\ Elsewhere /\ KeepsRoute /\ ResetCall
  /\ IF token THEN Fail(CancelledError) /\ UNCHANGED <<plan, legVars>>
     ELSE IF answer.kind = "no_route" THEN Unapplied("unreachable") /\ UNCHANGED <<leg, rows>>
     ELSE IF answer.kind = "minutes" /\ now < RevalidationBudget /\ ~ stop
     THEN /\ rows' = [rows EXCEPT ![order[leg]][order[leg + 1]] = answer.minutes]
          /\ leg' = leg + 1
          /\ Goto("leg") /\ UNCHANGED <<plan, revalidation>>
     ELSE Unapplied("unavailable") /\ UNCHANGED <<leg, rows>>

recalculate ==
  /\ pc = "leg" /\ leg > Legs
  /\ UNCHANGED <<progressVars, pairs, leg, rows, reportVars, tcacheVars>> /\ Elsewhere
  /\ KeepsRoute
  /\ LET corrected == calculate_schedule_from([Problem EXCEPT !.travel = rows], order, start)
     IN  IF ~ corrected.ok THEN Unapplied("infeasible")
         ELSE plan' = corrected /\ revalidation' = "applied" /\ Goto("validate_schedule")

-----------------------------------------------------------------------------
(* The answer *)

validate_schedule ==
  /\ pc = "validate_schedule"
  /\ IF token THEN UNCHANGED progressVars
     ELSE report(ValidatingSchedule, range[ValidatingSchedule][1])
  /\ Checked("finalize")
  /\ Stays

finalize ==
  /\ pc = "finalize"
  /\ IF token THEN UNCHANGED progressVars
     ELSE report(FinalizingResult, range[FinalizingResult][1])
  /\ Checked("result")
  /\ response' = IF token THEN response
                 ELSE set_provider_metadata(from_plan(Problem, plan, order, start), selection, request)
  /\ UNCHANGED <<preparedVars, pairs, order, start, static_plan, plan, reportVars>>
  /\ Elsewhere /\ NoLegs

report_result ==
  /\ pc = "result"
  /\ UNCHANGED <<preparedVars, progressVars, pairs, routeVars, errors>> /\ Elsewhere /\ NoLegs
  /\ Checked("strip")
  /\ results' = IF token THEN results ELSE results + 1

strip_extensions ==
  /\ pc = "strip"
  /\ UNCHANGED progressVars
  /\ Checked("return")
  /\ Stays

(* Seeded fault: a cancelled job reports an error as well. *)
report_error_always ==
  /\ pc = "report_error"
  /\ errors' = Append(errors, IF error.kind = "Cancelled" THEN "SOLVER_ERROR" ELSE reported_code(error))
  /\ Goto("return")
  /\ UNCHANGED <<preparedVars, progressVars, pairs, routeVars, results>> /\ Elsewhere /\ NoLegs

report_error ==
  /\ pc = "report_error"
  /\ errors' = IF error.kind = "Cancelled" THEN errors ELSE Append(errors, reported_code(error))
  /\ Goto("return")
  /\ UNCHANGED <<preparedVars, progressVars, pairs, routeVars, results>> /\ Elsewhere /\ NoLegs

(* optimize_with_cancellation *)
return_result ==
  /\ pc = "return"
  /\ outcome' = IF token THEN CancelledError ELSE IF error # NoError THEN error ELSE response
  /\ pc' = IF outcome' = response THEN "done" ELSE "advise"
  /\ UNCHANGED <<inputVars, preparedVars, token, error, progressVars, pairs, routeVars, legVars, reportVars,
                 adviceVars, tcacheVars>>

-----------------------------------------------------------------------------
(* failure_suggestions_for *)

ProbedModes == <<"TRANSIT", "DRIVING", "WALKING", "BICYCLING">>

(* Their place in the order of the suggested values. *)
ModeValue == <<3, 2, 4, 1>>

Unadvised == UNCHANGED <<inputVars, preparedVars, token, error, progressVars, pairs, routeVars, legVars,
                         reportVars, outcome, tcacheVars>>

Ranked(s) == rank_failure_suggestions(s, MaxSuggestions)

ProbesModes ==
  outcome.kind = "Routing" /\ outcome.cause \in {"MatrixBuild", "Provider"} /\ ~ Local

ProbesLocations == Infeasible(outcome) /\ Problem.n > 2 /\ MaxRemoveProbes > 0

(* The matrix of the location probes may not be available again. *)
begin_advice ==
  /\ pc = "advise"
  /\ LET own == service_suggestions(outcome, Problem, Known)
     IN  \/ /\ ~ token /\ (ProbesModes \/ ProbesLocations)
            /\ active' = TRUE /\ probe' = 1 /\ suggestions' = own
            /\ pc' = IF ProbesModes THEN "probe_modes" ELSE "probe_locations"
         \/ /\ token \/ ~ (ProbesModes \/ ProbesLocations) \/ (ProbesLocations /\ ~ Known)
            /\ suggestions' = Ranked(own) /\ UNCHANGED <<active, probe>>
            /\ pc' = "done"
  /\ Unadvised

budget_ends ==
  /\ pc \in {"probe_modes", "probe_locations"} /\ active
  /\ active' = FALSE
  /\ UNCHANGED <<pc, probe, suggestions>>
  /\ Unadvised

(* The same request in another mode: a provider may be found for it, and   *)
(* its matrix may be built in time.                                        *)
probe_mode ==
  /\ pc = "probe_modes"
  /\ IF probe <= Len(ProbedModes)
     THEN /\ probe' = probe + 1
          /\ UNCHANGED <<pc, active>>
          /\ LET context == [context_of(request) EXCEPT !.mode = ProbedModes[probe]]
             IN  \/ UNCHANGED suggestions
                 \/ /\ context # context_of(request) /\ active /\ ~ token
                    /\ resolve(from_config_sources(conf), context).ok
                    /\ suggestions' = push_unique(suggestions,
                         Suggestion("CHANGE_TRAVEL_MODE", "heuristic", None, ModeValue[probe], None))
     ELSE pc' = "done" /\ suggestions' = Ranked(suggestions) /\ UNCHANGED <<active, probe>>
  /\ Unadvised

(* Seeded fault: rows and columns after the removed one are not moved. *)
subset_matrix_unmoved(p, k) ==
  LET place(i) == IF i < k THEN i ELSE i + 1
  IN  [i \in 0 .. (p.n - 2) |-> [j \in 0 .. (p.n - 2) |-> p.travel[place(i)][j]]]

subset_matrix(p, k) ==
  LET place(i) == IF i < k THEN i ELSE i + 1
  IN  [i \in 0 .. (p.n - 2) |-> [j \in 0 .. (p.n - 2) |-> p.travel[place(i)][place(j)]]]

(* The request without its k-th location. *)
Without(p, k) ==
  LET place(i) == IF i < k THEN i ELSE i + 1
      moved(f) == [i \in 0 .. (p.n - 2) |-> f[place(i)]]
  IN  [p EXCEPT !.n = @ - 1, !.travel = subset_matrix(p, k), !.open = moved(@),
                !.close = moved(@), !.stay = moved(@), !.priority = moved(@),
                !.required = {i \in 0 .. (p.n - 2) : place(i) \in @}]

(* Small enough for the exact solver, which looks at the earliest start    *)
(* first: it has an answer when that start has one.                        *)
lightweight_feasibility_probe(p) == search_at_start(p, p.start_time).ok

probe_location ==
  /\ pc = "probe_locations"
  /\ IF probe <= Problem.n - 2 /\ probe <= MaxRemoveProbes /\ active /\ ~ token
     THEN /\ probe' = probe + 1
          /\ UNCHANGED <<pc, active>>
          /\ suggestions' =
               IF lightweight_feasibility_probe(Without(Problem, probe))
               THEN push_unique(suggestions, Suggestion("REMOVE_LOCATION", "heuristic", probe, 0, None))
               ELSE suggestions
     ELSE LET removals == SelectSeq(suggestions, LAMBDA s : s.type = "REMOVE_LOCATION")
          IN  /\ suggestions' = Ranked(
                   IF removals = <<>> THEN suggestions
                   ELSE push_unique(suggestions,
                          Suggestion("SPLIT_DAY", "heuristic", Head(removals).location, 2, None)))
              /\ pc' = "done"
              /\ UNCHANGED <<active, probe>>
  /\ Unadvised

-----------------------------------------------------------------------------
Step ==
  \/ accept \/ validate \/ select_provider \/ prepare_matrix \/ fetch \/ pairs_completed
  \/ build_matrix \/ matrix_built \/ generate \/ optimize \/ selection_started
  \/ solve_prepared \/ begin_schedule \/ render \/ scheduled \/ begin_leg \/ end_leg
  \/ recalculate \/ validate_schedule \/ finalize \/ report_result \/ strip_extensions
  \/ report_error \/ return_result \/ begin_advice \/ probe_mode \/ probe_location

Finished == pc = "done" /\ UNCHANGED vars

Next == cancel \/ Step \/ on_progress \/ tcache_step \/ stop_query \/ budget_ends \/ Finished

Spec == Init /\ [][Next]_vars

(* The service's thread and the client's calls run on; during a call the   *)
(* thread waits for it.                                                    *)
FairSpec ==
  /\ Spec
  /\ []<>(pc = "done" \/ (pc = "query" /\ call # "ended")) \/ []<><<Step>>_vars
  /\ []<>(call \in {"idle", "ended"}) \/ []<><<Client /\ tcache_step>>_vars

-----------------------------------------------------------------------------
(* Properties *)

Returned == pc \in {"advise", "probe_modes", "probe_locations", "done"}

Succeeded == "route" \in DOMAIN outcome

(* The client of a job never sees a stage or a percentage go back,         *)
(* whichever thread of the solver or of the matrix build reports it, the   *)
(* percentage stays in the range of its stage, and once a result or an     *)
(* error has been reported no progress follows (ProgressCoordinator).      *)
ProgressOnlyAdvances ==
  [][/\ stage' >= stage /\ progress' >= progress
     /\ stage' > 0 => progress' \in range[stage'][1] .. range[stage'][2]
     /\ results = 0 /\ errors = <<>>]_progressVars

Consistent(reply, stored) ==
  /\ (reply.status = 422) = (stored \in {"NO_FEASIBLE_ROUTE", "TIME_WINDOW_VIOLATION",
                                         "START_POLICY_INFEASIBLE"})
  /\ (reply.status = 409) = (stored = "JOB_CANCELLED")
  /\ (reply.status = 422) => errors = <<"NO_FEASIBLE_ROUTE">>
  /\ reply.code # stored => reply.status = 500 /\ stored \in {"SOLVER_ERROR", "SCHEDULE_ERROR"}

(* Everyone is told the same end: a success was reported as the only       *)
(* result, after the last stage; a failure was reported once and without a *)
(* result, the status of the response says infeasible exactly when the     *)
(* reported and the stored code do and a conflict exactly when the job was *)
(* cancelled, which its token says as well; response and record agree on   *)
(* the code (optimize_with_cancellation, report_error, stored_error,       *)
(* optimization_api_error).                                                *)
OutcomeIsHonest ==
  /\ results + Len(errors) <= 1
  /\ Returned =>
       IF Succeeded
       THEN results = 1 /\ stage = FinalizingResult /\ progress = 98
       ELSE IF outcome.kind = "Cancelled" THEN token
       ELSE results = 0 /\ errors = <<reported_code(outcome)>>
  /\ (pc = "return" /\ error # NoError /\ error.kind = "Cancelled") => errors = <<>>
  /\ (pc = "done" /\ ~ Succeeded) =>
       LET detail == service_failure_detail(outcome, Problem, Known)
           stored == stored_error(outcome, detail)
       IN  Consistent(optimization_api_error(outcome, detail, stored), stored)

(* What the request asked for is answered: validation lets nothing pass    *)
(* that the preparation or the matrix stage panics on (a distance without  *)
(* coordinates, a country without a code, two sources of travel times),    *)
(* and a request that brings or computes its matrix never fails in         *)
(* routing; every location is on the route once or listed as skipped, none *)
(* that the client marked as required, nor an endpoint, is skipped, and    *)
(* nothing is without the client's consent; a fixed start is kept (TryFrom *)
(* for OptimizationProblem, prepare_request, from_plan).              *)
AnswerIsComplete ==
  /\ pc # "panicked"
  /\ (Local /\ error # NoError) => error.kind # "Routing"
  /\ Succeeded =>
       LET wanted  == {k \in DOMAIN request.locations : request.locations[k].required = "true"}
           visited == {i + 1 : i \in ToSet(outcome.route)}
           skipped == {i + 1 : i \in outcome.skipped_locations}
       IN  /\ visited \union skipped = DOMAIN request.locations
           /\ visited \intersect skipped = {} /\ Cardinality(visited) = Len(outcome.route)
           /\ wanted \union {1, Len(request.locations)} \subseteq visited
           /\ skipped # {} => request.visit_policy = "BEST_EFFORT_ON_FAILURE"
           /\ request.start_policy = "FIXED" => outcome.selected_start_time = request.start_time

Specificity(d) == (IF d.country = Nothing THEN 0 ELSE 2) + (IF d.mode = Nothing THEN 0 ELSE 1)

(* The rule that a reader of the published diagnostics expects to decide.  *)
PublishedRule(selector, country, mode) ==
  LET matching == {d \in diagnostics(selector) :
                     d.country \in {Nothing, country} /\ d.mode \in {Nothing, mode}}
  IN  {d \in matching : \A e \in matching : Specificity(e) <= Specificity(d)}

WrittenRule(c, country, mode) ==
  IF c.policy = NoPolicy THEN {}
  ELSE {c.policy.countries[k].modes[mode] :
          k \in {k \in DOMAIN c.policy.countries :
                   k.code = country /\ mode \in DOMAIN c.policy.countries[k].modes}}

(* The providers that the configuration promises for the mode. *)
Promised(mode) ==
  LET country == IF request.country_code = NoCountry THEN Nothing ELSE request.country_code.code
      written == WrittenRule(conf, country, mode)
  IN  IF conf.mode # "auto" THEN {conf.mode}
      ELSE IF request.route_provider # Nothing
      THEN IF conf.override_enabled THEN {request.route_provider} ELSE {}
      ELSE IF written # {} THEN written
      ELSE {d.provider : d \in PublishedRule(from_config_sources(conf), country, mode)}

Serves(p, mode) ==
  p \in DOMAIN conf.registry /\ conf.registry[p].available /\ mode \in conf.registry[p].capabilities

(* A request is routed by the provider that the configuration promises: a  *)
(* forced one always, one the request names only if that is allowed, and   *)
(* otherwise the one of the most specific rule that the diagnostics        *)
(* publish; a rule the operator wrote is never replaced by the legacy      *)
(* setting.  When that provider is unavailable or cannot serve the mode    *)
(* the request fails, and no other is taken (RouteProviderSelector).       *)
ProviderIsSuitable ==
  selection # NoError =>
    LET mode == context_of(request).mode
    IN  IF selection.ok
        THEN Promised(mode) = {selection.provider} /\ Serves(selection.provider, mode)
        ELSE \A p \in Promised(mode) : ~ Serves(p, mode)

(* A response mixes no static and revalidated travel times: the schedule   *)
(* is the one of the revalidated times of all legs, when it says so, and   *)
(* the static one in every other case, and either is a schedule of the     *)
(* order that is returned (revalidate_selected_route).                     *)
RevalidationIsAllOrNothing ==
  pc \in {"validate_schedule", "finalize", "result", "strip"} =>
    /\ plan.ok
    /\ IF revalidation = "applied"
       THEN /\ plan = calculate_schedule_from([Problem EXCEPT !.travel = rows], order, start)
            /\ leg = Len(order)
       ELSE plan = calculate_schedule_from(Problem, order, start)
    /\ \A i, j \in Locations(Problem) :
         rows[i][j] # Problem.travel[i][j] => \E k \in 1 .. leg - 1 : order[k] = i /\ order[k + 1] = j

(* A call to the routing service ends in time, says that it timed out only *)
(* when it did, never answers with fewer minutes than the service's        *)
(* seconds, and leaves a job running over there only when a message about  *)
(* it was lost (TCacheProvider.travel_time).                               *)
CallEndsCleanly ==
  /\ now <= Later(deadline, RevalidationBudget) + CancelTimeout
  /\ call # "give_up" => now <= deadline + CancelTimeout
  /\ call = "ended" =>
       /\ remote \in Active => undelivered
       /\ answer.kind = "timeout" => now >= deadline
       /\ answer.kind = "cancelled" => stop \/ remote = "cancelled"
       /\ answer.kind = "minutes" =>
            \E seconds \in Durations : 60 * answer.minutes \in seconds .. (seconds + 59)

EvaluatedRoute == IF order = <<>> THEN [k \in 1 .. Problem.n |-> k - 1] ELSE order

EvaluatedStart == IF order = <<>> THEN Problem.start_time ELSE start

(* The schedule of the route that was evaluated, from another start and    *)
(* with another stay.                                                      *)
Reevaluated(p, begin) == calculate_schedule_from(p, EvaluatedRoute, begin)

DrivableWithout(p, k) ==
  \E S \in SUBSET (Locations(p) \ {k}) :
    /\ (IF p.visit_policy = "ALL_REQUIRED" THEN Locations(p) ELSE p.required) \ {k} \subseteq S
    /\ \E r \in Through(p, S) : simulate_solution(p, r, p.start_time).ok

(* The advice of a failed optimization is true: without a location whose   *)
(* removal is suggested the rest can be driven; a route through all        *)
(* locations cannot start later than suggested; from an earlier start that *)
(* is called exact the evaluated route ends in time, unless it then waits  *)
(* for an opening; a stay that is cut as suggested no longer breaks the    *)
(* closing time of the evaluated route; a travel mode that is suggested is *)
(* another one, and the provider that the configuration promises for it    *)
(* serves it; and the ranked list is short, in the order of the scores and *)
(* has no two conflicting entries (src/failure.rs, remediation.rs).        *)
AdviceHolds ==
  (pc = "done" /\ ~ Succeeded) =>
    /\ Len(suggestions) <= MaxSuggestions
    /\ \A i, j \in DOMAIN suggestions :
         i < j => /\ conflict_key(suggestions[i]) # conflict_key(suggestions[j])
                  /\ score(suggestions[i]) <= score(suggestions[j])
    /\ \A s \in ToSet(suggestions) :
         CASE s.type = "REMOVE_LOCATION" ->
                s.location \notin {0, End(Problem)} /\ DrivableWithout(Problem, s.location)
           [] s.type = "START_EARLIER" /\ s.confidence = "heuristic" ->
                \A r \in Through(Problem, Locations(Problem)),
                   t \in (s.value + 1) .. (MinutesPerDay - 1) :
                  ~ simulate_solution(Problem, r, t).ok
           [] s.type = "START_EARLIER" /\ s.confidence = "exact" ->
                LET e == Reevaluated(Problem, s.value) IN e.ok \/ e.violation.wait > 0
           [] s.type = "REDUCE_STAY_TIME" /\ outcome.kind = "Schedule" ->
                LET e == Reevaluated([Problem EXCEPT !.stay[s.location] = s.value], EvaluatedStart)
                IN  /\ outcome.cause = "TimeWindowViolation"
                    /\ outcome.violation.location = s.location
                    /\ outcome.violation.service_start <= outcome.violation.close
                    => (e.ok \/ e.error # "TimeWindowViolation" \/ e.violation.location # s.location)
           [] s.type = "CHANGE_TRAVEL_MODE" ->
                \E k \in DOMAIN ProbedModes :
                  /\ ModeValue[k] = s.value /\ ProbedModes[k] # context_of(request).mode
                  /\ \E p \in Promised(ProbedModes[k]) : Serves(p, ProbedModes[k])
           [] OTHER -> TRUE

(* An optimization returns, whatever the routing service does or fails to  *)
(* do, and whether or not it is cancelled.                                 *)
PipelineEnds == <>(pc = "done")
=============================================================================
