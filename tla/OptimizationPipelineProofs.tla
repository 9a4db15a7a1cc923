------------------- MODULE OptimizationPipelineProofs -------------------
(***************************************************************************)
(* Proofs about OptimizationPipeline for every set of configurations and   *)
(* requests, every budget and every pace of the routing service.           *)
(***************************************************************************)
EXTENDS OptimizationPipeline, FiniteSetTheorems, SequenceTheorems, TLAPS

(* The calls to the routing service. *)
CallPositions == {"idle", "create", "loop", "poll", "sleep", "result", "give_up", "ended"}

Running == CallPositions \ {"idle", "ended"}

(* Where no call has been made or the last one was in time. *)
InBudget ==
  {"accept", "validate", "select", "prepare_matrix", "fetch", "build", "matrix_built", "generate",
   "optimize", "solve", "solving", "solved", "schedule", "render", "scheduled", "leg"}

CallTypes ==
  /\ now \in Nat /\ deadline \in Nat
  /\ call \in CallPositions
  /\ stop \in BOOLEAN /\ undelivered \in BOOLEAN

(* Only the revalidation calls, and it calls within its budget. *)
CallInTime ==
  /\ call \in Running => pc = "query" /\ now <= deadline
  /\ pc \in InBudget => now <= RevalidationBudget
  /\ deadline <= RevalidationBudget
  /\ now <= deadline + CancelTimeout

(* What the position of the call says of the job over there. *)
CallAgrees ==
  /\ call = "create" => remote = "none"
  /\ call \in {"loop", "poll", "sleep"} => remote \in {"completed"} \cup Active \cup RemoteFailures
  /\ call = "result" => remote = "completed"
  /\ call = "give_up" => /\ verdict \in {"cancelled", "timeout"}
                         /\ verdict = "cancelled" => stop
                         /\ verdict = "timeout" => now >= deadline

CallIsClean ==
  call = "ended" =>
    /\ remote \in Active => undelivered
    /\ answer.kind = "timeout" => now >= deadline
    /\ answer.kind = "cancelled" => stop \/ remote = "cancelled"
    /\ answer.kind = "minutes" =>
         \E seconds \in Durations : 60 * answer.minutes \in seconds .. (seconds + 59)

CallInvariant == CallTypes /\ CallInTime /\ CallAgrees /\ CallIsClean

(* extract_travel_time rounds up to whole minutes. *)
LEMMA RoundsUp ==
  ASSUME NEW seconds \in Int, NEW a, a = extract_travel_time(seconds)
  PROVE  /\ a.kind \in {"error", "minutes"}
         /\ a.kind = "minutes" => 60 * a.minutes \in seconds .. (seconds + 59)
<1>1. CASE a = Refusal("error")
  BY <1>1 DEF Refusal
<1>2. CASE a = Minutes((seconds + 59) \div 60)
  <2> DEFINE m == (seconds + 59) \div 60
  <2>1. m \in Int /\ 60 * m <= seconds + 59 /\ seconds + 59 < 60 * m + 60
    OBVIOUS
  <2>2. a.kind = "minutes" /\ a.minutes = m
    BY <1>2 DEF Minutes
  <2> HIDE DEF m
  <2> QED
    BY <2>1, <2>2
<1> QED
  BY <1>1, <1>2 DEF extract_travel_time

(* A step of the client or of the service. *)
LEMMA CallSteps ==
  ASSUME CallInvariant, tcache_step
  PROVE  CallInvariant'
<1> USE DEF CallInvariant
<1>1. UNCHANGED pc
  BY DEF tcache_step
<1>2. CASE Service
  BY <1>1, <1>2 DEF Service, remote_runs, remote_ends, Active, RemoteFailures, CallTypes, CallInTime,
                    CallAgrees, CallIsClean
<1>3. CASE create_job
  <2>0. call = "create" /\ UNCHANGED <<deadline, stop>> /\ pc = "query"
    BY <1>3 DEF create_job, CallInTime, Running, CallPositions
  <2>1. PICK d \in 0 .. RequestTimeout :
       /\ Takes(d)
       /\ \/ /\ now < deadline
             /\ remote' = "queued" /\ UNCHANGED undelivered
             /\ Goes("loop")
          \/ /\ remote' \in {"none", "queued"} /\ undelivered' = TRUE
             /\ now < deadline \/ remote' = "none"
             /\ Returns(Failure(d))
          \/ /\ now < deadline
             /\ UNCHANGED <<remote, undelivered>>
             /\ Returns(Refusal("not_configured"))
    BY <1>3 DEF create_job
  <2>2. now' \in Nat /\ now' = now + d /\ now' <= deadline
    BY <2>1, TcacheAssumption DEF Takes, CallTypes
  <2>3. CASE remote' = "queued" /\ Goes("loop") /\ UNCHANGED undelivered
    BY <1>1, <2>0, <2>2, <2>3, TcacheAssumption
       DEF Active, Goes, CallTypes, CallInTime, CallAgrees, CallIsClean, Running, CallPositions, InBudget
  <2>4. CASE undelivered' = TRUE /\ Returns(Failure(d))
    <3>1. answer'.kind \in {"timeout", "error"} /\ (answer'.kind = "timeout" => now' >= deadline)
      BY <2>2, <2>4 DEF Returns, Failure, Refusal
    <3> QED
      BY <1>1, <2>0, <2>2, <2>4, <3>1, TcacheAssumption
         DEF Returns, CallTypes, CallInTime, CallAgrees, CallIsClean, Running, CallPositions, InBudget
  <2>5. CASE UNCHANGED <<remote, undelivered>> /\ Returns(Refusal("not_configured"))
    <3>1. answer'.kind = "not_configured" /\ remote' = "none"
      BY <2>0, <2>5 DEF Returns, Refusal, CallAgrees
    <3> QED
      BY <1>1, <2>0, <2>2, <2>5, <3>1, TcacheAssumption
         DEF Returns, CallTypes, CallInTime, CallAgrees, CallIsClean, Running, CallPositions, InBudget,
             Active
  <2> QED
    BY <2>1, <2>3, <2>4, <2>5
<1>4. CASE check_call
  BY <1>1, <1>4, TcacheAssumption
     DEF check_call, GivesUp, Goes, CallTypes, CallInTime, CallAgrees, CallIsClean, Running, CallPositions
<1>5. CASE poll_job
  <2>0. call = "poll" /\ UNCHANGED <<deadline, remote, stop>> /\ pc = "query"
    BY <1>5 DEF poll_job, CallInTime, Running, CallPositions
  <2>1. PICK d \in 0 .. RequestTimeout :
       /\ Takes(d)
       /\ \/ /\ UNCHANGED undelivered
             /\ CASE remote = "completed"      -> Goes("result")
                  [] remote \in Active         -> Goes("sleep")
                  [] remote \in RemoteFailures -> Returns(Refusal(remote))
          \/ Returns(Refusal("error")) /\ undelivered' = TRUE
          \/ now + d >= deadline /\ GivesUp("timeout") /\ UNCHANGED undelivered
    BY <1>5 DEF poll_job
  <2>2. now' \in Nat /\ now' = now + d /\ now' <= deadline
    BY <2>1, TcacheAssumption DEF Takes, CallTypes
  <2>3. remote \in {"completed"} \cup Active \cup RemoteFailures
    BY <2>0 DEF CallAgrees
  <2>4. CASE UNCHANGED undelivered /\ ((Goes("result") /\ remote = "completed") \/ Goes("sleep"))
    BY <1>1, <2>0, <2>2, <2>3, <2>4, TcacheAssumption
       DEF Goes, CallTypes, CallInTime, CallAgrees, CallIsClean, Running, CallPositions, InBudget
  <2>5. ASSUME undelivered' \in BOOLEAN, remote \in Active => undelivered',
               NEW kind \in {"error"} \cup RemoteFailures,
               Returns(Refusal(kind)), kind = "cancelled" => remote = "cancelled"
        PROVE  CallInvariant'
    <3>1. call' = "ended" /\ answer'.kind = kind /\ kind \notin {"timeout", "minutes"}
      BY <2>5 DEF Returns, Refusal, RemoteFailures
    <3> QED
      BY <1>1, <2>0, <2>2, <2>5, <3>1, TcacheAssumption
         DEF CallTypes, CallInTime, CallAgrees, CallIsClean, Running, CallPositions, InBudget
  <2>6. CASE UNCHANGED undelivered /\ now + d >= deadline /\ GivesUp("timeout")
    BY <1>1, <2>0, <2>2, <2>6, TcacheAssumption
       DEF GivesUp, CallTypes, CallInTime, CallAgrees, CallIsClean, Running, CallPositions, InBudget
  <2>7. \/ UNCHANGED undelivered /\ ((Goes("result") /\ remote = "completed") \/ Goes("sleep"))
        \/ /\ UNCHANGED undelivered /\ remote \in RemoteFailures \ Active
           /\ Returns(Refusal(remote))
        \/ undelivered' = TRUE /\ Returns(Refusal("error"))
        \/ UNCHANGED undelivered /\ now + d >= deadline /\ GivesUp("timeout")
    <3>1. CASE remote = "completed"
      BY <2>1, <3>1 DEF Active, RemoteFailures
    <3>2. CASE remote \in Active
      BY <2>1, <3>2 DEF Active, RemoteFailures
    <3>3. CASE remote \in RemoteFailures
      BY <2>1, <3>3 DEF Active, RemoteFailures
    <3> QED
      BY <2>3, <3>1, <3>2, <3>3
  <2>8. CASE /\ UNCHANGED undelivered /\ remote \in RemoteFailures \ Active
             /\ Returns(Refusal(remote))
    BY <2>5, <2>8 DEF CallTypes
  <2>9. CASE undelivered' = TRUE /\ Returns(Refusal("error"))
    BY <2>5, <2>9
  <2> QED
    BY <2>4, <2>6, <2>7, <2>8, <2>9
<1>6. CASE sleep_call
  BY <1>1, <1>6, TcacheAssumption
     DEF sleep_call, Goes, CallTypes, CallInTime, CallAgrees, CallIsClean, Running, CallPositions, InBudget
<1>7. CASE fetch_result
  <2>0. call = "result" /\ UNCHANGED <<deadline, remote, undelivered, stop>> /\ pc = "query"
    BY <1>7 DEF fetch_result, CallInTime, Running, CallPositions
  <2>1. CASE stop
    BY <1>1, <1>7, <2>0, <2>1, TcacheAssumption
       DEF fetch_result, GivesUp, CallTypes, CallInTime, CallAgrees, CallIsClean, Running, CallPositions
  <2>2. CASE ~ stop
    <3>1. PICK d \in 0 .. RequestTimeout :
            /\ Takes(d)
            /\ \/ \E seconds \in Durations : Returns(extract_travel_time(seconds))
               \/ Returns(Refusal("error"))
               \/ now + d >= deadline /\ GivesUp("timeout")
      BY <1>7, <2>2 DEF fetch_result
    <3>2. now' \in Nat /\ now' = now + d /\ now' <= deadline
      BY <3>1, TcacheAssumption DEF Takes, CallTypes
    <3>3. remote \notin Active
      BY <2>0 DEF CallAgrees, Active
    <3>4. CASE now + d >= deadline /\ GivesUp("timeout")
      BY <1>1, <2>0, <3>2, <3>4, TcacheAssumption
         DEF GivesUp, CallTypes, CallInTime, CallAgrees, CallIsClean, Running, CallPositions, InBudget
    <3>5. CASE call' = "ended" /\ (answer'.kind = "error" \/ \E seconds \in Durations :
                                     answer' = extract_travel_time(seconds))
      <4>1. /\ answer'.kind \in {"error", "minutes"}
            /\ answer'.kind = "minutes" =>
                 \E seconds \in Durations : 60 * answer'.minutes \in seconds .. (seconds + 59)
        BY <3>5, RoundsUp, TcacheAssumption
      <4> QED
        BY <1>1, <2>0, <3>2, <3>3, <3>5, <4>1, TcacheAssumption
           DEF CallTypes, CallInTime, CallAgrees, CallIsClean, Running, CallPositions, InBudget
    <3> QED
      BY <3>1, <3>4, <3>5 DEF Returns, Refusal
  <2> QED
    BY <2>1, <2>2
<1>8. CASE cancel_remote
  <2>0. /\ call = "give_up" /\ pc = "query" /\ UNCHANGED <<deadline, stop>>
        /\ call' = "ended" /\ answer' = Refusal(verdict)
    BY <1>8 DEF cancel_remote, Returns, CallInTime, Running, CallPositions
  <2>1. PICK d \in 0 .. CancelTimeout, delivered \in BOOLEAN :
       /\ now' = now + d
       /\ remote' = IF delivered /\ remote \in Active THEN "cancelled" ELSE remote
       /\ undelivered' = (undelivered \/ ~ delivered)
    BY <1>8 DEF cancel_remote
  <2>2. now' \in Nat /\ now' >= now /\ now' <= deadline + CancelTimeout
    BY <2>0, <2>1, TcacheAssumption DEF CallTypes, CallInTime, Running, CallPositions
  <2>3. answer'.kind = verdict
    BY <2>0 DEF Refusal
  <2>4. remote' \in Active => undelivered'
    BY <2>1 DEF Active
  <2>5. undelivered' \in BOOLEAN
    BY <2>1
  <2> QED
    BY <1>1, <2>0, <2>2, <2>3, <2>4, <2>5
       DEF CallTypes, CallInTime, CallAgrees, CallIsClean, Running, CallPositions, InBudget
<1> QED
  BY <1>2, <1>3, <1>4, <1>5, <1>6, <1>7, <1>8 DEF tcache_step, Client

(* The steps of the service that leave the calls alone. *)
QuietStep ==
  \/ accept \/ validate \/ select_provider \/ prepare_matrix \/ fetch \/ pairs_completed
  \/ build_matrix \/ matrix_built \/ generate \/ optimize \/ selection_started \/ on_progress
  \/ solve_prepared \/ begin_schedule \/ render \/ scheduled
  \/ recalculate \/ validate_schedule \/ finalize \/ report_result \/ strip_extensions
  \/ report_error \/ return_result \/ begin_advice \/ probe_mode \/ probe_location \/ budget_ends

(* They happen outside a call, and none of them returns to the legs. *)
LEMMA QuietSteps ==
  ASSUME QuietStep
  PROVE  UNCHANGED tcacheVars /\ pc # "query" /\ (pc' \in InBudget => pc \in InBudget)
<1> USE DEF InBudget, Goto, Fail, Checked, Stays, NoLegs, Elsewhere
<1>1. CASE accept BY <1>1 DEF accept
<1>2. CASE validate BY <1>2 DEF validate
<1>3. CASE select_provider BY <1>3 DEF select_provider
<1>4. CASE prepare_matrix BY <1>4 DEF prepare_matrix
<1>5. CASE fetch BY <1>5 DEF fetch
<1>6. CASE pairs_completed BY <1>6 DEF pairs_completed
<1>7. CASE build_matrix BY <1>7 DEF build_matrix
<1>8. CASE matrix_built BY <1>8 DEF matrix_built
<1>9. CASE generate BY <1>9 DEF generate
<1>10. CASE optimize BY <1>10 DEF optimize
<1>11. CASE selection_started BY <1>11 DEF selection_started
<1>12. CASE on_progress BY <1>12 DEF on_progress
<1>13. CASE solve_prepared BY <1>13 DEF solve_prepared
<1>14. CASE begin_schedule BY <1>14 DEF begin_schedule
<1>15. CASE render BY <1>15 DEF render
<1>16. CASE scheduled BY <1>16 DEF scheduled
<1>17. CASE recalculate BY <1>17 DEF recalculate, Unapplied
<1>18. CASE validate_schedule BY <1>18 DEF validate_schedule
<1>19. CASE finalize BY <1>19 DEF finalize
<1>20. CASE report_result BY <1>20 DEF report_result
<1>21. CASE strip_extensions BY <1>21 DEF strip_extensions
<1>22. CASE report_error BY <1>22 DEF report_error
<1>23. CASE return_result BY <1>23 DEF return_result
<1>24. CASE begin_advice BY <1>24 DEF begin_advice, Unadvised
<1>25. CASE probe_mode BY <1>25 DEF probe_mode, Unadvised
<1>26. CASE probe_location BY <1>26 DEF probe_location, Unadvised
<1>27. CASE budget_ends BY <1>27 DEF budget_ends, Unadvised
<1> QED
  BY <1>1, <1>2, <1>3, <1>4, <1>5, <1>6, <1>7, <1>8, <1>9, <1>10, <1>11, <1>12, <1>13, <1>14,
     <1>15, <1>16, <1>17, <1>18, <1>19, <1>20, <1>21, <1>22, <1>23, <1>24, <1>25, <1>26, <1>27
     DEF QuietStep

(* The revalidation begins and ends a call. *)
LEMMA LegCalls ==
  ASSUME CallInvariant, begin_leg \/ end_leg \/ stop_query \/ cancel \/ UNCHANGED vars
  PROVE  CallInvariant'
<1> USE DEF CallInvariant
<1>1. CASE begin_leg /\ UNCHANGED tcacheVars
  <2>1. pc = "leg" /\ pc' \in {"report_error", "validate_schedule", "query"}
    BY <1>1 DEF begin_leg, Fail, Goto, Unapplied
  <2> QED
    BY <1>1, <2>1 DEF tcacheVars, CallTypes, CallInTime, CallAgrees, CallIsClean, Running, InBudget
<1>2. CASE begin_leg /\ Goto("query") /\ begin_call(RevalidationBudget)
  <2>1. pc = "leg" /\ pc' = "query" /\ now <= RevalidationBudget
    BY <1>2 DEF begin_leg, Goto, CallInTime, InBudget
  <2>2. /\ deadline' \in Nat /\ now' = now /\ now <= deadline' /\ deadline' <= RevalidationBudget
    BY <1>2, <2>1, TcacheAssumption, PipelineAssumption DEF begin_call, CallTypes
  <2>3. \/ call' = "create"
        \/ call' = "ended" /\ answer' = Refusal("cancelled") /\ stop
    BY <1>2 DEF begin_call, Goes, Returns
  <2>4. call' = "ended" => answer'.kind = "cancelled" /\ stop
    BY <2>3 DEF Refusal
  <2>5. now' <= deadline' + CancelTimeout
    <3>1. \A a, b, c \in Nat : a <= b => a <= b + c
      OBVIOUS
    <3>2. CancelTimeout \in Nat /\ now' \in Nat /\ deadline' \in Nat /\ now' <= deadline'
      BY <2>2, TcacheAssumption DEF CallTypes
    <3> QED
      BY <3>1, <3>2
  <2>6. remote' = "none" /\ undelivered' \in BOOLEAN /\ stop' = stop
    BY <1>2 DEF begin_call
  <2> QED
    BY <2>1, <2>2, <2>3, <2>4, <2>5, <2>6
       DEF CallTypes, CallInTime, CallAgrees, CallIsClean, Running, CallPositions, InBudget, Active
<1>3. CASE end_leg
  <2>1. pc = "query" /\ call = "ended" /\ ResetCall /\ pc' \in {"report_error", "validate_schedule", "leg"}
    BY <1>3 DEF end_leg, Fail, Goto, Unapplied
  <2>2. pc' = "leg" => now <= RevalidationBudget
    BY <1>3, PipelineAssumption DEF end_leg, Fail, Goto, Unapplied, CallTypes
  <2> QED
    BY <2>1, <2>2 DEF ResetCall, CallTypes, CallInTime, CallAgrees, CallIsClean, Running, CallPositions,
                      InBudget
<1>4. CASE stop_query
  BY <1>4 DEF stop_query, CallTypes, CallInTime, CallAgrees, CallIsClean
<1>5. CASE cancel \/ UNCHANGED vars
  BY <1>5 DEF cancel, vars, tcacheVars, CallTypes, CallInTime, CallAgrees, CallIsClean
<1> QED
  BY <1>1, <1>2, <1>3, <1>4, <1>5 DEF begin_leg

(* The actions of the specification, as these proofs divide them. *)
LEMMA NextCases ==
  [Next]_vars => QuietStep \/ begin_leg \/ end_leg \/ stop_query \/ cancel \/ tcache_step
                 \/ UNCHANGED vars
BY DEF Next, Step, QuietStep, Finished

(* No call is open when the pipeline starts. *)
LEMMA InitCalls == Init => CallInvariant
<1> SUFFICES ASSUME Init PROVE CallInvariant
  OBVIOUS
<1>1. /\ now = 0 /\ deadline = 0 /\ call = "idle" /\ remote = "none"
  BY DEF Init, TcacheInit
<1>2. undelivered \in BOOLEAN /\ stop \in BOOLEAN
  BY DEF Init, TcacheInit
<1> QED
  BY <1>1, <1>2, TcacheAssumption, PipelineAssumption
     DEF CallInvariant, CallTypes, CallInTime, CallAgrees, CallIsClean, CallPositions,
         Running

(* Every step keeps the call on time and its account of the job over there *)
(* true.                                                                   *)
THEOREM CallsAreClean == Spec => []CallInvariant
<1>1. CallInvariant /\ [Next]_vars => CallInvariant'
  <2> SUFFICES ASSUME CallInvariant, [Next]_vars PROVE CallInvariant'
    OBVIOUS
  <2>1. CASE QuietStep
    BY <2>1, QuietSteps DEF tcacheVars, CallInvariant, CallTypes, CallInTime, CallAgrees, CallIsClean
  <2> QED
    BY <2>1, NextCases, LegCalls, CallSteps
<1> QED
  BY <1>1, InitCalls, PTL DEF Spec

(* travel_time ends in time, whatever the service does: it says it timed   *)
(* out only when it did, never answers with fewer minutes than the         *)
(* service's seconds, and leaves a job running over there only when a      *)
(* message about it was lost.                                              *)
THEOREM CallsEnd == Spec => []CallEndsCleanly
<1>1. CallInvariant => CallEndsCleanly
  <2> SUFFICES ASSUME CallInvariant PROVE CallEndsCleanly
    OBVIOUS
  <2>1. now <= Later(deadline, RevalidationBudget) + CancelTimeout
    BY TcacheAssumption, PipelineAssumption DEF CallInvariant, CallTypes, CallInTime, Later
  <2> QED
    BY <2>1 DEF CallEndsCleanly, CallInvariant, CallInTime, CallIsClean
<1> QED
  BY <1>1, CallsAreClean, PTL

-----------------------------------------------------------------------------
(* The route and its schedule. *)

(* The positions with an accepted request, ... *)
Prepared ==
  {"select", "prepare_matrix", "fetch", "build", "matrix_built", "generate", "optimize", "solve",
   "solving", "solved"}

(* ... with a route, ... *)
WithRoute == {"schedule", "render"}

(* ... with a schedule of it, ... *)
Timed == {"scheduled", "leg", "query"}

(* ... and with the schedule of the answer. *)
Answering == {"validate_schedule", "finalize", "result", "strip"}

Accepting == Prepared \cup WithRoute \cup Timed \cup Answering

Returning == {"advise", "probe_modes", "probe_locations", "done"}

Past == {"report_error", "return"} \cup Returning

InputHeld ==
  \E c \in Cases : conf = c[1] /\ request = apply_request_defaults(c[1], c[2])

ProblemHeld == pc \in Accepting => RequestAccepted(request) /\ problem = try_from(request)

RouteHeld ==
  pc \in WithRoute \cup Timed \cup Answering =>
    /\ order \in Seq(Locations(Problem)) /\ Len(order) >= 2
    /\ Problem.start_policy = "FIXED" => start = Problem.start_time

(* The static schedule belongs to the order that is returned, and nothing  *)
(* is revalidated yet while legs are queried.                              *)
StaticHeld ==
  /\ pc \in Timed \cup Answering =>
       static_plan = calculate_schedule_from(Problem, order, start) /\ static_plan.ok
  /\ pc \in Timed => plan = static_plan
  /\ pc \notin Answering \cup Past => revalidation = "none"

Changed(i, j) == \E k \in 1 .. leg - 1 : order[k] = i /\ order[k + 1] = j

(* The travel times differ from the matrix on the legs behind only. *)
LegsHeld ==
  /\ pc \in {"leg", "query"} \cup Answering =>
       /\ leg \in 1 .. Len(order)
       /\ DOMAIN rows = Locations(Problem)
       /\ \A i \in Locations(Problem) : DOMAIN rows[i] = Locations(Problem)
       /\ \A i, j \in Locations(Problem) : rows[i][j] # Problem.travel[i][j] => Changed(i, j)
  /\ pc = "query" => leg < Len(order)

RouteInvariant ==
  InputHeld /\ ProblemHeld /\ RouteHeld /\ StaticHeld /\ LegsHeld /\ RevalidationIsAllOrNothing

-----------------------------------------------------------------------------
(* The progress, the reports and the outcome. *)

Working == Accepting \cup {"accept", "validate"}

ProgressHeld ==
  /\ stage \in 0 .. FinalizingResult
  /\ IF stage = 0 THEN progress = 0 ELSE progress \in range[stage][1] .. range[stage][2]
  /\ pc \in {"result", "strip"} => stage = FinalizingResult
  /\ pairs \in Nat

(* An error of the service, with the causes that have a code. *)
IsFailure(e) ==
  /\ "route" \notin DOMAIN e /\ "kind" \in DOMAIN e
  /\ e.kind \in {"Cancelled", "InvalidRequest", "Routing", "Solver", "Schedule"}
  /\ e.kind = "Routing" => e.cause \in NamedRoutingCauses
  /\ e.kind = "Cancelled" => token
  /\ Local => e.kind # "Routing"

(* The answer is complete, as AnswerIsComplete says of the outcome. *)
Complete(r) ==
  LET wanted  == {k \in DOMAIN request.locations : request.locations[k].required = "true"}
      visited == {i + 1 : i \in ToSet(r.route)}
      skipped == {i + 1 : i \in r.skipped_locations}
  IN  /\ "route" \in DOMAIN r
      /\ visited \union skipped = DOMAIN request.locations
      /\ visited \intersect skipped = {} /\ Cardinality(visited) = Len(r.route)
      /\ wanted \union {1, Len(request.locations)} \subseteq visited
      /\ skipped # {} => request.visit_policy = "BEST_EFFORT_ON_FAILURE"
      /\ request.start_policy = "FIXED" => r.selected_start_time = request.start_time

Finalized == results = 1 /\ errors = <<>> /\ stage = FinalizingResult /\ Complete(response)

Refused(e) ==
  /\ IsFailure(e)
  /\ IF e.kind = "Cancelled" THEN results + Len(errors) <= 1
     ELSE results = 0 /\ errors = <<reported_code(e)>>

OutcomeInvariant ==
  /\ token \in BOOLEAN
  /\ results \in {0, 1} /\ (errors = <<>> \/ (results = 0 /\ Len(errors) = 1))
  /\ pc \in Working \cup {"report_error", "return"} \cup Returning
  /\ pc \in Working => error = NoError /\ errors = <<>> /\ outcome = NoError
  /\ pc \in Working \ {"strip"} => results = 0
  /\ pc = "result" => Complete(response)
  /\ pc = "strip" => Finalized
  /\ pc = "report_error" =>
       /\ IsFailure(error) /\ errors = <<>> /\ outcome = NoError
       /\ error.kind # "Cancelled" => results = 0
  /\ pc = "return" =>
       /\ outcome = NoError
       /\ \/ error = NoError /\ Finalized
          \/ Refused(error) /\ (error.kind = "Cancelled" => errors = <<>>)
  /\ pc \in Returning =>
       /\ IF Succeeded THEN results = 1 /\ stage = FinalizingResult /\ Complete(outcome)
          ELSE Refused(outcome)
       /\ error = NoError \/ IsFailure(error)

-----------------------------------------------------------------------------
(* A route through a finite set of locations is a sequence of them. *)
LEMMA ThroughIsRoute ==
  ASSUME NEW p, NEW S, IsFiniteSet(S), NEW r \in Through(p, S)
  PROVE  r \in Seq(S \cup {0, End(p)}) /\ Len(r) >= 2
<1> DEFINE T == S \ {0, End(p)}
           U == S \cup {0, End(p)}
<1>1. IsFiniteSet(T)
  BY FS_Subset
<1>2. Cardinality(T) \in Nat
  BY <1>1, FS_CardinalityType
<1>3. PICK f \in SetToSeqs(T) : r = <<0>> \o f \o <<End(p)>>
  BY DEF Through
<1>4. f \in Seq(T)
  <2>1. f \in [1 .. Cardinality(T) -> T]
    BY <1>3 DEF SetToSeqs
  <2> HIDE DEF T
  <2> QED
    BY <1>2, <2>1
<1>5. f \in Seq(U) /\ <<0>> \in Seq(U) /\ <<End(p)>> \in Seq(U)
  BY <1>4
<1> HIDE DEF T, U
<1>6. <<0>> \o f \in Seq(U) /\ Len(<<0>> \o f) = Len(f) + 1
  BY <1>5
<1>7. r \in Seq(U) /\ Len(r) = Len(f) + 2
  BY <1>3, <1>5, <1>6
<1> QED
  BY <1>5, <1>7 DEF U

(* There are finitely many locations. *)
LEMMA LocationsFinite ==
  ASSUME NEW p, p.n \in Nat
  PROVE  IsFiniteSet(Locations(p))
<1>1. p.n - 1 \in Int
  OBVIOUS
<1> QED
  BY <1>1, FS_Interval DEF Locations

(* What the solver returns is a route of the problem. *)
LEMMA SolutionIsRoute ==
  ASSUME NEW p, p.n \in Nat, p.n >= 2, p.required \subseteq Locations(p), NEW r \in Solutions(p)
  PROVE  r \in Seq(Locations(p)) /\ Len(r) >= 2
<1>1. PICK S \in SUBSET (Locations(p) \ p.required) : r \in Through(p, p.required \cup S)
  BY DEF Solutions
<1>2. IsFiniteSet(Locations(p))
  BY LocationsFinite
<1>3. p.required \cup S \subseteq Locations(p)
  BY <1>1
<1>4. IsFiniteSet(p.required \cup S)
  BY <1>2, <1>3, FS_Subset
<1>5. 0 \in Locations(p) /\ End(p) \in Locations(p)
  BY DEF Locations, End
<1>6. r \in Seq((p.required \cup S) \cup {0, End(p)}) /\ Len(r) >= 2
  BY <1>1, <1>4, ThroughIsRoute
<1> QED
  BY <1>3, <1>5, <1>6

(* So is what shuffle_solution makes of it. *)
LEMMA ShuffleIsRoute ==
  ASSUME NEW p, p.n \in Nat, p.n >= 2, NEW r \in Seq(Locations(p)), Len(r) >= 2,
         NEW s \in shuffle_solution(p, r)
  PROVE  s \in Seq(Locations(p)) /\ Len(s) >= 2
<1>1. CASE s = r
  BY <1>1
<1>2. CASE s \in Through(p, ToSet(r))
  <2>1. IsFiniteSet(Locations(p))
    BY LocationsFinite
  <2>2. ToSet(r) \subseteq Locations(p)
    BY DEF ToSet
  <2>3. IsFiniteSet(ToSet(r))
    BY <2>1, <2>2, FS_Subset
  <2>4. 0 \in Locations(p) /\ End(p) \in Locations(p)
    BY DEF Locations, End
  <2>5. s \in Seq(ToSet(r) \cup {0, End(p)}) /\ Len(s) >= 2
    BY <1>2, <2>3, ThroughIsRoute
  <2> QED
    BY <2>2, <2>4, <2>5
<1> QED
  BY <1>1, <1>2 DEF shuffle_solution

(* The problem of an accepted request. *)
LEMMA ProblemOfRequest ==
  ASSUME NEW r
  PROVE  /\ try_from(r).n = Len(r.locations)
         /\ try_from(r).travel =
              IF r.use_euclidean_matrix THEN travel_time_rows(r) ELSE r.travel
         /\ try_from(r).visit_policy = OrDefault(r.visit_policy, "ALL_REQUIRED")
         /\ try_from(r).start_policy = OrDefault(r.start_policy, "LATEST")
         /\ try_from(r).start_time = IF r.start_time = None THEN 0 ELSE r.start_time
         /\ try_from(r).required =
              {i \in 0 .. (Len(r.locations) - 1) :
                 \/ OrDefault(r.visit_policy, "ALL_REQUIRED") = "ALL_REQUIRED"
                 \/ i \in {0, Len(r.locations) - 1}
                 \/ r.locations[i + 1].required = "true"}
BY DEF try_from

(* Validation lets no request pass whose matrix the pipeline refuses. *)
LEMMA AcceptedShape ==
  ASSUME InputHeld, RequestAccepted(request), NEW p, p = try_from(request)
  PROVE  /\ p.n \in Nat /\ p.n >= 2 /\ p.n = Len(request.locations)
         /\ p.required \subseteq Locations(p)
         /\ MatrixUsable(p.travel, p.n)
         /\ Cardinality(LocalSources(request)) \in {0, 1}
<1>1. PICK c \in Cases : request = apply_request_defaults(c[1], c[2])
  BY DEF InputHeld
<1>2. /\ Len(request.locations) \in Nat /\ DOMAIN request.locations = 1 .. Len(request.locations)
      /\ request.supplied \subseteq {"dense", "sparse"}
      /\ request.use_euclidean_matrix \in BOOLEAN
      /\ LocalSources(request) = {} => MatrixUsable(request.travel, Len(request.locations))
  BY <1>1, CasesAssumption
<1>3. Len(request.locations) \in 2 .. MAX_LOCATIONS /\ MatrixAccepted(request)
  BY DEF RequestAccepted
<1>4. p.n \in Nat /\ p.n >= 2 /\ p.n = Len(request.locations)
  BY <1>2, <1>3, RequestAssumption, ProblemOfRequest
<1>5. p.required \subseteq Locations(p)
  BY <1>4, ProblemOfRequest DEF Locations
<1>6. MatrixUsable(p.travel, p.n)
  <2>1. CASE request.use_euclidean_matrix
    <3>1. p.travel = travel_time_rows(request)
      BY <2>1, ProblemOfRequest
    <3>2. DOMAIN p.travel = 0 .. (p.n - 1)
      BY <1>4, <3>1 DEF travel_time_rows
    <3>3. \A i \in 0 .. (p.n - 1) :
             p.travel[i] = [j \in 0 .. (p.n - 1) |-> IF i = j THEN 0 ELSE Later(1, request.travel[i][j])]
      BY <1>4, <3>1, Zenon DEF travel_time_rows
    <3> QED
      BY <3>2, <3>3 DEF MatrixUsable
  <2>2. CASE ~ request.use_euclidean_matrix
    <3>1. p.travel = request.travel /\ LocalSources(request) = request.supplied
      BY <2>2, ProblemOfRequest DEF LocalSources
    <3>2. CASE request.supplied = {}
      BY <1>2, <1>4, <3>1, <3>2
    <3>3. CASE request.supplied # {}
      BY <1>2, <1>3, <1>4, <3>1, <3>3 DEF MatrixAccepted, MatrixUsable
    <3> QED
      BY <3>2, <3>3
  <2> QED
    BY <1>2, <2>1, <2>2
<1>7. Cardinality(LocalSources(request)) \in {0, 1}
  <2>1. \/ LocalSources(request) = {} \/ LocalSources(request) = {"dense"}
        \/ LocalSources(request) = {"sparse"} \/ LocalSources(request) = {"euclidean"}
    <3>1. CASE request.use_euclidean_matrix
      BY <1>3, <3>1 DEF MatrixAccepted, LocalSources
    <3>2. CASE ~ request.use_euclidean_matrix
      <4>1. LocalSources(request) = request.supplied
        BY <3>2 DEF LocalSources
      <4>2. request.supplied # {"dense", "sparse"}
        BY <1>3 DEF MatrixAccepted
      <4> QED
        BY <1>2, <4>1, <4>2
    <3> QED
      BY <1>2, <3>1, <3>2
  <2>2. Cardinality({}) = 0 /\ \A x : Cardinality({x}) = 1
    BY FS_EmptySet, FS_Singleton
  <2>3. CASE LocalSources(request) = {}
    BY <2>2, <2>3
  <2>4. CASE \E x : LocalSources(request) = {x}
    <3>1. Cardinality(LocalSources(request)) = 1
      BY <2>2, <2>4
    <3> QED
      BY <3>1
  <2> QED
    BY <2>1, <2>3, <2>4
<1> QED
  BY <1>4, <1>5, <1>6, <1>7

(* The preparation finds the coordinates and the country code it expects. *)
LEMMA PreparationSucceeds ==
  ASSUME NEW r, RequestAccepted(r)
  PROVE  ~ PreparationPanics(r)
<1>1. CountryAccepted(r) /\ \A k \in DOMAIN r.locations : LocationAccepted(r, k)
  BY DEF RequestAccepted
<1>2. \A k \in DOMAIN r.locations : CoordinatesAccepted(r, r.locations[k])
  BY <1>1 DEF LocationAccepted
<1> QED
  BY <1>1, <1>2 DEF PreparationPanics, CountryAccepted, CoordinatesAccepted

(* Steps that leave the route alone. *)
LEMMA RouteFrame ==
  ASSUME RouteInvariant,
         UNCHANGED <<inputVars, problem, order, start, static_plan, plan, legVars>>,
         \/ pc' = pc
         \/ pc' \in Past
         \/ pc = "accept" /\ pc' = "validate"
         \/ pc \in Prepared /\ pc' \in Prepared
         \/ pc \in WithRoute /\ pc' \in WithRoute
         \/ pc \in Answering /\ pc' \in Answering
  PROVE  RouteInvariant'
<1> USE DEF RouteInvariant, inputVars, legVars
<1>1. /\ pc' \in Accepting => pc \in Accepting
      /\ pc' \in WithRoute \cup Timed \cup Answering => pc \in WithRoute \cup Timed \cup Answering
      /\ pc' \in Timed \cup Answering => pc \in Timed \cup Answering
      /\ pc' \in Timed => pc \in Timed
      /\ pc' \in Answering => pc \in Answering
      /\ pc' \notin Answering \cup Past => pc \notin Answering \cup Past
      /\ pc' \in {"leg", "query"} \cup Answering => pc \in {"leg", "query"} \cup Answering
      /\ pc' = "query" => pc = "query"
  BY DEF Accepting, Prepared, WithRoute, Timed, Answering, Past, Returning
<1>2. InputHeld'
  BY DEF InputHeld
<1>3. ProblemHeld'
  BY <1>1 DEF ProblemHeld
<1>4. RouteHeld'
  BY <1>1 DEF RouteHeld, Problem
<1>5. StaticHeld'
  BY <1>1 DEF StaticHeld, Problem, Past, Returning
<1>6. LegsHeld'
  BY <1>1 DEF LegsHeld, Changed, Problem
<1>7. RevalidationIsAllOrNothing'
  BY <1>1 DEF RevalidationIsAllOrNothing, Problem, Answering
<1> QED
  BY <1>2, <1>3, <1>4, <1>5, <1>6, <1>7

(* Most of them. *)
LEMMA FramedSteps ==
  ASSUME RouteInvariant,
         \/ accept \/ select_provider \/ prepare_matrix \/ fetch \/ pairs_completed
         \/ build_matrix \/ matrix_built \/ generate \/ optimize \/ selection_started \/ on_progress
         \/ begin_schedule \/ validate_schedule \/ finalize \/ report_result \/ strip_extensions
         \/ report_error \/ return_result \/ begin_advice \/ probe_mode \/ probe_location
         \/ budget_ends \/ cancel \/ stop_query \/ tcache_step \/ UNCHANGED vars
  PROVE  RouteInvariant'
<1> USE DEF Goto, Fail, Checked, Stays, NoLegs, Elsewhere, preparedVars, routeVars, inputVars, legVars
<1> USE DEF Past, Returning, Prepared, WithRoute, Answering
<1>1. CASE accept
  BY <1>1, RouteFrame DEF accept
<1>2. CASE select_provider
  BY <1>2, RouteFrame DEF select_provider
<1>3. CASE prepare_matrix
  BY <1>3, RouteFrame DEF prepare_matrix
<1>4. CASE fetch
  <2>1. pc = "fetch" /\ Cardinality(LocalSources(request)) \in {0, 1}
    BY <1>4, AcceptedShape DEF fetch, RouteInvariant, ProblemHeld, Accepting
  <2>2. pc' = "build"
    BY <1>4, <2>1 DEF fetch
  <2> QED
    BY <1>4, <2>1, <2>2, RouteFrame DEF fetch
<1>5. CASE pairs_completed
  BY <1>5, RouteFrame DEF pairs_completed
<1>6. CASE build_matrix
  BY <1>6, RouteFrame DEF build_matrix
<1>7. CASE matrix_built
  BY <1>7, RouteFrame DEF matrix_built
<1>8. CASE generate
  BY <1>8, RouteFrame DEF generate
<1>9. CASE optimize
  BY <1>9, RouteFrame DEF optimize
<1>10. CASE selection_started
  BY <1>10, RouteFrame DEF selection_started
<1>11. CASE on_progress
  BY <1>11, RouteFrame DEF on_progress
<1>12. CASE begin_schedule
  BY <1>12, RouteFrame DEF begin_schedule
<1>13. CASE validate_schedule
  BY <1>13, RouteFrame DEF validate_schedule
<1>14. CASE finalize
  BY <1>14, RouteFrame DEF finalize
<1>15. CASE report_result
  BY <1>15, RouteFrame DEF report_result
<1>16. CASE strip_extensions
  BY <1>16, RouteFrame DEF strip_extensions
<1>17. CASE report_error
  BY <1>17, RouteFrame DEF report_error
<1>18. CASE return_result
  BY <1>18, RouteFrame DEF return_result
<1>19. CASE begin_advice
  BY <1>19, RouteFrame DEF begin_advice, Unadvised
<1>20. CASE probe_mode
  BY <1>20, RouteFrame DEF probe_mode, Unadvised
<1>21. CASE probe_location
  BY <1>21, RouteFrame DEF probe_location, Unadvised
<1>22. CASE budget_ends
  BY <1>22, RouteFrame DEF budget_ends, Unadvised
<1>23. CASE cancel
  BY <1>23, RouteFrame DEF cancel
<1>24. CASE stop_query
  BY <1>24, RouteFrame DEF stop_query
<1>25. CASE tcache_step
  BY <1>25, RouteFrame DEF tcache_step
<1>26. CASE UNCHANGED vars
  BY <1>26, RouteFrame DEF vars
<1> QED
  BY <1>1, <1>2, <1>3, <1>4, <1>5, <1>6, <1>7, <1>8, <1>9, <1>10, <1>11, <1>12, <1>13, <1>14,
     <1>15, <1>16, <1>17, <1>18, <1>19, <1>20, <1>21, <1>22, <1>23, <1>24, <1>25, <1>26

(* An attempt that ends leaves no claim about the route. *)
LEMMA RoutePast ==
  ASSUME RouteInvariant, UNCHANGED inputVars, pc' \in Past
  PROVE  RouteInvariant'
<1>1. /\ pc' \notin Accepting /\ pc' \notin WithRoute \cup Timed \cup Answering
      /\ pc' \notin {"leg", "query"} \cup Answering /\ pc' # "query"
  BY DEF Past, Returning, Accepting, Prepared, WithRoute, Timed, Answering
<1>2. InputHeld'
  BY DEF RouteInvariant, InputHeld, inputVars
<1> QED
  BY <1>1, <1>2 DEF RouteInvariant, ProblemHeld, RouteHeld, StaticHeld, LegsHeld,
                    RevalidationIsAllOrNothing, Answering

(* TryFrom makes the problem of the request. *)
LEMMA ValidateRoute ==
  ASSUME RouteInvariant, validate
  PROVE  RouteInvariant'
<1>1. UNCHANGED inputVars /\ UNCHANGED <<order, start, static_plan, plan, legVars>> /\ pc = "validate"
  BY DEF validate, Elsewhere, NoLegs, routeVars
<1>2. CASE pc' \in Past
  BY <1>1, <1>2, RoutePast
<1>3. CASE pc' \notin Past
  <2>1. pc' = "select" /\ RequestAccepted(request) /\ problem' = try_from(request)
    BY <1>3, PreparationSucceeds DEF validate, Checked, Fail, Goto, Past
  <2>2. /\ pc' \notin WithRoute \cup Timed \cup Answering /\ pc' \notin {"leg", "query"} \cup Answering
        /\ pc' # "query" /\ pc \notin Answering \cup Past
    BY <1>1, <2>1 DEF Past, Returning, WithRoute, Timed, Answering
  <2> QED
    BY <1>1, <2>1, <2>2
       DEF RouteInvariant, InputHeld, ProblemHeld, RouteHeld, StaticHeld, LegsHeld,
           RevalidationIsAllOrNothing, Answering, inputVars, legVars
<1> QED
  BY <1>2, <1>3

(* The solver returns a route of the problem and the start it was judged   *)
(* with.                                                                   *)
LEMMA SolveRoute ==
  ASSUME RouteInvariant, solve_prepared
  PROVE  RouteInvariant'
<1>1. /\ UNCHANGED inputVars /\ UNCHANGED <<problem, static_plan, plan, legVars>>
      /\ pc \in {"solve", "solving", "solved"}
  BY DEF solve_prepared, Elsewhere, NoLegs, preparedVars
<1>2. CASE pc' \in Past
  BY <1>1, <1>2, RoutePast
<1>3. CASE pc' \notin Past
  <2>1. /\ pc' = "schedule"
        /\ \E r \in Solutions(Problem) :
             order' = r /\ start' = selected_start_time(Problem, evaluate_solution(Problem, r))
    BY <1>3 DEF solve_prepared, Checked, Fail, Goto, Past
  <2>2. RequestAccepted(request) /\ problem = try_from(request) /\ revalidation = "none"
    BY <1>1 DEF RouteInvariant, ProblemHeld, StaticHeld, Accepting, Prepared, Past, Returning, Answering
  <2>3. problem.n \in Nat /\ problem.n >= 2 /\ problem.required \subseteq Locations(problem)
    BY <2>2, AcceptedShape DEF RouteInvariant
  <2>4. order' \in Seq(Locations(problem)) /\ Len(order') >= 2
    BY <2>1, <2>3, SolutionIsRoute DEF Problem
  <2>5. problem.start_policy = "FIXED" => start' = problem.start_time
    BY <2>1 DEF Problem, selected_start_time
  <2>6. /\ pc' \notin Timed \cup Answering /\ pc' \notin {"leg", "query"} \cup Answering /\ pc' # "query"
    BY <2>1 DEF Timed, Answering
  <2> QED
    BY <1>1, <2>1, <2>2, <2>4, <2>5, <2>6
       DEF RouteInvariant, InputHeld, ProblemHeld, RouteHeld, StaticHeld, LegsHeld,
           RevalidationIsAllOrNothing, Answering, Problem, inputVars, legVars
<1> QED
  BY <1>2, <1>3

(* The schedule is the one of the order that is returned. *)
LEMMA RenderRoute ==
  ASSUME RouteInvariant, render
  PROVE  RouteInvariant'
<1>1. UNCHANGED inputVars /\ UNCHANGED <<problem, start, legVars>> /\ pc = "render"
  BY DEF render, Elsewhere, NoLegs, preparedVars
<1>2. CASE pc' \in Past
  BY <1>1, <1>2, RoutePast
<1>3. CASE pc' \notin Past
  <2>1. PICK r \in IF request.shuffle THEN shuffle_solution(Problem, order) ELSE {order} :
          /\ order' = r
          /\ static_plan' = calculate_schedule_from(Problem, r, start) /\ plan' = static_plan'
          /\ pc' = "scheduled" /\ static_plan'.ok
    BY <1>3 DEF render, Fail, Goto, Past
  <2>2. /\ RequestAccepted(request) /\ problem = try_from(request) /\ revalidation = "none"
        /\ order \in Seq(Locations(problem)) /\ Len(order) >= 2
        /\ problem.start_policy = "FIXED" => start = problem.start_time
    BY <1>1 DEF RouteInvariant, ProblemHeld, RouteHeld, StaticHeld, Accepting, WithRoute, Past, Returning,
                Answering, Problem
  <2>3. problem.n \in Nat /\ problem.n >= 2
    BY <2>2, AcceptedShape DEF RouteInvariant
  <2>4. order' \in Seq(Locations(problem)) /\ Len(order') >= 2
    BY <2>1, <2>2, <2>3, ShuffleIsRoute DEF Problem
  <2>5. pc' \notin {"leg", "query"} \cup Answering /\ pc' # "query"
    BY <2>1 DEF Answering
  <2>6. static_plan' = calculate_schedule_from(problem, order', start)
    BY <2>1 DEF Problem
  <2>7. InputHeld' /\ ProblemHeld' /\ RouteHeld'
    BY <1>1, <2>2, <2>4 DEF RouteInvariant, InputHeld, ProblemHeld, RouteHeld, Problem, inputVars
  <2>8. StaticHeld'
    BY <1>1, <2>1, <2>2, <2>5, <2>6 DEF StaticHeld, Problem, legVars
  <2> QED
    BY <2>5, <2>7, <2>8 DEF RouteInvariant, LegsHeld, RevalidationIsAllOrNothing, Answering
<1> QED
  BY <1>2, <1>3

(* The revalidation starts with the times of the matrix. *)
LEMMA ScheduledRoute ==
  ASSUME RouteInvariant, scheduled
  PROVE  RouteInvariant'
<1>1. /\ UNCHANGED inputVars /\ UNCHANGED <<problem, order, start, static_plan, plan, revalidation>>
      /\ pc = "scheduled" /\ leg' = 1 /\ rows' = problem.travel
  BY DEF scheduled, Elsewhere, preparedVars, routeVars, Problem
<1>2. CASE pc' \in Past
  BY <1>1, <1>2, RoutePast
<1>3. CASE pc' \notin Past
  <2>1. pc' \in {"leg", "validate_schedule"}
    BY <1>3 DEF scheduled, Checked, Fail, Goto, Past
  <2>2. /\ RequestAccepted(request) /\ problem = try_from(request) /\ revalidation = "none"
        /\ order \in Seq(Locations(problem)) /\ Len(order) >= 2
        /\ problem.start_policy = "FIXED" => start = problem.start_time
        /\ static_plan = calculate_schedule_from(problem, order, start) /\ static_plan.ok
        /\ plan = static_plan
    BY <1>1 DEF RouteInvariant, ProblemHeld, RouteHeld, StaticHeld, Accepting, Timed, Past, Returning,
                Answering, Problem
  <2>3. MatrixUsable(problem.travel, problem.n)
    BY <2>2, AcceptedShape DEF RouteInvariant
  <2>4. InputHeld' /\ ProblemHeld' /\ RouteHeld'
    BY <1>1, <2>2 DEF RouteInvariant, InputHeld, ProblemHeld, RouteHeld, Problem, inputVars
  <2>5. StaticHeld'
    BY <1>1, <2>1, <2>2 DEF StaticHeld, Problem
  <2>6. LegsHeld'
    BY <1>1, <2>1, <2>2, <2>3 DEF LegsHeld, MatrixUsable, Locations, Problem
  <2>7. RevalidationIsAllOrNothing'
    BY <1>1, <2>1, <2>2, <2>3 DEF RevalidationIsAllOrNothing, MatrixUsable, Locations, Problem
  <2> QED
    BY <2>4, <2>5, <2>6, <2>7 DEF RouteInvariant
<1> QED
  BY <1>2, <1>3

(* What holds while the legs are revalidated. *)
LEMMA LegFacts ==
  ASSUME RouteInvariant, pc \in {"leg", "query"}
  PROVE  /\ RequestAccepted(request) /\ problem = try_from(request) /\ revalidation = "none"
         /\ order \in Seq(Locations(problem)) /\ Len(order) >= 2
         /\ problem.start_policy = "FIXED" => start = problem.start_time
         /\ static_plan = calculate_schedule_from(problem, order, start) /\ static_plan.ok
         /\ plan = static_plan
         /\ leg \in 1 .. Len(order)
         /\ DOMAIN rows = Locations(problem)
         /\ \A i \in Locations(problem) : DOMAIN rows[i] = Locations(problem)
         /\ \A i, j \in Locations(problem) : rows[i][j] # problem.travel[i][j] => Changed(i, j)
BY DEF RouteInvariant, ProblemHeld, RouteHeld, StaticHeld, LegsHeld, Accepting, Timed, Past, Returning,
       Answering, Problem

(* A step that ends the revalidation without applying it falls back to the *)
(* static schedule.                                                        *)
LEMMA UnappliedRoute ==
  ASSUME RouteInvariant, pc \in {"leg", "query"}, UNCHANGED inputVars,
         UNCHANGED <<problem, order, start, static_plan, leg, rows>>,
         NEW why \in {"unavailable", "unreachable", "infeasible"}, Unapplied(why)
  PROVE  RouteInvariant'
<1>1. pc' = "validate_schedule" /\ revalidation' = why /\ plan' = static_plan
  BY DEF Unapplied, Goto
<1>2. InputHeld' /\ ProblemHeld' /\ RouteHeld'
  BY LegFacts DEF RouteInvariant, InputHeld, ProblemHeld, RouteHeld, Problem, inputVars
<1>3. StaticHeld'
  BY <1>1, LegFacts DEF StaticHeld, Problem, Timed, Answering
<1>4. LegsHeld'
  BY <1>1, LegFacts DEF LegsHeld, Changed, Problem
<1>5. RevalidationIsAllOrNothing'
  BY <1>1, LegFacts DEF RevalidationIsAllOrNothing, Changed, Problem
<1> QED
  BY <1>2, <1>3, <1>4, <1>5 DEF RouteInvariant

(* A leg is revalidated, or its revalidation begins. *)
LEMMA LegRoute ==
  ASSUME RouteInvariant, begin_leg \/ end_leg
  PROVE  RouteInvariant'
<1>1. /\ UNCHANGED inputVars /\ UNCHANGED <<problem, order, start, static_plan>>
      /\ pc \in {"leg", "query"}
  BY DEF begin_leg, end_leg, Elsewhere, KeepsRoute, preparedVars
<1>2. CASE pc' \in Past
  BY <1>1, <1>2, RoutePast
<1>3. CASE begin_leg /\ Unapplied("unavailable")
  BY <1>1, <1>3, UnappliedRoute DEF begin_leg
<1>4. CASE begin_leg /\ Goto("query") /\ UNCHANGED <<plan, revalidation>>
  <2>1. pc' = "query" /\ UNCHANGED <<leg, rows>> /\ leg < Len(order)
    BY <1>4, LegFacts DEF begin_leg, Goto, Legs
  <2>2. InputHeld' /\ ProblemHeld' /\ RouteHeld'
    BY <1>1, LegFacts DEF RouteInvariant, InputHeld, ProblemHeld, RouteHeld, Problem, inputVars
  <2>3. StaticHeld'
    BY <1>1, <1>4, <2>1, LegFacts DEF StaticHeld, Problem
  <2>4. LegsHeld'
    BY <1>1, <2>1, LegFacts DEF LegsHeld, Changed, Problem
  <2>5. RevalidationIsAllOrNothing'
    BY <2>1 DEF RevalidationIsAllOrNothing
  <2> QED
    BY <2>2, <2>3, <2>4, <2>5 DEF RouteInvariant
<1>5. CASE end_leg /\ \E why \in {"unavailable", "unreachable"} : Unapplied(why) /\ UNCHANGED <<leg, rows>>
  BY <1>1, <1>5, UnappliedRoute
<1>6. CASE /\ end_leg
           /\ rows' = [rows EXCEPT ![order[leg]][order[leg + 1]] = answer.minutes]
           /\ leg' = leg + 1
           /\ Goto("leg") /\ UNCHANGED <<plan, revalidation>>
  <2>1. pc = "query" /\ pc' = "leg"
    BY <1>6 DEF end_leg, Goto
  <2>2. leg < Len(order) /\ leg \in Nat /\ leg >= 1
    BY <2>1, LegFacts DEF RouteInvariant, LegsHeld
  <2>3. InputHeld' /\ ProblemHeld' /\ RouteHeld'
    BY <1>1, LegFacts DEF RouteInvariant, InputHeld, ProblemHeld, RouteHeld, Problem, inputVars
  <2>4. StaticHeld'
    BY <1>1, <1>6, <2>1, LegFacts DEF StaticHeld, Problem
  <2> DEFINE a == order[leg]
             b == order[leg + 1]
             L == Locations(problem)
  <2>5. a \in L /\ b \in L
    BY <1>1, <2>2, LegFacts
  <2>6. DOMAIN rows = L /\ \A i \in L : DOMAIN rows[i] = L
    BY <1>1, LegFacts
  <2>7. DOMAIN rows' = L /\ \A i \in L : DOMAIN rows'[i] = L
    BY <1>6, <2>5, <2>6
  <2>8. ASSUME NEW i \in L, NEW j \in L, rows'[i][j] # problem.travel[i][j]
        PROVE  \E k \in 1 .. leg' - 1 : order[k] = i /\ order[k + 1] = j
    <3>1. CASE i = a /\ j = b
      BY <1>6, <2>2, <3>1
    <3>2. CASE ~ (i = a /\ j = b)
      <4>1. rows'[i][j] = rows[i][j]
        BY <1>6, <2>5, <2>6, <3>2
      <4>2. Changed(i, j)
        BY <1>1, <2>8, <4>1, LegFacts
      <4> QED
        BY <1>6, <2>2, <4>2 DEF Changed
    <3> QED
      BY <3>1, <3>2
  <2>9. LegsHeld'
    BY <1>1, <1>6, <2>1, <2>2, <2>7, <2>8, LegFacts DEF LegsHeld, Changed, Problem
  <2>10. RevalidationIsAllOrNothing'
    BY <2>1 DEF RevalidationIsAllOrNothing
  <2> QED
    BY <2>3, <2>4, <2>9, <2>10 DEF RouteInvariant
<1>7. CASE begin_leg
  BY <1>2, <1>3, <1>4, <1>7 DEF begin_leg, Fail, Past
<1>8. CASE end_leg
  BY <1>2, <1>5, <1>6, <1>8 DEF end_leg, Fail, Past
<1> QED
  BY <1>7, <1>8

(* Only when every leg is revalidated its times are used. *)
LEMMA RecalculateRoute ==
  ASSUME RouteInvariant, recalculate
  PROVE  RouteInvariant'
<1>1. /\ UNCHANGED inputVars /\ UNCHANGED <<problem, order, start, static_plan, leg, rows>>
      /\ pc = "leg" /\ leg > Legs
  BY DEF recalculate, Elsewhere, KeepsRoute, preparedVars
<1> DEFINE corrected == calculate_schedule_from([problem EXCEPT !.travel = rows], order, start)
<1>2. CASE Unapplied("infeasible")
  BY <1>1, <1>2, UnappliedRoute
<1>3. CASE corrected.ok /\ plan' = corrected /\ revalidation' = "applied" /\ Goto("validate_schedule")
  <2>1. pc' = "validate_schedule"
    BY <1>3 DEF Goto
  <2>2. leg = Len(order)
    BY <1>1, LegFacts DEF Legs
  <2>3. InputHeld' /\ ProblemHeld' /\ RouteHeld'
    BY <1>1, LegFacts DEF RouteInvariant, InputHeld, ProblemHeld, RouteHeld, Problem, inputVars
  <2>4. StaticHeld'
    BY <1>1, <2>1, LegFacts DEF StaticHeld, Problem, Timed, Answering
  <2>5. LegsHeld'
    BY <1>1, <2>1, LegFacts DEF LegsHeld, Changed, Problem
  <2>6. RevalidationIsAllOrNothing'
    BY <1>1, <1>3, <2>1, <2>2, LegFacts DEF RevalidationIsAllOrNothing, Changed, Problem
  <2> QED
    BY <2>3, <2>4, <2>5, <2>6 DEF RouteInvariant
<1> QED
  BY <1>2, <1>3 DEF recalculate, Problem

(* Nothing is claimed before the request is accepted. *)
LEMMA InitRoute == Init => RouteInvariant
<1> SUFFICES ASSUME Init PROVE RouteInvariant
  OBVIOUS
<1>1. InputHeld /\ pc = "accept" /\ revalidation = "none"
  BY DEF Init, InputHeld
<1> QED
  BY <1>1 DEF RouteInvariant, ProblemHeld, RouteHeld, StaticHeld, LegsHeld, RevalidationIsAllOrNothing,
              Accepting, Prepared, WithRoute, Timed, Answering

(* Every step keeps the schedule in line with the route. *)
LEMMA NextRoute == RouteInvariant /\ [Next]_vars => RouteInvariant'
BY NextCases, FramedSteps, ValidateRoute, SolveRoute, RenderRoute, ScheduledRoute, LegRoute,
   RecalculateRoute DEF QuietStep

(* The route that is answered and its schedule belong together. *)
THEOREM RouteIsHeld == Spec => []RouteInvariant
BY InitRoute, NextRoute, PTL DEF Spec

(* revalidate_selected_route applies the revalidated times of all legs or  *)
(* of none: a response never mixes them with static ones.                  *)
THEOREM RevalidatesAllOrNothing == Spec => []RevalidationIsAllOrNothing
<1>1. RouteInvariant => RevalidationIsAllOrNothing
  BY DEF RouteInvariant
<1> QED
  BY <1>1, RouteIsHeld, PTL

-----------------------------------------------------------------------------
(* The ranges of the stages follow one another. *)
LEMMA Ranges ==
  /\ \A s \in 1 .. 12 : /\ range[s][1] \in Nat /\ range[s][2] \in Nat
                        /\ range[s][1] <= range[s][2]
  /\ \A s, t \in 1 .. 12 : s <= t => range[s][2] <= range[t][2]
<1>1. /\ range[1] = <<0, 0>> /\ range[2] = <<5, 5>> /\ range[3] = <<10, 10>> /\ range[4] = <<15, 15>>
      /\ range[5] = <<20, 45>> /\ range[6] = <<48, 52>> /\ range[7] = <<55, 65>>
      /\ range[8] = <<65, 80>> /\ range[9] = <<82, 86>> /\ range[10] = <<88, 92>>
      /\ range[11] = <<94, 96>> /\ range[12] = <<98, 98>>
  BY DEF range
<1> DEFINE low(s) == range[s][1]
           high(s) == range[s][2]
<1>2. /\ low(1) = 0 /\ low(2) = 5 /\ low(3) = 10 /\ low(4) = 15 /\ low(5) = 20 /\ low(6) = 48
      /\ low(7) = 55 /\ low(8) = 65 /\ low(9) = 82 /\ low(10) = 88 /\ low(11) = 94 /\ low(12) = 98
  BY <1>1
<1>3. /\ high(1) = 0 /\ high(2) = 5 /\ high(3) = 10 /\ high(4) = 15 /\ high(5) = 45 /\ high(6) = 52
      /\ high(7) = 65 /\ high(8) = 80 /\ high(9) = 86 /\ high(10) = 92 /\ high(11) = 96 /\ high(12) = 98
  BY <1>1
<1> HIDE DEF low, high
<1>4. \A s \in 1 .. 12 : s \in {1, 2, 3, 4, 5, 6, 7, 8, 9, 10, 11, 12}
  OBVIOUS
<1>5. \A s \in 1 .. 12 : low(s) \in Nat /\ high(s) \in Nat /\ low(s) <= high(s)
  BY <1>2, <1>3, <1>4
<1>6. \A s, t \in 1 .. 12 : s <= t => high(s) <= high(t)
  BY <1>3, <1>4
<1> QED
  BY <1>5, <1>6 DEF low, high

(* The mutex of the coordinator: a report moves forward or not at all. *)
LEMMA ReportAdvances ==
  ASSUME ProgressHeld, NEW s \in 1 .. 12, NEW percent \in range[s][1] .. range[s][2],
         report(s, percent)
  PROVE  /\ stage' \in 0 .. 12 /\ stage' >= stage /\ stage' >= s /\ progress' >= progress
         /\ IF stage' = 0 THEN progress' = 0 ELSE progress' \in range[stage'][1] .. range[stage'][2]
<1>1. stage \in 0 .. 12 /\ progress \in Nat
  BY Ranges DEF ProgressHeld, FinalizingResult
<1>2. percent \in Nat /\ range[s][1] \in Nat /\ range[s][2] \in Nat
  BY Ranges
<1>3. CASE s < stage
  BY <1>1, <1>3 DEF report, progressVars, ProgressHeld, FinalizingResult
<1>4. CASE ~ (s < stage)
  <2>1. stage' = s /\ progress' = Later(progress, percent)
    BY <1>4 DEF report
  <2>2. progress <= range[s][2]
    <3>1. CASE stage = 0
      BY <1>2, <3>1 DEF ProgressHeld
    <3>2. CASE stage # 0
      <4>1. range[stage][2] <= range[s][2] /\ range[stage][2] \in Nat /\ progress <= range[stage][2]
        BY <1>1, <1>4, <3>2, Ranges DEF ProgressHeld
      <4> QED
        BY <1>1, <1>2, <4>1
    <3> QED
      BY <3>1, <3>2
  <2>3. progress' \in range[s][1] .. range[s][2] /\ progress' >= progress
    BY <1>1, <1>2, <2>1, <2>2 DEF Later
  <2> QED
    BY <1>1, <1>4, <2>1, <2>3
<1> QED
  BY <1>3, <1>4

(* A share of the pairs is a percentage of the stage. *)
LEMMA Interpolated ==
  ASSUME NEW c \in Nat, NEW total \in Nat, c <= total, total > 0
  PROVE  interpolate(FetchingTravelTimes, c, total) \in range[5][1] .. range[5][2]
<1> DEFINE q == (25 * c) \div total
<1>1. q \in Int /\ total * q <= 25 * c /\ 25 * c < total * q + total
  OBVIOUS
<1>2. 25 * c <= 25 * total
  OBVIOUS
<1> HIDE DEF q
<1>3. q >= 0
  <2> SUFFICES ASSUME q <= -1 PROVE FALSE
    BY <1>1
  <2>1. total * q <= total * (-1)
    BY <1>1
  <2> QED
    BY <1>1, <2>1
<1>4. q <= 25
  <2> SUFFICES ASSUME q >= 26 PROVE FALSE
    BY <1>1
  <2>1. total * q >= total * 26
    BY <1>1
  <2> QED
    BY <1>1, <1>2, <2>1
<1>5. range[5] = <<20, 45>>
  BY DEF range
<1>6. interpolate(FetchingTravelTimes, c, total) = 20 + q
  BY <1>5 DEF interpolate, FetchingTravelTimes, q
<1> QED
  BY <1>1, <1>3, <1>4, <1>5, <1>6

(* Progress is reported while the pipeline works. *)
Advances ==
  /\ pc \in Working \ {"strip"}
  /\ stage' >= stage /\ progress' >= progress
  /\ stage' > 0 => progress' \in range[stage'][1] .. range[stage'][2]

(* A report within the range of its stage keeps the progress in range. *)
LEMMA ReportSteps ==
  ASSUME ProgressHeld, NEW s \in 1 .. 12, NEW percent \in range[s][1] .. range[s][2],
         report(s, percent), pairs' \in Nat, pc \in Working \ {"strip"},
         pc' \in {"result", "strip"} => s = 12
  PROVE  ProgressHeld' /\ Advances
<1>1. /\ stage' \in 0 .. 12 /\ stage' >= stage /\ stage' >= s /\ progress' >= progress
      /\ IF stage' = 0 THEN progress' = 0 ELSE progress' \in range[stage'][1] .. range[stage'][2]
  BY ReportAdvances
<1>2. stage' > 0 => progress' \in range[stage'][1] .. range[stage'][2]
  BY <1>1
<1>3. s = 12 => stage' = 12
  BY <1>1
<1> QED
  BY <1>1, <1>2, <1>3 DEF ProgressHeld, Advances, FinalizingResult

(* Every stage of the pipeline reports its own range. *)
LEMMA ProgressSteps ==
  ASSUME RouteInvariant, ProgressHeld, [Next]_vars
  PROVE  ProgressHeld' /\ (UNCHANGED progressVars \/ Advances)
<1> DEFINE Quiet == /\ UNCHANGED progressVars /\ UNCHANGED pairs
                    /\ pc' \in {"result", "strip"} => pc \in {"result", "strip"}
<1>1. CASE Quiet
  BY <1>1 DEF ProgressHeld, progressVars
<1>2. pairs \in Nat
  BY DEF ProgressHeld
<1>3. \A s \in 1 .. 12 : range[s][1] \in range[s][1] .. range[s][2]
                         /\ range[s][2] \in range[s][1] .. range[s][2]
  BY Ranges
<1> USE DEF Goto, Fail, Checked, Stays
<1> USE DEF Working, Accepting, Prepared, WithRoute, Timed, Answering
<1>4. CASE accept
  BY <1>2, <1>3, <1>4, ReportSteps DEF accept, Accepted
<1>5. CASE validate
  BY <1>2, <1>3, <1>5, PreparationSucceeds, ReportSteps DEF validate, ValidatingRequest
<1>6. CASE select_provider
  BY <1>2, <1>3, <1>6, ReportSteps DEF select_provider, SelectingProvider
<1>7. CASE prepare_matrix
  BY <1>2, <1>3, <1>7, ReportSteps DEF prepare_matrix, PreparingMatrix
<1>8. CASE fetch
  BY <1>2, <1>3, <1>8, ReportSteps DEF fetch, FetchingTravelTimes
<1>9. CASE pairs_completed
  <2>1. pc = "build" /\ pc' = pc /\ pairs < PairCount /\ pairs' = pairs + 1
        /\ report(FetchingTravelTimes, interpolate(FetchingTravelTimes, pairs + 1, PairCount))
    BY <1>9 DEF pairs_completed
  <2>2. problem.n \in Nat
    BY <2>1, AcceptedShape DEF RouteInvariant, ProblemHeld
  <2>3. PairCount \in Int
    BY <2>2 DEF PairCount, Problem
  <2>4. pairs + 1 \in Nat /\ PairCount \in Nat /\ pairs + 1 <= PairCount /\ PairCount > 0
    BY <1>2, <2>1, <2>3
  <2>5. interpolate(FetchingTravelTimes, pairs + 1, PairCount) \in range[5][1] .. range[5][2]
    BY <2>4, Interpolated
  <2> QED
    BY <2>1, <2>4, <2>5, ReportSteps DEF FetchingTravelTimes
<1>10. CASE build_matrix
  BY <1>1, <1>10 DEF build_matrix
<1>11. CASE matrix_built
  BY <1>1, <1>2, <1>3, <1>11, ReportSteps DEF matrix_built, BuildingMatrix
<1>12. CASE generate
  BY <1>1, <1>2, <1>3, <1>12, ReportSteps DEF generate, GeneratingCandidates
<1>13. CASE optimize
  BY <1>1, <1>2, <1>3, <1>13, ReportSteps DEF optimize, OptimizingRoute
<1>14. CASE on_progress
  <2>1. PICK percent \in {66, 68} \cup (70 .. 79) : report(OptimizingRoute, percent)
    BY <1>14 DEF on_progress
  <2>2. percent \in range[8][1] .. range[8][2]
    <3>1. range[8] = <<65, 80>>
      BY DEF range
    <3> QED
      BY <3>1
  <2>3. UNCHANGED pairs /\ pc \in {"solve", "solving"} /\ pc' = "solving"
    BY <1>14 DEF on_progress
  <2> QED
    BY <1>2, <2>1, <2>2, <2>3, ReportSteps DEF OptimizingRoute
<1>15. CASE selection_started
  BY <1>2, <1>3, <1>15, ReportSteps DEF selection_started, SelectingBestCandidate
<1>16. CASE solve_prepared
  <2>1. UNCHANGED pairs /\ pc \in Prepared /\ pc' \notin {"result", "strip"}
    BY <1>16 DEF solve_prepared
  <2>2. UNCHANGED progressVars \/ report(SelectingBestCandidate, range[SelectingBestCandidate][2])
    BY <1>16 DEF solve_prepared
  <2> QED
    BY <1>1, <1>2, <1>3, <2>1, <2>2, ReportSteps DEF SelectingBestCandidate
<1>17. CASE begin_schedule
  BY <1>1, <1>2, <1>3, <1>17, ReportSteps DEF begin_schedule, Scheduling
<1>18. CASE render
  <2>1. UNCHANGED progressVars /\ UNCHANGED pairs /\ pc' \notin {"result", "strip"}
    BY <1>18 DEF render
  <2> QED
    BY <1>1, <2>1
<1>19. CASE scheduled
  BY <1>1, <1>19 DEF scheduled
<1>20. CASE begin_leg
  BY <1>1, <1>20 DEF begin_leg, Unapplied
<1>21. CASE end_leg
  BY <1>1, <1>21 DEF end_leg, Unapplied
<1>22. CASE recalculate
  BY <1>1, <1>22 DEF recalculate, Unapplied
<1>23. CASE validate_schedule
  BY <1>1, <1>2, <1>3, <1>23, ReportSteps DEF validate_schedule, ValidatingSchedule
<1>24. CASE finalize
  BY <1>1, <1>2, <1>3, <1>24, ReportSteps DEF finalize, FinalizingResult
<1>25. CASE report_result
  BY <1>1, <1>25 DEF report_result
<1>26. CASE strip_extensions
  BY <1>1, <1>26 DEF strip_extensions
<1>27. CASE report_error
  BY <1>1, <1>27 DEF report_error
<1>28. CASE return_result
  BY <1>1, <1>28 DEF return_result
<1>29. CASE begin_advice
  BY <1>1, <1>29 DEF begin_advice, Unadvised
<1>30. CASE probe_mode
  BY <1>1, <1>30 DEF probe_mode, Unadvised
<1>31. CASE probe_location
  BY <1>1, <1>31 DEF probe_location, Unadvised
<1>32. CASE budget_ends
  BY <1>1, <1>32 DEF budget_ends, Unadvised
<1>33. CASE cancel
  BY <1>1, <1>33 DEF cancel
<1>34. CASE stop_query
  BY <1>1, <1>34 DEF stop_query
<1>35. CASE tcache_step
  BY <1>1, <1>35 DEF tcache_step
<1>36. CASE UNCHANGED vars
  BY <1>1, <1>36 DEF vars
<1> QED
  BY <1>4, <1>5, <1>6, <1>7, <1>8, <1>9, <1>10, <1>11, <1>12, <1>13, <1>14, <1>15, <1>16, <1>17,
     <1>18, <1>19, <1>20, <1>21, <1>22, <1>23, <1>24, <1>25, <1>26, <1>27, <1>28, <1>29, <1>30,
     <1>31, <1>32, <1>33, <1>34, <1>35, <1>36, NextCases DEF QuietStep

-----------------------------------------------------------------------------
(* The metadata of the provider leave the rest of the response alone. *)
LEMMA MetadataKeeps ==
  ASSUME NEW chosen, NEW a,
         a = set_provider_metadata(from_plan(problem, plan, order, start), chosen, request)
  PROVE  /\ "route" \in DOMAIN a /\ a.route = order
         /\ a.selected_start_time = start
         /\ a.skipped_locations = IF problem.visit_policy = "ALL_REQUIRED" THEN {}
                                  ELSE (Locations(problem) \ problem.required) \ ToSet(order)
<1> DEFINE f == from_plan(problem, plan, order, start)
           skipped == IF problem.visit_policy = "ALL_REQUIRED" THEN {}
                      ELSE (Locations(problem) \ problem.required) \ ToSet(order)
<1>1. /\ DOMAIN f = {"route", "schedule", "selected_start_time", "skipped_locations"}
      /\ f["route"] = order /\ f["selected_start_time"] = start /\ f["skipped_locations"] = skipped
  BY DEF from_plan
<1> HIDE DEF f, skipped
<1>2. \A x \in DOMAIN f : x \in DOMAIN a /\ a[x] = f[x]
  BY DEF set_provider_metadata, f
<1>3. /\ "route" \in DOMAIN a /\ a["route"] = order /\ a["selected_start_time"] = start
      /\ a["skipped_locations"] = skipped
  BY <1>1, <1>2
<1> QED
  BY <1>3 DEF skipped

(* A schedule exists only for an order that was validated. *)
LEMMA ScheduledIsValid ==
  ASSUME NEW p, NEW r, NEW begin, calculate_schedule_from(p, r, begin).ok
  PROVE  validate_solution(p, r)
<1> SUFFICES ASSUME ~ validate_solution(p, r) PROVE FALSE
  OBVIOUS
<1>1. calculate_schedule_from(p, r, begin) = Error("InvalidVisitOrder")
  BY DEF calculate_schedule_from
<1> QED
  BY <1>1 DEF Error

(* Numbering from one instead of zero keeps the count. *)
LEMMA ShiftedCount ==
  ASSUME NEW S \in SUBSET Int, IsFiniteSet(S)
  PROVE  Cardinality({i + 1 : i \in S}) = Cardinality(S)
<1> DEFINE T == {i + 1 : i \in S}
           f == [i \in S |-> i + 1]
<1>1. f \in [S -> T]
  OBVIOUS
<1>2. \A a, b \in S : f[a] = f[b] => a = b
  OBVIOUS
<1>3. \A t \in T : \E s \in S : f[s] = t
  OBVIOUS
<1>4. f \in Bijection(S, T)
  BY <1>1, <1>2, <1>3 DEF Bijection, Injection, Surjection, IsInjective
<1> QED
  BY <1>4, FS_Bijection DEF ExistsBijection

(* A validated order starts and ends where the problem does and visits no  *)
(* location twice.                                                         *)
LEMMA ValidRoute ==
  ASSUME NEW p, p.n \in Nat, p.n >= 2, NEW r \in Seq(Locations(p)), Len(r) >= 2,
         validate_solution(p, r)
  PROVE  /\ ToSet(r) \subseteq Locations(p) /\ IsFiniteSet(ToSet(r))
         /\ Cardinality(ToSet(r)) = Len(r)
         /\ 0 \in ToSet(r) /\ End(p) \in ToSet(r)
         /\ p.required \subseteq ToSet(r)
         /\ p.visit_policy = "ALL_REQUIRED" => ToSet(r) = Locations(p)
<1> DEFINE inner == SubSeq(r, 2, Len(r) - 1)
<1>1. /\ Head(r) = 0 /\ Last(r) = End(p)
      /\ ToSet(inner) \subseteq Locations(p) \ {0, End(p)}
      /\ Cardinality(ToSet(inner)) = Len(inner)
      /\ p.required \subseteq ToSet(inner) \cup {0, End(p)}
      /\ p.visit_policy = "ALL_REQUIRED" => ToSet(r) = Locations(p)
  BY DEF validate_solution, NoRepeats
<1>2. r[1] = 0 /\ r[Len(r)] = End(p)
  BY <1>1 DEF Last
<1>3. /\ Len(inner) = Len(r) - 2
      /\ \A i \in 1 .. (Len(r) - 2) : inner[i] = r[i + 1]
      /\ DOMAIN inner = 1 .. (Len(r) - 2)
  <2>1. Len(r) \in Nat /\ 2 \in Int /\ Len(r) - 1 \in Int
    OBVIOUS
  <2>2. \A i \in 2 .. (Len(r) - 1) : r[i] \in Locations(p)
    BY <2>1
  <2> DEFINE m == Len(r) - 1
  <2>3. m \in Int /\ \A i \in 2 .. m : r[i] \in Locations(p)
    BY <2>1, <2>2
  <2> HIDE DEF m
  <2>4. /\ SubSeq(r, 2, m) \in Seq(Locations(p))
        /\ Len(SubSeq(r, 2, m)) = IF 2 <= m THEN m - 2 + 1 ELSE 0
        /\ \A i \in 1 .. m - 2 + 1 : SubSeq(r, 2, m)[i] = r[2 + i - 1]
    BY <2>1, <2>3, SubSeqProperties
  <2>5. inner = SubSeq(r, 2, m)
    BY DEF m
  <2> HIDE DEF inner
  <2>6. m - 2 + 1 = Len(r) - 2 /\ m >= 1 /\ \A i \in Int : 2 + i - 1 = i + 1
    BY <2>1 DEF m
  <2>7. Len(inner) = Len(r) - 2
    BY <2>3, <2>4, <2>5, <2>6
  <2>8. inner \in Seq(Locations(p))
    BY <2>4, <2>5
  <2>9. \A i \in 1 .. (Len(r) - 2) : inner[i] = r[i + 1]
    BY <2>4, <2>5, <2>6
  <2> QED
    BY <2>7, <2>8, <2>9
<1> HIDE DEF inner
<1>4. ToSet(r) = (ToSet(inner) \cup {0}) \cup {End(p)}
  <2>1. ASSUME NEW i \in 1 .. Len(r) PROVE r[i] \in (ToSet(inner) \cup {0}) \cup {End(p)}
    <3>1. CASE i = 1 \/ i = Len(r)
      BY <1>2, <3>1
    <3>2. CASE i # 1 /\ i # Len(r)
      <4>1. i - 1 \in 1 .. (Len(r) - 2) /\ inner[i - 1] = r[i]
        BY <1>3, <2>1, <3>2
      <4> QED
        BY <1>3, <4>1 DEF ToSet
    <3> QED
      BY <3>1, <3>2
  <2>2. ASSUME NEW i \in 1 .. (Len(r) - 2) PROVE inner[i] \in ToSet(r)
    <3>1. i + 1 \in DOMAIN r /\ inner[i] = r[i + 1]
      BY <1>3, <2>2
    <3> QED
      BY <3>1 DEF ToSet
  <2>3. 0 \in ToSet(r) /\ End(p) \in ToSet(r)
    BY <1>2 DEF ToSet
  <2>4. ToSet(r) \subseteq (ToSet(inner) \cup {0}) \cup {End(p)}
    BY <2>1 DEF ToSet
  <2>5. ToSet(inner) \subseteq ToSet(r)
    BY <1>3, <2>2 DEF ToSet
  <2> QED
    BY <2>3, <2>4, <2>5
<1>5. ToSet(r) \subseteq Locations(p)
  BY DEF ToSet
<1>6. IsFiniteSet(ToSet(inner))
  <2>1. IsFiniteSet(Locations(p))
    BY LocationsFinite
  <2> QED
    BY <1>1, <2>1, FS_Subset
<1>7. 0 \notin ToSet(inner) /\ End(p) \notin ToSet(inner) \cup {0}
  BY <1>1 DEF End
<1>8. /\ IsFiniteSet(ToSet(inner) \cup {0})
      /\ Cardinality(ToSet(inner) \cup {0}) = Cardinality(ToSet(inner)) + 1
  BY <1>6, <1>7, FS_AddElement
<1>9. /\ IsFiniteSet(ToSet(r))
      /\ Cardinality(ToSet(r)) = Cardinality(ToSet(inner) \cup {0}) + 1
  <2> DEFINE S == ToSet(inner) \cup {0}
  <2>1. IsFiniteSet(S) /\ End(p) \notin S /\ ToSet(r) = S \cup {End(p)}
    BY <1>4, <1>7, <1>8
  <2> HIDE DEF S
  <2>2. IsFiniteSet(S \cup {End(p)}) /\ Cardinality(S \cup {End(p)}) = Cardinality(S) + 1
    BY <2>1, FS_AddElement
  <2> QED
    BY <2>1, <2>2 DEF S
<1>10. Cardinality(ToSet(r)) = Len(r)
  BY <1>1, <1>3, <1>8, <1>9
<1> QED
  BY <1>1, <1>4, <1>5, <1>9, <1>10

(* from_plan answers what the request asked for. *)
LEMMA AnswerComplete ==
  ASSUME RouteInvariant, pc = "finalize", NEW chosen, NEW a,
         a = set_provider_metadata(from_plan(Problem, plan, order, start), chosen, request)
  PROVE  Complete(a)
<1>1. /\ RequestAccepted(request) /\ problem = try_from(request)
      /\ order \in Seq(Locations(problem)) /\ Len(order) >= 2
      /\ problem.start_policy = "FIXED" => start = problem.start_time
      /\ plan.ok
      /\ \/ plan = calculate_schedule_from([problem EXCEPT !.travel = rows], order, start)
         \/ plan = calculate_schedule_from(problem, order, start)
  BY DEF RouteInvariant, ProblemHeld, RouteHeld, RevalidationIsAllOrNothing, Accepting, Answering, Problem
<1>2. problem.n \in Nat /\ problem.n >= 2 /\ problem.n = Len(request.locations)
  BY <1>1, AcceptedShape DEF RouteInvariant
<1>3. validate_solution(problem, order)
  <2>1. CASE plan = calculate_schedule_from(problem, order, start)
    BY <1>1, <2>1, ScheduledIsValid
  <2>2. CASE plan = calculate_schedule_from([problem EXCEPT !.travel = rows], order, start)
    <3> DEFINE q == [problem EXCEPT !.travel = rows]
    <3>1. validate_solution(q, order)
      BY <1>1, <2>2, ScheduledIsValid
    <3>2. q.n = problem.n /\ q.visit_policy = problem.visit_policy /\ q.required = problem.required
      <4>1. /\ "n" \in DOMAIN problem /\ "visit_policy" \in DOMAIN problem
            /\ "required" \in DOMAIN problem
        BY <1>1 DEF try_from
      <4> QED
        BY <4>1
    <3> HIDE DEF q
    <3> QED
      BY <3>1, <3>2 DEF validate_solution, Locations, End
  <2> QED
    BY <1>1, <2>1, <2>2
<1> DEFINE n == Len(request.locations)
           visits == ToSet(order)
<1>4. /\ visits \subseteq 0 .. (n - 1) /\ IsFiniteSet(visits) /\ Cardinality(visits) = Len(order)
      /\ 0 \in visits /\ n - 1 \in visits /\ problem.required \subseteq visits
      /\ problem.visit_policy = "ALL_REQUIRED" => visits = 0 .. (n - 1)
  BY <1>1, <1>2, <1>3, ValidRoute DEF Locations, End
<1>5. /\ "route" \in DOMAIN a /\ a.route = order /\ a.selected_start_time = start
      /\ a.skipped_locations = IF problem.visit_policy = "ALL_REQUIRED" THEN {}
                               ELSE (Locations(problem) \ problem.required) \ ToSet(order)
  <2>1. a = set_provider_metadata(from_plan(problem, plan, order, start), chosen, request)
    BY DEF Problem
  <2> QED
    BY <2>1, MetadataKeeps
<1>6. /\ DOMAIN request.locations = 1 .. n
      /\ request.visit_policy \in {Nothing, "ALL_REQUIRED", "BEST_EFFORT_ON_FAILURE"}
  BY CasesAssumption DEF RouteInvariant, InputHeld
<1>7. /\ problem.visit_policy = OrDefault(request.visit_policy, "ALL_REQUIRED")
      /\ problem.start_policy = OrDefault(request.start_policy, "LATEST")
      /\ problem.start_time = IF request.start_time = None THEN 0 ELSE request.start_time
      /\ problem.required =
           {i \in 0 .. (n - 1) : \/ problem.visit_policy = "ALL_REQUIRED" \/ i \in {0, n - 1}
                                 \/ request.locations[i + 1].required = "true"}
  BY <1>1, ProblemOfRequest
<1> DEFINE wanted == {k \in DOMAIN request.locations : request.locations[k].required = "true"}
           visited == {i + 1 : i \in ToSet(a.route)}
           skipped == {i + 1 : i \in a.skipped_locations}
<1>8. visited = {i + 1 : i \in visits}
  BY <1>5
<1>9. a.skipped_locations \subseteq 0 .. (n - 1) /\ a.skipped_locations \cap visits = {}
  BY <1>2, <1>5 DEF Locations
<1>10. visits \cup a.skipped_locations = 0 .. (n - 1)
  BY <1>2, <1>4, <1>5 DEF Locations
<1>11. visited \cup skipped = DOMAIN request.locations
  <2>1. ASSUME NEW k \in 1 .. n PROVE k \in visited \cup skipped
    <3>1. k - 1 \in 0 .. (n - 1) /\ (k - 1) + 1 = k
      BY <1>2
    <3>2. k - 1 \in visits \/ k - 1 \in a.skipped_locations
      BY <1>10, <3>1
    <3> QED
      BY <1>8, <3>1, <3>2
  <2>2. \A i \in 0 .. (n - 1) : i + 1 \in 1 .. n
    BY <1>2
  <2>3. visited \subseteq 1 .. n
    BY <1>4, <1>8, <2>2
  <2>4. skipped \subseteq 1 .. n
    BY <1>9, <2>2
  <2>5. 1 .. n \subseteq visited \cup skipped
    BY <2>1
  <2> HIDE DEF visited, skipped
  <2> QED
    BY <1>6, <2>3, <2>4, <2>5
<1>12. visited \cap skipped = {}
  <2>1. \A i \in visits, j \in a.skipped_locations : i + 1 # j + 1
    BY <1>2, <1>4, <1>9
  <2> QED
    BY <1>8, <2>1
<1>13. Cardinality(visited) = Len(a.route)
  BY <1>2, <1>4, <1>5, <1>8, ShiftedCount
<1>14. wanted \cup {1, n} \subseteq visited
  <2>1. 1 \in visited /\ n \in visited
    <3>1. 1 = 0 + 1 /\ n = (n - 1) + 1
      BY <1>2
    <3> QED
      BY <1>4, <1>8, <3>1
  <2>2. ASSUME NEW k \in wanted PROVE k \in visited
    <3>1. k \in 1 .. n /\ request.locations[k].required = "true"
      BY <1>6, <2>2
    <3>2. k - 1 \in 0 .. (n - 1) /\ (k - 1) + 1 = k
      BY <1>2, <3>1
    <3>3. k - 1 \in problem.required
      BY <1>7, <3>1, <3>2
    <3> QED
      BY <1>4, <1>8, <3>2, <3>3
  <2> QED
    BY <2>1, <2>2
<1>15. skipped # {} => request.visit_policy = "BEST_EFFORT_ON_FAILURE"
  BY <1>5, <1>6, <1>7 DEF OrDefault
<1>16. request.start_policy = "FIXED" => a.selected_start_time = request.start_time
  <2> SUFFICES ASSUME request.start_policy = "FIXED" PROVE a.selected_start_time = request.start_time
    OBVIOUS
  <2>1. problem.start_policy = "FIXED"
    BY <1>7 DEF OrDefault, Nothing
  <2>2. request.start_time # None
    BY <1>1 DEF RequestAccepted
  <2> QED
    BY <1>1, <1>5, <1>7, <2>1, <2>2
<1> HIDE DEF wanted, visited, skipped
<1> QED
  BY <1>5, <1>11, <1>12, <1>13, <1>14, <1>15, <1>16 DEF Complete, wanted, visited, skipped

-----------------------------------------------------------------------------
(* An error with one of the kinds of the service is a failure. *)
LEMMA Failures ==
  /\ token => IsFailure(CancelledError)
  /\ IsFailure(ServiceError("InvalidRequest", "RequestValidationError"))
  /\ ~ Local => \A cause \in NamedRoutingCauses : IsFailure(ServiceError("Routing", cause))
  /\ \A cause : IsFailure(ServiceError("Solver", cause))
  /\ \A e : IsFailure(ScheduleError(e))
<1>1. \A kind, cause :
        LET e == ServiceError(kind, cause)
        IN  "route" \notin DOMAIN e /\ "kind" \in DOMAIN e /\ e.kind = kind /\ e.cause = cause
  BY DEF ServiceError
<1>2. \A e : /\ "route" \notin DOMAIN ScheduleError(e) /\ "kind" \in DOMAIN ScheduleError(e)
             /\ ScheduleError(e).kind = "Schedule"
  BY DEF ScheduleError, ServiceError
<1> QED
  BY <1>1, <1>2 DEF IsFailure, CancelledError

(* A failure is not the absence of an error, and no answer. *)
LEMMA FailureIsError ==
  ASSUME NEW e, IsFailure(e)
  PROVE  e # NoError
<1>1. "kind" \notin DOMAIN NoError
  BY DEF NoError, Error
<1> QED
  BY <1>1 DEF IsFailure

(* Without a route the failure is one of the solver or of the schedule. *)
LEMMA DiagnosisIsFailure == \A p : IsFailure(diagnose_input_order_schedule(p))
BY Failures DEF diagnose_input_order_schedule

(* The selector refuses for a reason that has a code. *)
LEMMA RefusalIsNamed ==
  ASSUME NEW selector, NEW context, ~ resolve(selector, context).ok
  PROVE  resolve(selector, context).error \in NamedRoutingCauses
<1>1. \A provider, source :
        LET f == finish(selector, context, provider, source)
        IN  f.ok \/ f.error \in NamedRoutingCauses
  BY DEF finish, validate_selection, NamedRoutingCauses
<1>2. \A cause \in {"ProviderOverrideDisabled", "ProviderResolution"} :
        LET f == [ok |-> FALSE, error |-> cause] IN f.error \in NamedRoutingCauses
  BY DEF NamedRoutingCauses
<1> QED
  BY <1>1, <1>2 DEF resolve

(* The pipeline fails. *)
LEMMA FailOutcome ==
  ASSUME OutcomeInvariant, pc \in Working, UNCHANGED <<token, request, results, errors, outcome>>,
         NEW e, Fail(e), IsFailure(e), pc = "strip" => e.kind = "Cancelled"
  PROVE  OutcomeInvariant'
<1>1. pc' = "report_error" /\ error' = e
  BY DEF Fail
<1>2. IsFailure(error)'
  BY <1>1 DEF IsFailure, Local
<1>3. errors = <<>> /\ outcome = NoError /\ (e.kind # "Cancelled" => results = 0)
  BY DEF OutcomeInvariant
<1>4. pc' \notin Working /\ pc' \notin Returning
  BY <1>1 DEF Working, Accepting, Prepared, WithRoute, Timed, Answering, Returning
<1> QED
  BY <1>1, <1>2, <1>3, <1>4 DEF OutcomeInvariant

(* The pipeline goes on. *)
LEMMA GotoOutcome ==
  ASSUME OutcomeInvariant, pc \in Working \ {"strip"}, pc' \in Working \ {"result", "strip"},
         UNCHANGED <<token, results, errors, outcome, error>>
  PROVE  OutcomeInvariant'
<1>1. pc' \notin {"report_error", "return"} \cup Returning
  BY DEF Working, Accepting, Prepared, WithRoute, Timed, Answering, Returning
<1> QED
  BY <1>1 DEF OutcomeInvariant

(* Steps of the others, and of the service once it has returned. *)
LEMMA QuietOutcome ==
  ASSUME OutcomeInvariant, pc' = pc \/ (pc \in Returning /\ pc' \in Returning),
         token' \in BOOLEAN, token => token',
         UNCHANGED <<request, results, errors, outcome, error, response, stage>>
  PROVE  OutcomeInvariant'
<1>1. \A e : IsFailure(e) /\ e.kind = "Cancelled" => token'
  BY DEF IsFailure
<1>2. /\ IsFailure(error) => IsFailure(error)'
      /\ IsFailure(outcome) => IsFailure(outcome)'
  BY <1>1 DEF IsFailure, Local
<1>3. /\ Refused(error) => Refused(error)'
      /\ Refused(outcome) => Refused(outcome)'
  BY <1>2 DEF Refused
<1>4. /\ Complete(response) => Complete(response)'
      /\ Complete(outcome) => Complete(outcome)'
  BY DEF Complete
<1>5. Finalized => Finalized'
  BY <1>4 DEF Finalized
<1>6. Succeeded' = Succeeded
  BY DEF Succeeded
<1>7. pc' \in Working => pc' = pc
  BY DEF Working, Accepting, Prepared, WithRoute, Timed, Answering, Returning
<1>8. pc' \in {"result", "strip", "report_error", "return"} => pc' = pc
  BY DEF Returning
<1>9. pc' \in Returning => pc \in Returning
  OBVIOUS
<1>10. pc' \in Working \cup {"report_error", "return"} \cup Returning
  BY DEF OutcomeInvariant
<1> QED
  BY <1>2, <1>3, <1>4, <1>5, <1>6, <1>7, <1>8, <1>9, <1>10 DEF OutcomeInvariant

(* A stage that only reads the token. *)
LEMMA CheckedOutcome ==
  ASSUME OutcomeInvariant, pc \in Working \ {"strip"}, NEW step \in Working \ {"result", "strip"},
         Checked(step), UNCHANGED <<token, request, results, errors, outcome>>
  PROVE  OutcomeInvariant'
<1>1. CASE token
  BY <1>1, Failures, FailOutcome DEF Checked
<1>2. CASE ~ token
  BY <1>2, GotoOutcome DEF Checked, Goto
<1> QED
  BY <1>1, <1>2

(* The request and its matrix. *)
LEMMA PreparingOutcome ==
  ASSUME RouteInvariant, OutcomeInvariant,
         \/ accept \/ validate \/ select_provider \/ prepare_matrix \/ fetch \/ pairs_completed
         \/ build_matrix \/ matrix_built
  PROVE  OutcomeInvariant'
<1> USE DEF Stays, Elsewhere, reportVars, inputVars
<1> USE DEF Working, Accepting, Prepared
<1>1. CASE accept
  BY <1>1, CheckedOutcome DEF accept
<1>2. CASE validate
  <2>1. CASE RequestAccepted(request)
    BY <1>2, <2>1, PreparationSucceeds, CheckedOutcome DEF validate
  <2>2. CASE ~ RequestAccepted(request)
    BY <1>2, <2>2, Failures, FailOutcome DEF validate
  <2> QED
    BY <2>1, <2>2
<1>3. CASE select_provider
  <2>1. CASE token \/ Local
    BY <1>3, <2>1, CheckedOutcome DEF select_provider
  <2>2. CASE ~ (token \/ Local)
    <3> DEFINE chosen == resolve(from_config_sources(conf), context_of(request))
    <3>1. CASE chosen.ok
      BY <1>3, <2>2, <3>1, GotoOutcome DEF select_provider, Goto
    <3>2. CASE ~ chosen.ok
      <4>1. IsFailure(ServiceError("Routing", chosen.error))
        BY <2>2, <3>2, RefusalIsNamed, Failures
      <4>2. Fail(ServiceError("Routing", chosen.error))
        BY <1>3, <2>2, <3>2 DEF select_provider
      <4>3. pc = "select" /\ UNCHANGED <<token, request, results, errors, outcome>>
        BY <1>3 DEF select_provider
      <4> HIDE DEF chosen
      <4> QED
        BY <4>1, <4>2, <4>3, FailOutcome
    <3> QED
      BY <3>1, <3>2
  <2> QED
    BY <2>1, <2>2
<1>4. CASE prepare_matrix
  BY <1>4, CheckedOutcome DEF prepare_matrix
<1>5. CASE fetch
  <2>1. pc = "fetch" /\ Cardinality(LocalSources(request)) \in {0, 1}
    BY <1>5, AcceptedShape DEF fetch, RouteInvariant, ProblemHeld
  <2>2. pc' = "build" /\ UNCHANGED error
    BY <1>5, <2>1 DEF fetch, Goto
  <2> QED
    BY <1>5, <2>1, <2>2, GotoOutcome DEF fetch
<1>6. CASE pairs_completed
  BY <1>6, GotoOutcome DEF pairs_completed
<1>7. CASE build_matrix
  <2>1. pc = "build" /\ MatrixUsable(Problem.travel, Problem.n)
    BY <1>7, AcceptedShape DEF build_matrix, RouteInvariant, ProblemHeld, Problem
  <2>2. \/ token /\ Fail(CancelledError)
        \/ ~ token /\ ~ Local /\ Fail(ServiceError("Routing", "MatrixBuild"))
        \/ Goto("matrix_built")
    BY <1>7, <2>1 DEF build_matrix
  <2>3. UNCHANGED <<token, request, results, errors, outcome>>
    BY <1>7 DEF build_matrix
  <2>4. "MatrixBuild" \in NamedRoutingCauses
    BY DEF NamedRoutingCauses
  <2>5. CASE token /\ Fail(CancelledError)
    BY <2>1, <2>3, <2>5, Failures, FailOutcome
  <2>6. CASE ~ token /\ ~ Local /\ Fail(ServiceError("Routing", "MatrixBuild"))
    BY <2>1, <2>3, <2>4, <2>6, Failures, FailOutcome
  <2>7. CASE Goto("matrix_built")
    BY <2>1, <2>3, <2>7, GotoOutcome DEF Goto
  <2> QED
    BY <2>2, <2>5, <2>6, <2>7
<1>8. CASE matrix_built
  BY <1>8, CheckedOutcome DEF matrix_built
<1> QED
  BY <1>1, <1>2, <1>3, <1>4, <1>5, <1>6, <1>7, <1>8

(* The solver and the schedule. *)
LEMMA SolvingOutcome ==
  ASSUME RouteInvariant, OutcomeInvariant,
         \/ generate \/ optimize \/ on_progress \/ selection_started \/ solve_prepared
         \/ begin_schedule \/ render \/ scheduled \/ begin_leg \/ end_leg \/ recalculate
         \/ validate_schedule
  PROVE  OutcomeInvariant'
<1> USE DEF Stays, Elsewhere, reportVars, inputVars
<1> USE DEF Working, Accepting, Prepared, WithRoute, Timed, Answering
<1>1. CASE generate
  BY <1>1, CheckedOutcome DEF generate
<1>2. CASE optimize
  BY <1>2, CheckedOutcome DEF optimize
<1>3. CASE on_progress
  BY <1>3, GotoOutcome DEF on_progress
<1>4. CASE selection_started
  BY <1>4, GotoOutcome DEF selection_started, Goto
<1>5. CASE solve_prepared
  <2>1. UNCHANGED <<token, request, results, errors, outcome>> /\ pc \in {"solve", "solving", "solved"}
    BY <1>5 DEF solve_prepared
  <2>2. \/ token /\ Fail(CancelledError)
        \/ Fail(diagnose_input_order_schedule(Problem))
        \/ Fail(ServiceError("Solver", "Failed"))
        \/ Checked("schedule")
    BY <1>5 DEF solve_prepared
  <2>3. CASE token /\ Fail(CancelledError)
    BY <2>1, <2>3, Failures, FailOutcome
  <2>4. CASE Fail(diagnose_input_order_schedule(Problem))
    BY <2>1, <2>4, DiagnosisIsFailure, FailOutcome
  <2>5. CASE Fail(ServiceError("Solver", "Failed"))
    BY <2>1, <2>5, Failures, FailOutcome
  <2>6. CASE Checked("schedule")
    BY <2>1, <2>6, CheckedOutcome
  <2> QED
    BY <2>2, <2>3, <2>4, <2>5, <2>6
<1>6. CASE begin_schedule
  BY <1>6, CheckedOutcome DEF begin_schedule
<1>7. CASE render
  <2>1. UNCHANGED <<token, request, results, errors, outcome>> /\ pc = "render"
    BY <1>7 DEF render
  <2>2. \/ token /\ Fail(CancelledError)
        \/ \E s : Fail(ScheduleError(s))
        \/ Goto("scheduled")
    BY <1>7 DEF render
  <2>3. CASE token /\ Fail(CancelledError)
    BY <2>1, <2>3, Failures, FailOutcome
  <2>4. CASE \E s : Fail(ScheduleError(s))
    BY <2>1, <2>4, Failures, FailOutcome
  <2>5. CASE Goto("scheduled")
    BY <2>1, <2>5, GotoOutcome DEF Goto
  <2> QED
    BY <2>2, <2>3, <2>4, <2>5
<1>8. CASE scheduled
  BY <1>8, CheckedOutcome DEF scheduled
<1>9. CASE begin_leg \/ end_leg \/ recalculate
  <2>1. UNCHANGED <<token, request, results, errors, outcome>> /\ pc \in {"leg", "query"}
    BY <1>9 DEF begin_leg, end_leg, recalculate
  <2>2. \/ token /\ Fail(CancelledError)
        \/ Goto("validate_schedule") \/ Goto("query") \/ Goto("leg")
    BY <1>9 DEF begin_leg, end_leg, recalculate, Unapplied
  <2>3. CASE token /\ Fail(CancelledError)
    BY <2>1, <2>3, Failures, FailOutcome
  <2>4. CASE Goto("validate_schedule") \/ Goto("query") \/ Goto("leg")
    BY <2>1, <2>4, GotoOutcome DEF Goto
  <2> QED
    BY <2>2, <2>3, <2>4
<1>10. CASE validate_schedule
  BY <1>10, CheckedOutcome DEF validate_schedule
<1> QED
  BY <1>1, <1>2, <1>3, <1>4, <1>5, <1>6, <1>7, <1>8, <1>9, <1>10

(* The answer is finished. *)
LEMMA FinalizeOutcome ==
  ASSUME RouteInvariant, OutcomeInvariant, finalize
  PROVE  OutcomeInvariant'
<1>1. pc = "finalize" /\ UNCHANGED <<token, request, results, errors, outcome>>
  BY DEF finalize, Elsewhere, reportVars, inputVars
<1>2. pc \in Working \ {"strip"}
  BY <1>1 DEF Working, Accepting, Answering
<1>3. CASE token
  BY <1>1, <1>2, <1>3, Failures, FailOutcome DEF finalize, Checked
<1>4. CASE ~ token
  <2>1. /\ pc' = "result" /\ UNCHANGED error
        /\ response' = set_provider_metadata(from_plan(Problem, plan, order, start), selection, request)
    BY <1>4 DEF finalize, Checked, Goto
  <2>2. Complete(response')
    BY <1>1, <2>1, AnswerComplete
  <2>3. Complete(response)'
    BY <1>1, <2>2 DEF Complete
  <2>4. pc' \in Working \ {"strip"} /\ pc' \notin {"report_error", "return"} \cup Returning
    BY <2>1 DEF Working, Accepting, Answering, Returning
  <2> QED
    BY <1>1, <1>2, <2>1, <2>3, <2>4 DEF OutcomeInvariant
<1> QED
  BY <1>3, <1>4

(* It is reported once. *)
LEMMA ResultOutcome ==
  ASSUME RouteInvariant, ProgressHeld, OutcomeInvariant, report_result
  PROVE  OutcomeInvariant'
<1>1. /\ pc = "result" /\ UNCHANGED <<token, request, errors, outcome, response, stage>>
      /\ results = 0 /\ errors = <<>> /\ error = NoError /\ outcome = NoError
  BY DEF report_result, Elsewhere, inputVars, OutcomeInvariant, Working, Accepting, Answering, routeVars,
         progressVars
<1>2. pc \in Working \ {"strip"}
  BY <1>1 DEF Working, Accepting, Answering
<1>3. CASE token
  BY <1>1, <1>2, <1>3, Failures, FailOutcome DEF report_result, Checked
<1>4. CASE ~ token
  <2>1. pc' = "strip" /\ UNCHANGED error /\ results' = 1
    BY <1>1, <1>4 DEF report_result, Checked, Goto
  <2>2. Complete(response)'
    BY <1>1 DEF Complete, OutcomeInvariant
  <2>3. stage = FinalizingResult
    BY <1>1 DEF ProgressHeld
  <2>4. Finalized'
    BY <1>1, <2>1, <2>2, <2>3 DEF Finalized, FinalizingResult
  <2>5. pc' \in Working /\ pc' \notin {"report_error", "return"} \cup Returning
    BY <2>1 DEF Working, Accepting, Answering, Returning
  <2> QED
    BY <1>1, <2>1, <2>4, <2>5 DEF OutcomeInvariant
<1> QED
  BY <1>3, <1>4

(* A token that is set late still refuses it. *)
LEMMA StripOutcome ==
  ASSUME OutcomeInvariant, strip_extensions
  PROVE  OutcomeInvariant'
<1>1. pc = "strip" /\ UNCHANGED <<token, request, results, errors, outcome, response, stage>>
  BY DEF strip_extensions, Stays, Elsewhere, reportVars, inputVars, routeVars, progressVars
<1>2. pc \in Working
  BY <1>1 DEF Working, Accepting, Answering
<1>3. CASE token
  <2>1. CancelledError.kind = "Cancelled"
    BY DEF CancelledError, ServiceError
  <2> QED
    BY <1>1, <1>2, <1>3, <2>1, Failures, FailOutcome DEF strip_extensions, Checked
<1>4. CASE ~ token
  <2>1. pc' = "return" /\ error' = NoError /\ outcome' = NoError
    BY <1>1, <1>2, <1>4 DEF strip_extensions, Checked, Goto, OutcomeInvariant
  <2>2. Finalized'
    BY <1>1 DEF Finalized, Complete, OutcomeInvariant
  <2>3. pc' \notin Working /\ pc' \notin Returning
    BY <2>1 DEF Working, Accepting, Prepared, WithRoute, Timed, Answering, Returning
  <2> QED
    BY <1>1, <2>1, <2>2, <2>3 DEF OutcomeInvariant
<1> QED
  BY <1>3, <1>4

(* A failure other than a cancellation is reported once. *)
LEMMA ErrorOutcome ==
  ASSUME OutcomeInvariant, report_error
  PROVE  OutcomeInvariant'
<1>1. /\ pc = "report_error" /\ pc' = "return"
      /\ UNCHANGED <<token, request, results, outcome, error>>
  BY DEF report_error, Goto, Elsewhere, inputVars
<1>2. /\ IsFailure(error) /\ errors = <<>> /\ outcome = NoError
      /\ error.kind # "Cancelled" => results = 0
  BY <1>1 DEF OutcomeInvariant
<1>3. errors' = IF error.kind = "Cancelled" THEN <<>> ELSE <<reported_code(error)>>
  <2>1. \A x : Append(<<>>, x) = <<x>>
    OBVIOUS
  <2> QED
    BY <1>2, <2>1 DEF report_error
<1>4. results \in {0, 1}
  BY DEF OutcomeInvariant
<1>5. IsFailure(error)'
  BY <1>1, <1>2 DEF IsFailure, Local
<1>6. Refused(error)'
  <2>1. CASE error.kind = "Cancelled"
    BY <1>1, <1>3, <1>4, <1>5, <2>1 DEF Refused
  <2>2. CASE error.kind # "Cancelled"
    <3>1. reported_code(error)' = reported_code(error)
      BY <1>1 DEF reported_code, Infeasible
    <3> QED
      BY <1>1, <1>2, <1>3, <1>5, <2>2, <3>1 DEF Refused
  <2> QED
    BY <2>1, <2>2
<1>7. pc' \notin Working /\ pc' \notin Returning
  BY <1>1 DEF Working, Accepting, Prepared, WithRoute, Timed, Answering, Returning
<1>8. errors' = <<>> \/ (results' = 0 /\ Len(errors') = 1)
  BY <1>1, <1>2, <1>3
<1> QED
  BY <1>1, <1>2, <1>3, <1>4, <1>6, <1>7, <1>8 DEF OutcomeInvariant

(* What is returned is what was reported, unless the token is set. *)
LEMMA ReturnOutcome ==
  ASSUME OutcomeInvariant, return_result
  PROVE  OutcomeInvariant'
<1>1. /\ pc = "return" /\ pc' \in {"done", "advise"}
      /\ UNCHANGED <<token, request, results, errors, error, response, stage>>
      /\ outcome' = IF token THEN CancelledError ELSE IF error # NoError THEN error ELSE response
  BY DEF return_result, reportVars, inputVars, routeVars, progressVars
<1>2. /\ token \in BOOLEAN /\ results \in {0, 1}
      /\ errors = <<>> \/ (results = 0 /\ Len(errors) = 1)
      /\ (error = NoError /\ Finalized) \/ Refused(error)
  BY <1>1 DEF OutcomeInvariant
<1>3. /\ pc' \in Returning /\ pc' \notin Working /\ pc' \notin {"report_error", "return", "result", "strip"}
  BY <1>1 DEF Working, Accepting, Prepared, WithRoute, Timed, Answering, Returning
<1>4. error' = NoError \/ IsFailure(error)'
  BY <1>1, <1>2 DEF Refused, IsFailure, Local
<1>5. IF Succeeded' THEN results' = 1 /\ stage' = FinalizingResult /\ Complete(outcome)'
      ELSE Refused(outcome)'
  <2>1. CASE token
    <3>1. IsFailure(CancelledError) /\ CancelledError.kind = "Cancelled" /\ outcome' = CancelledError
      BY <1>1, <2>1, Failures DEF CancelledError, ServiceError
    <3>2. ~ Succeeded' /\ IsFailure(outcome)'
      BY <1>1, <3>1 DEF IsFailure, Succeeded, Local
    <3>3. results + Len(errors) <= 1
      <4>1. CASE errors = <<>>
        BY <1>2, <4>1
      <4>2. CASE results = 0 /\ Len(errors) = 1
        BY <4>2
      <4> QED
        BY <1>2, <4>1, <4>2
    <3> QED
      BY <1>1, <3>1, <3>2, <3>3 DEF Refused
  <2>2. CASE ~ token /\ error # NoError
    <3>1. outcome' = error /\ Refused(error)
      BY <1>1, <1>2, <2>2
    <3>2. ~ Succeeded' /\ IsFailure(outcome)'
      BY <1>1, <3>1 DEF IsFailure, Refused, Succeeded, Local
    <3>3. reported_code(outcome)' = reported_code(error)
      BY <3>1 DEF reported_code, Infeasible
    <3>4. Refused(outcome)'
      BY <1>1, <3>1, <3>2, <3>3 DEF Refused
    <3> QED
      BY <3>2, <3>4
  <2>3. CASE ~ token /\ error = NoError
    <3>1. outcome' = response /\ Finalized
      BY <1>1, <1>2, <2>3, FailureIsError DEF Refused
    <3>2. Succeeded'
      BY <3>1 DEF Finalized, Complete, Succeeded
    <3>3. Complete(outcome)'
      BY <1>1, <3>1 DEF Finalized, Complete
    <3>4. results' = 1 /\ stage' = FinalizingResult
      BY <1>1, <3>1 DEF Finalized
    <3> QED
      BY <3>2, <3>3, <3>4
  <2> QED
    BY <2>1, <2>2, <2>3
<1>6. /\ token' \in BOOLEAN /\ results' \in {0, 1}
      /\ errors' = <<>> \/ (results' = 0 /\ Len(errors') = 1)
  BY <1>1, <1>2
<1> QED
  BY <1>3, <1>4, <1>5, <1>6 DEF OutcomeInvariant, FinalizingResult

(* Nothing is reported before the request is accepted. *)
LEMMA InitOutcome == Init => ProgressHeld /\ OutcomeInvariant
<1> SUFFICES ASSUME Init PROVE ProgressHeld /\ OutcomeInvariant
  OBVIOUS
<1>1. /\ pc = "accept" /\ token = FALSE /\ results = 0 /\ errors = <<>> /\ error = NoError
      /\ outcome = NoError /\ stage = 0 /\ progress = 0 /\ pairs = 0
  BY DEF Init
<1>2. pc \in Working /\ pc \notin {"result", "strip", "report_error", "return"} \cup Returning
  BY <1>1 DEF Working, Returning
<1>3. ProgressHeld
  BY <1>1 DEF ProgressHeld, FinalizingResult
<1>4. OutcomeInvariant
  BY <1>1, <1>2 DEF OutcomeInvariant
<1> QED
  BY <1>3, <1>4

(* Every step keeps what was reported in line with what is returned. *)
LEMMA NextOutcome ==
  ASSUME RouteInvariant, ProgressHeld, OutcomeInvariant, [Next]_vars
  PROVE  OutcomeInvariant'
<1>1. token \in BOOLEAN
  BY DEF OutcomeInvariant
<1> USE DEF inputVars, reportVars, routeVars, progressVars
<1>2. CASE begin_advice
  BY <1>1, <1>2, QuietOutcome DEF begin_advice, Unadvised, Returning
<1>3. CASE probe_mode
  BY <1>1, <1>3, QuietOutcome DEF probe_mode, Unadvised, Returning
<1>4. CASE probe_location
  BY <1>1, <1>4, QuietOutcome DEF probe_location, Unadvised, Returning
<1>5. CASE budget_ends
  BY <1>1, <1>5, QuietOutcome DEF budget_ends, Unadvised
<1>6. CASE cancel
  BY <1>6, QuietOutcome DEF cancel
<1>7. CASE stop_query
  BY <1>1, <1>7, QuietOutcome DEF stop_query
<1>8. CASE tcache_step
  BY <1>1, <1>8, QuietOutcome DEF tcache_step
<1>9. CASE UNCHANGED vars
  BY <1>1, <1>9, QuietOutcome DEF vars
<1> QED
  BY <1>2, <1>3, <1>4, <1>5, <1>6, <1>7, <1>8, <1>9, PreparingOutcome, SolvingOutcome,
     FinalizeOutcome, ResultOutcome, StripOutcome, ErrorOutcome, ReturnOutcome, NextCases
     DEF QuietStep

(* What is reported, stored and returned. *)
THEOREM OutcomeIsHeld == Spec => [](RouteInvariant /\ ProgressHeld /\ OutcomeInvariant)
<1> DEFINE Held == RouteInvariant /\ ProgressHeld /\ OutcomeInvariant
<1>1. Init => Held
  BY InitRoute, InitOutcome
<1>2. Held /\ [Next]_vars => Held'
  BY NextRoute, ProgressSteps, NextOutcome
<1> QED
  BY <1>1, <1>2, PTL DEF Spec

(* Whichever thread reports it, the stage and the percentage of a job      *)
(* never go back, stay in their range, and end with the result or the      *)
(* error (ProgressCoordinator).                                            *)
THEOREM ProgressAdvances == Spec => ProgressOnlyAdvances
<1> DEFINE Held == RouteInvariant /\ ProgressHeld /\ OutcomeInvariant
           Forward == /\ stage' >= stage /\ progress' >= progress
                      /\ stage' > 0 => progress' \in range[stage'][1] .. range[stage'][2]
                      /\ results = 0 /\ errors = <<>>
<1>1. Held /\ [Next]_vars => [Forward]_progressVars
  <2> SUFFICES ASSUME Held, [Next]_vars, ~ UNCHANGED progressVars PROVE Forward
    OBVIOUS
  <2>1. Advances
    BY ProgressSteps
  <2>2. results = 0 /\ errors = <<>>
    BY <2>1 DEF Advances, OutcomeInvariant
  <2> QED
    BY <2>1, <2>2 DEF Advances
<1> QED
  BY <1>1, OutcomeIsHeld, PTL DEF Spec, ProgressOnlyAdvances

(* The codes of a failure agree: the one that was reported, the one that   *)
(* is stored and the one of the response.                                  *)
LEMMA CodesAgree ==
  ASSUME Refused(outcome), NEW detail
  PROVE  LET stored == stored_error(outcome, detail)
         IN  Consistent(optimization_api_error(outcome, detail, stored), stored)
<1> DEFINE e == outcome
           stored == stored_error(e, detail)
           own == from_service(e, detail)
           reply == optimization_api_error(e, detail, stored)
<1>1. /\ e.kind \in {"Cancelled", "InvalidRequest", "Routing", "Solver", "Schedule"}
      /\ e.kind = "Routing" => e.cause \in NamedRoutingCauses
      /\ e.kind # "Cancelled" => errors = <<reported_code(e)>>
  BY DEF Refused, IsFailure
<1>2. /\ DOMAIN own = {"status", "code"}
  BY <1>1 DEF from_service
<1>3. /\ reply.status = own.status
      /\ reply.code = IF stored \in {"TIME_WINDOW_VIOLATION", "START_POLICY_INFEASIBLE",
                                     "ROUTING_PAIR_FAILED"} THEN stored ELSE own.code
  BY <1>2 DEF optimization_api_error
<1> HIDE DEF reply
<1>4. CASE e.kind = "Cancelled"
  <2>1. stored = "JOB_CANCELLED" /\ own.status = 409 /\ own.code = "JOB_CANCELLED"
    BY <1>4 DEF stored_error, from_service, Infeasible
  <2> HIDE DEF stored, own
  <2> QED
    BY <1>3, <2>1 DEF Consistent, reply, stored
<1>5. CASE e.kind = "InvalidRequest"
  <2>1. stored = "INVALID_REQUEST" /\ own.status = 400 /\ own.code = "INVALID_REQUEST"
    BY <1>5 DEF stored_error, from_service, Infeasible
  <2> HIDE DEF stored, own
  <2> QED
    BY <1>3, <2>1 DEF Consistent, reply, stored
<1>6. CASE e.kind = "Routing"
  <2>1. RoutingCode(e.cause) \in {"ROUTE_PROVIDER_RESOLUTION_ERROR", "PROVIDER_OVERRIDE_DISABLED",
          "PROVIDER_NOT_CONFIGURED", "UNSUPPORTED_PROVIDER_CAPABILITY", "ROUTING_PAIR_FAILED",
          "ROUTING_UNAVAILABLE"}
    BY <1>1, <1>6 DEF RoutingCode, NamedRoutingCauses
  <2>2. /\ stored = RoutingCode(e.cause) /\ own.code = RoutingCode(e.cause)
        /\ own.status \in {400, 503}
    BY <1>1, <1>6 DEF stored_error, from_service, Infeasible
  <2> HIDE DEF stored, own
  <2> QED
    BY <1>3, <2>1, <2>2 DEF Consistent, reply, stored
<1>7. CASE Infeasible(e)
  <2>1. e.kind \in {"Solver", "Schedule"} /\ errors = <<"NO_FEASIBLE_ROUTE">>
    BY <1>1, <1>7 DEF reported_code, Infeasible
  <2>2. FeasibilityCode(detail) \in {"NO_FEASIBLE_ROUTE", "TIME_WINDOW_VIOLATION",
                                     "START_POLICY_INFEASIBLE"}
    BY DEF FeasibilityCode
  <2>3. /\ stored = FeasibilityCode(detail) /\ own.code = FeasibilityCode(detail) /\ own.status = 422
    BY <1>7, <2>1 DEF stored_error, from_service
  <2> HIDE DEF stored, own
  <2> QED
    BY <1>3, <2>1, <2>2, <2>3 DEF Consistent, reply, stored
<1>8. CASE e.kind \in {"Solver", "Schedule"} /\ ~ Infeasible(e)
  <2>1. /\ stored \in {"SOLVER_ERROR", "SCHEDULE_ERROR"} /\ own.status = 500
    BY <1>8 DEF stored_error, from_service
  <2> HIDE DEF stored, own
  <2> QED
    BY <1>3, <2>1 DEF Consistent, reply, stored
<1> QED
  BY <1>1, <1>4, <1>5, <1>6, <1>7, <1>8

(* The reporter, the record and the response tell the same end             *)
(* (optimize_with_cancellation, report_error, stored_error,                *)
(* optimization_api_error).                                                *)
THEOREM OutcomesHonest == Spec => []OutcomeIsHonest
<1>1. RouteInvariant /\ ProgressHeld /\ OutcomeInvariant => OutcomeIsHonest
  <2> SUFFICES ASSUME ProgressHeld, OutcomeInvariant PROVE OutcomeIsHonest
    OBVIOUS
  <2>1. results + Len(errors) <= 1
    <3>1. results \in {0, 1} /\ (errors = <<>> \/ (results = 0 /\ Len(errors) = 1))
      BY DEF OutcomeInvariant
    <3>2. CASE errors = <<>>
      BY <3>1, <3>2
    <3>3. CASE results = 0 /\ Len(errors) = 1
      BY <3>3
    <3> QED
      BY <3>1, <3>2, <3>3
  <2>2. stage = FinalizingResult => progress = 98
    <3>1. range[12] = <<98, 98>>
      BY DEF range
    <3> QED
      BY <3>1 DEF ProgressHeld, FinalizingResult
  <2>3. ASSUME Returned
        PROVE  IF Succeeded THEN results = 1 /\ stage = FinalizingResult /\ progress = 98
               ELSE IF outcome.kind = "Cancelled" THEN token
               ELSE results = 0 /\ errors = <<reported_code(outcome)>>
    <3>1. pc \in Returning
      BY <2>3 DEF Returned, Returning
    <3>2. CASE Succeeded
      BY <2>2, <3>1, <3>2 DEF OutcomeInvariant
    <3>3. CASE ~ Succeeded
      BY <3>1, <3>3 DEF OutcomeInvariant, Refused, IsFailure
    <3> QED
      BY <3>2, <3>3
  <2>4. (pc = "return" /\ error # NoError /\ error.kind = "Cancelled") => errors = <<>>
    BY DEF OutcomeInvariant
  <2>5. ASSUME pc = "done", ~ Succeeded
        PROVE  LET detail == service_failure_detail(outcome, Problem, Known)
                   stored == stored_error(outcome, detail)
               IN  Consistent(optimization_api_error(outcome, detail, stored), stored)
    <3>1. Refused(outcome)
      BY <2>5 DEF OutcomeInvariant, Returning
    <3> QED
      BY <3>1, CodesAgree
  <2> QED
    BY <2>1, <2>3, <2>4, <2>5 DEF OutcomeIsHonest
<1> QED
  BY <1>1, OutcomeIsHeld, PTL

(* An accepted request is answered in full, or fails for a reason that is  *)
(* not its own form: no request that TryFrom accepts makes the preparation *)
(* or the choice of the matrix panic (prepare_request, from_plan).         *)
THEOREM AnswersComplete == Spec => []AnswerIsComplete
<1>1. RouteInvariant /\ ProgressHeld /\ OutcomeInvariant => AnswerIsComplete
  <2> SUFFICES ASSUME OutcomeInvariant PROVE AnswerIsComplete
    OBVIOUS
  <2>1. pc # "panicked"
    BY DEF OutcomeInvariant, Working, Accepting, Prepared, WithRoute, Timed, Answering, Returning
  <2>2. (Local /\ error # NoError) => error.kind # "Routing"
    <3>1. error = NoError \/ IsFailure(error)
      BY DEF OutcomeInvariant, Refused
    <3> QED
      BY <3>1 DEF IsFailure
  <2>3. Succeeded => Complete(outcome)
    <3>1. pc \notin Returning => outcome = NoError
      BY DEF OutcomeInvariant
    <3>2. "route" \notin DOMAIN NoError
      BY DEF NoError, Error
    <3> QED
      BY <3>1, <3>2 DEF OutcomeInvariant, Succeeded
  <2> QED
    BY <2>1, <2>2, <2>3 DEF AnswerIsComplete, Complete
<1> QED
  BY <1>1, OutcomeIsHeld, PTL

-----------------------------------------------------------------------------
(* The provider.                                                           *)

(* The countries of a policy after normalize. *)
NormalPolicy(policy) == IsPolicy(policy) /\ DOMAIN policy.countries \subseteq ISO_COUNTRY_CODES

(* A rule of the policy for a mode in a country is a rule of the other. *)
RuleKept(policy, other, c, k, m) ==
  /\ k \in DOMAIN other.countries /\ m \in DOMAIN other.countries[k].modes
  /\ other.countries[k].modes[m] = policy.countries[c].modes[m]

(* The policy that is used without one in the configuration. *)
LEMMA BuiltInIsPolicy == IsPolicy(built_in)
<1>1. \A c \in DOMAIN built_in.countries :
        /\ DOMAIN built_in.countries[c] = {"modes", "default_provider"}
        /\ DOMAIN built_in.countries[c].modes = Modes
        /\ \A m \in Modes :
             built_in.countries[c].modes[m] \in {"ekispert", "google", "kakao-mobility", "kakao-maps"}
  BY DEF built_in
<1>2. DOMAIN built_in.mode_defaults = {}
  BY DEF built_in
<1>3. DOMAIN built_in = {"countries", "mode_defaults", "default_provider"}
  BY DEF built_in
<1> QED
  BY <1>1, <1>2, <1>3 DEF IsPolicy, AssignsModes, Nothing

(* normalize keeps every rule, under the code of its country. *)
LEMMA NormalizeKeeps ==
  ASSUME NEW raw, IsPolicy(raw), Normalizable(raw)
  PROVE  /\ NormalPolicy(normalize(raw))
         /\ \A c \in DOMAIN raw.countries : c.code \in DOMAIN normalize(raw).countries
         /\ \A c \in DOMAIN raw.countries : \A m \in DOMAIN raw.countries[c].modes :
              RuleKept(raw, normalize(raw), c, c.code, m)
<1> DEFINE own == normalize(raw)
           K == {normalize_country_code(c) : c \in DOMAIN raw.countries}
           named(k) == CHOOSE c \in DOMAIN raw.countries : normalize_country_code(c) = k
           cs == [k \in K |-> raw.countries[named(k)]]
<1>1. own = [raw EXCEPT !.countries = cs]
  BY DEF normalize
<1>2. DOMAIN own = DOMAIN raw /\ own.countries = cs /\ own.mode_defaults = raw.mode_defaults
  BY <1>1 DEF IsPolicy
<1>3. \A c \in DOMAIN raw.countries :
        c.code \in ISO_COUNTRY_CODES /\ normalize_country_code(c) = c.code
  BY DEF Normalizable, normalize_country_code
<1>4. \A c \in DOMAIN raw.countries : named(c.code) = c
  BY <1>3 DEF Normalizable
<1>5. K \subseteq ISO_COUNTRY_CODES /\ \A k \in K : named(k) \in DOMAIN raw.countries
  BY <1>3
<1>6. \A c \in DOMAIN raw.countries : c.code \in K /\ cs[c.code] = raw.countries[c]
  <2>1. \A c \in DOMAIN raw.countries : c.code \in K
    BY <1>3
  <2>2. \A k \in K : cs[k] = raw.countries[named(k)]
    OBVIOUS
  <2> HIDE DEF K, named, cs
  <2> QED
    BY <1>4, <2>1, <2>2
<1>7. IsPolicy(own)
  BY <1>2, <1>5 DEF IsPolicy
<1> HIDE DEF own
<1> QED
  BY <1>2, <1>5, <1>6, <1>7 DEF NormalPolicy, RuleKept, own

(* The legacy setting writes one rule and no other. *)
LEMMA LegacyKeeps ==
  ASSUME NEW own, NormalPolicy(own), NEW provider, provider # Nothing
  PROVE  /\ NormalPolicy(with_legacy(own, provider))
         /\ \A k \in DOMAIN own.countries : \A m \in DOMAIN own.countries[k].modes :
              <<k, m>> # <<LegacyCountry, LegacyMode>>
                => RuleKept(own, with_legacy(own, provider), k, k, m)
<1> DEFINE c == own.countries
           here == IF LegacyCountry \in DOMAIN c THEN c[LegacyCountry] ELSE NoCountryPolicy
           modes == Inserted(here.modes, LegacyMode, provider)
           jp == [here EXCEPT !.modes = modes]
           cs == Inserted(c, LegacyCountry, jp)
           new == with_legacy(own, provider)
<1>1. new = [own EXCEPT !.countries = cs]
  BY DEF with_legacy
<1>2. DOMAIN new = DOMAIN own /\ new.countries = cs /\ new.mode_defaults = own.mode_defaults
  BY <1>1 DEF NormalPolicy, IsPolicy
<1>3. DOMAIN here = {"modes", "default_provider"} /\ AssignsModes(here.modes)
  BY DEF NormalPolicy, IsPolicy, NoCountryPolicy, AssignsModes
<1>4. DOMAIN jp = {"modes", "default_provider"} /\ jp.modes = modes
  BY <1>3
<1>5. /\ DOMAIN modes = DOMAIN here.modes \union {LegacyMode} /\ modes[LegacyMode] = provider
      /\ \A m \in DOMAIN here.modes : m # LegacyMode => modes[m] = here.modes[m]
  BY DEF Inserted
<1>6. AssignsModes(modes)
  BY <1>3, <1>5 DEF AssignsModes, LegacyMode, Modes
<1>7. /\ DOMAIN cs = DOMAIN c \union {LegacyCountry} /\ cs[LegacyCountry] = jp
      /\ \A k \in DOMAIN c : k # LegacyCountry => cs[k] = c[k]
  BY DEF Inserted
<1>8. NormalPolicy(new)
  <2>1. LegacyCountry \in ISO_COUNTRY_CODES
    BY DEF LegacyCountry, ISO_COUNTRY_CODES
  <2> HIDE DEF new, cs, jp, modes, here
  <2> QED
    BY <1>2, <1>4, <1>6, <1>7, <2>1 DEF NormalPolicy, IsPolicy
<1>9. ASSUME NEW k \in DOMAIN own.countries, NEW m \in DOMAIN own.countries[k].modes,
             <<k, m>> # <<LegacyCountry, LegacyMode>>
      PROVE  RuleKept(own, new, k, k, m)
  <2>1. CASE k = LegacyCountry
    <3>1. here = c[k] /\ m # LegacyMode
      BY <1>9, <2>1
    <3> HIDE DEF new, cs, jp, modes, here
    <3> QED
      BY <1>2, <1>4, <1>5, <1>7, <1>9, <2>1, <3>1 DEF RuleKept
  <2>2. CASE k # LegacyCountry
    <3> HIDE DEF new, cs, jp, modes, here
    <3> QED
      BY <1>2, <1>7, <1>9, <2>2 DEF RuleKept
  <2> QED
    BY <2>1, <2>2
<1> QED
  BY <1>8, <1>9

(* What a server that started has for a selector: the settings, and a      *)
(* policy with every rule the operator wrote.                              *)
LEMMA SelectorIsConfigured ==
  ASSUME NEW c, c.policy = NoPolicy \/ IsPolicy(c.policy), from_config_sources(c).ok
  PROVE  /\ from_config_sources(c).mode = c.mode
         /\ from_config_sources(c).override_enabled = c.override_enabled
         /\ from_config_sources(c).registry = c.registry
         /\ NormalPolicy(from_config_sources(c).policy)
         /\ c.policy # NoPolicy =>
              /\ \A w \in DOMAIN c.policy.countries : w.code \in ISO_COUNTRY_CODES
              /\ \A w, x \in DOMAIN c.policy.countries : w.code = x.code => w = x
              /\ \A w \in DOMAIN c.policy.countries : \A m \in DOMAIN c.policy.countries[w].modes :
                   RuleKept(c.policy, from_config_sources(c).policy, w, w.code, m)
<1> DEFINE raw == IF c.policy = NoPolicy THEN built_in ELSE c.policy
           own == normalize(raw)
           explicitly_configured ==
             /\ c.policy # NoPolicy
             /\ LegacyCountry \in DOMAIN own.countries
             /\ LegacyMode \in DOMAIN own.countries[LegacyCountry].modes
           kept == c.legacy = Nothing \/ explicitly_configured
           sel == from_config_sources(c)
<1>1. IsPolicy(raw)
  BY BuiltInIsPolicy
<1>2. /\ Normalizable(raw)
      /\ sel = IF kept THEN Selector(c, own, {})
               ELSE Selector(c, with_legacy(own, c.legacy), {<<LegacyCountry, LegacyMode>>})
  BY DEF from_config_sources, ConfigurationError
<1>3. \A policy, legacy :
        Selector(c, policy, legacy).ok =>
          Selector(c, policy, legacy) =
            [ok |-> TRUE, mode |-> c.mode, policy |-> policy,
             override_enabled |-> c.override_enabled, registry |-> c.registry,
             legacy_routes |-> legacy]
  BY DEF Selector, ConfigurationError
<1>4. /\ sel.mode = c.mode /\ sel.override_enabled = c.override_enabled /\ sel.registry = c.registry
      /\ sel.policy = IF kept THEN own ELSE with_legacy(own, c.legacy)
  <2> HIDE DEF own, kept, sel
  <2> QED
    BY <1>2, <1>3 DEF sel
<1>5. /\ NormalPolicy(own)
      /\ \A w \in DOMAIN raw.countries : \A m \in DOMAIN raw.countries[w].modes :
           RuleKept(raw, own, w, w.code, m)
  BY <1>1, <1>2, NormalizeKeeps
<1>6. ~ kept => c.legacy # Nothing
  OBVIOUS
<1>7. NormalPolicy(sel.policy)
  <2> HIDE DEF own, kept, sel
  <2> QED
    BY <1>4, <1>5, <1>6, LegacyKeeps
<1>8. ASSUME c.policy # NoPolicy
      PROVE  /\ \A w \in DOMAIN c.policy.countries : w.code \in ISO_COUNTRY_CODES
             /\ \A w, x \in DOMAIN c.policy.countries : w.code = x.code => w = x
  BY <1>2, <1>8 DEF Normalizable, normalize_country_code
<1>9. ASSUME c.policy # NoPolicy, NEW w \in DOMAIN c.policy.countries,
             NEW m \in DOMAIN c.policy.countries[w].modes
      PROVE  RuleKept(c.policy, sel.policy, w, w.code, m)
  <2>1. RuleKept(c.policy, own, w, w.code, m)
    <3> HIDE DEF own
    <3> QED
      BY <1>5, <1>9
  <2>2. CASE kept
    BY <1>4, <2>1, <2>2
  <2>3. CASE ~ kept
    <3>1. <<w.code, m>> # <<LegacyCountry, LegacyMode>>
      BY <1>9, <2>1, <2>3 DEF RuleKept
    <3>2. RuleKept(own, with_legacy(own, c.legacy), w.code, w.code, m)
      <4> HIDE DEF own, kept
      <4> QED
        BY <1>5, <1>6, <2>1, <2>3, <3>1, LegacyKeeps DEF RuleKept
    <3> HIDE DEF own, kept, sel
    <3> QED
      BY <1>4, <2>1, <2>3, <3>2 DEF RuleKept
  <2> QED
    BY <2>2, <2>3
<1> QED
  BY <1>4, <1>7, <1>8, <1>9

(* The entries that the diagnostics publish for a mode in a country: at    *)
(* most one of each specificity, and which provider it names.              *)
LEMMA PublishedEntries ==
  ASSUME NEW sel, NormalPolicy(sel.policy), NEW mode \in Modes,
         NEW country \in ISO_COUNTRY_CODES \union {Nothing}
  PROVE  LET policy == sel.policy
             matching == {d \in diagnostics(sel) :
                            d.country \in {Nothing, country} /\ d.mode \in {Nothing, mode}}
             here == policy.countries[country]
             known == country \in DOMAIN policy.countries
             P3 == known /\ mode \in DOMAIN here.modes
             P2 == known /\ here.default_provider # Nothing
             P1 == mode \in DOMAIN policy.mode_defaults
             P0 == policy.default_provider # Nothing
             Is(d, n, p) == Specificity(d) = n /\ d.provider = p
         IN  /\ \A d \in matching :
                  \/ P3 /\ Is(d, 3, here.modes[mode])
                  \/ P2 /\ Is(d, 2, here.default_provider)
                  \/ P1 /\ Is(d, 1, policy.mode_defaults[mode])
                  \/ P0 /\ Is(d, 0, policy.default_provider)
             /\ P3 => \E d \in matching : Is(d, 3, here.modes[mode])
             /\ P2 => \E d \in matching : Is(d, 2, here.default_provider)
             /\ P1 => \E d \in matching : Is(d, 1, policy.mode_defaults[mode])
             /\ P0 => \E d \in matching : Is(d, 0, policy.default_provider)
<1> DEFINE policy == sel.policy
           matching == {d \in diagnostics(sel) :
                          d.country \in {Nothing, country} /\ d.mode \in {Nothing, mode}}
           here == policy.countries[country]
           known == country \in DOMAIN policy.countries
           P3 == known /\ mode \in DOMAIN here.modes
           P2 == known /\ here.default_provider # Nothing
           P1 == mode \in DOMAIN policy.mode_defaults
           P0 == policy.default_provider # Nothing
           Is(d, n, p) == Specificity(d) = n /\ d.provider = p
           D(c, m, p) == route_diagnostic(sel, c, m, p)
<1>1. \A c, m, p : D(c, m, p).country = c /\ D(c, m, p).mode = m /\ D(c, m, p).provider = p
  BY DEF route_diagnostic
<1>2. /\ Nothing \notin ISO_COUNTRY_CODES /\ Nothing \notin Modes
      /\ Nothing \notin DOMAIN policy.countries /\ Nothing \notin DOMAIN policy.mode_defaults
      /\ mode # Nothing
      /\ \A c \in DOMAIN policy.countries : Nothing \notin DOMAIN policy.countries[c].modes
  BY DEF NormalPolicy, IsPolicy, AssignsModes, Nothing, ISO_COUNTRY_CODES, Modes
<1>3. /\ P3 => here.modes[mode] # Nothing
      /\ P1 => policy.mode_defaults[mode] # Nothing
  BY DEF NormalPolicy, IsPolicy, AssignsModes
<1>4. \A d : d \in diagnostics(sel) <=>
        /\ d.provider # Nothing
        /\ \/ \E c \in DOMAIN policy.countries :
                \/ \E m \in DOMAIN policy.countries[c].modes : d = D(c, m, policy.countries[c].modes[m])
                \/ d = D(c, Nothing, policy.countries[c].default_provider)
           \/ \E m \in DOMAIN policy.mode_defaults : d = D(Nothing, m, policy.mode_defaults[m])
           \/ d = D(Nothing, Nothing, policy.default_provider)
  <2> DEFINE F(c) == {D(c, m, policy.countries[c].modes[m]) : m \in DOMAIN policy.countries[c].modes}
                       \union {D(c, Nothing, policy.countries[c].default_provider)}
             U == UNION {F(c) : c \in DOMAIN policy.countries}
             G == {D(Nothing, m, policy.mode_defaults[m]) : m \in DOMAIN policy.mode_defaults}
             E == {D(Nothing, Nothing, policy.default_provider)}
  <2>1. diagnostics(sel) = {d \in U \union G \union E : d.provider # Nothing}
    BY DEF diagnostics
  <2>2. \A d, c : d \in F(c) <=>
          \/ \E m \in DOMAIN policy.countries[c].modes : d = D(c, m, policy.countries[c].modes[m])
          \/ d = D(c, Nothing, policy.countries[c].default_provider)
    OBVIOUS
  <2> HIDE DEF F, D, policy
  <2>3. \A d : d \in U <=> \E c \in DOMAIN policy.countries : d \in F(c)
    OBVIOUS
  <2>4. \A d : d \in G <=> \E m \in DOMAIN policy.mode_defaults : d = D(Nothing, m, policy.mode_defaults[m])
    OBVIOUS
  <2>5. \A d : d \in E <=> d = D(Nothing, Nothing, policy.default_provider)
    OBVIOUS
  <2> HIDE DEF U, G, E
  <2> QED
    BY <2>1, <2>2, <2>3, <2>4, <2>5
<1> HIDE DEF D, policy
<1>5. /\ \A c, p : c # Nothing => Specificity(D(c, mode, p)) = 3 /\ Specificity(D(c, Nothing, p)) = 2
      /\ \A p : Specificity(D(Nothing, mode, p)) = 1 /\ Specificity(D(Nothing, Nothing, p)) = 0
  BY <1>1, <1>2 DEF Specificity
<1>6. ASSUME NEW d \in matching
      PROVE  \/ P3 /\ Is(d, 3, here.modes[mode])
             \/ P2 /\ Is(d, 2, here.default_provider)
             \/ P1 /\ Is(d, 1, policy.mode_defaults[mode])
             \/ P0 /\ Is(d, 0, policy.default_provider)
  <2>0. d.provider # Nothing /\ d.country \in {Nothing, country} /\ d.mode \in {Nothing, mode}
    BY <1>4, <1>6
  <2>1. ASSUME NEW c \in DOMAIN policy.countries, NEW m \in DOMAIN policy.countries[c].modes,
               d = D(c, m, policy.countries[c].modes[m])
        PROVE  P3 /\ Is(d, 3, here.modes[mode])
    <3>1. c = country /\ m = mode
      BY <1>1, <1>2, <2>0, <2>1
    <3> QED
      BY <1>1, <1>2, <1>5, <2>1, <3>1
  <2>2. ASSUME NEW c \in DOMAIN policy.countries,
               d = D(c, Nothing, policy.countries[c].default_provider)
        PROVE  P2 /\ Is(d, 2, here.default_provider)
    <3>1. c = country
      BY <1>1, <1>2, <2>0, <2>2
    <3> QED
      BY <1>1, <1>2, <1>5, <2>0, <2>2, <3>1
  <2>3. ASSUME NEW m \in DOMAIN policy.mode_defaults, d = D(Nothing, m, policy.mode_defaults[m])
        PROVE  P1 /\ Is(d, 1, policy.mode_defaults[mode])
    <3>1. m = mode
      BY <1>1, <1>2, <2>0, <2>3
    <3> QED
      BY <1>1, <1>5, <2>3, <3>1
  <2>4. ASSUME d = D(Nothing, Nothing, policy.default_provider)
        PROVE  P0 /\ Is(d, 0, policy.default_provider)
    BY <1>1, <1>5, <2>0, <2>4
  <2> QED
    BY <1>4, <2>1, <2>2, <2>3, <2>4
<1>7. ASSUME P3
      PROVE  \E d \in matching : Is(d, 3, here.modes[mode])
  <2> DEFINE d == D(country, mode, here.modes[mode])
  <2>1. d.country = country /\ d.mode = mode /\ d.provider = here.modes[mode]
    BY <1>1
  <2>2. d \in diagnostics(sel)
    BY <1>3, <1>4, <1>7, <2>1
  <2>3. Specificity(d) = 3
    BY <1>2, <1>5, <1>7
  <2> QED
    BY <2>1, <2>2, <2>3
<1>8. ASSUME P2
      PROVE  \E d \in matching : Is(d, 2, here.default_provider)
  <2> DEFINE d == D(country, Nothing, here.default_provider)
  <2>1. d.country = country /\ d.mode = Nothing /\ d.provider = here.default_provider
    BY <1>1
  <2>2. d \in diagnostics(sel)
    BY <1>4, <1>8, <2>1
  <2>3. Specificity(d) = 2
    BY <1>2, <1>5, <1>8
  <2> QED
    BY <2>1, <2>2, <2>3
<1>9. ASSUME P1
      PROVE  \E d \in matching : Is(d, 1, policy.mode_defaults[mode])
  <2> DEFINE d == D(Nothing, mode, policy.mode_defaults[mode])
  <2>1. d.country = Nothing /\ d.mode = mode /\ d.provider = policy.mode_defaults[mode]
    BY <1>1
  <2>2. d \in diagnostics(sel)
    BY <1>3, <1>4, <1>9, <2>1
  <2>3. Specificity(d) = 1
    BY <1>5
  <2> QED
    BY <2>1, <2>2, <2>3
<1>10. ASSUME P0
       PROVE  \E d \in matching : Is(d, 0, policy.default_provider)
  <2> DEFINE d == D(Nothing, Nothing, policy.default_provider)
  <2>1. d.country = Nothing /\ d.mode = Nothing /\ d.provider = policy.default_provider
    BY <1>1
  <2>2. d \in diagnostics(sel)
    BY <1>4, <1>10, <2>1
  <2>3. Specificity(d) = 0
    BY <1>5
  <2> QED
    BY <2>1, <2>2, <2>3
<1> QED
  BY <1>6, <1>7, <1>8, <1>9, <1>10 DEF policy

PublishedProviders(sel, country, mode) == {d.provider : d \in PublishedRule(sel, country, mode)}

(* The rule that decides is the one a reader of the diagnostics expects.   *)
LEMMA PublishedDecides ==
  ASSUME NEW sel, NormalPolicy(sel.policy), NEW mode \in Modes,
         NEW country \in ISO_COUNTRY_CODES \union {Nothing}
  PROVE  LET entry == PolicyEntry(sel, country, mode)[1]
         IN  PublishedProviders(sel, country, mode) = IF entry = Nothing THEN {} ELSE {entry}
<1> DEFINE policy == sel.policy
           matching == {d \in diagnostics(sel) :
                          d.country \in {Nothing, country} /\ d.mode \in {Nothing, mode}}
           here == policy.countries[country]
           known == country \in DOMAIN policy.countries
           P3 == known /\ mode \in DOMAIN here.modes
           P2 == known /\ here.default_provider # Nothing
           P1 == mode \in DOMAIN policy.mode_defaults
           P0 == policy.default_provider # Nothing
           Is(d, n, p) == Specificity(d) = n /\ d.provider = p
           top == {d \in matching : \A e \in matching : Specificity(e) <= Specificity(d)}
           entry == PolicyEntry(sel, country, mode)[1]
           Decided == {d.provider : d \in top} = IF entry = Nothing THEN {} ELSE {entry}
<1>1. /\ \A d \in matching :
           \/ P3 /\ Is(d, 3, here.modes[mode])
           \/ P2 /\ Is(d, 2, here.default_provider)
           \/ P1 /\ Is(d, 1, policy.mode_defaults[mode])
           \/ P0 /\ Is(d, 0, policy.default_provider)
      /\ P3 => \E d \in matching : Is(d, 3, here.modes[mode])
      /\ P2 => \E d \in matching : Is(d, 2, here.default_provider)
      /\ P1 => \E d \in matching : Is(d, 1, policy.mode_defaults[mode])
      /\ P0 => \E d \in matching : Is(d, 0, policy.default_provider)
  BY PublishedEntries
<1>2. PublishedRule(sel, country, mode) = top
  BY DEF PublishedRule
<1>3. /\ P3 => entry = here.modes[mode] /\ entry # Nothing
      /\ ~ P3 /\ P2 => entry = here.default_provider
      /\ ~ P3 /\ ~ P2 /\ P1 => entry = policy.mode_defaults[mode] /\ entry # Nothing
      /\ ~ P3 /\ ~ P2 /\ ~ P1 => entry = policy.default_provider
  <2>1. CASE known
    BY <2>1 DEF PolicyEntry, NormalPolicy, IsPolicy, AssignsModes
  <2>2. CASE ~ known
    <3>1. DOMAIN NoCountryPolicy.modes = {} /\ NoCountryPolicy.default_provider = Nothing
      BY DEF NoCountryPolicy
    <3> QED
      BY <2>2, <3>1 DEF PolicyEntry, NormalPolicy, IsPolicy, AssignsModes
  <2> QED
    BY <2>1, <2>2
<1> HIDE DEF matching, P3, P2, P1, P0, entry, policy, here
<1>4. \A n \in 0 .. 3 : \A p :
        /\ \E d \in matching : Is(d, n, p)
        /\ \A d \in matching : Specificity(d) \in 0 .. n /\ (Specificity(d) = n => d.provider = p)
        => {d.provider : d \in top} = {p}
  <2> SUFFICES ASSUME NEW n \in 0 .. 3, NEW p,
                      \E d \in matching : Is(d, n, p),
                      \A d \in matching :
                        Specificity(d) \in 0 .. n /\ (Specificity(d) = n => d.provider = p)
               PROVE  {d.provider : d \in top} = {p}
    OBVIOUS
  <2>1. PICK d \in matching : Is(d, n, p)
    OBVIOUS
  <2>2. d \in top
    BY <2>1
  <2>3. \A e \in top : e.provider = p
    BY <2>1
  <2> QED
    BY <2>1, <2>2, <2>3
<1>5. ASSUME P3
      PROVE  Decided
  <2>1. {d.provider : d \in top} = {entry}
    <3>1. \A d \in matching : Specificity(d) \in 0 .. 3 /\ (Specificity(d) = 3 => d.provider = entry)
      BY <1>1, <1>3, <1>5
    <3> QED
      BY <1>1, <1>3, <1>4, <1>5, <3>1
  <2> QED
    BY <1>3, <1>5, <2>1
<1>6. ASSUME ~ P3 /\ P2
      PROVE  Decided
  <2>1. {d.provider : d \in top} = {entry}
    <3>1. \A d \in matching : Specificity(d) \in 0 .. 2 /\ (Specificity(d) = 2 => d.provider = entry)
      BY <1>1, <1>3, <1>6
    <3> QED
      BY <1>1, <1>3, <1>4, <1>6, <3>1
  <2>2. entry # Nothing
    BY <1>3, <1>6 DEF P2
  <2> QED
    BY <2>1, <2>2
<1>7. ASSUME ~ P3 /\ ~ P2 /\ P1
      PROVE  Decided
  <2>1. {d.provider : d \in top} = {entry}
    <3>1. \A d \in matching : Specificity(d) \in 0 .. 1 /\ (Specificity(d) = 1 => d.provider = entry)
      BY <1>1, <1>3, <1>7
    <3> QED
      BY <1>1, <1>3, <1>4, <1>7, <3>1
  <2> QED
    BY <1>3, <1>7, <2>1
<1>8. ASSUME ~ P3 /\ ~ P2 /\ ~ P1
      PROVE  Decided
  <2>1. ASSUME P0
        PROVE  Decided
    <3>1. {d.provider : d \in top} = {entry}
      <4>1. \A d \in matching : Specificity(d) \in 0 .. 0 /\ (Specificity(d) = 0 => d.provider = entry)
        BY <1>1, <1>3, <1>8
      <4> QED
        BY <1>1, <1>3, <1>4, <1>8, <2>1, <4>1
    <3>2. entry # Nothing
      BY <1>3, <1>8, <2>1 DEF P0
    <3> QED
      BY <3>1, <3>2
  <2>2. ASSUME ~ P0
        PROVE  Decided
    <3>1. matching = {}
      BY <1>1, <1>8, <2>2
    <3>2. entry = Nothing
      BY <1>3, <1>8, <2>2 DEF P0
    <3> QED
      BY <3>1, <3>2
  <2> QED
    BY <2>1, <2>2
<1>9. Decided
  BY <1>5, <1>6, <1>7, <1>8
<1> QED
  BY <1>2, <1>9 DEF entry, PublishedProviders

(* A rule the operator wrote is the one that decides. *)
LEMMA WrittenDecides ==
  ASSUME NEW c, c.policy = NoPolicy \/ IsPolicy(c.policy), from_config_sources(c).ok,
         NEW mode \in Modes, NEW country
  PROVE  WrittenRule(c, country, mode) # {} =>
           /\ PolicyEntry(from_config_sources(c), country, mode)[1] # Nothing
           /\ WrittenRule(c, country, mode)
                = {PolicyEntry(from_config_sources(c), country, mode)[1]}
<1> SUFFICES ASSUME WrittenRule(c, country, mode) # {}
             PROVE  /\ PolicyEntry(from_config_sources(c), country, mode)[1] # Nothing
                    /\ WrittenRule(c, country, mode)
                         = {PolicyEntry(from_config_sources(c), country, mode)[1]}
  OBVIOUS
<1> DEFINE sel == from_config_sources(c)
           cs == c.policy.countries
           wrote(k) == k \in DOMAIN cs /\ k.code = country /\ mode \in DOMAIN cs[k].modes
<1>1. /\ c.policy # NoPolicy
      /\ WrittenRule(c, country, mode) = {cs[k].modes[mode] : k \in {k \in DOMAIN cs : wrote(k)}}
  BY DEF WrittenRule
<1>2. PICK w : wrote(w)
  BY <1>1
<1>3. \A x : wrote(x) => x = w
  BY <1>1, <1>2, SelectorIsConfigured
<1>4. WrittenRule(c, country, mode) = {cs[w].modes[mode]}
  BY <1>1, <1>2, <1>3
<1>5. RuleKept(c.policy, sel.policy, w, country, mode) /\ NormalPolicy(sel.policy)
  BY <1>1, <1>2, SelectorIsConfigured
<1>6. PolicyEntry(sel, country, mode)[1] = cs[w].modes[mode]
  <2> HIDE DEF sel
  <2> QED
    BY <1>5 DEF RuleKept, PolicyEntry
<1>7. cs[w].modes[mode] # Nothing
  BY <1>1, <1>2 DEF IsPolicy, AssignsModes
<1> QED
  BY <1>4, <1>6, <1>7

(* A choice is the provider that was promised, and a refusal means that    *)
(* none of those promised could have served.                               *)
AsPromised(choice, mode) ==
  IF choice.ok
  THEN Promised(mode) = {choice.provider} /\ Serves(choice.provider, mode)
  ELSE \A p \in Promised(mode) : ~ Serves(p, mode)

(* finish takes its provider exactly when the registry lets it serve. *)
LEMMA FinishServes ==
  ASSUME NEW sel, sel.registry = conf.registry, NEW context, NEW provider, NEW source,
         NEW choice, choice = finish(sel, context, provider, source),
         Promised(context.mode) = {provider}
  PROVE  AsPromised(choice, context.mode)
<1> DEFINE permit == validate_selection(sel.registry, provider, context.mode)
<1>1. choice = IF permit = "ok" THEN [ok |-> TRUE, provider |-> provider, source |-> source]
               ELSE [ok |-> FALSE, error |-> permit]
  BY DEF finish
<1>2. permit = "ok" <=> Serves(provider, context.mode)
  BY DEF validate_selection, Serves
<1> HIDE DEF permit
<1>3. /\ choice.ok <=> Serves(provider, context.mode)
      /\ choice.ok => choice.provider = provider
  BY <1>1, <1>2
<1> QED
  BY <1>3 DEF AsPromised

(* The selector keeps the promises of the configuration in every mode. *)
LEMMA ResolvedAsPromised ==
  ASSUME InputHeld, from_config_sources(conf).ok, RequestAccepted(request),
         NEW context, context.mode \in Modes, context.country = request.country_code,
         context.override = request.route_provider
  PROVE  AsPromised(resolve(from_config_sources(conf), context), context.mode)
<1> DEFINE sel == from_config_sources(conf)
           mode == context.mode
           country == IF context.country = NoCountry THEN Nothing
                      ELSE normalize_country_code(context.country)
           entry == PolicyEntry(sel, country, mode)
           choice == resolve(sel, context)
<1>1. conf.policy = NoPolicy \/ IsPolicy(conf.policy)
  BY CasesAssumption DEF InputHeld
<1>2. /\ sel.mode = conf.mode /\ sel.override_enabled = conf.override_enabled
      /\ sel.registry = conf.registry /\ NormalPolicy(sel.policy)
  BY <1>1, SelectorIsConfigured
<1>3. /\ country = IF request.country_code = NoCountry THEN Nothing ELSE request.country_code.code
      /\ country \in ISO_COUNTRY_CODES \union {Nothing} /\ country # InvalidCountry
  BY DEF RequestAccepted, CountryAccepted, normalize_country_code, ISO_COUNTRY_CODES, InvalidCountry, Nothing
<1>4. CASE conf.mode # "auto"
  <2>1. choice = finish(sel, context, conf.mode, "GlobalForce") /\ Promised(mode) = {conf.mode}
    BY <1>2, <1>4 DEF resolve, Promised
  <2> QED
    BY <1>2, <2>1, FinishServes
<1>5. CASE conf.mode = "auto" /\ request.route_provider # Nothing
  <2>1. CASE conf.override_enabled
    <3>1. /\ choice = finish(sel, context, request.route_provider, "RequestOverride")
          /\ Promised(mode) = {request.route_provider}
      BY <1>2, <1>5, <2>1 DEF resolve, Promised
    <3> QED
      BY <1>2, <3>1, FinishServes
  <2>2. CASE ~ conf.override_enabled
    <3>1. choice = [ok |-> FALSE, error |-> "ProviderOverrideDisabled"] /\ Promised(mode) = {}
      BY <1>2, <1>5, <2>2 DEF resolve, Promised
    <3> QED
      BY <3>1 DEF AsPromised
  <2> QED
    BY <2>1, <2>2
<1>6. CASE conf.mode = "auto" /\ request.route_provider = Nothing
  <2>1. Promised(mode) = IF entry[1] = Nothing THEN {} ELSE {entry[1]}
    <3>1. Promised(mode) = IF WrittenRule(conf, country, mode) # {} THEN WrittenRule(conf, country, mode)
                           ELSE PublishedProviders(sel, country, mode)
      BY <1>3, <1>6 DEF Promised, PublishedProviders
    <3>2. PublishedProviders(sel, country, mode)
            = IF entry[1] = Nothing THEN {} ELSE {entry[1]}
      <4>1. mode \in Modes
        OBVIOUS
      <4> HIDE DEF mode, country, sel
      <4> QED
        BY <1>2, <1>3, <4>1, PublishedDecides
    <3>3. WrittenRule(conf, country, mode) # {} =>
            entry[1] # Nothing /\ WrittenRule(conf, country, mode) = {entry[1]}
      BY <1>1, WrittenDecides
    <3> HIDE DEF entry, mode, country, sel
    <3> QED
      BY <3>1, <3>2, <3>3
  <2>2. choice = IF entry[1] = Nothing THEN [ok |-> FALSE, error |-> "ProviderResolution"]
                 ELSE finish(sel, context, entry[1], entry[2])
    BY <1>2, <1>3, <1>6 DEF resolve
  <2>3. CASE entry[1] = Nothing
    <3>1. choice = [ok |-> FALSE, error |-> "ProviderResolution"] /\ Promised(mode) = {}
      BY <2>1, <2>2, <2>3
    <3> QED
      BY <3>1 DEF AsPromised
  <2>4. CASE entry[1] # Nothing
    <3>1. choice = finish(sel, context, entry[1], entry[2]) /\ Promised(mode) = {entry[1]}
      BY <2>1, <2>2, <2>4
    <3> HIDE DEF entry, sel, choice
    <3>2. AsPromised(choice, context.mode)
      BY <1>2, <3>1, FinishServes
    <3> QED
      BY <3>2 DEF choice, sel
  <2> QED
    BY <2>3, <2>4
<1> QED
  BY <1>4, <1>5, <1>6

(* The server started, and the selection is the selector's. *)
ProviderHeld ==
  /\ from_config_sources(conf).ok
  /\ selection # NoError =>
       /\ RequestAccepted(request)
       /\ selection = resolve(from_config_sources(conf), context_of(request))

(* No step but one touches the selection, and none the configuration. *)
LEMMA SelectionSteps ==
  ASSUME [Next]_vars
  PROVE  UNCHANGED inputVars /\ (select_provider \/ UNCHANGED selection)
<1> USE DEF Stays, Elsewhere, preparedVars
<1>1. CASE accept BY <1>1 DEF accept
<1>2. CASE validate BY <1>2 DEF validate
<1>3. CASE select_provider BY <1>3 DEF select_provider
<1>4. CASE prepare_matrix BY <1>4 DEF prepare_matrix
<1>5. CASE fetch BY <1>5 DEF fetch
<1>6. CASE pairs_completed BY <1>6 DEF pairs_completed
<1>7. CASE build_matrix BY <1>7 DEF build_matrix
<1>8. CASE matrix_built BY <1>8 DEF matrix_built
<1>9. CASE generate BY <1>9 DEF generate
<1>10. CASE optimize BY <1>10 DEF optimize
<1>11. CASE selection_started BY <1>11 DEF selection_started
<1>12. CASE on_progress BY <1>12 DEF on_progress
<1>13. CASE solve_prepared BY <1>13 DEF solve_prepared
<1>14. CASE begin_schedule BY <1>14 DEF begin_schedule
<1>15. CASE render BY <1>15 DEF render
<1>16. CASE scheduled BY <1>16 DEF scheduled
<1>17. CASE recalculate BY <1>17 DEF recalculate, KeepsRoute
<1>18. CASE validate_schedule BY <1>18 DEF validate_schedule
<1>19. CASE finalize BY <1>19 DEF finalize
<1>20. CASE report_result BY <1>20 DEF report_result
<1>21. CASE strip_extensions BY <1>21 DEF strip_extensions
<1>22. CASE report_error BY <1>22 DEF report_error
<1>23. CASE return_result BY <1>23 DEF return_result
<1>24. CASE begin_advice BY <1>24 DEF begin_advice, Unadvised
<1>25. CASE probe_mode BY <1>25 DEF probe_mode, Unadvised
<1>26. CASE probe_location BY <1>26 DEF probe_location, Unadvised
<1>27. CASE budget_ends BY <1>27 DEF budget_ends, Unadvised
<1>28. CASE begin_leg BY <1>28 DEF begin_leg, KeepsRoute
<1>29. CASE end_leg BY <1>29 DEF end_leg, KeepsRoute
<1>30. CASE stop_query BY <1>30 DEF stop_query
<1>31. CASE cancel BY <1>31 DEF cancel
<1>32. CASE tcache_step BY <1>32 DEF tcache_step
<1>33. CASE UNCHANGED vars BY <1>33 DEF vars
<1> QED
  BY <1>1, <1>2, <1>3, <1>4, <1>5, <1>6, <1>7, <1>8, <1>9, <1>10, <1>11, <1>12, <1>13, <1>14,
     <1>15, <1>16, <1>17, <1>18, <1>19, <1>20, <1>21, <1>22, <1>23, <1>24, <1>25, <1>26, <1>27,
     <1>28, <1>29, <1>30, <1>31, <1>32, <1>33, NextCases DEF QuietStep

(* For every configuration a server starts with and every request: the     *)
(* provider that routes it is the one promised, it can serve the mode, and *)
(* where none is found none of those promised could (from_config_sources,  *)
(* RouteProviderSelector::resolve, diagnostics).                           *)
THEOREM ProvidersSuitable == Spec => []ProviderIsSuitable
<1>1. Init => ProviderHeld
  BY DEF Init, ProviderHeld
<1>2. RouteInvariant /\ ProviderHeld /\ [Next]_vars => ProviderHeld'
  <2> SUFFICES ASSUME RouteInvariant, ProviderHeld, [Next]_vars PROVE ProviderHeld'
    OBVIOUS
  <2>1. conf' = conf /\ request' = request
    BY SelectionSteps DEF inputVars
  <2>2. CASE UNCHANGED selection
    BY <2>1, <2>2 DEF ProviderHeld
  <2>3. CASE select_provider /\ selection' # selection
    <3>1. RequestAccepted(request)
      BY <2>3 DEF select_provider, RouteInvariant, ProblemHeld, Accepting, Prepared
    <3>2. selection' = resolve(from_config_sources(conf), context_of(request))
      BY <2>3 DEF select_provider
    <3> QED
      BY <2>1, <3>1, <3>2 DEF ProviderHeld
  <2> QED
    BY <2>2, <2>3, SelectionSteps
<1>3. RouteInvariant /\ ProviderHeld => ProviderIsSuitable
  <2> SUFFICES ASSUME RouteInvariant, ProviderHeld, selection # NoError
               PROVE  AsPromised(selection, context_of(request).mode)
    BY DEF ProviderIsSuitable, AsPromised
  <2>1. request.travel_mode \in Modes \union {Nothing} /\ InputHeld
    BY CasesAssumption DEF RouteInvariant, InputHeld
  <2>2. /\ context_of(request).mode \in Modes
        /\ context_of(request).country = request.country_code
        /\ context_of(request).override = request.route_provider
    BY <2>1 DEF context_of, OrDefault, Modes, Nothing
  <2>3. /\ from_config_sources(conf).ok /\ RequestAccepted(request)
        /\ selection = resolve(from_config_sources(conf), context_of(request))
    BY DEF ProviderHeld
  <2> QED
    BY <2>1, <2>2, <2>3, ResolvedAsPromised
<1> QED
  BY <1>1, <1>2, <1>3, RouteIsHeld, PTL DEF Spec
=============================================================================
