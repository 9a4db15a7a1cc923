---------------------- MODULE SolverOrchestratorProofs ----------------------
(***************************************************************************)
(* Proofs about StrategyExecution and SolverOrchestrator for any set of    *)
(* strategies, of executions of other jobs, of results and of limits.      *)
(***************************************************************************)
EXTENDS SolverOrchestrator, FiniteSetTheorems, NaturalsInduction, WellFoundedInduction, TLAPS

(* The queue of the batch holds strategies of this solve. *)
QueueHeld == queue \in Seq(Executions)

(* The number of annealing runs that were started. *)
LEMMA AnnealingsCounted ==
  /\ IsFiniteSet(AnnealingsDone) /\ Cardinality(AnnealingsDone) \in Nat
  /\ AnnealingsDone \subseteq Executions
<1>1. AnnealingsDone \subseteq Executions
  BY StrategiesAssumption DEF AnnealingsDone, Range
<1> QED
  BY <1>1, ExecutionsAssumption, FS_Subset, FS_CardinalityType

(* The annealing run that comes next is one of this solve. *)
LEMMA NextAnnealing ==
  ASSUME Cardinality(AnnealingsDone) < Len(Annealings)
  PROVE  Annealings[Cardinality(AnnealingsDone) + 1] \in Executions
<1> DEFINE k == Cardinality(AnnealingsDone)
<1>1. k \in Nat
  BY AnnealingsCounted
<1> HIDE DEF k
<1>2. k + 1 \in 1 .. Len(Annealings)
  BY <1>1, StrategiesAssumption DEF k
<1> QED
  BY <1>2, StrategiesAssumption DEF k

(* The steps of a solve as far as executions and resources are concerned. *)
ExecutionStep ==
  \/ \E e \in Executions : Launch(e) \/ Execute(e)
  \/ UNCHANGED <<resourceVars, executionVars>>
  \/ CancelJob \/ (\E e \in Executions : TimePasses(e)) \/ (\E o \in Others : OtherJob(o))

(* Every step is one of them: only strategies of the solve are launched. *)
LEMMA StepKinds == QueueHeld /\ [Next]_vars => ExecutionStep
<1> SUFFICES ASSUME QueueHeld, [Next]_vars
             PROVE  ExecutionStep
  OBVIOUS
<1> USE DEF ExecutionStep
<1>1. CASE run_exact
  BY <1>1, StrategiesAssumption DEF run_exact
<1>2. CASE run_annealing
  <2>1. /\ Cardinality(AnnealingsDone) < Len(Annealings)
        /\ Launch(Annealings[Cardinality(AnnealingsDone) + 1])
    BY <1>2 DEF run_annealing
  <2> QED
    BY <2>1, NextAnnealing
<1>3. CASE take_task
  <2>1. Head(queue) \in Executions /\ Launch(Head(queue))
    BY <1>3 DEF take_task, QueueHeld
  <2> QED
    BY <2>1
<1>4. CASE Solve /\ ~run_exact /\ ~run_annealing
  <2>1. UNCHANGED resourceVars /\ UNCHANGED executionVars
    BY <1>4
       DEF Solve, solve_cancelled, solve_registered, skip_exact, exact_done,
           baseline_cancelled, start_baselines, skip_baselines, finish_baselines,
           finish_registered, registered_cancelled, annealing_done, stop_annealing, build,
           StartBatch, BatchDone
  <2> QED
    BY <2>1
<1>5. CASE Work /\ ~take_task
  BY <1>5 DEF Work, give_up_task, exit_worker, send_result
<1>6. CASE SpendBudget
  BY <1>6 DEF SpendBudget
<1>7. CASE (\E e \in Executions : Execute(e)) /\ UNCHANGED solveVars
  BY <1>7
<1>8. CASE Environment /\ UNCHANGED solveVars
  BY <1>8 DEF Environment
<1>9. CASE UNCHANGED vars
  BY <1>9 DEF vars
<1> QED
  BY <1>1, <1>2, <1>3, <1>4, <1>5, <1>6, <1>7, <1>8, <1>9 DEF Next

(* The queue shrinks, or is filled with the registered strategies. *)
LEMMA QueueStep == QueueHeld /\ [Next]_vars => QueueHeld'
<1> SUFFICES ASSUME QueueHeld, [Next]_vars
             PROVE  queue' \in Seq(Executions)
  BY DEF QueueHeld
<1>1. queue \in Seq(Executions)
  BY DEF QueueHeld
<1>2. Registered \in Seq(Executions) /\ Baselines \in Seq(Executions)
  BY StrategiesAssumption DEF Registered
<1>3. CASE take_task \/ give_up_task
  BY <1>1, <1>3 DEF take_task, give_up_task
<1>4. CASE solve_registered \/ start_baselines
  BY <1>2, <1>4 DEF solve_registered, start_baselines, StartBatch
<1>5. CASE UNCHANGED queue
  BY <1>1, <1>5
<1>6. \/ take_task \/ give_up_task \/ solve_registered \/ start_baselines
      \/ UNCHANGED queue
  <2>1. CASE Solve
    BY <2>1
       DEF Solve, solve_cancelled, run_exact, skip_exact, exact_done,
           baseline_cancelled, skip_baselines, finish_baselines, finish_registered,
           registered_cancelled, run_annealing, annealing_done, stop_annealing, build, BatchDone
  <2>2. CASE Work
    BY <2>2 DEF Work, exit_worker, send_result
  <2>3. CASE SpendBudget
    BY <2>3 DEF SpendBudget
  <2>4. CASE UNCHANGED solveVars
    BY <2>4 DEF solveVars
  <2> QED
    BY <2>1, <2>2, <2>3, <2>4 DEF Next, vars
<1> QED
  BY <1>3, <1>4, <1>5, <1>6

(* What a launch does to the resources is a step of the manager. *)
LEMMA LaunchResources ==
  ASSUME NEW e \in Executions, Launch(e)
  PROVE  R!Next
<1>1. PICK r \in RequestsOf[e] : R!acquire_until(e, r) \/ R!Refused(e, r)
  BY DEF Launch
<1>2. r \in Requests
  BY <1>1, ExecutionsAssumption
<1>3. R!Acquire(e)
  BY <1>1, <1>2 DEF R!Acquire
<1> QED
  BY <1>3 DEF R!Next

(* Every step of a solve is a step of the manager, or none of its. *)
LEMMA ResourceStep == ExecutionStep => [R!Next]_(R!vars)
<1> SUFFICES ASSUME ExecutionStep
             PROVE  [R!Next]_(R!vars)
  OBVIOUS
<1>1. ASSUME NEW e \in Executions, Launch(e)
      PROVE  R!Next
  BY <1>1, LaunchResources
<1>2. ASSUME NEW e \in Executions, Execute(e)
      PROVE  R!Next \/ UNCHANGED R!vars
  <2>1. CASE Waiting(e) \/ too_late(e) \/ join(e)
    <3>1. R!Wait(e) \/ R!drop_lease(e)
      BY <2>1 DEF Waiting, lease_cancelled, lease_expired, lease_acquired, too_late, join, R!Wait
    <3> QED
      BY <3>1 DEF R!Next
  <2>2. CASE start(e) \/ strategy_returns(e) \/ evaluate(e) \/ Watch(e)
    <3>1. UNCHANGED resourceVars
      BY <2>2 DEF start, strategy_returns, evaluate, Watch, watch_parent, watch_timeout,
                  watch_done, Interrupt
    <3> QED
      BY <3>1 DEF resourceVars, R!vars
  <2> QED
    BY <1>2, <2>1, <2>2 DEF Execute
<1>3. CASE UNCHANGED <<resourceVars, executionVars>>
  BY <1>3 DEF resourceVars, R!vars
<1>4. CASE CancelJob
  <2>1. R!CancelTokens(Executions) /\ Executions \in SUBSET (Executions \cup Others)
    BY <1>4 DEF CancelJob
  <2> QED
    BY <2>1 DEF R!Next
<1>5. ASSUME NEW e \in Executions, TimePasses(e)
      PROVE  R!Next
  BY <1>5 DEF TimePasses, R!Next
<1>6. ASSUME NEW o \in Others, OtherJob(o)
      PROVE  R!Next
  <2>1. R!Acquire(o) \/ R!Wait(o) \/ R!drop_lease(o)
    BY <1>6 DEF OtherJob, R!Acquire, R!Wait
  <2> QED
    BY <2>1 DEF R!Next
<1> QED
  BY <1>1, <1>2, <1>3, <1>4, <1>5, <1>6 DEF ExecutionStep

(* Whatever the threads of a solve, the watchers, the clock and the other  *)
(* jobs do, the shared ResourceManager sees only what it allows: a lease   *)
(* is asked for once, taken within the limits and dropped once             *)
(* (execute_strategy, acquire_until, Drop for ResourceLease).              *)
THEOREM Refinement == Spec => UsesResourceManager
<1>1. Init => QueueHeld /\ R!Init
  BY DEF Init, ExecutionInit, QueueHeld
<1>2. QueueHeld /\ [Next]_vars => QueueHeld' /\ [R!Next]_(R!vars)
  BY QueueStep, StepKinds, ResourceStep
<1> QED
  BY <1>1, <1>2, PTL DEF Spec, UsesResourceManager, R!Spec

-----------------------------------------------------------------------------
(* The leases of all jobs, and the counter of them. *)
Leases == {h \in Executions \cup Others : holder[h] = "holding"}

LeasesCounted ==
  /\ holder \in [Executions \cup Others -> R!HolderStates]
  /\ usage.runs = Cardinality(Leases) /\ usage.runs <= MaxRuns

(* The leases are finitely many. *)
LEMMA LeasesFinite == IsFiniteSet(Leases) /\ Cardinality(Leases) \in Nat
<1>1. IsFiniteSet(Executions \cup Others)
  BY ExecutionsAssumption, FS_Union
<1>2. Leases \subseteq Executions \cup Others
  BY DEF Leases
<1> QED
  BY <1>1, <1>2, FS_Subset, FS_CardinalityType

(* A lease taken within the limit is counted. *)
LEMMA LeaseTaken ==
  ASSUME LeasesCounted, NEW h, h \notin Leases, Leases' = Leases \cup {h},
         NEW r, R!fits(usage, r), usage' = R!reserve(usage, r)
  PROVE  usage'.runs = Cardinality(Leases') /\ usage'.runs <= MaxRuns
<1> DEFINE n == Cardinality(Leases)
<1>1. usage'.runs = usage.runs + 1 /\ usage.runs < MaxRuns /\ usage.runs = n
  BY DEF R!fits, R!reserve, LeasesCounted
<1>2. Cardinality(Leases') = n + 1
  BY LeasesFinite, FS_AddElement
<1>3. n \in Nat /\ MaxRuns \in Nat
  BY LeasesFinite, ExecutionsAssumption
<1> HIDE DEF n
<1> QED
  BY <1>1, <1>2, <1>3

(* A lease dropped is uncounted, once. *)
LEMMA LeaseDropped ==
  ASSUME LeasesCounted, NEW h \in Leases, Leases' = Leases \ {h},
         NEW r, usage' = R!released(usage, r)
  PROVE  usage'.runs = Cardinality(Leases') /\ usage'.runs <= MaxRuns
<1> DEFINE n == Cardinality(Leases)
<1>1. usage'.runs = (IF usage.runs < 1 THEN 0 ELSE usage.runs - 1) /\ usage.runs = n
  BY DEF R!released, R!SaturatingSub, LeasesCounted
<1>2. Cardinality(Leases') = n - 1
  BY LeasesFinite, FS_RemoveElement
<1>3. n # 0
  BY LeasesFinite, FS_EmptySet
<1>4. n \in Nat /\ MaxRuns \in Nat /\ n <= MaxRuns
  BY <1>1, LeasesFinite, ExecutionsAssumption DEF LeasesCounted
<1> HIDE DEF n
<1> QED
  BY <1>1, <1>2, <1>3, <1>4

(* The manager counts the leases of the solve and of the others. *)
LEMMA LeasesStep == LeasesCounted /\ [R!Next]_(R!vars) => LeasesCounted'
<1> SUFFICES ASSUME LeasesCounted, [R!Next]_(R!vars)
             PROVE  LeasesCounted'
  OBVIOUS
<1> DEFINE H == Executions \cup Others
<1>0. holder \in [H -> R!HolderStates]
  BY DEF LeasesCounted
<1>1. ASSUME NEW h \in H, NEW r, R!fits(usage, r), usage' = R!reserve(usage, r),
             holder[h] # "holding", holder' = [holder EXCEPT ![h] = "holding"]
      PROVE  LeasesCounted'
  <2>1. h \notin Leases /\ Leases' = Leases \cup {h}
    BY <1>0, <1>1 DEF Leases
  <2>2. holder' \in [H -> R!HolderStates]
    BY <1>0, <1>1 DEF R!HolderStates
  <2> QED
    BY <1>1, <2>1, <2>2, LeaseTaken DEF LeasesCounted
<1>2. ASSUME NEW h \in H, R!drop_lease(h)
      PROVE  LeasesCounted'
  <2>1. h \in Leases /\ Leases' = Leases \ {h} /\ usage' = R!released(usage, request[h])
    BY <1>0, <1>2 DEF R!drop_lease, R!Leave, Leases
  <2>2. holder' \in [H -> R!HolderStates]
    BY <1>0, <1>2 DEF R!HolderStates, R!drop_lease, R!Leave
  <2> QED
    BY <2>1, <2>2, LeaseDropped DEF LeasesCounted
<1>3. ASSUME NEW h \in H, NEW s \in R!HolderStates \ {"holding"}, holder[h] # "holding",
             holder' = [holder EXCEPT ![h] = s], usage' = usage
      PROVE  LeasesCounted'
  <2>1. Leases' = Leases
    BY <1>0, <1>3 DEF Leases
  <2>2. holder' \in [H -> R!HolderStates]
    BY <1>0, <1>3
  <2> QED
    BY <1>3, <2>1, <2>2 DEF LeasesCounted
<1>4. ASSUME UNCHANGED <<holder, usage>>
      PROVE  LeasesCounted'
  BY <1>4 DEF LeasesCounted, Leases
<1>5. ASSUME NEW h \in H, R!Acquire(h)
      PROVE  LeasesCounted'
  <2>1. PICK r \in Requests : R!Refused(h, r) \/ R!try_acquire(h, r) \/ R!acquire_until(h, r)
    BY <1>5 DEF R!Acquire
  <2>2. CASE R!Refused(h, r) \/ R!acquire_until(h, r)
    BY <1>3, <2>2 DEF R!Refused, R!acquire_until, R!Enter, R!HolderStates
  <2>3. CASE R!try_acquire(h, r) /\ R!fits(usage, r)
    <3>1. /\ usage' = R!reserve(usage, r) /\ holder[h] # "holding"
          /\ holder' = [holder EXCEPT ![h] = "holding"]
      BY <2>3 DEF R!try_acquire, R!Enter
    <3> QED
      BY <1>1, <2>3, <3>1
  <2>4. CASE R!try_acquire(h, r) /\ ~R!fits(usage, r)
    BY <1>3, <2>4 DEF R!try_acquire, R!Enter, R!HolderStates
  <2> QED
    BY <2>1, <2>2, <2>3, <2>4
<1>6. ASSUME NEW h \in H, R!Wait(h)
      PROVE  LeasesCounted'
  <2>1. CASE R!wait_cancelled(h) \/ R!wait_expired(h)
    BY <1>3, <2>1 DEF R!wait_cancelled, R!wait_expired, R!Leave, R!HolderStates
  <2>2. CASE R!wait_fits(h)
    BY <1>1, <2>2 DEF R!wait_fits, R!Leave
  <2> QED
    BY <1>6, <2>1, <2>2 DEF R!Wait
<1>7. CASE \/ \E h \in H : R!DeadlinePasses(h)
           \/ \E jobs \in SUBSET H : R!CancelTokens(jobs)
           \/ UNCHANGED R!vars
  <2>1. UNCHANGED <<holder, usage>>
    BY <1>7 DEF R!DeadlinePasses, R!CancelTokens, R!vars
  <2> QED
    BY <1>4, <2>1
<1> QED
  BY <1>2, <1>5, <1>6, <1>7 DEF R!Next

-----------------------------------------------------------------------------
(* What an execution holds between its steps. *)
Results ==
  [kind : Errors \cup {"route", "panic", "evaluated", "rejected", "nothing"}, score : Int,
   proof : Proofs, late : BOOLEAN, idle : BOOLEAN]

ExecutionTypes ==
  /\ phase \in [Executions -> Phases]
  /\ watcher \in [Executions -> {"off", "watching", "stopped"}]
  /\ reason \in [Executions -> 0..2]
  /\ returned \in [Executions -> Results]
  /\ candidate \in [Executions -> Candidates \cup {NoCandidate}]

(* A reason has its cause, is there only while the strategy runs, and a    *)
(* strategy that reports a cancellation has been given one.                *)
ReasonIsTrue(e) ==
  /\ phase[e] \in {"idle", "waiting", "leased", "done"} => watcher[e] = "off" /\ reason[e] = 0
  /\ reason[e] = 1 => e \in expired
  /\ reason[e] = 2 => e \in cancelled
  /\ returned[e].kind = "cancelled" => reason[e] # 0
  /\ e \in Preserving => returned[e].proof = "none"

(* The calling thread and the manager agree on the lease. *)
LeaseAgrees(e) == phase[e] \in Leased <=> holder[e] = "holding"

ExecutionInvariant ==
  /\ ExecutionTypes /\ LeasesCounted
  /\ \A e \in Executions : ReasonIsTrue(e) /\ LeaseAgrees(e)

(* The other executions are left alone. *)
OtherExecutions(e) ==
  \A d \in Executions : d # e =>
    /\ phase'[d] = phase[d] /\ watcher'[d] = watcher[d] /\ reason'[d] = reason[d]
    /\ returned'[d] = returned[d] /\ holder'[d] = holder[d]

(* A step of one execution is judged by that execution alone. *)
LEMMA OneExecution ==
  ASSUME ExecutionInvariant, NEW e \in Executions, OtherExecutions(e),
         cancelled' = cancelled, expired' = expired,
         ExecutionTypes', LeasesCounted', ReasonIsTrue(e)', LeaseAgrees(e)'
  PROVE  ExecutionInvariant'
<1>1. ASSUME NEW d \in Executions, d # e
      PROVE  ReasonIsTrue(d)' /\ LeaseAgrees(d)'
  <2>1. /\ phase'[d] = phase[d] /\ watcher'[d] = watcher[d] /\ reason'[d] = reason[d]
        /\ returned'[d] = returned[d] /\ holder'[d] = holder[d]
    BY <1>1 DEF OtherExecutions
  <2>2. ReasonIsTrue(d) /\ LeaseAgrees(d)
    BY DEF ExecutionInvariant
  <2> QED
    BY <2>1, <2>2 DEF ReasonIsTrue, LeaseAgrees
<1> QED
  BY <1>1 DEF ExecutionInvariant

(* The candidates of execute_strategy have the fields of SolverCandidate. *)
LEMMA CandidateTypes ==
  /\ \A timed_out, error : failed_candidate(timed_out, error) \in Candidates
  /\ \A error : failed_candidate_from_error(error) \in Candidates
<1>1. -1 \in Int
  OBVIOUS
<1>2. \A o \in Outcomes, p \in Proofs : Routeless(o, p) \in Candidates
  BY <1>1 DEF Routeless, Candidates, NoScore
<1> QED
  BY <1>2 DEF failed_candidate, failed_candidate_from_error, Outcomes, Proofs

(* What is judged of a result. *)
LEMMA JudgedType ==
  ASSUME NEW e \in Executions, NEW o \in Results, reason[e] \in 0..2
  PROVE  Judged(e, o) \in Candidates
<1>1. -1 \in Int
  OBVIOUS
<1>2. o.score \in Int /\ o.proof \in Proofs /\ o.late \in BOOLEAN /\ o.idle \in BOOLEAN
  BY DEF Results
<1>3. Feasible(e, o) \in Candidates
  BY <1>2 DEF Feasible, Candidates, Outcomes, Proofs
<1>4. Rejected(o) \in Candidates
  BY <1>1, <1>2 DEF Rejected, Candidates, Outcomes, Proofs, NoScore
<1>5. failed_candidate(FALSE, "panic") \in Candidates
      /\ failed_candidate_from_error(o.kind) \in Candidates
  BY CandidateTypes
<1> QED
  BY <1>3, <1>4, <1>5 DEF Judged

(* The candidate a strategy leaves is one, however it ended. *)
LEMMA CandidateType ==
  ASSUME ExecutionTypes, NEW e \in Executions
  PROVE  CandidateOf(e) \in Candidates
<1>1. reason[e] \in 0..2 /\ returned[e] \in Results
  BY DEF ExecutionTypes
<1> QED
  BY <1>1, JudgedType, CandidateTypes DEF CandidateOf

(* An execution that ends leaves nothing of it but its candidate. *)
LEMMA FinishStep ==
  ASSUME ExecutionTypes, NEW e \in Executions, NEW c \in Candidates, Finish(e, c)
  PROVE  /\ ExecutionTypes' /\ candidate'[e] = c
         /\ phase'[e] = "done" /\ watcher'[e] = "off" /\ reason'[e] = 0
         /\ returned'[e] = Nothing
         /\ \A d \in Executions : d # e =>
              /\ phase'[d] = phase[d] /\ watcher'[d] = watcher[d] /\ reason'[d] = reason[d]
              /\ returned'[d] = returned[d]
<1>1. -1 \in Int
  OBVIOUS
<1>2. Nothing \in Results
  BY <1>1 DEF Nothing, Failure, Results, NoScore, Proofs
<1>3. /\ phase' = [phase EXCEPT ![e] = "done"]
      /\ candidate' = [candidate EXCEPT ![e] = c]
      /\ watcher' = [watcher EXCEPT ![e] = "off"]
      /\ reason' = [reason EXCEPT ![e] = 0]
      /\ returned' = [returned EXCEPT ![e] = Nothing]
  BY DEF Finish
<1>4. phase' \in [Executions -> Phases]
  BY <1>3 DEF ExecutionTypes, Phases
<1> QED
  BY <1>2, <1>3, <1>4 DEF ExecutionTypes

(* The end of an execution keeps the invariant, once its lease is gone. *)
LEMMA EndHolds ==
  ASSUME ExecutionInvariant, LeasesCounted', NEW e \in Executions, NEW c \in Candidates,
         Finish(e, c), NEW s \in R!HolderStates \ {"holding"},
         holder' = [holder EXCEPT ![e] = s], cancelled' = cancelled, expired' = expired
  PROVE  ExecutionInvariant'
<1>1. holder'[e] = s /\ \A d \in Executions : d # e => holder'[d] = holder[d]
  BY DEF ExecutionInvariant, LeasesCounted
<1>2. ExecutionTypes
  BY DEF ExecutionInvariant
<1>3. /\ ExecutionTypes' /\ OtherExecutions(e)
      /\ phase'[e] = "done" /\ watcher'[e] = "off" /\ reason'[e] = 0 /\ returned'[e] = Nothing
  BY <1>1, <1>2, FinishStep DEF OtherExecutions
<1>4. ReasonIsTrue(e)'
  BY <1>3 DEF ReasonIsTrue, Nothing, Failure
<1>5. LeaseAgrees(e)'
  BY <1>1, <1>3 DEF LeaseAgrees, Leased
<1> QED
  BY <1>3, <1>4, <1>5, OneExecution

(* The launch and the wait for the lease. *)
LEMMA LaunchHolds ==
  ASSUME ExecutionInvariant, LeasesCounted', NEW e \in Executions, Launch(e)
  PROVE  ExecutionInvariant'
<1> USE DEF R!HolderStates
<1>1. PICK r \in RequestsOf[e] :
        \/ /\ R!acquire_until(e, r)
           /\ phase' = [phase EXCEPT ![e] = "waiting"]
           /\ UNCHANGED <<watcher, reason, returned, candidate>>
        \/ /\ R!Refused(e, r)
           /\ Finish(e, failed_candidate(FALSE, "invalid request"))
  BY DEF Launch
<1>2. CASE R!Refused(e, r) /\ Finish(e, failed_candidate(FALSE, "invalid request"))
  <2>1. holder' = [holder EXCEPT ![e] = "invalid"] /\ cancelled' = cancelled /\ expired' = expired
    BY <1>2 DEF R!Refused, R!Enter
  <2> QED
    BY <1>2, <2>1, CandidateTypes, EndHolds
<1>3. CASE /\ R!acquire_until(e, r)
           /\ phase' = [phase EXCEPT ![e] = "waiting"]
           /\ UNCHANGED <<watcher, reason, returned, candidate>>
  <2>1. /\ holder' = [holder EXCEPT ![e] = "waiting"]
        /\ cancelled' = cancelled /\ expired' = expired
    BY <1>3 DEF R!acquire_until, R!Enter
  <2>2. ExecutionTypes'
    BY <1>3 DEF ExecutionInvariant, ExecutionTypes, Phases
  <2>3. /\ phase'[e] = "waiting" /\ holder'[e] = "waiting" /\ phase[e] = "idle"
        /\ OtherExecutions(e)
    BY <1>3, <2>1 DEF Launch, ExecutionInvariant, ExecutionTypes, LeasesCounted, OtherExecutions
  <2>4. ReasonIsTrue(e)'
    BY <1>3, <2>1, <2>3 DEF ExecutionInvariant, ReasonIsTrue
  <2>5. LeaseAgrees(e)'
    BY <2>3 DEF LeaseAgrees, Leased
  <2> QED
    BY <2>1, <2>2, <2>3, <2>4, <2>5, OneExecution
<1> QED
  BY <1>1, <1>2, <1>3

(* Waiting for a lease ends with one, or with a candidate and none. *)
LEMMA WaitHolds ==
  ASSUME ExecutionInvariant, LeasesCounted', NEW e \in Executions, Waiting(e) \/ too_late(e)
  PROVE  ExecutionInvariant'
<1> USE DEF R!HolderStates
<1>1. CASE lease_cancelled(e)
  <2>1. /\ Finish(e, failed_candidate(FALSE, "cancelled"))
        /\ holder' = [holder EXCEPT ![e] = "cancelled"]
        /\ cancelled' = cancelled /\ expired' = expired
    BY <1>1 DEF lease_cancelled, R!wait_cancelled, R!Leave
  <2> QED
    BY <2>1, CandidateTypes, EndHolds
<1>2. CASE lease_expired(e)
  <2>1. /\ Finish(e, failed_candidate(TRUE, "deadline"))
        /\ holder' = [holder EXCEPT ![e] = "deadline"]
        /\ cancelled' = cancelled /\ expired' = expired
    BY <1>2 DEF lease_expired, R!wait_expired, R!Leave
  <2> QED
    BY <2>1, CandidateTypes, EndHolds
<1>3. CASE too_late(e)
  <2>1. /\ Finish(e, failed_candidate(TRUE, "deadline"))
        /\ holder' = [holder EXCEPT ![e] = "released"]
        /\ cancelled' = cancelled /\ expired' = expired
    BY <1>3 DEF too_late, R!drop_lease, R!Leave
  <2> QED
    BY <2>1, CandidateTypes, EndHolds
<1>4. CASE lease_acquired(e)
  <2>1. /\ holder' = [holder EXCEPT ![e] = "holding"] /\ phase[e] = "waiting"
        /\ phase' = [phase EXCEPT ![e] = "leased"]
        /\ UNCHANGED <<watcher, reason, returned, candidate>>
        /\ cancelled' = cancelled /\ expired' = expired
    BY <1>4 DEF lease_acquired, R!wait_fits, R!Leave
  <2>2. ExecutionTypes'
    BY <2>1 DEF ExecutionInvariant, ExecutionTypes, Phases
  <2>3. phase'[e] = "leased" /\ holder'[e] = "holding" /\ OtherExecutions(e)
    BY <2>1 DEF ExecutionInvariant, ExecutionTypes, LeasesCounted, OtherExecutions
  <2>4. ReasonIsTrue(e)'
    BY <2>1, <2>3 DEF ExecutionInvariant, ReasonIsTrue
  <2>5. LeaseAgrees(e)'
    BY <2>3 DEF LeaseAgrees, Leased
  <2> QED
    BY <2>1, <2>2, <2>3, <2>4, <2>5, OneExecution
<1> QED
  BY <1>1, <1>2, <1>3, <1>4 DEF Waiting

(* The strategy under its watcher. *)
LEMMA RunHolds ==
  ASSUME ExecutionInvariant, LeasesCounted', NEW e \in Executions,
         start(e) \/ strategy_returns(e) \/ evaluate(e) \/ Watch(e)
  PROVE  ExecutionInvariant'
<1>0. /\ ReasonIsTrue(e) /\ LeaseAgrees(e) /\ ExecutionTypes
      /\ phase[e] \in Phases /\ returned[e] \in Results /\ reason[e] \in 0..2
  BY DEF ExecutionInvariant, ExecutionTypes
<1>1. UNCHANGED resourceVars /\ UNCHANGED candidate
  BY DEF start, strategy_returns, evaluate, Watch, watch_parent, watch_timeout, watch_done,
         Interrupt
<1>2. /\ holder' = holder /\ cancelled' = cancelled /\ expired' = expired
      /\ candidate' = candidate
  BY <1>1 DEF resourceVars
<1>3. CASE start(e)
  <2>1. /\ phase[e] = "leased" /\ phase' = [phase EXCEPT ![e] = "running"]
        /\ watcher' = [watcher EXCEPT ![e] = "watching"]
        /\ reason' = reason /\ returned' = returned
    BY <1>3 DEF start
  <2>2. ExecutionTypes' /\ OtherExecutions(e) /\ phase'[e] = "running"
    BY <1>0, <1>2, <2>1 DEF ExecutionTypes, OtherExecutions, Phases
  <2>3. ReasonIsTrue(e)' /\ LeaseAgrees(e)'
    BY <1>0, <1>2, <2>1, <2>2 DEF ReasonIsTrue, LeaseAgrees, Leased
  <2> QED
    BY <1>2, <2>2, <2>3, OneExecution
<1>4. CASE strategy_returns(e)
  <2>1. PICK o \in Returns[e] :
          /\ o.kind = "cancelled" => reason[e] # 0
          /\ returned' = [returned EXCEPT ![e] = o]
          /\ phase' = [phase EXCEPT ![e] =
                         IF o.kind # "route" THEN "returned"
                         ELSE IF e \in Preserving /\ reason[e] # 0 THEN "validating"
                         ELSE "evaluating"]
    BY <1>4 DEF strategy_returns
  <2>2. phase[e] = "running" /\ watcher' = watcher /\ reason' = reason
    BY <1>4 DEF strategy_returns
  <2>3. o \in Results /\ (e \in Preserving => o.proof = "none")
    BY ReturnsAssumption DEF Results
  <2>4. phase'[e] \in {"returned", "validating", "evaluating"} /\ returned'[e] = o
    BY <1>0, <2>1 DEF ExecutionTypes
  <2>5. OtherExecutions(e)
    BY <1>0, <1>2, <2>1, <2>2 DEF ExecutionTypes, OtherExecutions
  <2>6. ExecutionTypes'
    BY <1>0, <1>2, <2>1, <2>2, <2>3 DEF ExecutionTypes, Phases
  <2>7. ReasonIsTrue(e)'
    BY <1>0, <1>2, <2>1, <2>2, <2>3, <2>4 DEF ReasonIsTrue
  <2>8. LeaseAgrees(e)'
    BY <1>0, <1>2, <2>2, <2>4 DEF LeaseAgrees, Leased
  <2> QED
    BY <1>2, <2>5, <2>6, <2>7, <2>8, OneExecution
<1>5. CASE evaluate(e)
  <2>1. PICK k \in {"evaluated", "rejected"} : returned' = [returned EXCEPT ![e].kind = k]
    BY <1>5 DEF evaluate
  <2>2. /\ phase[e] \in {"evaluating", "validating"}
        /\ phase' = [phase EXCEPT ![e] = "returned"]
        /\ watcher' = watcher /\ reason' = reason
    BY <1>5 DEF evaluate
  <2>3. returned'[e] = [returned[e] EXCEPT !.kind = k]
    BY <1>0, <2>1 DEF ExecutionTypes
  <2>4. /\ returned'[e] \in Results /\ returned'[e].kind = k
        /\ returned'[e].proof = returned[e].proof
    BY <1>0, <2>3 DEF Results
  <2>5. OtherExecutions(e) /\ phase'[e] = "returned"
    BY <1>0, <1>2, <2>1, <2>2 DEF ExecutionTypes, OtherExecutions
  <2>6. returned' \in [Executions -> Results]
    BY <1>0, <2>1, <2>3, <2>4 DEF ExecutionTypes
  <2>7. ExecutionTypes'
    BY <1>0, <1>2, <2>2, <2>6 DEF ExecutionTypes, Phases
  <2>8. ReasonIsTrue(e)'
    BY <1>0, <1>2, <2>2, <2>4, <2>5 DEF ReasonIsTrue
  <2>9. LeaseAgrees(e)'
    BY <1>0, <1>2, <2>2, <2>5 DEF LeaseAgrees, Leased
  <2> QED
    BY <1>2, <2>5, <2>7, <2>8, <2>9, OneExecution
<1>6. CASE watch_parent(e) \/ watch_timeout(e)
  <2>1. PICK why \in {1, 2} : Interrupt(e, why) /\ (why = 1 => e \in expired)
                             /\ (why = 2 => e \in cancelled)
    BY <1>6 DEF watch_parent, watch_timeout
  <2>2. /\ watcher[e] = "watching" /\ reason' = [reason EXCEPT ![e] = why]
        /\ watcher' = [watcher EXCEPT ![e] = "stopped"]
        /\ phase' = phase /\ returned' = returned
    BY <2>1 DEF Interrupt
  <2>3. ExecutionTypes' /\ OtherExecutions(e) /\ reason'[e] = why
    BY <1>0, <1>2, <2>2 DEF ExecutionTypes, OtherExecutions
  <2>4. ReasonIsTrue(e)' /\ LeaseAgrees(e)'
    BY <1>0, <1>2, <2>1, <2>2, <2>3 DEF ReasonIsTrue, LeaseAgrees
  <2> QED
    BY <1>2, <2>3, <2>4, OneExecution
<1>7. CASE watch_done(e)
  <2>1. /\ watcher[e] = "watching" /\ watcher' = [watcher EXCEPT ![e] = "stopped"]
        /\ phase' = phase /\ returned' = returned /\ reason' = reason
    BY <1>7 DEF watch_done
  <2>2. ExecutionTypes' /\ OtherExecutions(e)
    BY <1>0, <1>2, <2>1 DEF ExecutionTypes, OtherExecutions
  <2>3. ReasonIsTrue(e)' /\ LeaseAgrees(e)'
    BY <1>0, <1>2, <2>1 DEF ReasonIsTrue, LeaseAgrees
  <2> QED
    BY <1>2, <2>2, <2>3, OneExecution
<1> QED
  BY <1>3, <1>4, <1>5, <1>6, <1>7 DEF Watch

(* The result is judged and the lease dropped. *)
LEMMA JoinHolds ==
  ASSUME ExecutionInvariant, LeasesCounted', NEW e \in Executions, join(e)
  PROVE  ExecutionInvariant'
<1>1. /\ Finish(e, CandidateOf(e))
      /\ holder' = [holder EXCEPT ![e] = "released"]
      /\ cancelled' = cancelled /\ expired' = expired
  BY DEF join, R!drop_lease, R!Leave
<1>2. CandidateOf(e) \in Candidates
  BY CandidateType DEF ExecutionInvariant
<1> QED
  BY <1>1, <1>2, EndHolds DEF R!HolderStates

(* Other jobs, the client and the clock only touch the resources. *)
LEMMA EnvironmentHolds ==
  ASSUME ExecutionInvariant, LeasesCounted',
         \/ CancelJob \/ (\E e \in Executions : TimePasses(e)) \/ (\E o \in Others : OtherJob(o))
         \/ UNCHANGED <<resourceVars, executionVars>>
  PROVE  ExecutionInvariant'
<1>1. /\ phase' = phase /\ watcher' = watcher /\ reason' = reason /\ returned' = returned
      /\ candidate' = candidate
  BY DEF CancelJob, TimePasses, OtherJob, executionVars
<1>2. cancelled \subseteq cancelled' /\ expired \subseteq expired'
  BY DEF CancelJob, TimePasses, OtherJob, R!CancelTokens, R!DeadlinePasses, R!acquire_until,
         R!Enter, R!wait_fits, R!drop_lease, R!Leave, resourceVars
<1>3. \A e \in Executions : holder'[e] = holder[e]
  <2>1. CASE \E o \in Others : OtherJob(o)
    BY <2>1, ExecutionsAssumption
       DEF OtherJob, R!acquire_until, R!Enter, R!wait_fits, R!drop_lease, R!Leave,
           ExecutionInvariant, LeasesCounted
  <2>2. CASE \/ CancelJob \/ (\E e \in Executions : TimePasses(e))
             \/ UNCHANGED <<resourceVars, executionVars>>
    BY <2>2 DEF CancelJob, TimePasses, R!CancelTokens, R!DeadlinePasses, resourceVars
  <2> QED
    BY <2>1, <2>2
<1>4. \A e \in Executions : ReasonIsTrue(e) /\ LeaseAgrees(e)
  BY DEF ExecutionInvariant
<1>5. \A e \in Executions : ReasonIsTrue(e)' /\ LeaseAgrees(e)'
  BY <1>1, <1>2, <1>3, <1>4 DEF ReasonIsTrue, LeaseAgrees
<1>6. ExecutionTypes'
  BY <1>1 DEF ExecutionInvariant, ExecutionTypes
<1> QED
  BY <1>5, <1>6 DEF ExecutionInvariant

(* Every step keeps strategies, watchers and leases in agreement. *)
LEMMA ExecutionHolds == ExecutionInvariant /\ ExecutionStep => ExecutionInvariant'
<1> SUFFICES ASSUME ExecutionInvariant, ExecutionStep
             PROVE  ExecutionInvariant'
  OBVIOUS
<1>1. LeasesCounted'
  BY ResourceStep, LeasesStep DEF ExecutionInvariant
<1>2. ASSUME NEW e \in Executions, Launch(e)
      PROVE  ExecutionInvariant'
  BY <1>1, <1>2, LaunchHolds
<1>3. ASSUME NEW e \in Executions, Execute(e)
      PROVE  ExecutionInvariant'
  BY <1>1, <1>3, WaitHolds, RunHolds, JoinHolds DEF Execute
<1> QED
  BY <1>1, <1>2, <1>3, EnvironmentHolds DEF ExecutionStep

(* Nothing is launched yet, and nothing leased. *)
LEMMA ExecutionStarts == Init => ExecutionInvariant
<1> SUFFICES ASSUME Init
             PROVE  ExecutionInvariant
  OBVIOUS
<1>1. /\ usage = [cpu |-> 0, runs |-> 0, processes |-> 0, memory |-> 0]
      /\ holder = [h \in Executions \cup Others |-> "idle"]
      /\ phase = [e \in Executions |-> "idle"]
      /\ watcher = [e \in Executions |-> "off"]
      /\ reason = [e \in Executions |-> 0]
      /\ returned = [e \in Executions |-> Nothing]
      /\ candidate = [e \in Executions |-> NoCandidate]
  BY DEF Init, ExecutionInit, R!Init
<1>2. LeasesCounted
  <2>1. Leases = {}
    BY <1>1 DEF Leases
  <2>2. usage.runs = Cardinality(Leases) /\ usage.runs <= MaxRuns
    BY <1>1, <2>1, FS_EmptySet, ExecutionsAssumption
  <2> QED
    BY <1>1, <2>2 DEF LeasesCounted, R!HolderStates
<1>3. ExecutionTypes
  <2>1. -1 \in Int
    OBVIOUS
  <2>2. Nothing \in Results
    BY <2>1 DEF Nothing, Failure, Results, NoScore, Proofs
  <2> QED
    BY <1>1, <2>2 DEF ExecutionTypes, Phases
<1>4. ASSUME NEW e \in Executions
      PROVE  ReasonIsTrue(e) /\ LeaseAgrees(e)
  BY <1>1 DEF ReasonIsTrue, LeaseAgrees, Leased, Nothing, Failure
<1> QED
  BY <1>2, <1>3, <1>4 DEF ExecutionInvariant

(* What the threads of a solve, its watchers and the manager know of each  *)
(* other agrees at every moment: types, reasons with their causes, leases. *)
THEOREM ExecutionsAgree == Spec => [](QueueHeld /\ ExecutionInvariant)
<1>1. Init => QueueHeld /\ ExecutionInvariant
  BY ExecutionStarts DEF Init, QueueHeld
<1>2. QueueHeld /\ ExecutionInvariant /\ [Next]_vars => QueueHeld' /\ ExecutionInvariant'
  BY QueueStep, StepKinds, ExecutionHolds
<1> QED
  BY <1>1, <1>2, PTL DEF Spec

(* Executions of this job and of others are counted apart. *)
LEMMA WorkCounted == ExecutionInvariant => WorkIsLeased
<1> SUFFICES ASSUME ExecutionInvariant
             PROVE  WorkIsLeased
  OBVIOUS
<1> DEFINE A == {e \in Executions : phase[e] \in Leased}
           B == {o \in Others : holder[o] = "holding"}
<1>1. \A e \in Executions : (phase[e] \in Leased) <=> (holder[e] = "holding")
  BY DEF ExecutionInvariant, LeaseAgrees
<1>2. Leases = A \cup B /\ A \cap B = {}
  BY <1>1, ExecutionsAssumption DEF Leases
<1>3. IsFiniteSet(A) /\ IsFiniteSet(B)
  BY ExecutionsAssumption, FS_Subset
<1>4. usage.runs = Cardinality(Leases) /\ usage.runs <= MaxRuns
  BY DEF ExecutionInvariant, LeasesCounted
<1> HIDE DEF A, B
<1>5. Cardinality(A \cup B) = Cardinality(A) + Cardinality(B)
  <2>1. Cardinality(A) \in Nat /\ Cardinality(B) \in Nat /\ Cardinality({}) = 0
    BY <1>3, FS_CardinalityType, FS_EmptySet
  <2>2. Cardinality(A \cup B) = Cardinality(A) + Cardinality(B) - Cardinality(A \cap B)
    BY <1>3, FS_Union
  <2>3. Cardinality(A \cap B) = 0
    BY <1>2, <2>1
  <2> QED
    BY <2>1, <2>2, <2>3
<1>6. Cardinality(A) + Cardinality(B) = usage.runs
  BY <1>2, <1>4, <1>5
<1> QED
  BY <1>1, <1>4, <1>6 DEF WorkIsLeased, A, B

-----------------------------------------------------------------------------
(* Interruption. *)

(* What a candidate without a route may be. *)
LEMMA FailureFacts ==
  /\ \A timed_out, error :
       LET c == failed_candidate(timed_out, error)
       IN  /\ ~c.feasible /\ c.proof = "none"
           /\ c.outcome = "timeout" => timed_out
           /\ c.outcome = "cancelled" => error = "cancelled" /\ ~timed_out
  /\ \A error :
       LET c == failed_candidate_from_error(error)
       IN  /\ ~c.feasible /\ c.proof # "optimal"
           /\ c.outcome = "timeout" => error = "timed_out"
           /\ c.outcome = "cancelled" => error = "cancelled"
<1>1. ASSUME NEW timed_out, NEW error
      PROVE  LET c == failed_candidate(timed_out, error)
             IN  /\ ~c.feasible /\ c.proof = "none"
                 /\ c.outcome = "timeout" => timed_out
                 /\ c.outcome = "cancelled" => error = "cancelled" /\ ~timed_out
  BY DEF failed_candidate, Routeless
<1>2. ASSUME NEW error
      PROVE  LET c == failed_candidate_from_error(error)
             IN  /\ ~c.feasible /\ c.proof # "optimal"
                 /\ c.outcome = "timeout" => error = "timed_out"
                 /\ c.outcome = "cancelled" => error = "cancelled"
  BY DEF failed_candidate_from_error, Routeless
<1> QED
  BY <1>1, <1>2

(* What is claimed when execution e ends with candidate c. *)
ClaimIsTrue(e, c) ==
  /\ reason[e] # 0 => (c.feasible => e \in Preserving) /\ c.proof # "optimal"
  /\ c.outcome = "cancelled" => e \in cancelled \/ (e \in Preserving /\ e \in expired)
  /\ c.outcome = "timeout" =>
       e \in expired \/ returned[e].late \/ returned[e].kind = "timed_out"

(* The judgement of join claims nothing else. *)
LEMMA JudgementIsTrue ==
  ASSUME ExecutionInvariant, NEW e \in Executions
  PROVE  ClaimIsTrue(e, CandidateOf(e))
<1>1. ReasonIsTrue(e) /\ reason[e] \in 0..2 /\ returned[e] \in Results
  BY DEF ExecutionInvariant, ExecutionTypes
<1>2. CASE reason[e] = 1 /\ e \notin Preserving
  <2>1. CandidateOf(e) = failed_candidate(TRUE, "timeout")
    BY <1>2 DEF CandidateOf
  <2> QED
    BY <1>1, <1>2, <2>1, FailureFacts DEF ClaimIsTrue, ReasonIsTrue
<1>3. CASE reason[e] = 2 /\ e \notin Preserving
  <2>1. CandidateOf(e) = failed_candidate(FALSE, "cancelled")
    BY <1>3 DEF CandidateOf
  <2> QED
    BY <1>1, <1>3, <2>1, FailureFacts DEF ClaimIsTrue, ReasonIsTrue
<1>4. CASE reason[e] = 0 \/ e \in Preserving
  <2> DEFINE o == returned[e]
  <2>1. CandidateOf(e) = Judged(e, o)
    <3>1. ~(reason[e] = 1 /\ e \notin Preserving) /\ ~(reason[e] = 2 /\ e \notin Preserving)
      BY <1>4
    <3> QED
      BY <3>1 DEF CandidateOf
  <2>2. CASE o.kind = "panic"
    <3>1. Judged(e, o) = failed_candidate(FALSE, "panic")
      BY <2>2 DEF Judged
    <3>2. LET c == CandidateOf(e)
          IN  /\ ~c.feasible /\ c.proof = "none"
              /\ c.outcome # "timeout" /\ c.outcome # "cancelled"
      BY <2>1, <3>1 DEF failed_candidate, Routeless
    <3> QED
      BY <3>2 DEF ClaimIsTrue
  <2>3. CASE o.kind = "evaluated"
    <3>1. Judged(e, o) = Feasible(e, o)
      BY <2>3 DEF Judged
    <3>2. /\ Feasible(e, o).outcome \in {"timeout", "completed"}
          /\ Feasible(e, o).outcome = "timeout" => o.late \/ reason[e] = 1
          /\ o.proof = "none" /\ reason[e] # 0 => Feasible(e, o).proof = "feasible"
      BY DEF Feasible
    <3> QED
      BY <1>1, <1>4, <2>1, <3>1, <3>2 DEF ClaimIsTrue, ReasonIsTrue
  <2>4. CASE o.kind = "rejected"
    <3>1. Judged(e, o) = Rejected(o)
      BY <2>4 DEF Judged
    <3> QED
      BY <2>1, <3>1 DEF ClaimIsTrue, Rejected
  <2>5. CASE o.kind \notin {"panic", "evaluated", "rejected"}
    <3>1. Judged(e, o) = failed_candidate_from_error(o.kind)
      BY <2>5 DEF Judged
    <3>2. o.kind = "cancelled" => e \in cancelled \/ (e \in Preserving /\ e \in expired)
      BY <1>1, <1>4 DEF ReasonIsTrue
    <3> QED
      BY <2>1, <3>1, <3>2, FailureFacts DEF ClaimIsTrue
  <2> QED
    BY <2>2, <2>3, <2>4, <2>5
<1> QED
  BY <1>1, <1>2, <1>3, <1>4

(* An execution ends with a candidate that claims only what happened. *)
LEMMA EndIsTrue ==
  ASSUME ExecutionInvariant, ExecutionStep, NEW e \in Executions, Completes(e)
  PROVE  ClaimIsTrue(e, candidate'[e])
<1>0. ExecutionTypes /\ ReasonIsTrue(e)
  BY DEF ExecutionInvariant
<1>1. ASSUME NEW d \in Executions, NEW c \in Candidates, Finish(d, c)
      PROVE  d = e /\ candidate'[e] = c
  BY <1>0, <1>1, FinishStep DEF Completes
<1>2. ASSUME NEW d \in Executions, Launch(d)
      PROVE  ClaimIsTrue(e, candidate'[e])
  <2>1. /\ phase[d] = "idle"
        /\ \/ phase' = [phase EXCEPT ![d] = "waiting"]
           \/ Finish(d, failed_candidate(FALSE, "invalid request"))
    BY <1>2 DEF Launch
  <2>2. phase' # [phase EXCEPT ![d] = "waiting"]
    BY <1>0 DEF Completes, ExecutionTypes
  <2>3. Finish(d, failed_candidate(FALSE, "invalid request"))
    BY <2>1, <2>2
  <2>4. d = e /\ candidate'[e] = failed_candidate(FALSE, "invalid request")
    BY <1>1, <2>3, CandidateTypes
  <2>5. reason[e] = 0
    BY <1>0, <2>1, <2>4 DEF ReasonIsTrue
  <2>6. candidate'[e].outcome = "failed"
    BY <2>4 DEF failed_candidate, Routeless
  <2> QED
    BY <2>5, <2>6 DEF ClaimIsTrue
<1>3. ASSUME NEW d \in Executions, lease_cancelled(d)
      PROVE  ClaimIsTrue(e, candidate'[e])
  <2>1. phase[d] = "waiting" /\ d \in cancelled /\ Finish(d, failed_candidate(FALSE, "cancelled"))
    BY <1>3 DEF lease_cancelled, R!wait_cancelled
  <2>2. d = e /\ candidate'[e] = failed_candidate(FALSE, "cancelled")
    BY <1>1, <2>1, CandidateTypes
  <2> QED
    BY <1>0, <2>1, <2>2, FailureFacts DEF ClaimIsTrue, ReasonIsTrue
<1>4. ASSUME NEW d \in Executions, lease_expired(d) \/ too_late(d)
      PROVE  ClaimIsTrue(e, candidate'[e])
  <2>1. /\ phase[d] \in {"waiting", "leased"} /\ d \in expired
        /\ Finish(d, failed_candidate(TRUE, "deadline"))
    BY <1>4 DEF lease_expired, R!wait_expired, too_late
  <2>2. d = e /\ candidate'[e] = failed_candidate(TRUE, "deadline")
    BY <1>1, <2>1, CandidateTypes
  <2> QED
    BY <1>0, <2>1, <2>2, FailureFacts DEF ClaimIsTrue, ReasonIsTrue
<1>5. ASSUME NEW d \in Executions, join(d)
      PROVE  ClaimIsTrue(e, candidate'[e])
  <2>1. Finish(d, CandidateOf(d)) /\ CandidateOf(d) \in Candidates
    BY <1>0, <1>5, CandidateType DEF join
  <2>2. d = e /\ candidate'[e] = CandidateOf(e)
    BY <1>1, <2>1
  <2> QED
    BY <2>2, JudgementIsTrue
<1>6. ASSUME NEW d \in Executions,
             lease_acquired(d) \/ start(d) \/ strategy_returns(d) \/ evaluate(d) \/ Watch(d)
      PROVE  FALSE
  <2>1. \/ phase' = phase
        \/ \E p \in {"leased", "running", "returned", "validating", "evaluating"} :
             phase' = [phase EXCEPT ![d] = p]
    BY <1>6 DEF lease_acquired, start, strategy_returns, evaluate, Watch, watch_parent,
                watch_timeout, watch_done, Interrupt
  <2> QED
    BY <1>0, <2>1 DEF Completes, ExecutionTypes
<1>7. ASSUME \/ CancelJob \/ (\E d \in Executions : TimePasses(d))
             \/ (\E o \in Others : OtherJob(o)) \/ UNCHANGED <<resourceVars, executionVars>>
      PROVE  FALSE
  <2>1. phase' = phase
    BY <1>7 DEF CancelJob, TimePasses, OtherJob, executionVars
  <2> QED
    BY <2>1 DEF Completes
<1> QED
  BY <1>2, <1>3, <1>4, <1>5, <1>6, <1>7 DEF ExecutionStep, Execute, Waiting

(* An interrupted strategy proves nothing and is usable only if it         *)
(* preserves its route, and a candidate that names a cancellation or a     *)
(* deadline has one behind it (execute_strategy, the watcher thread,       *)
(* failed_candidate).                                                      *)
THEOREM InterruptionIsHonest == Spec => InterruptedProvesNothing
<1>1. QueueHeld /\ ExecutionInvariant /\ [Next]_vars =>
        [\A e \in Executions : Completes(e) =>
           /\ reason[e] # 0 =>
                /\ candidate'[e].feasible => e \in Preserving
                /\ candidate'[e].proof # "optimal"
           /\ candidate'[e].outcome = "cancelled" =>
                e \in cancelled \/ (e \in Preserving /\ e \in expired)
           /\ candidate'[e].outcome = "timeout" =>
                e \in expired \/ returned[e].late \/ returned[e].kind = "timed_out"
        ]_<<resourceVars, executionVars>>
  BY StepKinds, EndIsTrue DEF ClaimIsTrue
<1> QED
  BY <1>1, ExecutionsAgree, PTL DEF Spec, InterruptedProvesNothing

-----------------------------------------------------------------------------
(* Who may be in a strategy, by what the solving thread waits for: nobody, *)
(* the exact solver, the workers of the batch, the last annealing run.     *)
InStrategy == {e \in Executions : phase[e] \notin {"idle", "done"}}

ThreadsHeld ==
  /\ pc \in {"start", "exact", "baseline", "batch", "annealing", "annealing run", "select",
             "returned"}
  /\ pc \in {"start", "baseline", "annealing", "select", "returned"} => InStrategy = {}
  /\ pc = "exact" => InStrategy \subseteq {Exact}
  /\ pc = "batch" => InStrategy \subseteq busy
  /\ pc = "annealing run" => InStrategy \subseteq {Annealings[Cardinality(AnnealingsDone)]}
  /\ pc # "batch" => free = 0 /\ busy = {}

(* A launched execution is in its strategy or done; no other one changes. *)
LEMMA LaunchPhase ==
  ASSUME ExecutionTypes, NEW e \in Executions, Launch(e)
  PROVE  /\ phase[e] = "idle" /\ phase'[e] # "idle"
         /\ \A d \in Executions : d # e => phase'[d] = phase[d]
         /\ InStrategy' \subseteq InStrategy \cup {e}
<1>1. /\ phase[e] = "idle"
      /\ \/ phase' = [phase EXCEPT ![e] = "waiting"]
         \/ phase' = [phase EXCEPT ![e] = "done"]
  BY DEF Launch, Finish
<1>2. phase'[e] # "idle" /\ \A d \in Executions : d # e => phase'[d] = phase[d]
  BY <1>1 DEF ExecutionTypes
<1> QED
  BY <1>1, <1>2 DEF InStrategy

(* A step of an execution is one of a strategy that was launched and not   *)
(* done, and does not make it one that was not launched.                   *)
LEMMA ExecutePhase ==
  ASSUME ExecutionTypes, NEW e \in Executions, Execute(e), ReasonIsTrue(e)
  PROVE  /\ InStrategy' \subseteq InStrategy
         /\ \A d \in Executions : phase[d] = "idle" <=> phase'[d] = "idle"
<1>1. \/ phase' = phase
      \/ /\ phase[e] \notin {"idle", "done"}
         /\ \E p \in Phases \ {"idle"} : phase' = [phase EXCEPT ![e] = p]
  <2>1. CASE Waiting(e) \/ too_late(e) \/ join(e) \/ start(e)
    BY <2>1 DEF Waiting, lease_cancelled, lease_expired, lease_acquired, too_late, join, start,
                Finish, Phases
  <2>2. CASE strategy_returns(e) \/ evaluate(e)
    BY <2>2 DEF strategy_returns, evaluate, Phases
  <2>3. CASE Watch(e)
    BY <2>3 DEF Watch, watch_parent, watch_timeout, watch_done, Interrupt
  <2> QED
    BY <2>1, <2>2, <2>3 DEF Execute
<1> QED
  BY <1>1 DEF InStrategy, ExecutionTypes

(* The steps that leave the phases alone. *)
LEMMA QuietThreads ==
  ASSUME UNCHANGED executionVars
  PROVE  InStrategy' = InStrategy /\ AnnealingsDone' = AnnealingsDone
BY DEF executionVars, InStrategy, AnnealingsDone

(* The run that was launched is the last one. *)
LEMMA AnnealingLaunched ==
  ASSUME ExecutionTypes, NEW e \in Executions, e = Annealings[Cardinality(AnnealingsDone) + 1],
         Cardinality(AnnealingsDone) < Len(Annealings), Launch(e)
  PROVE  /\ Cardinality(AnnealingsDone)' = Cardinality(AnnealingsDone) + 1
         /\ e = Annealings[Cardinality(AnnealingsDone)']
<1> DEFINE k == Cardinality(AnnealingsDone)
<1>1. k \in Nat /\ IsFiniteSet(AnnealingsDone)
  BY AnnealingsCounted
<1>2. e \in Range(Annealings)
  <2> HIDE DEF k
  <2>1. k + 1 \in DOMAIN Annealings
    BY <1>1, StrategiesAssumption DEF k
  <2> QED
    BY <2>1 DEF Range, k
<1>3. Range(Annealings) \subseteq Executions
  BY StrategiesAssumption DEF Range
<1>4. e \notin AnnealingsDone /\ AnnealingsDone' = AnnealingsDone \cup {e}
  <2> HIDE DEF k
  <2>1. /\ phase[e] = "idle" /\ phase'[e] # "idle"
        /\ \A d \in Executions : d # e => phase'[d] = phase[d]
    BY LaunchPhase
  <2>2. \A d \in Range(Annealings) : d # e => phase'[d] = phase[d]
    BY <2>1, <1>3
  <2> QED
    BY <1>2, <2>1, <2>2 DEF AnnealingsDone
<1>5. Cardinality(AnnealingsDone') = k + 1
  BY <1>1, <1>4, FS_AddElement
<1> QED
  BY <1>5

(* Every step of the solving thread waits for the threads it started. *)
LEMMA ThreadsStep ==
  QueueHeld /\ ExecutionInvariant /\ ThreadsHeld /\ [Next]_vars => ThreadsHeld'
<1> SUFFICES ASSUME QueueHeld, ExecutionInvariant, ThreadsHeld, [Next]_vars
             PROVE  ThreadsHeld'
  OBVIOUS
<1>0. ExecutionTypes /\ \A e \in Executions : ReasonIsTrue(e)
  BY DEF ExecutionInvariant
<1>1. CASE run_exact
  <2>1. InStrategy' \subseteq InStrategy \cup {Exact}
    BY <1>0, <1>1, LaunchPhase, StrategiesAssumption DEF run_exact
  <2> QED
    BY <1>1, <2>1 DEF run_exact, ThreadsHeld, Goto
<1>2. CASE run_annealing
  <2> DEFINE e == Annealings[Cardinality(AnnealingsDone) + 1]
  <2>1. Cardinality(AnnealingsDone) < Len(Annealings) /\ Launch(e)
    BY <1>2 DEF run_annealing
  <2>2. e \in Executions
    BY <2>1, NextAnnealing
  <2>3. InStrategy' \subseteq InStrategy \cup {e}
    BY <1>0, <2>1, <2>2, LaunchPhase
  <2>4. e = Annealings[Cardinality(AnnealingsDone)']
    BY <1>0, <2>1, <2>2, AnnealingLaunched
  <2> HIDE DEF e
  <2>5. pc = "annealing" /\ pc' = "annealing run" /\ free' = free /\ busy' = busy
    BY <1>2 DEF run_annealing, Goto
  <2> QED
    BY <2>3, <2>4, <2>5 DEF ThreadsHeld
<1>3. CASE take_task
  <2> DEFINE e == Head(queue)
  <2>1. e \in Executions /\ Launch(e) /\ free > 0 /\ pc' = pc /\ busy' = busy \cup {e}
    BY <1>3 DEF take_task, QueueHeld
  <2>2. pc = "batch"
    <3>1. pc # "batch" => free = 0
      BY DEF ThreadsHeld
    <3> QED
      BY <2>1, <3>1
  <2>3. InStrategy' \subseteq InStrategy \cup {e}
    BY <1>0, <2>1, LaunchPhase
  <2> QED
    BY <2>1, <2>2, <2>3 DEF ThreadsHeld
<1>4. CASE give_up_task \/ exit_worker
  <2>1. free > 0 /\ pc' = pc /\ busy' = busy /\ UNCHANGED executionVars
    BY <1>4 DEF give_up_task, exit_worker
  <2>2. pc = "batch"
    <3>1. pc # "batch" => free = 0
      BY DEF ThreadsHeld
    <3> QED
      BY <2>1, <3>1
  <2> QED
    BY <2>1, <2>2, QuietThreads DEF ThreadsHeld
<1>5. ASSUME NEW e \in busy, send_result(e)
      PROVE  ThreadsHeld'
  <2>1. /\ phase[e] = "done" /\ busy' = busy \ {e} /\ pc' = pc /\ UNCHANGED executionVars
    BY <1>5 DEF send_result
  <2>2. pc = "batch" /\ e \notin InStrategy
    BY <2>1 DEF ThreadsHeld, InStrategy
  <2> QED
    BY <2>1, <2>2, QuietThreads DEF ThreadsHeld
<1>6. CASE solve_registered \/ start_baselines
  <2>1. pc \in {"start", "baseline"} /\ pc' = "batch" /\ UNCHANGED executionVars
    BY <1>6 DEF solve_registered, start_baselines, StartBatch, Goto
  <2> QED
    BY <2>1, QuietThreads DEF ThreadsHeld
<1>7. CASE finish_baselines \/ finish_registered \/ registered_cancelled
  <2>1. /\ pc = "batch" /\ pc' \in {"annealing", "select", "returned"} /\ free = 0 /\ busy = {}
        /\ free' = free /\ busy' = busy /\ UNCHANGED executionVars
    BY <1>7 DEF finish_baselines, finish_registered, registered_cancelled, BatchDone, Joined,
                Goto, Return
  <2> QED
    BY <2>1, QuietThreads DEF ThreadsHeld
<1>8. CASE exact_done
  <2>1. /\ pc = "exact" /\ phase[Exact] = "done" /\ pc' \in {"select", "baseline"}
        /\ free' = free /\ busy' = busy /\ UNCHANGED executionVars
    BY <1>8 DEF exact_done, Goto
  <2>2. InStrategy = {}
    BY <2>1 DEF ThreadsHeld, InStrategy
  <2> QED
    BY <2>1, <2>2, QuietThreads DEF ThreadsHeld
<1>9. CASE annealing_done
  <2>1. /\ pc = "annealing run" /\ phase[Annealings[Cardinality(AnnealingsDone)]] = "done"
        /\ pc' = "annealing" /\ free' = free /\ busy' = busy /\ UNCHANGED executionVars
    BY <1>9 DEF annealing_done, Goto
  <2>2. InStrategy = {}
    BY <2>1 DEF ThreadsHeld, InStrategy
  <2> QED
    BY <2>1, <2>2, QuietThreads DEF ThreadsHeld
<1>10. CASE \/ solve_cancelled \/ skip_exact \/ baseline_cancelled \/ skip_baselines
            \/ stop_annealing \/ build
  <2>1. /\ pc \in {"start", "baseline", "annealing", "select"}
        /\ pc' \in {"baseline", "annealing", "select", "returned"}
        /\ free' = free /\ busy' = busy /\ UNCHANGED executionVars
    BY <1>10 DEF solve_cancelled, skip_exact, baseline_cancelled, skip_baselines,
                 stop_annealing, build, Goto, Return
  <2> QED
    BY <2>1, QuietThreads DEF ThreadsHeld
<1>11. CASE SpendBudget
  <2>1. pc' = pc /\ free' = free /\ busy' = busy /\ UNCHANGED executionVars
    BY <1>11 DEF SpendBudget
  <2> QED
    BY <2>1, QuietThreads DEF ThreadsHeld
<1>12. ASSUME NEW e \in Executions, Execute(e), UNCHANGED solveVars
       PROVE  ThreadsHeld'
  <2>1. /\ InStrategy' \subseteq InStrategy
        /\ \A d \in Executions : phase[d] = "idle" <=> phase'[d] = "idle"
    BY <1>0, <1>12, ExecutePhase
  <2>2. Range(Annealings) \subseteq Executions
    BY StrategiesAssumption DEF Range
  <2>3. AnnealingsDone' = AnnealingsDone
    BY <2>1, <2>2 DEF AnnealingsDone
  <2>4. pc' = pc /\ free' = free /\ busy' = busy
    BY <1>12 DEF solveVars
  <2> QED
    BY <2>1, <2>3, <2>4 DEF ThreadsHeld
<1>13. CASE (Environment /\ UNCHANGED solveVars) \/ UNCHANGED vars
  <2>1. pc' = pc /\ free' = free /\ busy' = busy /\ UNCHANGED executionVars
    BY <1>13 DEF Environment, CancelJob, TimePasses, OtherJob, solveVars, vars
  <2> QED
    BY <2>1, QuietThreads DEF ThreadsHeld
<1>14. CASE Solve
  BY <1>1, <1>2, <1>6, <1>7, <1>8, <1>9, <1>10, <1>14 DEF Solve
<1>15. CASE Work
  BY <1>3, <1>4, <1>5, <1>15 DEF Work
<1> QED
  BY <1>11, <1>12, <1>13, <1>14, <1>15 DEF Next

(* At every moment. *)
LEMMA ThreadsInvariant == Spec => []ThreadsHeld
<1>1. Init => ThreadsHeld
  BY DEF Init, ExecutionInit, ThreadsHeld, InStrategy
<1> QED
  BY <1>1, ThreadsStep, ExecutionsAgree, PTL DEF Spec

(* A strategy works only under a lease the manager counts, all jobs        *)
(* together never run more than max_concurrent_runs of them, and when the  *)
(* solve returns no thread of it is left and no lease is held, on every    *)
(* path: the parts of SolveInvariant that concern resources                *)
(* (solve_anytime, solve_registered, StrategyBatchExecutor).               *)
THEOREM WorkEndsWithTheSolve == Spec => [](WorkIsLeased /\ NothingLeftBehind)
<1>1. ExecutionInvariant /\ ThreadsHeld => NothingLeftBehind
  <2> SUFFICES ASSUME ExecutionInvariant, ThreadsHeld, pc = "returned", NEW e \in Executions
               PROVE  phase[e] \in {"idle", "done"} /\ holder[e] # "holding"
    BY DEF NothingLeftBehind
  <2>1. phase[e] \in {"idle", "done"}
    BY DEF ThreadsHeld, InStrategy
  <2> QED
    BY <2>1 DEF ExecutionInvariant, LeaseAgrees, Leased
<1> QED
  BY <1>1, ThreadsInvariant, ExecutionsAgree, WorkCounted, PTL

-----------------------------------------------------------------------------
(* Every nonempty set of natural numbers has a least element: where a fact *)
(* is to be shown by induction, its least counterexample is refuted.       *)
LEMMA LeastNatural ==
  ASSUME NEW T \in SUBSET Nat, T # {}
  PROVE  \E n \in T : \A m \in T : n <= m
<1> DEFINE L == OpToRel(<, Nat)
<1>1. IsWellFoundedOn(L, Nat)
  BY NatLessThanWellFounded
<1> HIDE DEF L
<1>2. PICK n \in T : \A m \in T : <<m, n>> \notin L
  BY <1>1, WFMin
<1>3. \A m \in T : <<m, n>> \in L <=> m < n
  BY DEF L, OpToRel
<1>4. \A m \in T : m \in Nat /\ n \in Nat /\ ~(m < n)
  BY <1>2, <1>3
<1>5. \A m \in T : n <= m
  BY <1>4
<1> QED
  BY <1>5

(* Where the strategies stand in the order of a solve. *)
LEMMA OrderFacts ==
  /\ Registered \in Seq(Executions) /\ Order \in Seq(Executions)
  /\ Len(Registered) = 1 + Len(Baselines)
  /\ Len(Order) = 1 + Len(Baselines) + Len(Annealings)
  /\ Registered[1] = Exact
  /\ \A i \in 1..Len(Baselines) : Registered[i + 1] = Baselines[i]
  /\ \A i \in 1..Len(Registered) : Order[i] = Registered[i]
  /\ \A i \in 1..Len(Annealings) : Order[Len(Registered) + i] = Annealings[i]
  /\ Len(Baselines) \in Nat /\ Len(Annealings) \in Nat
<1>1. /\ <<Exact>> \in Seq(Executions) /\ Baselines \in Seq(Executions)
      /\ Annealings \in Seq(Executions) /\ Len(<<Exact>>) = 1 /\ <<Exact>>[1] = Exact
  BY StrategiesAssumption
<1>2. /\ Registered \in Seq(Executions) /\ Len(Registered) = 1 + Len(Baselines)
      /\ Len(Baselines) \in Nat /\ Len(Annealings) \in Nat
  BY <1>1 DEF Registered
<1>3. Registered[1] = Exact /\ \A i \in 1..Len(Baselines) : Registered[i + 1] = Baselines[i]
  BY <1>1, <1>2 DEF Registered
<1> HIDE DEF Registered
<1>4. Order \in Seq(Executions) /\ Len(Order) = Len(Registered) + Len(Annealings)
  BY <1>1, <1>2 DEF Order
<1>5. \A i \in 1..Len(Registered) : Order[i] = Registered[i]
  BY <1>1, <1>2 DEF Order
<1>6. \A i \in 1..Len(Annealings) : Order[Len(Registered) + i] = Annealings[i]
  BY <1>1, <1>2 DEF Order
<1> QED
  BY <1>2, <1>3, <1>4, <1>5, <1>6

(* A position is found again. *)
LEMMA PositionAt ==
  /\ \A i \in 1..Len(Order) : Position(Order[i]) = i
  /\ \A e \in Range(Order) : Position(e) \in 1..Len(Order) /\ Order[Position(e)] = e
<1>1. DOMAIN Order = 1..Len(Order)
  BY OrderFacts
<1>2. \A i \in 1..Len(Order) : Position(Order[i]) = i
  BY <1>1, OrderAssumption DEF Position, IsInjective
<1> QED
  BY <1>1, <1>2 DEF Range

(* The positions of the three kinds of strategies. *)
LEMMA Positions ==
  /\ Position(Exact) = 1 /\ Exact \in Range(Order)
  /\ \A e \in Range(Registered) : e \in Range(Order) /\ Position(e) \in 1..Len(Registered)
  /\ \A e \in Range(Baselines) :
       e \in Range(Order) /\ Position(e) \in 2..Len(Registered) /\ e \in Range(Registered)
  /\ \A k \in 1..Len(Annealings) :
       Annealings[k] \in Range(Order) /\ Position(Annealings[k]) = Len(Registered) + k
<1>1. /\ DOMAIN Order = 1..Len(Order) /\ DOMAIN Registered = 1..Len(Registered)
      /\ DOMAIN Baselines = 1..Len(Baselines)
  BY OrderFacts, StrategiesAssumption
<1>2. \A i \in 1..Len(Order) : Position(Order[i]) = i /\ Order[i] \in Range(Order)
  BY <1>1, PositionAt DEF Range
<1>3. \A i \in 1..Len(Registered) :
        Registered[i] \in Range(Order) /\ Position(Registered[i]) = i
  BY <1>2, OrderFacts
<1>4. Position(Exact) = 1 /\ Exact \in Range(Order)
  BY <1>3, OrderFacts
<1>5. \A e \in Range(Registered) : e \in Range(Order) /\ Position(e) \in 1..Len(Registered)
  BY <1>1, <1>3 DEF Range
<1>6. \A e \in Range(Baselines) :
        e \in Range(Order) /\ Position(e) \in 2..Len(Registered) /\ e \in Range(Registered)
  <2> SUFFICES ASSUME NEW i \in 1..Len(Baselines)
               PROVE  /\ Baselines[i] \in Range(Order) /\ Baselines[i] \in Range(Registered)
                      /\ Position(Baselines[i]) \in 2..Len(Registered)
    BY <1>1 DEF Range
  <2>1. Baselines[i] = Registered[i + 1] /\ i + 1 \in 2..Len(Registered)
    BY OrderFacts
  <2>2. i + 1 \in 1..Len(Registered)
    BY <2>1
  <2> QED
    BY <1>1, <1>3, <2>1, <2>2 DEF Range
<1>7. \A k \in 1..Len(Annealings) :
        Annealings[k] \in Range(Order) /\ Position(Annealings[k]) = Len(Registered) + k
  <2> TAKE k \in 1..Len(Annealings)
  <2>1. Len(Registered) + k \in 1..Len(Order) /\ Annealings[k] = Order[Len(Registered) + k]
    BY OrderFacts
  <2> QED
    BY <1>2, <2>1
<1> QED
  BY <1>4, <1>5, <1>6, <1>7

-----------------------------------------------------------------------------
(* Back in registration order. *)
Sorted(s) == \A i, j \in DOMAIN s : i < j => Position(s[i]) < Position(s[j])

(* Of finitely many strategies one stands last. *)
LEMMA LastOne ==
  ASSUME NEW S \in SUBSET Range(Order), S # {}
  PROVE  \E e \in S : \A d \in S : Position(d) <= Position(e)
<1> DEFINE n == Len(Order)
           T == {n - Position(e) : e \in S}
<1>1. n \in Nat /\ \A e \in S : Position(e) \in 1..n
  BY OrderFacts, PositionAt
<1> HIDE DEF n
<1>2. T \in SUBSET Nat /\ T # {}
  BY <1>1
<1>3. PICK t \in T : \A m \in T : t <= m
  <2> HIDE DEF T
  <2> QED
    BY <1>2, LeastNatural
<1>4. PICK e \in S : t = n - Position(e)
  OBVIOUS
<1>5. \A d \in S : n - Position(e) <= n - Position(d)
  BY <1>3, <1>4
<1> QED
  BY <1>1, <1>5

(* Strategies can be brought into order. *)
LEMMA OrderExists ==
  ASSUME NEW S \in SUBSET Range(Order), IsFiniteSet(S)
  PROVE  \E s \in [1..Cardinality(S) -> S] : Sorted(s)
<1> DEFINE Has(Z) == \E s \in [1..Cardinality(Z) -> Z] : Sorted(s)
           Bad == {Z \in SUBSET S : ~Has(Z)}
           Sizes == {Cardinality(Z) : Z \in Bad}
<1> SUFFICES ASSUME Bad # {}
             PROVE  FALSE
  OBVIOUS
<1>1. \A Z \in SUBSET S : IsFiniteSet(Z) /\ Cardinality(Z) \in Nat
  BY FS_Subset, FS_CardinalityType
<1>2. PICK Z \in Bad : \A Y \in Bad : Cardinality(Z) <= Cardinality(Y)
  <2>1. Sizes \in SUBSET Nat /\ Sizes # {}
    BY <1>1
  <2>2. PICK n \in Sizes : \A m \in Sizes : n <= m
    <3> HIDE DEF Sizes
    <3> QED
      BY <2>1, LeastNatural
  <2> QED
    BY <2>2
<1>3. Z \in SUBSET S /\ ~Has(Z) /\ IsFiniteSet(Z) /\ Cardinality(Z) \in Nat
  BY <1>1
<1>4. Z # {}
  <2> SUFFICES ASSUME Z = {}
               PROVE  FALSE
    OBVIOUS
  <2>1. Cardinality(Z) = 0
    BY FS_EmptySet
  <2>2. [i \in 1..0 |-> i] \in [1..Cardinality(Z) -> Z] /\ Sorted([i \in 1..0 |-> i])
    BY <2>1 DEF Sorted
  <2> QED
    BY <1>3, <2>2
<1>5. PICK e \in Z : \A d \in Z : Position(d) <= Position(e)
  BY <1>3, <1>4, LastOne
<1> DEFINE Y == Z \ {e}
           n == Cardinality(Z)
<1>6. n \in Nat /\ Cardinality(Y) = n - 1 /\ Y \in SUBSET S /\ Cardinality(Y) \in Nat
  BY <1>1, <1>3, FS_RemoveElement
<1>7. Has(Y)
  <2> SUFFICES ASSUME ~Has(Y)
               PROVE  FALSE
    OBVIOUS
  <2>1. Y \in Bad
    BY <1>6
  <2>2. n <= Cardinality(Y)
    BY <1>2, <2>1
  <2> HIDE DEF n, Y
  <2> QED
    BY <1>6, <2>2
<1>8. PICK s \in [1..(n - 1) -> Y] : Sorted(s)
  BY <1>6, <1>7
<1> DEFINE r == [i \in 1..n |-> IF i = n THEN e ELSE s[i]]
<1>9. \A d \in Y : Position(d) < Position(e)
  <2> TAKE d \in Y
  <2>1. d \in Range(Order) /\ e \in Range(Order) /\ d # e /\ Position(d) <= Position(e)
    BY <1>3, <1>5
  <2> QED
    BY <2>1, PositionAt
<1>10. \A i \in 1..n : i # n => i \in 1..(n - 1) /\ s[i] \in Y
  <2> HIDE DEF Y, n
  <2> QED
    BY <1>6, <1>8
<1>11. r \in [1..n -> Z]
  BY <1>5, <1>10
<1>12. Sorted(r)
  <2> SUFFICES ASSUME NEW i \in 1..n, NEW j \in 1..n, i < j
               PROVE  Position(r[i]) < Position(r[j])
    BY DEF Sorted
  <2>1. i # n
    <3> HIDE DEF n
    <3> QED
      BY <1>6
  <2>2. r[i] = s[i] /\ s[i] \in Y /\ i \in 1..(n - 1)
    BY <1>10, <2>1
  <2>3. CASE j = n
    BY <1>9, <2>2, <2>3
  <2>4. CASE j # n
    <3>1. r[j] = s[j] /\ j \in 1..(n - 1)
      BY <1>10, <2>4
    <3> QED
      BY <1>8, <2>2, <3>1 DEF Sorted
  <2> QED
    BY <2>3, <2>4
<1> QED
  BY <1>3, <1>11, <1>12

(* InOrder sorts what has arrived and loses nothing of it. *)
LEMMA InOrderSorts ==
  ASSUME NEW es \in Seq(Executions), Range(es) \subseteq Range(Order)
  PROVE  /\ InOrder(es) \in Seq(Executions) /\ Sorted(InOrder(es))
         /\ Range(InOrder(es)) = Range(es)
<1> DEFINE S == Range(es)
           n == Cardinality(S)
           s == InOrder(es)
<1>1. S \subseteq Executions
  BY DEF Range
<1>2. IsFiniteSet(S) /\ n \in Nat
  BY <1>1, ExecutionsAssumption, FS_Subset, FS_CardinalityType
<1>3. s \in [1..n -> S] /\ Sorted(s)
  <2>1. \E r \in [1..n -> S] : Sorted(r)
    BY <1>2, OrderExists
  <2> HIDE DEF S, n
  <2> QED
    BY <2>1 DEF InOrder, Sorted, S, n
<1> HIDE DEF s
<1>4. s \in Injection(1..n, S)
  <2> SUFFICES ASSUME NEW i \in 1..n, NEW j \in 1..n, s[i] = s[j]
               PROVE  i = j
    BY <1>3 DEF Injection, IsInjective
  <2>1. s[i] \in Range(Order) /\ Position(s[i]) \in 1..Len(Order) /\ Len(Order) \in Nat
    BY <1>3, PositionAt, OrderFacts
  <2>2. i < j => Position(s[i]) < Position(s[j])
    BY <1>3 DEF Sorted
  <2>3. j < i => Position(s[j]) < Position(s[i])
    BY <1>3 DEF Sorted
  <2> HIDE DEF n
  <2> QED
    BY <1>2, <2>1, <2>2, <2>3
<1>5. s \in Surjection(1..n, S)
  <2>1. Cardinality(1..n) = n
    <3> HIDE DEF n
    <3> QED
      BY <1>2, FS_Interval
  <2> QED
    BY <1>2, <1>4, <2>1, FS_Injection
<1>6. Range(s) = S
  <2>1. DOMAIN s = 1..n
    BY <1>3
  <2> QED
    BY <1>3, <1>5, <2>1 DEF Surjection, Range
<1>7. s \in Seq(Executions)
  <2> HIDE DEF S, n
  <2> QED
    BY <1>1, <1>2, <1>3
<1> QED
  BY <1>3, <1>6, <1>7 DEF s
-----------------------------------------------------------------------------
(* The running best.  It is folded over the new candidates: the recursion  *)
(* by which the library does so, and that it has a solution.               *)
Considered(b, es) == FoldLeft(consider, b, es)

RecBest(b, es, g) ==
  [s \in SUBSET DOMAIN es |->
     IF s = {} THEN b ELSE consider(g[s \ {Max(s)}], es[Max(s)])]

(* The fold of the library is the value of that recursion. *)
LEMMA FoldIsRec ==
  ASSUME NEW b, NEW es
  PROVE  Considered(b, es) = (CHOOSE g : g = RecBest(b, es, g))[DOMAIN es]
BY DEF Considered, FoldLeft, MapThenFoldSet, RecBest

SmallSubsets(S, n) == {s \in SUBSET S : Cardinality(s) <= n}

FoldsUp(b, es, D, g) ==
  \A s \in D : g[s] = IF s = {} THEN b ELSE consider(g[s \ {Max(s)}], es[Max(s)])

(* What the recursion needs of the subsets of the indices. *)
LEMMA IndexSets ==
  ASSUME NEW n \in Nat, NEW s \in SUBSET (1..n)
  PROVE  /\ Cardinality(s) \in Nat /\ Cardinality(s) <= n
         /\ Cardinality(s) = 0 <=> s = {}
         /\ s # {} => /\ Max(s) \in s /\ s \ {Max(s)} \in SUBSET (1..n)
                      /\ Cardinality(s \ {Max(s)}) = Cardinality(s) - 1
<1>1. IsFiniteSet(1..n) /\ Cardinality(1..n) = n
  BY FS_Interval
<1>2. IsFiniteSet(s) /\ Cardinality(s) \in Nat /\ Cardinality(s) <= n
  BY <1>1, FS_Subset, FS_CardinalityType
<1>3. Cardinality(s) = 0 <=> s = {}
  BY <1>2, FS_EmptySet
<1>4. ASSUME s # {}
      PROVE  Max(s) \in s
  <2> DEFINE T == {n - i : i \in s}
  <2>1. T \in SUBSET Nat /\ T # {}
    <3>1. \A i \in s : n - i \in Nat
      OBVIOUS
    <3> QED
      BY <1>4, <3>1
  <2>2. PICK t \in T : \A m \in T : t <= m
    <3> HIDE DEF T
    <3> QED
      BY <2>1, LeastNatural
  <2>3. PICK i \in s : t = n - i
    OBVIOUS
  <2>4. \A j \in s : i \in 1..n /\ j \in 1..n /\ n - i <= n - j
    BY <2>2, <2>3
  <2>5. \A j \in s : i >= j
    BY <2>4
  <2> QED
    BY <2>5 DEF Max
<1>5. ASSUME s # {}
      PROVE  Cardinality(s \ {Max(s)}) = Cardinality(s) - 1
  BY <1>2, <1>4, <1>5, FS_RemoveElement
<1> QED
  BY <1>2, <1>3, <1>4, <1>5

(* The recursion has a solution on the sets of at most n indices. *)
LEMMA FoldExists ==
  ASSUME NEW b, NEW es \in Seq(Executions), NEW n \in Nat
  PROVE  \E g : FoldsUp(b, es, SmallSubsets(1..Len(es), n), g)
<1> DEFINE l == Len(es)
           D(k) == SmallSubsets(1..l, k)
           Has(k) == \E g : FoldsUp(b, es, D(k), g)
           T == {k \in Nat : ~Has(k)}
<1> SUFFICES ASSUME T # {}
             PROVE  FALSE
  OBVIOUS
<1>0. l \in Nat
  OBVIOUS
<1> HIDE DEF l
<1>1. PICK k \in T : \A m \in T : k <= m
  <2>1. T \in SUBSET Nat
    OBVIOUS
  <2> HIDE DEF T
  <2> QED
    BY <2>1, LeastNatural
<1>2. k \in Nat /\ ~Has(k)
  OBVIOUS
<1>3. k # 0
  <2> SUFFICES ASSUME k = 0
               PROVE  FALSE
    OBVIOUS
  <2>1. \A s \in D(k) : s = {}
    <3> TAKE s \in D(k)
    <3>1. s \in SUBSET (1..l) /\ Cardinality(s) <= 0
      BY DEF SmallSubsets
    <3>2. Cardinality(s) \in Nat /\ (Cardinality(s) = 0 <=> s = {})
      BY <1>0, <3>1, IndexSets
    <3> QED
      BY <3>1, <3>2
  <2>2. FoldsUp(b, es, D(k), [s \in D(k) |-> b])
    BY <2>1 DEF FoldsUp
  <2> QED
    BY <1>2, <2>2
<1>4. k - 1 \in Nat /\ Has(k - 1)
  <2>1. k - 1 \in Nat /\ ~(k <= k - 1)
    BY <1>2, <1>3
  <2> QED
    BY <1>1, <2>1
<1>5. PICK g : FoldsUp(b, es, D(k - 1), g)
  BY <1>4
<1> DEFINE h == [s \in D(k) |-> IF s = {} THEN b ELSE consider(g[s \ {Max(s)}], es[Max(s)])]
<1>6. \A s \in D(k) : s # {} => s \ {Max(s)} \in D(k - 1)
  <2> SUFFICES ASSUME NEW s \in D(k), s # {}
               PROVE  s \ {Max(s)} \in D(k - 1)
    OBVIOUS
  <2>1. s \in SUBSET (1..l) /\ Cardinality(s) <= k
    BY DEF SmallSubsets
  <2>2. /\ Cardinality(s) \in Nat /\ s \ {Max(s)} \in SUBSET (1..l)
        /\ Cardinality(s \ {Max(s)}) = Cardinality(s) - 1
    BY <1>0, <2>1, IndexSets
  <2>3. Cardinality(s \ {Max(s)}) <= k - 1
    BY <1>2, <2>1, <2>2
  <2> QED
    BY <2>2, <2>3 DEF SmallSubsets
<1>7. \A s \in D(k - 1) : s \in D(k) /\ h[s] = g[s]
  <2> TAKE s \in D(k - 1)
  <2>1. s \in D(k)
    <3>1. s \in SUBSET (1..l) /\ Cardinality(s) <= k - 1
      BY DEF SmallSubsets
    <3>2. Cardinality(s) \in Nat
      BY <1>0, <3>1, IndexSets
    <3>3. Cardinality(s) <= k
      BY <1>2, <3>1, <3>2
    <3> QED
      BY <3>1, <3>3 DEF SmallSubsets
  <2>2. h[s] = IF s = {} THEN b ELSE consider(g[s \ {Max(s)}], es[Max(s)])
    BY <2>1
  <2>3. g[s] = IF s = {} THEN b ELSE consider(g[s \ {Max(s)}], es[Max(s)])
    BY <1>5 DEF FoldsUp
  <2> QED
    BY <2>1, <2>2, <2>3
<1>8. FoldsUp(b, es, D(k), h)
  <2> SUFFICES ASSUME NEW s \in D(k)
               PROVE  h[s] = IF s = {} THEN b ELSE consider(h[s \ {Max(s)}], es[Max(s)])
    BY DEF FoldsUp
  <2>1. h[s] = IF s = {} THEN b ELSE consider(g[s \ {Max(s)}], es[Max(s)])
    OBVIOUS
  <2>2. s # {} => h[s \ {Max(s)}] = g[s \ {Max(s)}]
    BY <1>6, <1>7
  <2> HIDE DEF h
  <2> QED
    BY <2>1, <2>2
<1> QED
  BY <1>2, <1>8

(* The fold takes the candidates one by one, in their order. *)
LEMMA FoldStepwise ==
  ASSUME NEW b, NEW es \in Seq(Executions)
  PROVE  \E f : /\ f[0] = b /\ f[Len(es)] = Considered(b, es)
                /\ \A k \in 1..Len(es) : f[k] = consider(f[k - 1], es[k])
<1> DEFINE l == Len(es)
           c == CHOOSE g : g = RecBest(b, es, g)
<1>0. l \in Nat /\ DOMAIN es = 1..l
  OBVIOUS
<1> HIDE DEF l
<1>1. SmallSubsets(1..l, l) = SUBSET (1..l)
  BY <1>0, IndexSets DEF SmallSubsets
<1>2. PICK g : FoldsUp(b, es, SUBSET (1..l), g)
  <2>1. \E g : FoldsUp(b, es, SmallSubsets(1..Len(es), l), g)
    BY <1>0, FoldExists
  <2> QED
    BY <1>1, <2>1 DEF l
<1> DEFINE h == [s \in SUBSET (1..l) |-> g[s]]
<1>3. h = RecBest(b, es, h)
  <2>1. \A s \in SUBSET (1..l) : s # {} => s \ {Max(s)} \in SUBSET (1..l)
    OBVIOUS
  <2>2. \A s \in SUBSET (1..l) : s # {} => h[s \ {Max(s)}] = g[s \ {Max(s)}]
    BY <2>1
  <2>3. \A s \in SUBSET (1..l) :
          h[s] = IF s = {} THEN b ELSE consider(h[s \ {Max(s)}], es[Max(s)])
    BY <1>2, <2>2 DEF FoldsUp
  <2>4. h = [s \in SUBSET (1..l) |-> h[s]]
    OBVIOUS
  <2> HIDE DEF h
  <2> QED
    BY <1>0, <2>3, <2>4 DEF RecBest
<1>4. c = RecBest(b, es, c)
  <2> HIDE DEF h
  <2> QED
    BY <1>3
<1>5. Considered(b, es) = c[1..l]
  BY <1>0, FoldIsRec
<1> HIDE DEF c
<1>6. \A s \in SUBSET (1..l) :
        c[s] = IF s = {} THEN b ELSE consider(c[s \ {Max(s)}], es[Max(s)])
  BY <1>0, <1>4 DEF RecBest
<1>7. ASSUME NEW k \in 1..l
      PROVE  c[1..k] = consider(c[1..(k - 1)], es[k])
  <2>1. 1..k \in SUBSET (1..l) /\ 1..k # {} /\ (1..k) \ {k} = 1..(k - 1)
    BY <1>0
  <2>2. Max(1..k) = k
    <3>1. k \in 1..k /\ \A y \in 1..k : k >= y
      OBVIOUS
    <3>2. \A x \in 1..k : (\A y \in 1..k : x >= y) => x = k
      OBVIOUS
    <3> QED
      BY <3>1, <3>2 DEF Max
  <2> QED
    BY <1>6, <2>1, <2>2
<1> DEFINE f == [k \in 0..l |-> c[1..k]]
<1>8. f[0] = b
  <2>1. 1..0 = {} /\ {} \in SUBSET (1..l) /\ 0 \in 0..l
    BY <1>0
  <2> QED
    BY <1>6, <2>1
<1>9. f[l] = Considered(b, es)
  BY <1>0, <1>5
<1>10. \A k \in 1..l : f[k] = consider(f[k - 1], es[k])
  <2> TAKE k \in 1..l
  <2>1. k \in 0..l /\ k - 1 \in 0..l
    BY <1>0
  <2>2. f[k] = c[1..k] /\ f[k - 1] = c[1..(k - 1)]
    BY <2>1
  <2> QED
    BY <1>7, <2>2
<1> HIDE DEF f
<1> QED
  BY <1>8, <1>9, <1>10 DEF l

(* b is the first of the best among the first k of s, if any is feasible. *)
BestOf(b, s, k) ==
  \/ b = NoBest /\ \A i \in 1..k : ~candidate[s[i]].feasible
  \/ \E i \in 1..k :
       /\ b = s[i] /\ candidate[s[i]].feasible
       /\ \A j \in 1..k : candidate[s[j]].feasible =>
            \/ candidate[s[i]].score < candidate[s[j]].score
            \/ candidate[s[i]].score = candidate[s[j]].score /\ i <= j

(* One more candidate is considered. *)
LEMMA ConsiderKeeps ==
  ASSUME NEW s \in Seq(Executions), NEW k \in Nat, k + 1 \in DOMAIN s, NEW b, BestOf(b, s, k),
         \A e \in Executions : candidate[e].score \in Int
  PROVE  BestOf(consider(b, s[k + 1]), s, k + 1)
<1> DEFINE e == s[k + 1]
<1>1. \A i \in 1..(k + 1) : i \in DOMAIN s /\ s[i] \in Executions /\ s[i] # NoBest
  BY StrategiesAssumption DEF NoBest
<1>2. \A i \in 1..(k + 1) : candidate[s[i]].score \in Int
  BY <1>1
<1>3. \A i \in 1..(k + 1) : i \in 1..k \/ i = k + 1
  OBVIOUS
<1>4. k + 1 \in 1..(k + 1) /\ \A i \in 1..k : i \in 1..(k + 1) /\ i <= k + 1 /\ i # k + 1
  OBVIOUS
<1>5. CASE b = NoBest /\ \A i \in 1..k : ~candidate[s[i]].feasible
  <2>1. CASE candidate[e].feasible
    <3>1. consider(b, e) = e
      BY <1>5, <2>1 DEF consider
    <3>2. \A j \in 1..(k + 1) : candidate[s[j]].feasible => j = k + 1
      BY <1>3, <1>5
    <3>3. \A j \in 1..(k + 1) : candidate[s[j]].feasible =>
            candidate[e].score = candidate[s[j]].score /\ k + 1 <= j
      BY <3>2
    <3> QED
      BY <1>4, <2>1, <3>1, <3>3 DEF BestOf
  <2>2. CASE ~candidate[e].feasible
    <3>1. consider(b, e) = NoBest
      BY <1>5, <2>2 DEF consider
    <3> QED
      BY <1>3, <1>5, <2>2, <3>1 DEF BestOf
  <2> QED
    BY <2>1, <2>2
<1>6. ASSUME NEW i \in 1..k, b = s[i], candidate[s[i]].feasible,
             \A j \in 1..k : candidate[s[j]].feasible =>
               \/ candidate[s[i]].score < candidate[s[j]].score
               \/ candidate[s[i]].score = candidate[s[j]].score /\ i <= j
      PROVE  BestOf(consider(b, e), s, k + 1)
  <2>0. b # NoBest /\ i \in 1..(k + 1) /\ candidate[s[i]].score \in Int
        /\ candidate[e].score \in Int
    BY <1>1, <1>2, <1>4, <1>6
  <2>1. CASE candidate[e].feasible /\ candidate[e].score < candidate[b].score
    <3>1. consider(b, e) = e
      BY <2>1 DEF consider
    <3>2. ASSUME NEW j \in 1..(k + 1), candidate[s[j]].feasible
          PROVE  \/ candidate[e].score < candidate[s[j]].score
                 \/ candidate[e].score = candidate[s[j]].score /\ k + 1 <= j
      <4>1. CASE j = k + 1
        BY <4>1
      <4>2. CASE j \in 1..k
        <5>1. \/ candidate[s[i]].score < candidate[s[j]].score
              \/ candidate[s[i]].score = candidate[s[j]].score
          BY <1>6, <3>2, <4>2
        <5>2. candidate[s[j]].score \in Int
          BY <1>2, <4>2
        <5>3. candidate[e].score < candidate[s[i]].score
          BY <1>6, <2>1
        <5> QED
          BY <2>0, <5>1, <5>2, <5>3
      <4> QED
        BY <1>3, <4>1, <4>2
    <3> QED
      BY <1>4, <2>1, <3>1, <3>2 DEF BestOf
  <2>2. CASE ~(candidate[e].feasible /\ candidate[e].score < candidate[b].score)
    <3>1. consider(b, e) = b
      BY <2>0, <2>2 DEF consider
    <3>2. ASSUME NEW j \in 1..(k + 1), candidate[s[j]].feasible
          PROVE  \/ candidate[s[i]].score < candidate[s[j]].score
                 \/ candidate[s[i]].score = candidate[s[j]].score /\ i <= j
      <4>1. CASE j = k + 1
        <5>1. ~(candidate[e].score < candidate[s[i]].score)
          BY <1>6, <2>2, <3>2, <4>1
        <5> QED
          BY <1>4, <2>0, <4>1, <5>1
      <4>2. CASE j \in 1..k
        BY <1>6, <3>2, <4>2
      <4> QED
        BY <1>3, <4>1, <4>2
    <3> QED
      BY <1>6, <2>0, <3>1, <3>2 DEF BestOf
  <2> QED
    BY <2>1, <2>2
<1> QED
  BY <1>5, <1>6 DEF BestOf

(* Only the first k of s matter, and of them what became of them. *)
LEMMA BestOfPrefix ==
  ASSUME NEW s, NEW t, NEW k \in Nat, \A i \in 1..k : s[i] = t[i], NEW b, BestOf(b, s, k)
  PROVE  BestOf(b, t, k)
BY DEF BestOf

(* The fold over the new candidates keeps the best of all. *)
LEMMA AccumulateKeeps ==
  ASSUME NEW s \in Seq(Executions), NEW es \in Seq(Executions), NEW b, BestOf(b, s, Len(s)),
         \A e \in Executions : candidate[e].score \in Int
  PROVE  BestOf(Considered(b, es), s \o es, Len(s \o es))
<1> DEFINE t == s \o es
           n == Len(s)
           l == Len(es)
<1>1. /\ n \in Nat /\ l \in Nat /\ t \in Seq(Executions) /\ Len(t) = n + l
      /\ DOMAIN t = 1..(n + l)
      /\ \A i \in 1..n : t[i] = s[i]
  OBVIOUS
<1>2. \A k \in 1..l : t[n + k] = es[k]
  OBVIOUS
<1>3. PICK f : /\ f[0] = b /\ f[l] = Considered(b, es)
               /\ \A k \in 1..l : f[k] = consider(f[k - 1], es[k])
  BY FoldStepwise
<1> HIDE DEF n, l, t
<1> DEFINE Bad == {k \in 0..l : ~BestOf(f[k], t, n + k)}
<1>4. Bad = {}
  <2> SUFFICES ASSUME Bad # {}
               PROVE  FALSE
    OBVIOUS
  <2>1. PICK k \in Bad : \A m \in Bad : k <= m
    <3>1. Bad \in SUBSET Nat
      BY <1>1
    <3> HIDE DEF Bad
    <3> QED
      BY <3>1, LeastNatural
  <2>2. k \in 0..l /\ ~BestOf(f[k], t, n + k)
    OBVIOUS
  <2>3. k # 0
    <3>1. BestOf(b, t, n)
      BY <1>1, BestOfPrefix DEF n
    <3>2. n + 0 = n
      BY <1>1
    <3> QED
      BY <1>3, <2>2, <3>1, <3>2
  <2>4. k \in 1..l /\ k - 1 \in 0..l /\ ~(k <= k - 1)
    BY <1>1, <2>2, <2>3
  <2>5. BestOf(f[k - 1], t, n + (k - 1))
    BY <2>1, <2>4
  <2>6. n + (k - 1) \in Nat /\ n + (k - 1) + 1 = n + k /\ n + k \in DOMAIN t
    BY <1>1, <2>4
  <2>7. BestOf(consider(f[k - 1], t[n + k]), t, n + k)
    BY <1>1, <2>5, <2>6, ConsiderKeeps
  <2>8. f[k] = consider(f[k - 1], t[n + k])
    BY <1>2, <1>3, <2>4
  <2> QED
    BY <2>2, <2>7, <2>8
<1>5. BestOf(f[l], t, n + l)
  <2>1. l \in 0..l
    BY <1>1
  <2> QED
    BY <1>4, <2>1
<1> QED
  BY <1>1, <1>3, <1>5 DEF t

(* The selector and the running best agree. *)
LEMMA SelectIsBest ==
  ASSUME candidates \in Seq(Executions), BestOf(best, candidates, Len(candidates)),
         \A e \in Executions : candidate[e].score \in Int
  PROVE  select = IF best = NoBest THEN "no_feasible_route" ELSE best
<1> DEFINE n == Len(candidates)
<1>0. n \in Nat /\ DOMAIN candidates = 1..n
  OBVIOUS
<1>1. \A i \in 1..n : candidates[i] \in Executions /\ candidates[i] # NoBest
  BY <1>0, StrategiesAssumption DEF NoBest
<1>2. \A i \in 1..n : ScoreAt(i) \in Int
  BY <1>1 DEF ScoreAt
<1> HIDE DEF n
<1>3. CASE best = NoBest /\ \A i \in 1..n : ~candidate[candidates[i]].feasible
  BY <1>0, <1>3 DEF select, FeasibleAt
<1>4. ASSUME NEW i \in 1..n, best = candidates[i], candidate[candidates[i]].feasible,
             \A j \in 1..n : candidate[candidates[j]].feasible =>
               \/ candidate[candidates[i]].score < candidate[candidates[j]].score
               \/ candidate[candidates[i]].score = candidate[candidates[j]].score /\ i <= j
      PROVE  select = best /\ best # NoBest
  <2> DEFINE First(k) == \A j \in 1..n \ {k} : RankedBefore(k, j)
  <2>1. FeasibleAt(i) /\ \A j \in 1..n : FeasibleAt(j) =>
          ScoreAt(i) < ScoreAt(j) \/ (ScoreAt(i) = ScoreAt(j) /\ i <= j)
    BY <1>4 DEF FeasibleAt, ScoreAt
  <2>2. First(i)
    <3> SUFFICES ASSUME NEW j \in 1..n, j # i
                 PROVE  RankedBefore(i, j)
      OBVIOUS
    <3>1. CASE ~FeasibleAt(j)
      BY <2>1, <3>1 DEF RankedBefore
    <3>2. CASE FeasibleAt(j) /\ ScoreAt(i) < ScoreAt(j)
      BY <2>1, <3>2 DEF RankedBefore
    <3>3. CASE FeasibleAt(j) /\ ScoreAt(i) = ScoreAt(j) /\ i <= j
      <4>1. i < j
        BY <1>0, <3>3
      <4>2. FeasibleAt(i) = FeasibleAt(j)
        BY <2>1, <3>3 DEF FeasibleAt
      <4> QED
        BY <3>3, <4>1, <4>2 DEF RankedBefore
    <3> QED
      BY <2>1, <3>1, <3>2, <3>3
  <2>3. ASSUME NEW k \in 1..n, First(k)
        PROVE  k = i
    <3> SUFFICES ASSUME k # i
                 PROVE  FALSE
      OBVIOUS
    <3>1. RankedBefore(k, i)
      BY <2>3
    <3>2. FeasibleAt(k)
      BY <2>1, <3>1 DEF RankedBefore
    <3>3. ScoreAt(k) < ScoreAt(i) \/ (ScoreAt(k) = ScoreAt(i) /\ k < i)
      BY <2>1, <3>1 DEF RankedBefore
    <3>4. ScoreAt(i) < ScoreAt(k) \/ (ScoreAt(i) = ScoreAt(k) /\ i <= k)
      BY <2>1, <3>2
    <3> HIDE DEF First
    <3> QED
      BY <1>0, <1>2, <3>3, <3>4
  <2>4. (CHOOSE k \in 1..n : First(k)) = i
    <3> HIDE DEF First
    <3> QED
      BY <2>2, <2>3
  <2>5. select = candidates[CHOOSE k \in 1..n : First(k)]
    BY <1>0, <2>1 DEF select
  <2> QED
    BY <1>1, <1>4, <2>4, <2>5
<1> QED
  BY <1>3, <1>4 DEF BestOf, n

-----------------------------------------------------------------------------
(* The selection.  The strategies of the batch. *)
Tasks == IF mode = "registered" THEN Registered ELSE Baselines

(* Everything considered so far is registered up to here. *)
Boundary ==
  CASE pc \in {"start", "exact"} -> 0
    [] pc = "baseline"           -> 1
    [] pc = "batch"              -> IF mode = "registered" THEN 0 ELSE 1
    [] pc = "annealing"          -> Len(Registered) + Cardinality(AnnealingsDone)
    [] OTHER                     -> Len(Registered) + Cardinality(AnnealingsDone) - 1

Considering == pc \notin {"select", "returned"}

(* The candidates are final, in registration order, and the running best   *)
(* is the first of the best of them.                                       *)
CandidatesHeld ==
  /\ candidates \in Seq(Executions) /\ Range(candidates) \subseteq Range(Order)
  /\ \A e \in Range(candidates) : phase[e] = "done" /\ (Considering => Position(e) <= Boundary)
  /\ Sorted(candidates)
  /\ BestOf(best, candidates, Len(candidates))

(* Where the solving thread can be. *)
PlaceHeld ==
  /\ mode \in {"anytime", "registered"}
  /\ pc \in {"exact", "baseline", "annealing", "annealing run"} => mode = "anytime"
  /\ pc = "annealing run" => Cardinality(AnnealingsDone) \in DOMAIN Annealings

(* Neither out of budget nor cancelled. *)
Undisturbed == ~spent /\ ~JobCancelled

(* The baselines are behind, and not because of an exact optimum. *)
BaselinesBehind ==
  \/ pc \in {"annealing", "annealing run"}
  \/ pc = "select" /\ termination # "exact_optimum"

(* No strategy of the batch gets lost between queue, workers and channel,  *)
(* and while some are queued a worker is left to take them.                *)
BatchHeld ==
  /\ results \in Seq(Executions) /\ \A e \in Range(results) : phase[e] = "done"
  /\ pc \in {"start", "exact", "baseline"} => results = <<>>
  /\ pc = "batch" =>
       /\ free \in Nat
       /\ Range(results) \cup busy \cup Range(queue) \subseteq Range(Tasks)
       /\ Undisturbed =>
            /\ Range(Tasks) \subseteq Range(queue) \cup busy \cup Range(results)
            /\ queue # <<>> => ~Joined
  /\ BaselinesBehind /\ Undisturbed => Range(Baselines) \subseteq Range(candidates)

(* What is returned. *)
AnswerHeld ==
  IF pc = "returned"
  THEN result = "cancelled" \/ result = IF best = NoBest THEN "no_feasible_route" ELSE best
  ELSE result = "none"

SelectionHeld == CandidatesHeld /\ PlaceHeld /\ BatchHeld /\ AnswerHeld

(* What a step leaves alone: ends and cancellations are for good. *)
Kept ==
  /\ \A e \in Executions : phase[e] = "done" => phase'[e] = "done" /\ candidate'[e] = candidate[e]
  /\ cancelled \subseteq cancelled'

(* An execution that is done stays done, with its candidate, and a         *)
(* cancelled token stays cancelled.                                        *)
LEMMA EndsAreFinal ==
  ASSUME ExecutionTypes, ExecutionStep
  PROVE  Kept
<1>1. ASSUME NEW e \in Executions, phase[e] # "done",
             \A d \in Executions : d # e => phase'[d] = phase[d] /\ candidate'[d] = candidate[d]
      PROVE  \A d \in Executions : phase[d] = "done" =>
               phase'[d] = "done" /\ candidate'[d] = candidate[d]
  BY <1>1
<1>2. ASSUME NEW e \in Executions, NEW c, Finish(e, c)
      PROVE  \A d \in Executions : d # e =>
               phase'[d] = phase[d] /\ candidate'[d] = candidate[d]
  BY <1>2 DEF Finish, ExecutionTypes
<1>3. ASSUME NEW e \in Executions, NEW p, phase' = [phase EXCEPT ![e] = p], candidate' = candidate
      PROVE  \A d \in Executions : d # e =>
               phase'[d] = phase[d] /\ candidate'[d] = candidate[d]
  BY <1>3 DEF ExecutionTypes
<1>4. ASSUME NEW e \in Executions, Launch(e)
      PROVE  Kept
  <2>1. phase[e] = "idle" /\ cancelled' = cancelled
    BY <1>4 DEF Launch, R!acquire_until, R!Refused, R!Enter
  <2>2. \/ phase' = [phase EXCEPT ![e] = "waiting"] /\ candidate' = candidate
        \/ Finish(e, failed_candidate(FALSE, "invalid request"))
    BY <1>4 DEF Launch
  <2>3. \A d \in Executions : d # e => phase'[d] = phase[d] /\ candidate'[d] = candidate[d]
    BY <1>2, <1>3, <2>2
  <2> QED
    BY <1>1, <2>1, <2>3 DEF Kept
<1>5. ASSUME NEW e \in Executions, Waiting(e)
      PROVE  Kept
  <2>1. phase[e] = "waiting" /\ cancelled' = cancelled
    BY <1>5 DEF Waiting, lease_cancelled, lease_expired, lease_acquired, R!wait_cancelled,
                R!wait_expired, R!wait_fits, R!Leave
  <2>2. \/ phase' = [phase EXCEPT ![e] = "leased"] /\ candidate' = candidate
        \/ \E c \in Candidates : Finish(e, c)
    BY <1>5, CandidateTypes DEF Waiting, lease_cancelled, lease_expired, lease_acquired
  <2>3. \A d \in Executions : d # e => phase'[d] = phase[d] /\ candidate'[d] = candidate[d]
    BY <1>2, <1>3, <2>2
  <2> QED
    BY <1>1, <2>1, <2>3 DEF Kept
<1>6. ASSUME NEW e \in Executions, too_late(e) \/ join(e)
      PROVE  Kept
  <2>1. phase[e] \in {"leased", "returned"} /\ cancelled' = cancelled
    BY <1>6 DEF too_late, join, R!drop_lease, R!Leave
  <2>2. Finish(e, failed_candidate(TRUE, "deadline")) \/ Finish(e, CandidateOf(e))
    BY <1>6 DEF too_late, join
  <2>3. \A d \in Executions : d # e => phase'[d] = phase[d] /\ candidate'[d] = candidate[d]
    BY <1>2, <2>2
  <2> QED
    BY <1>1, <2>1, <2>3 DEF Kept
<1>7. ASSUME NEW e \in Executions, start(e) \/ strategy_returns(e) \/ evaluate(e)
      PROVE  Kept
  <2>1. /\ phase[e] \in {"leased", "running", "evaluating", "validating"}
        /\ cancelled' = cancelled /\ candidate' = candidate
    BY <1>7 DEF start, strategy_returns, evaluate, resourceVars
  <2>2. \E p \in Phases : phase' = [phase EXCEPT ![e] = p]
    BY <1>7 DEF start, strategy_returns, evaluate, Phases
  <2>3. \A d \in Executions : d # e => phase'[d] = phase[d] /\ candidate'[d] = candidate[d]
    BY <1>3, <2>1, <2>2
  <2> QED
    BY <1>1, <2>1, <2>3 DEF Kept
<1>8. ASSUME phase' = phase, candidate' = candidate, cancelled \subseteq cancelled'
      PROVE  Kept
  BY <1>8 DEF Kept
<1>9. ASSUME NEW e \in Executions, Watch(e)
      PROVE  Kept
  <2>1. phase' = phase /\ candidate' = candidate /\ cancelled' = cancelled
    BY <1>9 DEF Watch, watch_parent, watch_timeout, watch_done, Interrupt, resourceVars
  <2> QED
    BY <1>8, <2>1
<1>10. CASE \/ CancelJob \/ (\E e \in Executions : TimePasses(e))
            \/ (\E o \in Others : OtherJob(o)) \/ UNCHANGED <<resourceVars, executionVars>>
  <2>1. phase' = phase /\ candidate' = candidate
    BY <1>10 DEF CancelJob, TimePasses, OtherJob, executionVars
  <2>2. cancelled \subseteq cancelled'
    BY <1>10 DEF CancelJob, TimePasses, OtherJob, resourceVars, R!CancelTokens,
                 R!DeadlinePasses, R!acquire_until, R!Enter, R!wait_fits, R!drop_lease, R!Leave
  <2> QED
    BY <1>8, <2>1, <2>2
<1> QED
  BY <1>4, <1>5, <1>6, <1>7, <1>9, <1>10 DEF ExecutionStep, Execute

(* What the step of the selection needs of the other invariants. *)
LEMMA ScoresAreNumbers ==
  ASSUME ExecutionTypes
  PROVE  \A e \in Executions : candidate[e].score \in Int
<1>1. NoCandidate.score \in Int
  BY DEF NoCandidate, NoScore
<1>2. \A c \in Candidates : c.score \in Int
  BY DEF Candidates
<1> QED
  BY <1>1, <1>2 DEF ExecutionTypes

(* The boundary is a number. *)
LEMMA BoundaryType == Boundary \in Int /\ Boundary' \in Int
<1>1. Cardinality(AnnealingsDone) \in Nat /\ Len(Registered) \in Nat
  BY AnnealingsCounted, OrderFacts
<1>2. Cardinality(AnnealingsDone)' \in Nat
  <2>1. AnnealingsDone' \subseteq Executions
    BY StrategiesAssumption DEF AnnealingsDone, Range
  <2>2. Cardinality(AnnealingsDone') \in Nat
    BY <2>1, ExecutionsAssumption, FS_Subset, FS_CardinalityType
  <2> QED
    BY <2>2
<1> QED
  BY <1>1, <1>2 DEF Boundary

(* Ranges of queues and channels. *)
LEMMA Ranges ==
  /\ \A s \in Seq(Executions) : Range(s) \subseteq Executions
  /\ \A s, t \in Seq(Executions) : Range(s \o t) = Range(s) \cup Range(t)
  /\ \A s \in Seq(Executions), e \in Executions : Range(Append(s, e)) = Range(s) \cup {e}
  /\ \A s \in Seq(Executions) : s # <<>> => Range(s) = {Head(s)} \cup Range(Tail(s))
  /\ \A e \in Executions : Range(<<e>>) = {e}
  /\ Range(<<>>) = {}
<1>1. ASSUME NEW s \in Seq(Executions)
      PROVE  Range(s) \subseteq Executions /\ Range(s) = {s[i] : i \in 1..Len(s)}
  BY DEF Range
<1>2. ASSUME NEW s \in Seq(Executions), NEW t \in Seq(Executions)
      PROVE  Range(s \o t) = Range(s) \cup Range(t)
  <2>1. /\ Len(s) \in Nat /\ Len(t) \in Nat /\ s \o t \in Seq(Executions)
        /\ Len(s \o t) = Len(s) + Len(t)
    OBVIOUS
  <2>2. \A i \in 1..Len(s) : (s \o t)[i] = s[i] /\ i \in 1..Len(s \o t)
    BY <2>1
  <2>3. \A i \in 1..Len(t) : (s \o t)[Len(s) + i] = t[i] /\ Len(s) + i \in 1..Len(s \o t)
    BY <2>1
  <2>4. ASSUME NEW i \in 1..Len(s \o t)
        PROVE  i \in 1..Len(s) \/ \E j \in 1..Len(t) : i = Len(s) + j
    <3>1. CASE i > Len(s)
      <4>1. i - Len(s) \in 1..Len(t) /\ i = Len(s) + (i - Len(s))
        BY <2>1, <3>1
      <4> QED
        BY <4>1
    <3>2. CASE i <= Len(s)
      BY <2>1, <3>2
    <3> QED
      BY <2>1, <3>1, <3>2
  <2>5. Range(s \o t) = {(s \o t)[i] : i \in 1..Len(s \o t)}
    BY <1>1, <2>1
  <2>6. Range(s) = {s[i] : i \in 1..Len(s)} /\ Range(t) = {t[i] : i \in 1..Len(t)}
    BY <1>1
  <2>7. Range(s \o t) \subseteq Range(s) \cup Range(t)
    BY <2>2, <2>3, <2>4, <2>5, <2>6
  <2>8. Range(s) \subseteq Range(s \o t)
    BY <2>2, <2>5, <2>6
  <2>9. Range(t) \subseteq Range(s \o t)
    BY <2>3, <2>5, <2>6
  <2> QED
    BY <2>7, <2>8, <2>9
<1>3. \A e \in Executions : Range(<<e>>) = {e} /\ <<e>> \in Seq(Executions)
  BY DEF Range
<1>4. ASSUME NEW s \in Seq(Executions), NEW e \in Executions
      PROVE  Range(Append(s, e)) = Range(s) \cup {e}
  <2>1. Append(s, e) = s \o <<e>>
    OBVIOUS
  <2> QED
    BY <1>2, <1>3, <2>1
<1>5. ASSUME NEW s \in Seq(Executions), s # <<>>
      PROVE  Range(s) = {Head(s)} \cup Range(Tail(s))
  <2> DEFINE u == <<Head(s)>>
             t == Tail(s)
  <2>1. s = u \o t /\ Head(s) \in Executions /\ t \in Seq(Executions)
    BY <1>5
  <2>2. u \in Seq(Executions) /\ Range(u) = {Head(s)}
    BY <1>3, <2>1
  <2> HIDE DEF u, t
  <2>3. Range(u \o t) = Range(u) \cup Range(t)
    BY <1>2, <2>1, <2>2
  <2>4. Range(s) = Range(u) \cup Range(t)
    BY <2>1, <2>3
  <2> QED
    BY <2>2, <2>4 DEF t
<1>6. Range(<<>>) = {}
  BY DEF Range
<1> QED
  BY <1>1, <1>2, <1>3, <1>4, <1>5, <1>6

(* A step without new candidates keeps what is known of the old ones. *)
LEMMA CandidatesStay ==
  ASSUME CandidatesHeld, Kept, candidates' = candidates, best' = best,
         Considering' => Considering /\ Boundary <= Boundary'
  PROVE  CandidatesHeld'
<1>1. /\ candidates \in Seq(Executions) /\ Range(candidates) \subseteq Range(Order)
      /\ \A e \in Range(candidates) : phase[e] = "done" /\ (Considering => Position(e) <= Boundary)
      /\ Sorted(candidates) /\ BestOf(best, candidates, Len(candidates))
  BY DEF CandidatesHeld
<1>2. Range(candidates) \subseteq Executions
  BY <1>1, Ranges
<1>3. \A e \in Range(candidates) : phase'[e] = "done" /\ candidate'[e] = candidate[e]
  BY <1>1, <1>2 DEF Kept
<1>4. ASSUME NEW e \in Range(candidates), Considering'
      PROVE  Position(e) <= Boundary'
  <2>1. Position(e) \in Int
    BY <1>1, PositionAt, OrderFacts
  <2>2. Boundary \in Int /\ Boundary' \in Int
    BY BoundaryType
  <2>3. Position(e) <= Boundary /\ Boundary <= Boundary'
    BY <1>1, <1>4
  <2> QED
    BY <2>1, <2>2, <2>3
<1>5. BestOf(best, candidates, Len(candidates))'
  <2>1. \A i \in 1..Len(candidates) : candidate'[candidates[i]] = candidate[candidates[i]]
    BY <1>1, <1>3 DEF Range
  <2> QED
    BY <1>1, <2>1 DEF BestOf
<1>6. Sorted(candidates)'
  BY <1>1 DEF Sorted
<1> QED
  BY <1>1, <1>3, <1>4, <1>5, <1>6 DEF CandidatesHeld

(* New candidates come behind the old ones, in order. *)
LEMMA SortedAfter ==
  ASSUME NEW s \in Seq(Executions), NEW t \in Seq(Executions), Sorted(s), Sorted(t),
         \A d \in Range(s), e \in Range(t) : Position(d) < Position(e)
  PROVE  Sorted(s \o t)
<1> DEFINE u == s \o t
           n == Len(s)
           l == Len(t)
<1>1. /\ n \in Nat /\ l \in Nat /\ DOMAIN u = 1..(n + l) /\ DOMAIN s = 1..n /\ DOMAIN t = 1..l
      /\ \A i \in 1..n : u[i] = s[i]
  OBVIOUS
<1>2. \A i \in 1..(n + l) : i > n => i - n \in 1..l /\ u[i] = t[i - n]
  OBVIOUS
<1> HIDE DEF u, n, l
<1> SUFFICES ASSUME NEW i \in 1..(n + l), NEW j \in 1..(n + l), i < j
             PROVE  Position(u[i]) < Position(u[j])
  BY <1>1 DEF Sorted, u
<1>3. CASE j <= n
  <2>1. i \in 1..n /\ j \in 1..n
    BY <1>1, <1>3
  <2> QED
    BY <1>1, <2>1 DEF Sorted
<1>4. CASE i <= n /\ j > n
  <2>1. i \in 1..n /\ j - n \in 1..l /\ u[i] = s[i] /\ u[j] = t[j - n]
    BY <1>1, <1>2, <1>4
  <2>2. u[i] \in Range(s) /\ u[j] \in Range(t)
    BY <1>1, <2>1 DEF Range
  <2> QED
    BY <2>2
<1>5. CASE i > n
  <2>1. j > n /\ i - n < j - n
    BY <1>1, <1>5
  <2>2. i - n \in 1..l /\ j - n \in 1..l /\ u[i] = t[i - n] /\ u[j] = t[j - n]
    BY <1>2, <1>5, <2>1
  <2> QED
    BY <1>1, <2>1, <2>2 DEF Sorted
<1> QED
  BY <1>1, <1>3, <1>4, <1>5

(* A step with new candidates adds them behind the old ones. *)
LEMMA CandidatesGrow ==
  ASSUME ExecutionTypes, CandidatesHeld, UNCHANGED executionVars, Considering,
         NEW es \in Seq(Executions), Range(es) \subseteq Range(Order), Sorted(es),
         \A e \in Range(es) : phase[e] = "done" /\ Boundary < Position(e),
         Accumulate(es),
         Considering' => /\ Boundary <= Boundary'
                         /\ \A e \in Range(es) : Position(e) <= Boundary'
  PROVE  CandidatesHeld' /\ Range(candidates') = Range(candidates) \cup Range(es)
<1>1. /\ candidates \in Seq(Executions) /\ Range(candidates) \subseteq Range(Order)
      /\ \A e \in Range(candidates) : phase[e] = "done" /\ Position(e) <= Boundary
      /\ Sorted(candidates) /\ BestOf(best, candidates, Len(candidates))
  BY DEF CandidatesHeld
<1>2. /\ candidates' = candidates \o es /\ best' = Considered(best, es)
      /\ phase' = phase /\ candidate' = candidate
  BY DEF Accumulate, Considered, executionVars
<1>3. candidates' \in Seq(Executions) /\ Range(candidates') = Range(candidates) \cup Range(es)
  BY <1>1, <1>2, Ranges
<1>4. Boundary \in Int /\ Boundary' \in Int
  BY BoundaryType
<1>5. \A e \in Range(candidates') : Position(e) \in Int
  BY <1>1, <1>3, PositionAt, OrderFacts
<1>6. \A d \in Range(candidates), e \in Range(es) : Position(d) < Position(e)
  <2> TAKE d \in Range(candidates), e \in Range(es)
  <2>1. Position(d) \in Int /\ Position(e) \in Int
    BY <1>3, <1>5
  <2>2. Position(d) <= Boundary /\ Boundary < Position(e)
    BY <1>1
  <2> QED
    BY <1>4, <2>1, <2>2
<1>7. Sorted(candidates)'
  <2>1. Sorted(candidates \o es)
    BY <1>1, <1>6, SortedAfter
  <2> QED
    BY <1>2, <2>1 DEF Sorted
<1>8. ASSUME NEW e \in Range(candidates'), Considering'
      PROVE  Position(e) <= Boundary'
  <2>1. CASE e \in Range(es)
    BY <1>8, <2>1
  <2>2. CASE e \in Range(candidates)
    <3>1. Position(e) <= Boundary /\ Boundary <= Boundary' /\ Position(e) \in Int
      BY <1>1, <1>5, <1>8, <2>2
    <3> QED
      BY <1>4, <3>1
  <2> QED
    BY <1>3, <2>1, <2>2
<1>9. \A e \in Range(candidates') : phase'[e] = "done"
  BY <1>1, <1>2, <1>3
<1>10. BestOf(best, candidates, Len(candidates))'
  <2>1. BestOf(Considered(best, es), candidates \o es, Len(candidates \o es))
    BY <1>1, ScoresAreNumbers, AccumulateKeeps
  <2>2. BestOf(best', candidates', Len(candidates'))
    BY <1>2, <2>1
  <2>3. candidate' = candidate
    BY <1>2
  <2> QED
    BY <2>2, <2>3 DEF BestOf
<1> QED
  BY <1>1, <1>3, <1>7, <1>8, <1>9, <1>10 DEF CandidatesHeld

(* The candidates after a step: final, in order, none lost; and those of a *)
(* batch among them.                                                       *)
CandidatesAfter ==
  /\ CandidatesHeld' /\ Range(candidates) \subseteq Range(candidates')
  /\ pc = "batch" /\ pc' \in {"annealing", "select"} => Range(results) \subseteq Range(candidates')

(* The steps of the batch, of executions and of the environment. *)
LEMMA QuietCandidates ==
  ASSUME CandidatesHeld, Kept, candidates' = candidates, best' = best, pc' = pc, mode' = mode,
         pc = "batch" \/ AnnealingsDone' = AnnealingsDone
  PROVE  CandidatesAfter
<1>1. Boundary' = Boundary /\ (Considering' <=> Considering)
  BY DEF Boundary, Considering
<1>2. Considering' => Considering /\ Boundary <= Boundary'
  BY <1>1, BoundaryType
<1>3. CandidatesHeld'
  BY <1>2, CandidatesStay
<1> QED
  BY <1>3 DEF CandidatesAfter

(* The results of a batch, sorted, come behind what was considered before. *)
LEMMA BatchCandidates ==
  ASSUME ExecutionTypes, SelectionHeld, NEW next \in {"annealing", "select"}, BatchDone(next),
         mode = "anytime" => next = "annealing", mode = "registered" => next = "select"
  PROVE  CandidatesAfter
<1>1. /\ pc = "batch" /\ pc' = next /\ mode' = mode /\ UNCHANGED executionVars
      /\ Accumulate(InOrder(results))
  BY DEF BatchDone, Goto
<1>2. /\ results \in Seq(Executions) /\ \A e \in Range(results) : phase[e] = "done"
      /\ Range(results) \subseteq Range(Tasks) /\ mode \in {"anytime", "registered"}
  BY <1>1 DEF SelectionHeld, BatchHeld, PlaceHeld
<1>3. \A e \in Range(Tasks) :
        e \in Range(Order) /\ Boundary < Position(e) /\ Position(e) <= Len(Registered)
  <2>1. CASE mode = "registered"
    <3>1. Boundary = 0 /\ Tasks = Registered
      BY <1>1, <2>1 DEF Boundary, Tasks
    <3>2. Len(Registered) \in Nat
      BY OrderFacts
    <3> QED
      BY <3>1, <3>2, Positions
  <2>2. CASE mode = "anytime"
    <3>1. Boundary = 1 /\ Tasks = Baselines
      BY <1>1, <2>2 DEF Boundary, Tasks
    <3>2. Len(Registered) \in Nat
      BY OrderFacts
    <3> QED
      BY <3>1, <3>2, Positions
  <2> QED
    BY <1>2, <2>1, <2>2
<1> DEFINE es == InOrder(results)
<1>4. es \in Seq(Executions) /\ Sorted(es) /\ Range(es) = Range(results)
  BY <1>2, <1>3, InOrderSorts
<1> HIDE DEF es
<1>5. \A e \in Range(es) : /\ e \in Range(Order) /\ phase[e] = "done" /\ Boundary < Position(e)
                           /\ Position(e) <= Len(Registered)
  BY <1>2, <1>3, <1>4
<1>6. Considering
  BY <1>1 DEF Considering
<1>7. Considering' => /\ Boundary <= Boundary'
                      /\ \A e \in Range(es) : Position(e) <= Boundary'
  <2> SUFFICES ASSUME Considering'
               PROVE  /\ Boundary <= Boundary'
                      /\ \A e \in Range(es) : Position(e) <= Boundary'
    OBVIOUS
  <2>1. pc' = "annealing" /\ mode = "anytime"
    BY <1>1, <1>2 DEF Considering
  <2>2. Boundary = 1
    BY <1>1, <2>1 DEF Boundary
  <2>3. AnnealingsDone' = AnnealingsDone
    BY <1>1, QuietThreads
  <2>4. Boundary' = Len(Registered) + Cardinality(AnnealingsDone)
    BY <2>1, <2>3 DEF Boundary
  <2>5. /\ Len(Registered) \in Nat /\ Len(Registered) >= 1
        /\ Cardinality(AnnealingsDone) \in Nat
    BY OrderFacts, AnnealingsCounted
  <2>6. Boundary <= Boundary' /\ Len(Registered) <= Boundary' /\ Boundary' \in Int
    BY <2>2, <2>4, <2>5
  <2>7. \A e \in Range(es) : Position(e) \in Int
    BY <1>5, PositionAt, OrderFacts
  <2> QED
    BY <1>5, <2>5, <2>6, <2>7
<1>8. CandidatesHeld' /\ Range(candidates') = Range(candidates) \cup Range(es)
  <2>1. CandidatesHeld /\ Range(es) \subseteq Range(Order) /\ Accumulate(es)
    BY <1>1, <1>5 DEF SelectionHeld, es
  <2> QED
    BY <1>1, <1>4, <1>5, <1>6, <1>7, <2>1, CandidatesGrow
<1> QED
  BY <1>4, <1>8 DEF CandidatesAfter

(* One strategy, run by the solving thread itself, is considered. *)
LEMMA OneCandidate ==
  ASSUME ExecutionTypes, CandidatesHeld, UNCHANGED executionVars, Considering, pc # "batch",
         NEW e \in Executions, e \in Range(Order), phase[e] = "done", Boundary < Position(e),
         Accumulate(<<e>>),
         Considering' => Boundary <= Boundary' /\ Position(e) <= Boundary'
  PROVE  CandidatesAfter
<1> DEFINE es == <<e>>
<1>1. es \in Seq(Executions) /\ Range(es) = {e} /\ Accumulate(es)
  BY Ranges
<1>2. Sorted(es)
  <2>1. DOMAIN es = {1}
    OBVIOUS
  <2> HIDE DEF es
  <2> QED
    BY <2>1 DEF Sorted
<1> HIDE DEF es
<1>3. CandidatesHeld' /\ Range(candidates') = Range(candidates) \cup Range(es)
  BY <1>1, <1>2, CandidatesGrow
<1> QED
  BY <1>3 DEF CandidatesAfter

(* Every step keeps the candidates in order and the best of them known. *)
LEMMA CandidatesStep ==
  ASSUME QueueHeld, ExecutionInvariant, ThreadsHeld, SelectionHeld, [Next]_vars
  PROVE  CandidatesAfter
<1>0. ExecutionTypes /\ ExecutionStep /\ CandidatesHeld /\ PlaceHeld
  BY StepKinds DEF ExecutionInvariant, SelectionHeld
<1>K. Kept
  BY <1>0, EndsAreFinal
<1>L. /\ Len(Registered) \in Nat /\ Len(Registered) >= 1
      /\ Cardinality(AnnealingsDone) \in Nat
  BY OrderFacts, AnnealingsCounted
<1>S. ASSUME candidates' = candidates, best' = best, pc # "batch",
             Considering' => Considering /\ Boundary <= Boundary'
      PROVE  CandidatesAfter
  <2>1. CandidatesHeld'
    BY <1>0, <1>K, <1>S, CandidatesStay
  <2> QED
    BY <1>S, <2>1 DEF CandidatesAfter
<1>1. CASE run_exact \/ solve_registered \/ skip_exact
  <2>1. /\ pc = "start" /\ candidates' = candidates /\ best' = best
        /\ \/ pc' \in {"exact", "baseline"}
           \/ pc' = "batch" /\ mode' = "registered"
    BY <1>1 DEF run_exact, solve_registered, skip_exact, StartBatch, Goto
  <2>2. Boundary = 0 /\ Boundary' \in {0, 1} /\ Considering
    BY <2>1 DEF Boundary, Considering
  <2> QED
    BY <1>S, <2>1, <2>2
<1>2. CASE start_baselines \/ skip_baselines
  <2>1. /\ pc = "baseline" /\ candidates' = candidates /\ best' = best /\ mode' = mode
        /\ UNCHANGED executionVars /\ pc' \in {"batch", "annealing"}
    BY <1>2 DEF start_baselines, skip_baselines, StartBatch, Goto
  <2>2. mode = "anytime" /\ AnnealingsDone' = AnnealingsDone
    BY <1>0, <2>1, QuietThreads DEF PlaceHeld
  <2>3. Boundary = 1 /\ Considering
    BY <2>1 DEF Boundary, Considering
  <2>4. Boundary' = IF pc' = "batch" THEN 1 ELSE Len(Registered) + Cardinality(AnnealingsDone)
    BY <2>1, <2>2 DEF Boundary
  <2>5. Boundary <= Boundary'
    BY <1>L, <2>3, <2>4
  <2> QED
    BY <1>S, <2>1, <2>3, <2>5
<1>3. CASE run_annealing
  <2> DEFINE e == Annealings[Cardinality(AnnealingsDone) + 1]
  <2>1. /\ Cardinality(AnnealingsDone) < Len(Annealings) /\ Launch(e)
        /\ pc = "annealing" /\ pc' = "annealing run" /\ candidates' = candidates /\ best' = best
    BY <1>3 DEF run_annealing, Goto
  <2>2. e \in Executions
    BY <2>1, NextAnnealing
  <2>3. Cardinality(AnnealingsDone)' = Cardinality(AnnealingsDone) + 1
    BY <1>0, <2>1, <2>2, AnnealingLaunched
  <2> HIDE DEF e
  <2>4. Boundary = Len(Registered) + Cardinality(AnnealingsDone) /\ Considering
    BY <2>1 DEF Boundary, Considering
  <2>5. Boundary' = Len(Registered) + Cardinality(AnnealingsDone)' - 1
    BY <2>1 DEF Boundary
  <2>6. Boundary <= Boundary'
    BY <1>L, <2>3, <2>4, <2>5
  <2> QED
    BY <1>S, <2>1, <2>4, <2>6
<1>4. CASE solve_cancelled \/ baseline_cancelled \/ stop_annealing \/ build
  <2>1. /\ pc # "batch" /\ pc' \in {"select", "returned"}
        /\ candidates' = candidates /\ best' = best
    BY <1>4 DEF solve_cancelled, baseline_cancelled, stop_annealing, build, Return, Goto
  <2>2. ~Considering'
    BY <2>1 DEF Considering
  <2> QED
    BY <1>S, <2>1, <2>2
<1>5. CASE registered_cancelled
  <2>1. pc' = "returned" /\ candidates' = candidates /\ best' = best
    BY <1>5 DEF registered_cancelled, Return
  <2>2. ~Considering'
    BY <2>1 DEF Considering
  <2>3. CandidatesHeld'
    BY <1>0, <1>K, <2>1, <2>2, CandidatesStay
  <2> QED
    BY <2>1, <2>3 DEF CandidatesAfter
<1>6. CASE exact_done
  <2>1. /\ pc = "exact" /\ phase[Exact] = "done" /\ Accumulate(<<Exact>>)
        /\ UNCHANGED executionVars /\ pc' \in {"select", "baseline"}
    BY <1>6 DEF exact_done, Goto
  <2>2. Boundary = 0 /\ Considering /\ (Considering' => Boundary' = 1)
    BY <2>1 DEF Boundary, Considering
  <2>3. Position(Exact) = 1 /\ Exact \in Range(Order) /\ Exact \in Executions
    BY Positions, StrategiesAssumption
  <2>4. /\ Boundary < Position(Exact)
        /\ Considering' => Boundary <= Boundary' /\ Position(Exact) <= Boundary'
    BY <2>2, <2>3
  <2> QED
    BY <1>0, <2>1, <2>2, <2>3, <2>4, OneCandidate
<1>7. CASE finish_baselines
  BY <1>0, <1>7, BatchCandidates DEF finish_baselines
<1>8. CASE finish_registered
  BY <1>0, <1>8, BatchCandidates DEF finish_registered
<1>9. CASE annealing_done
  <2> DEFINE k == Cardinality(AnnealingsDone)
             e == Annealings[k]
  <2>1. /\ pc = "annealing run" /\ pc' = "annealing" /\ phase[e] = "done"
        /\ Accumulate(<<e>>) /\ UNCHANGED executionVars
    BY <1>9 DEF annealing_done, Goto
  <2>2. k \in 1..Len(Annealings) /\ e \in Executions
    <3>1. k \in DOMAIN Annealings
      BY <1>0, <2>1 DEF PlaceHeld
    <3> HIDE DEF k
    <3> QED
      BY <3>1, StrategiesAssumption
  <2>3. e \in Range(Order) /\ Position(e) = Len(Registered) + k
    BY <2>2, Positions
  <2>4. AnnealingsDone' = AnnealingsDone
    BY <2>1, QuietThreads
  <2>5. Boundary = Len(Registered) + k - 1 /\ Boundary' = Len(Registered) + k /\ Considering
    BY <2>1, <2>4 DEF Boundary, Considering
  <2> HIDE DEF e, k
  <2>6. Boundary < Position(e) /\ Boundary <= Boundary' /\ Position(e) <= Boundary'
    <3>1. k \in Nat
      BY <1>L DEF k
    <3> QED
      BY <1>L, <2>3, <2>5, <3>1
  <2> QED
    BY <1>0, <2>1, <2>2, <2>3, <2>5, <2>6, OneCandidate
<1>10. CASE Work
  <2>1. candidates' = candidates /\ best' = best /\ pc' = pc /\ mode' = mode
    BY <1>10 DEF Work, take_task, give_up_task, exit_worker, send_result
  <2>2. pc = "batch"
    <3>1. free > 0 \/ busy # {}
      BY <1>10 DEF Work, take_task, give_up_task, exit_worker, send_result
    <3>2. pc # "batch" => free = 0 /\ busy = {}
      BY DEF ThreadsHeld
    <3> QED
      BY <3>1, <3>2
  <2> QED
    BY <1>0, <1>K, <2>1, <2>2, QuietCandidates
<1>11. ASSUME UNCHANGED <<candidates, best, pc, mode>>, AnnealingsDone' = AnnealingsDone
       PROVE  CandidatesAfter
  BY <1>0, <1>K, <1>11, QuietCandidates
<1>12. CASE SpendBudget \/ (Environment /\ UNCHANGED solveVars) \/ UNCHANGED vars
  <2>1. UNCHANGED <<candidates, best, pc, mode>> /\ UNCHANGED executionVars
    BY <1>12 DEF SpendBudget, Environment, CancelJob, TimePasses, OtherJob, solveVars, vars
  <2> QED
    BY <1>11, <2>1, QuietThreads
<1>13. ASSUME NEW e \in Executions, Execute(e), UNCHANGED solveVars
       PROVE  CandidatesAfter
  <2>1. \A d \in Executions : phase[d] = "idle" <=> phase'[d] = "idle"
    BY <1>0, <1>13, ExecutePhase DEF ExecutionInvariant
  <2>2. Range(Annealings) \subseteq Executions
    BY StrategiesAssumption, Ranges
  <2>3. AnnealingsDone' = AnnealingsDone
    BY <2>1, <2>2 DEF AnnealingsDone
  <2>4. UNCHANGED <<candidates, best, pc, mode>>
    BY <1>13 DEF solveVars
  <2> QED
    BY <1>11, <2>3, <2>4
<1>14. CASE Solve
  BY <1>1, <1>2, <1>3, <1>4, <1>5, <1>6, <1>7, <1>8, <1>9, <1>14 DEF Solve
<1> QED
  BY <1>10, <1>12, <1>13, <1>14 DEF Next

(* Where the solving thread is after a step. *)
LEMMA PlaceStep ==
  ASSUME QueueHeld, ExecutionInvariant, ThreadsHeld, PlaceHeld, [Next]_vars
  PROVE  PlaceHeld'
<1>0. ExecutionTypes
  BY DEF ExecutionInvariant
<1>1. mode' = mode
  <2>1. CASE Solve
    BY <2>1 DEF Solve, solve_cancelled, solve_registered, run_exact, skip_exact, exact_done,
       baseline_cancelled, start_baselines, skip_baselines, finish_baselines,
       finish_registered, registered_cancelled, run_annealing, annealing_done, stop_annealing,
       build, StartBatch, BatchDone
  <2>2. CASE Work \/ SpendBudget \/ UNCHANGED solveVars
    BY <2>2 DEF Work, take_task, give_up_task, exit_worker, send_result, SpendBudget, solveVars
  <2> QED
    BY <2>1, <2>2 DEF Next, vars
<1>2. ASSUME pc' \in {"exact", "baseline", "annealing", "annealing run"}
      PROVE  mode = "anytime"
  <2>1. CASE pc' = pc
    BY <1>2, <2>1 DEF PlaceHeld
  <2>2. CASE run_exact \/ skip_exact \/ finish_baselines
    BY <2>2 DEF run_exact, skip_exact, finish_baselines
  <2>3. CASE exact_done \/ skip_baselines \/ run_annealing \/ annealing_done
    BY <2>3 DEF exact_done, skip_baselines, run_annealing, annealing_done, PlaceHeld
  <2>4. CASE \/ solve_cancelled \/ solve_registered \/ baseline_cancelled \/ start_baselines
             \/ finish_registered \/ registered_cancelled \/ stop_annealing \/ build
    BY <1>2, <2>4 DEF solve_cancelled, solve_registered, baseline_cancelled, start_baselines,
       finish_registered, registered_cancelled, stop_annealing, build, StartBatch, BatchDone,
       Return, Goto
  <2>5. CASE Work \/ SpendBudget \/ UNCHANGED solveVars
    <3>1. pc' = pc
      BY <2>5 DEF Work, take_task, give_up_task, exit_worker, send_result, SpendBudget, solveVars
    <3> QED
      BY <2>1, <3>1
  <2> QED
    BY <2>2, <2>3, <2>4, <2>5 DEF Next, Solve, vars
<1>3. ASSUME pc' = "annealing run"
      PROVE  Cardinality(AnnealingsDone)' \in DOMAIN Annealings
  <2>1. CASE run_annealing
    <3> DEFINE k == Cardinality(AnnealingsDone)
               e == Annealings[k + 1]
    <3>1. k < Len(Annealings) /\ Launch(e)
      BY <2>1 DEF run_annealing
    <3>2. e \in Executions
      BY <3>1, NextAnnealing
    <3>3. Cardinality(AnnealingsDone)' = k + 1 /\ k \in Nat
      BY <1>0, <3>1, <3>2, AnnealingLaunched, AnnealingsCounted
    <3> HIDE DEF k, e
    <3> QED
      BY <3>1, <3>3, StrategiesAssumption
  <2>2. ASSUME pc' = pc, AnnealingsDone' = AnnealingsDone
        PROVE  Cardinality(AnnealingsDone)' \in DOMAIN Annealings
    BY <1>3, <2>2 DEF PlaceHeld
  <2>3. CASE Solve /\ ~run_annealing
    BY <1>3, <2>3
       DEF Solve, solve_cancelled, solve_registered, run_exact, skip_exact, exact_done,
       baseline_cancelled, start_baselines, skip_baselines, finish_baselines,
       finish_registered, registered_cancelled, annealing_done, stop_annealing, build,
       StartBatch, BatchDone, Return, Goto
  <2>4. CASE Work
    <3>1. pc' = pc /\ (free > 0 \/ busy # {})
      BY <2>4 DEF Work, take_task, give_up_task, exit_worker, send_result
    <3>2. pc # "batch" => free = 0 /\ busy = {}
      BY DEF ThreadsHeld
    <3>3. pc # "batch"
      BY <1>3, <3>1
    <3>4. free = 0 /\ busy = {}
      BY <3>2, <3>3
    <3>5. FALSE
      BY <3>1, <3>4
    <3> QED
      BY <3>5
  <2>5. CASE SpendBudget \/ (Environment /\ UNCHANGED solveVars) \/ UNCHANGED vars
    <3>1. pc' = pc /\ UNCHANGED executionVars
      BY <2>5 DEF SpendBudget, Environment, CancelJob, TimePasses, OtherJob, solveVars, vars
    <3> QED
      BY <2>2, <3>1, QuietThreads
  <2>6. ASSUME NEW e \in Executions, Execute(e), UNCHANGED solveVars
        PROVE  Cardinality(AnnealingsDone)' \in DOMAIN Annealings
    <3>1. \A d \in Executions : phase[d] = "idle" <=> phase'[d] = "idle"
      BY <1>0, <2>6, ExecutePhase DEF ExecutionInvariant
    <3>2. Range(Annealings) \subseteq Executions
      BY StrategiesAssumption, Ranges
    <3>3. AnnealingsDone' = AnnealingsDone /\ pc' = pc
      BY <2>6, <3>1, <3>2 DEF AnnealingsDone, solveVars
    <3> QED
      BY <2>2, <3>3
  <2> QED
    BY <2>1, <2>3, <2>4, <2>5, <2>6 DEF Next
<1> QED
  BY <1>1, <1>2, <1>3 DEF PlaceHeld

(* Whoever was disturbed stays disturbed. *)
LEMMA DisturbanceStays ==
  ASSUME Kept, spent => spent'
  PROVE  Undisturbed' => Undisturbed
BY DEF Kept, Undisturbed, JobCancelled

(* A step of a worker moves a strategy from the queue to the worker and    *)
(* from the worker to the channel.                                         *)
LEMMA WorkStep ==
  ASSUME QueueHeld, ExecutionInvariant, ThreadsHeld, SelectionHeld, Work, Kept
  PROVE  BatchHeld'
<1>0. /\ results \in Seq(Executions) /\ \A e \in Range(results) : phase[e] = "done"
      /\ Range(results) \subseteq Executions /\ queue \in Seq(Executions)
  BY Ranges DEF SelectionHeld, BatchHeld, QueueHeld
<1>1. pc = "batch" /\ pc' = pc /\ mode' = mode /\ spent' = spent
  <2>1. pc' = pc /\ mode' = mode /\ spent' = spent /\ (free > 0 \/ busy # {})
    BY DEF Work, take_task, give_up_task, exit_worker, send_result
  <2>2. pc # "batch" => free = 0 /\ busy = {}
    BY DEF ThreadsHeld
  <2> QED
    BY <2>1, <2>2
<1>2. /\ free \in Nat /\ Range(results) \cup busy \cup Range(queue) \subseteq Range(Tasks)
      /\ Undisturbed =>
           /\ Range(Tasks) \subseteq Range(queue) \cup busy \cup Range(results)
           /\ queue # <<>> => ~Joined
  BY <1>1 DEF SelectionHeld, BatchHeld
<1>3. Tasks' = Tasks /\ (Undisturbed' => Undisturbed) /\ ~BaselinesBehind'
  BY <1>1, DisturbanceStays DEF Tasks, BaselinesBehind
<1>4. \A e \in Executions : phase[e] = "done" => phase'[e] = "done"
  BY DEF Kept
<1>5. ASSUME results' \in Seq(Executions), \A e \in Range(results') : phase'[e] = "done",
             free' \in Nat,
             Range(results') \cup busy' \cup Range(queue') \subseteq Range(Tasks),
             Undisturbed' =>
               /\ Range(Tasks) \subseteq Range(queue') \cup busy' \cup Range(results')
               /\ queue' # <<>> => ~Joined'
      PROVE  BatchHeld'
  BY <1>1, <1>3, <1>5 DEF BatchHeld
<1>6. CASE take_task
  <2> DEFINE e == Head(queue)
  <2>1. /\ queue # <<>> /\ queue' = Tail(queue) /\ busy' = busy \cup {e} /\ results' = results
        /\ free > 0 /\ free' = free - 1
    BY <1>6 DEF take_task
  <2>2. Range(queue) = {e} \cup Range(queue')
    BY <1>0, <2>1, Ranges
  <2>3. ~Joined'
    BY <2>1 DEF Joined
  <2>4. free' \in Nat
    BY <1>2, <2>1
  <2>5. results' \in Seq(Executions) /\ \A d \in Range(results') : phase'[d] = "done"
    BY <1>0, <1>4, <2>1
  <2> HIDE DEF e
  <2>6. /\ Range(results') \cup busy' \cup Range(queue') \subseteq Range(Tasks)
        /\ Undisturbed' => Range(Tasks) \subseteq Range(queue') \cup busy' \cup Range(results')
    BY <1>2, <1>3, <2>1, <2>2
  <2> QED
    BY <1>5, <2>3, <2>4, <2>5, <2>6
<1>7. CASE give_up_task
  <2>1. /\ queue # <<>> /\ queue' = Tail(queue) /\ busy' = busy /\ results' = results
        /\ free > 0 /\ free' = free - 1 /\ spent
    BY <1>7 DEF give_up_task
  <2>2. Range(queue') \subseteq Range(queue)
    BY <1>0, <2>1, Ranges
  <2>3. ~Undisturbed'
    BY <1>1, <2>1 DEF Undisturbed
  <2>4. free' \in Nat
    BY <1>2, <2>1
  <2>5. results' \in Seq(Executions) /\ \A d \in Range(results') : phase'[d] = "done"
    BY <1>0, <1>4, <2>1
  <2>6. Range(results') \cup busy' \cup Range(queue') \subseteq Range(Tasks)
    BY <1>2, <2>1, <2>2
  <2> QED
    BY <1>5, <2>3, <2>4, <2>5, <2>6
<1>8. CASE exit_worker
  <2>1. /\ queue' = queue /\ busy' = busy /\ results' = results
        /\ free > 0 /\ free' = free - 1 /\ (queue = <<>> \/ JobCancelled)
    BY <1>8 DEF exit_worker
  <2>2. free' \in Nat
    BY <1>2, <2>1
  <2>3. results' \in Seq(Executions) /\ \A d \in Range(results') : phase'[d] = "done"
    BY <1>0, <1>4, <2>1
  <2>4. Undisturbed' => queue' = <<>>
    BY <1>3, <2>1 DEF Undisturbed
  <2>5. Range(results') \cup busy' \cup Range(queue') \subseteq Range(Tasks)
    BY <1>2, <2>1
  <2>6. Undisturbed' => Range(Tasks) \subseteq Range(queue') \cup busy' \cup Range(results')
    BY <1>2, <1>3, <2>1
  <2> QED
    BY <1>5, <2>2, <2>3, <2>4, <2>5, <2>6
<1>9. ASSUME NEW e \in busy, send_result(e)
      PROVE  BatchHeld'
  <2>1. /\ phase[e] = "done" /\ results' = Append(results, e) /\ busy' = busy \ {e}
        /\ free' = free + 1 /\ queue' = queue
    BY <1>9 DEF send_result
  <2>2. e \in Executions
    <3>1. Range(Tasks) \subseteq Executions
      BY OrderFacts, StrategiesAssumption, Ranges DEF Tasks
    <3> QED
      BY <1>2, <3>1
  <2>3. results' \in Seq(Executions) /\ Range(results') = Range(results) \cup {e}
    BY <1>0, <2>1, <2>2, Ranges
  <2>4. \A d \in Range(results') : phase'[d] = "done"
    BY <1>0, <1>4, <2>1, <2>2, <2>3
  <2>5. free' \in Nat /\ ~Joined'
    <3>1. free' \in Nat /\ free' # 0
      BY <1>2, <2>1
    <3> QED
      BY <3>1 DEF Joined
  <2>6. Range(results') \cup busy' \cup Range(queue') \subseteq Range(Tasks)
    BY <1>2, <2>1, <2>3
  <2>7. Undisturbed' => Range(Tasks) \subseteq Range(queue') \cup busy' \cup Range(results')
    BY <1>2, <1>3, <2>1, <2>3
  <2> QED
    BY <1>5, <2>3, <2>4, <2>5, <2>6, <2>7
<1> QED
  BY <1>6, <1>7, <1>8, <1>9 DEF Work

(* The strategies of the batch and those that were lost on the way to it   *)
(* or behind it: none.                                                     *)
LEMMA BatchStep ==
  ASSUME QueueHeld, ExecutionInvariant, ThreadsHeld, SelectionHeld, [Next]_vars
  PROVE  BatchHeld'
<1>0. ExecutionTypes /\ ExecutionStep /\ BatchHeld /\ PlaceHeld
  BY StepKinds DEF ExecutionInvariant, SelectionHeld
<1>K. Kept
  BY <1>0, EndsAreFinal
<1>A. /\ Range(candidates) \subseteq Range(candidates')
      /\ pc = "batch" /\ pc' \in {"annealing", "select"} =>
           Range(results) \subseteq Range(candidates')
  BY CandidatesStep DEF CandidatesAfter
<1>R. /\ results \in Seq(Executions) /\ Range(results) \subseteq Executions
      /\ \A e \in Range(results) : phase'[e] = "done"
  BY <1>0, <1>K, Ranges DEF BatchHeld, Kept
<1>U. (spent => spent') => (Undisturbed' => Undisturbed)
  BY <1>K, DisturbanceStays
<1>1. ASSUME results' = results, pc' # "batch",
             pc' \in {"start", "exact", "baseline"} => results = <<>>,
             BaselinesBehind' /\ Undisturbed' => Range(Baselines) \subseteq Range(candidates')
      PROVE  BatchHeld'
  BY <1>R, <1>1 DEF BatchHeld
<1>2. CASE run_exact \/ skip_exact \/ exact_done
  <2>1. /\ pc \in {"start", "exact"} /\ pc' \in {"exact", "baseline", "select"}
        /\ results' = results /\ (pc' = "select" => termination' = "exact_optimum")
    BY <1>2 DEF run_exact, skip_exact, exact_done, Goto
  <2>2. results = <<>> /\ ~BaselinesBehind'
    BY <1>0, <2>1 DEF BatchHeld, BaselinesBehind
  <2> QED
    BY <1>1, <2>1, <2>2
<1>3. CASE solve_cancelled \/ baseline_cancelled \/ registered_cancelled \/ build
  <2>1. pc' = "returned" /\ results' = results
    BY <1>3 DEF solve_cancelled, baseline_cancelled, registered_cancelled, build, Return
  <2>2. ~BaselinesBehind'
    BY <2>1 DEF BaselinesBehind
  <2> QED
    BY <1>1, <2>1, <2>2
<1>4. CASE skip_baselines
  <2>1. pc' = "annealing" /\ results' = results /\ spent'
    BY <1>4 DEF skip_baselines, Goto
  <2>2. ~Undisturbed'
    BY <2>1 DEF Undisturbed
  <2> QED
    BY <1>1, <2>1, <2>2
<1>5. CASE solve_registered \/ start_baselines
  <2>1. /\ pc \in {"start", "baseline"} /\ pc' = "batch" /\ results' = results /\ busy' = busy
        /\ free' = WorkerCount /\ mode' = mode
    BY <1>5 DEF solve_registered, start_baselines, StartBatch, Goto
  <2>2. queue' = Tasks'
    <3>1. CASE solve_registered
      BY <3>1 DEF solve_registered, StartBatch, Tasks
    <3>2. CASE start_baselines
      <4>1. queue' = Baselines /\ mode' = "anytime"
        BY <1>0, <3>2 DEF start_baselines, StartBatch, PlaceHeld
      <4> QED
        BY <4>1 DEF Tasks
    <3> QED
      BY <1>5, <3>1, <3>2
  <2>3. results' = <<>> /\ busy' = {}
    BY <1>0, <2>1 DEF BatchHeld, ThreadsHeld
  <2>4. free' \in Nat /\ ~Joined'
    <3>1. free' \in Nat /\ free' # 0
      BY <2>1, StrategiesAssumption
    <3> QED
      BY <3>1 DEF Joined
  <2>5. Range(results') = {}
    BY <2>3, Ranges
  <2>6. ~BaselinesBehind'
    BY <2>1 DEF BaselinesBehind
  <2> QED
    BY <1>R, <2>1, <2>2, <2>3, <2>4, <2>5, <2>6 DEF BatchHeld
<1>6. CASE finish_baselines \/ finish_registered
  <2>1. /\ pc = "batch" /\ Joined /\ pc' \in {"annealing", "select"} /\ results' = results
        /\ spent' = spent
    BY <1>6 DEF finish_baselines, finish_registered, BatchDone, Goto
  <2>2. ASSUME Undisturbed'
        PROVE  Range(Baselines) \subseteq Range(candidates')
    <3>1. Undisturbed
      BY <1>U, <2>1, <2>2
    <3>2. /\ Range(Tasks) \subseteq Range(queue) \cup busy \cup Range(results)
          /\ queue = <<>>
      BY <1>0, <2>1, <3>1 DEF BatchHeld
    <3>3. busy = {} /\ Range(queue) = {}
      BY <2>1, <3>2, Ranges DEF Joined
    <3>4. Range(Baselines) \subseteq Range(Tasks)
      BY Positions DEF Tasks
    <3> QED
      BY <1>A, <2>1, <3>2, <3>3, <3>4
  <2> QED
    BY <1>1, <2>1, <2>2
<1>7. CASE run_annealing \/ annealing_done \/ stop_annealing
  <2>1. /\ pc \in {"annealing", "annealing run"}
        /\ pc' \in {"annealing", "annealing run", "select"} /\ results' = results
        /\ spent' = spent
    BY <1>7 DEF run_annealing, annealing_done, stop_annealing, Goto
  <2>2. ASSUME Undisturbed'
        PROVE  Range(Baselines) \subseteq Range(candidates')
    <3>1. Undisturbed /\ BaselinesBehind
      BY <1>U, <2>1, <2>2 DEF BaselinesBehind
    <3> QED
      BY <1>0, <1>A, <3>1 DEF BatchHeld
  <2> QED
    BY <1>1, <2>1, <2>2
<1>8. CASE Work
  BY <1>8, <1>K, WorkStep
<1>9. ASSUME UNCHANGED <<mode, pc, queue, free, busy, results, candidates, termination>>,
             spent => spent'
      PROVE  BatchHeld'
  <2>1. Undisturbed' => Undisturbed
    BY <1>U, <1>9
  <2>2. Tasks' = Tasks /\ (Joined' <=> Joined) /\ (BaselinesBehind' <=> BaselinesBehind)
    BY <1>9 DEF Tasks, Joined, BaselinesBehind
  <2> QED
    BY <1>0, <1>R, <1>9, <2>1, <2>2 DEF BatchHeld
<1>10. CASE SpendBudget \/ UNCHANGED solveVars
  <2>1. /\ UNCHANGED <<mode, pc, queue, free, busy, results, candidates, termination>>
        /\ spent => spent'
    BY <1>10 DEF SpendBudget, solveVars
  <2> QED
    BY <1>9, <2>1
<1>11. CASE Solve
  BY <1>2, <1>3, <1>4, <1>5, <1>6, <1>7, <1>11 DEF Solve
<1> QED
  BY <1>8, <1>10, <1>11 DEF Next, vars

(* The answer is the running best, and there is none before the end. *)
LEMMA AnswerStep ==
  ASSUME QueueHeld, ExecutionInvariant, ThreadsHeld, SelectionHeld, [Next]_vars
  PROVE  AnswerHeld'
<1>0. AnswerHeld
  BY DEF SelectionHeld
<1>1. CASE build
  <2>1. pc' = "returned" /\ result' = select /\ best' = best
    BY <1>1 DEF build, Return
  <2>2. candidates \in Seq(Executions) /\ BestOf(best, candidates, Len(candidates))
    BY DEF SelectionHeld, CandidatesHeld
  <2>3. \A e \in Executions : candidate[e].score \in Int
    BY ScoresAreNumbers DEF ExecutionInvariant
  <2>4. select = IF best = NoBest THEN "no_feasible_route" ELSE best
    BY <2>2, <2>3, SelectIsBest
  <2> QED
    BY <2>1, <2>4 DEF AnswerHeld, NoBest
<1>2. CASE solve_cancelled \/ baseline_cancelled \/ registered_cancelled
  <2>1. pc' = "returned" /\ result' = "cancelled"
    BY <1>2 DEF solve_cancelled, baseline_cancelled, registered_cancelled, Return
  <2> QED
    BY <2>1 DEF AnswerHeld
<1>3. CASE \/ solve_registered \/ run_exact \/ skip_exact \/ exact_done \/ start_baselines
           \/ skip_baselines \/ finish_baselines \/ finish_registered \/ run_annealing
           \/ annealing_done \/ stop_annealing
  <2>1. pc # "returned" /\ pc' # "returned" /\ result' = result
    BY <1>3 DEF solve_registered, run_exact, skip_exact, exact_done, start_baselines,
       skip_baselines, finish_baselines, finish_registered, run_annealing, annealing_done,
       stop_annealing, StartBatch, BatchDone, Goto
  <2> QED
    BY <1>0, <2>1 DEF AnswerHeld
<1>4. CASE Work \/ SpendBudget \/ UNCHANGED solveVars
  <2>1. pc' = pc /\ result' = result /\ best' = best
    BY <1>4 DEF Work, take_task, give_up_task, exit_worker, send_result, SpendBudget, solveVars
  <2> QED
    BY <1>0, <2>1 DEF AnswerHeld
<1> QED
  BY <1>1, <1>2, <1>3, <1>4 DEF Next, Solve, vars

(* What the invariant says of the answer. *)
LEMMA SelectionHolds == SelectionHeld => SelectionIsDeterministic
<1> SUFFICES ASSUME SelectionHeld
             PROVE  SelectionIsDeterministic
  OBVIOUS
<1> DEFINE n == Len(candidates)
           good == {e \in Range(candidates) : candidate[e].feasible}
<1>1. /\ candidates \in Seq(Executions) /\ Sorted(candidates) /\ BestOf(best, candidates, n)
      /\ Range(candidates) \subseteq Range(Order) /\ AnswerHeld
      /\ BaselinesBehind /\ Undisturbed => Range(Baselines) \subseteq Range(candidates)
  BY DEF SelectionHeld, CandidatesHeld, BatchHeld
<1>2. /\ DOMAIN candidates = 1..n /\ n \in Nat
      /\ \A i \in 1..n : candidates[i] \in Range(Order) /\ Position(candidates[i]) \in Int
  <2>1. DOMAIN candidates = 1..n /\ n \in Nat
    BY <1>1
  <2>2. \A i \in 1..n : candidates[i] \in Range(candidates)
    BY <2>1 DEF Range
  <2> QED
    BY <1>1, <2>1, <2>2, PositionAt, OrderFacts
<1>3. BestIsSelected
  BY <1>1 DEF AnswerHeld, BestIsSelected
<1> HIDE DEF n
<1>4. ASSUME result \in Executions
      PROVE  /\ result \in good
             /\ \A e \in good :
                  \/ candidate[result].score < candidate[e].score
                  \/ candidate[result].score = candidate[e].score
                       /\ Position(result) <= Position(e)
  <2>1. result = best /\ best # NoBest
    BY <1>1, <1>4, StrategiesAssumption DEF AnswerHeld, NoBest
  <2>2. PICK i \in 1..n :
          /\ best = candidates[i] /\ candidate[candidates[i]].feasible
          /\ \A j \in 1..n : candidate[candidates[j]].feasible =>
               \/ candidate[candidates[i]].score < candidate[candidates[j]].score
               \/ candidate[candidates[i]].score = candidate[candidates[j]].score /\ i <= j
    BY <1>1, <2>1 DEF BestOf
  <2>3. result \in good
    BY <1>2, <2>1, <2>2 DEF Range
  <2>4. ASSUME NEW e \in good
        PROVE  \/ candidate[result].score < candidate[e].score
               \/ candidate[result].score = candidate[e].score
                    /\ Position(result) <= Position(e)
    <3>1. PICK j \in 1..n : e = candidates[j]
      BY <1>2, <2>4 DEF Range
    <3>2. candidate[candidates[j]].feasible
      BY <2>4, <3>1
    <3>3. i <= j => Position(candidates[i]) <= Position(candidates[j])
      <4>1. CASE i < j
        <5>1. Position(candidates[i]) < Position(candidates[j])
          BY <1>1, <1>2, <4>1 DEF Sorted
        <5> QED
          BY <1>2, <5>1
      <4>2. CASE ~(i < j)
        <5>1. i <= j => i = j
          BY <1>2, <4>2
        <5> QED
          BY <1>2, <5>1
      <4> QED
        BY <4>1, <4>2
    <3> QED
      BY <2>1, <2>2, <3>1, <3>2, <3>3
  <2> QED
    BY <2>3, <2>4
<1>5. IsInjective(candidates)
  <2> SUFFICES ASSUME NEW i \in 1..n, NEW j \in 1..n, candidates[i] = candidates[j]
               PROVE  i = j
    BY <1>2 DEF IsInjective
  <2>1. i < j => Position(candidates[i]) < Position(candidates[j])
    BY <1>1, <1>2 DEF Sorted
  <2>2. j < i => Position(candidates[j]) < Position(candidates[i])
    BY <1>1, <1>2 DEF Sorted
  <2>3. Position(candidates[i]) = Position(candidates[j]) /\ Position(candidates[i]) \in Int
    BY <1>2
  <2> QED
    BY <1>2, <2>1, <2>2, <2>3
<1>6. StrategiesAccountedFor
  BY <1>1, <1>5 DEF StrategiesAccountedFor, BaselinesBehind, Undisturbed
<1> QED
  BY <1>3, <1>4, <1>6 DEF SelectionIsDeterministic

LEMMA SelectionInvariant == Spec => []SelectionHeld
<1>1. Init => SelectionHeld
  <2> SUFFICES ASSUME Init
               PROVE  SelectionHeld
    OBVIOUS
  <2>1. /\ candidates = <<>> /\ results = <<>> /\ best = NoBest /\ pc = "start"
        /\ result = "none" /\ mode \in {"anytime", "registered"}
    BY DEF Init
  <2>2. Range(candidates) = {} /\ Range(results) = {}
    BY <2>1, Ranges
  <2>3. CandidatesHeld
    <3>1. candidates \in Seq(Executions) /\ Len(candidates) = 0 /\ DOMAIN candidates = {}
      BY <2>1
    <3>2. Sorted(candidates) /\ BestOf(best, candidates, Len(candidates))
      BY <2>1, <3>1 DEF Sorted, BestOf
    <3> QED
      BY <2>2, <3>1, <3>2 DEF CandidatesHeld
  <2>4. BatchHeld
    BY <2>1, <2>2 DEF BatchHeld, BaselinesBehind
  <2>5. PlaceHeld /\ AnswerHeld
    BY <2>1 DEF PlaceHeld, AnswerHeld
  <2> QED
    BY <2>3, <2>4, <2>5 DEF SelectionHeld
<1>2. QueueHeld /\ ExecutionInvariant /\ ThreadsHeld /\ SelectionHeld /\ [Next]_vars =>
        SelectionHeld'
  <2> SUFFICES ASSUME QueueHeld, ExecutionInvariant, ThreadsHeld, SelectionHeld, [Next]_vars
               PROVE  SelectionHeld'
    OBVIOUS
  <2>1. CandidatesHeld'
    BY CandidatesStep DEF CandidatesAfter
  <2>2. PlaceHeld'
    BY PlaceStep DEF SelectionHeld
  <2>3. BatchHeld' /\ AnswerHeld'
    BY BatchStep, AnswerStep
  <2> QED
    BY <2>1, <2>2, <2>3 DEF SelectionHeld
<1> QED
  BY <1>1, <1>2, ExecutionsAgree, ThreadsInvariant, PTL DEF Spec

(* The answer of a solve does not depend on which worker thread was        *)
(* faster: it is the best feasible candidate, of equally good ones the one *)
(* registered first, and the running best that seeds the annealing runs;   *)
(* no candidate is considered twice, and no baseline strategy of a solve   *)
(* that was neither cancelled nor out of budget is lost on its way through *)
(* queue, workers and channel (StrategyBatchExecutor, CandidateAccumulator,*)
(* CandidateSelector).                                                     *)
THEOREM AnswerIsDeterministic == Spec => []SelectionIsDeterministic
BY SelectionInvariant, SelectionHolds, PTL

-----------------------------------------------------------------------------
(* The manager a solve shares with other jobs keeps its types: a solve     *)
(* does nothing with it that the manager does not allow (Refinement), and  *)
(* the manager leaves its limits in no step.                               *)

(* A reservation that fits, and a release, stay within the limits. *)
LEMMA ReserveType ==
  ASSUME NEW u \in R!ResourceUsage, NEW r \in R!ResourceRequest, R!fits(u, r)
  PROVE  R!reserve(u, r) \in R!ResourceUsage
BY ExecutionsAssumption
   DEF R!ResourceUsage, R!ResourceRequest, R!fits, R!reserve, R!SaturatingAdd

(* A release never leaves the limits: it only subtracts, down to zero. *)
LEMMA ReleaseType ==
  ASSUME NEW u \in R!ResourceUsage, NEW r \in R!ResourceRequest
  PROVE  R!released(u, r) \in R!ResourceUsage
BY ExecutionsAssumption
   DEF R!ResourceUsage, R!ResourceRequest, R!released, R!SaturatingSub

(* The idle manager has the types. *)
LEMMA InitTypeOK == R!Init => R!TypeOK
BY ExecutionsAssumption
   DEF R!Init, R!TypeOK, R!ResourceUsage, R!ResourceRequest, R!HolderStates, R!NoRequest

(* The step of one execution and what it does to the usage. *)
LEMMA NextTypeOK == R!TypeOK /\ [R!Next]_(R!vars) => R!TypeOK'
<1> SUFFICES ASSUME R!TypeOK, [R!Next]_(R!vars)
             PROVE  R!TypeOK'
  OBVIOUS
<1> USE DEF R!TypeOK, R!HolderStates
<1>1. ASSUME NEW h \in Executions \cup Others, NEW r \in Requests, R!Refused(h, r)
      PROVE  R!TypeOK'
  BY <1>1, ExecutionsAssumption DEF R!Refused, R!Enter
<1>2. ASSUME NEW h \in Executions \cup Others, NEW r \in Requests, R!try_acquire(h, r)
      PROVE  R!TypeOK'
  <2>1. r \in R!ResourceRequest
    BY ExecutionsAssumption
  <2>2. usage' \in R!ResourceUsage
    BY <1>2, <2>1, ReserveType DEF R!try_acquire
  <2> QED
    BY <1>2, <2>1, <2>2 DEF R!try_acquire, R!Enter
<1>3. ASSUME NEW h \in Executions \cup Others, NEW r \in Requests, R!acquire_until(h, r)
      PROVE  R!TypeOK'
  BY <1>3, ExecutionsAssumption DEF R!acquire_until, R!Enter
<1>4. ASSUME NEW h \in Executions \cup Others, R!wait_cancelled(h)
      PROVE  R!TypeOK'
  BY <1>4 DEF R!wait_cancelled, R!Leave
<1>5. ASSUME NEW h \in Executions \cup Others, R!wait_fits(h)
      PROVE  R!TypeOK'
  <2>1. usage' \in R!ResourceUsage
    BY <1>5, ReserveType DEF R!wait_fits
  <2> QED
    BY <1>5, <2>1 DEF R!wait_fits, R!Leave
<1>6. ASSUME NEW h \in Executions \cup Others, R!wait_expired(h)
      PROVE  R!TypeOK'
  BY <1>6 DEF R!wait_expired, R!Leave
<1>7. ASSUME NEW h \in Executions \cup Others, R!drop_lease(h)
      PROVE  R!TypeOK'
  <2>1. usage' \in R!ResourceUsage
    BY <1>7, ReleaseType DEF R!drop_lease
  <2> QED
    BY <1>7, <2>1 DEF R!drop_lease, R!Leave
<1>8. CASE \/ \E h \in Executions \cup Others : R!DeadlinePasses(h)
           \/ \E job \in SUBSET (Executions \cup Others) : R!CancelTokens(job)
  BY <1>8 DEF R!CancelTokens, R!DeadlinePasses
<1>9. CASE UNCHANGED R!vars
  BY <1>9 DEF R!vars
<1> QED
  BY <1>1, <1>2, <1>3, <1>4, <1>5, <1>6, <1>7, <1>8, <1>9 DEF R!Next, R!Acquire, R!Wait

(* The usage counters never exceed the limits, whatever is requested,      *)
(* cancelled or released in whichever order.                               *)
LEMMA UsageWithinLimits == R!Spec => []R!TypeOK
BY InitTypeOK, NextTypeOK, PTL DEF R!Spec

-----------------------------------------------------------------------------
(* The worker threads of a batch are free or in an execution, and no more  *)
(* than were started (StrategyBatchExecutor).                              *)
WorkersCounted ==
  busy \subseteq Executions /\ free \in Nat /\ free + Cardinality(busy) <= WorkerCount

LEMMA WorkersStep ==
  ASSUME QueueHeld, ThreadsHeld, WorkersCounted, [Next]_vars
  PROVE  WorkersCounted'
<1>1. /\ WorkerCount \in Nat \ {0} /\ IsFiniteSet(busy) /\ Cardinality(busy) \in Nat
      /\ busy \subseteq Executions /\ free \in Nat /\ free + Cardinality(busy) <= WorkerCount
  <2>1. IsFiniteSet(busy)
    BY ExecutionsAssumption, FS_Subset DEF WorkersCounted
  <2> QED
    BY <2>1, StrategiesAssumption, FS_CardinalityType DEF WorkersCounted
<1>2. CASE take_task
  <2>1. /\ queue # <<>> /\ free > 0 /\ free' = free - 1 /\ busy' = busy \cup {Head(queue)}
    BY <1>2 DEF take_task
  <2>2. Head(queue) \in Executions
    BY <2>1 DEF QueueHeld
  <2>3. Cardinality(busy') \in Nat /\ Cardinality(busy') <= Cardinality(busy) + 1
    <3>1. Cardinality(busy \cup {Head(queue)}) =
            IF Head(queue) \in busy THEN Cardinality(busy) ELSE Cardinality(busy) + 1
      BY <1>1, FS_AddElement
    <3> QED
      BY <1>1, <2>1, <3>1
  <2> QED
    BY <1>1, <2>1, <2>2, <2>3 DEF WorkersCounted
<1>3. CASE give_up_task \/ exit_worker
  <2>1. free > 0 /\ free' = free - 1 /\ busy' = busy
    BY <1>3 DEF give_up_task, exit_worker
  <2> QED
    BY <1>1, <2>1 DEF WorkersCounted
<1>4. ASSUME NEW e \in busy, send_result(e)
      PROVE  WorkersCounted'
  <2>1. free' = free + 1 /\ busy' = busy \ {e}
    BY <1>4 DEF send_result
  <2>2. Cardinality(busy \ {e}) = Cardinality(busy) - 1 /\ Cardinality(busy \ {e}) \in Nat
    BY <1>1, FS_RemoveElement, FS_CardinalityType
  <2> QED
    BY <1>1, <2>1, <2>2 DEF WorkersCounted
<1>5. CASE solve_registered \/ start_baselines
  <2>1. pc # "batch" /\ free' = WorkerCount /\ busy' = busy
    BY <1>5 DEF solve_registered, start_baselines, StartBatch
  <2>2. busy = {} /\ Cardinality(busy) = 0
    BY <2>1, FS_EmptySet DEF ThreadsHeld
  <2> QED
    BY <1>1, <2>1, <2>2 DEF WorkersCounted
<1>6. CASE Solve /\ ~solve_registered /\ ~start_baselines
  <2>1. free' = free /\ busy' = busy
    BY <1>6 DEF Solve, solve_cancelled, run_exact, skip_exact, exact_done,
       baseline_cancelled, skip_baselines, finish_baselines, finish_registered,
       registered_cancelled, run_annealing, annealing_done, stop_annealing, build, BatchDone
  <2> QED
    BY <1>1, <2>1 DEF WorkersCounted
<1>7. CASE SpendBudget \/ UNCHANGED solveVars
  <2>1. free' = free /\ busy' = busy
    BY <1>7 DEF SpendBudget, solveVars
  <2> QED
    BY <1>1, <2>1 DEF WorkersCounted
<1> QED
  BY <1>2, <1>3, <1>4, <1>5, <1>6, <1>7 DEF Next, Work, vars

LEMMA WorkersInvariant == Spec => []WorkersCounted
<1>1. Init => WorkersCounted
  BY StrategiesAssumption, FS_EmptySet DEF Init, WorkersCounted
<1> QED
  BY <1>1, WorkersStep, ExecutionsAgree, ThreadsInvariant, PTL DEF Spec

(* At every moment of a solve every variable has its type, a strategy      *)
(* works only under a lease and the jobs together stay within              *)
(* max_concurrent_runs; and a solve that has returned leaves no thread and *)
(* no lease behind (solve_anytime, solve_registered, execute_strategy).    *)
THEOREM SolveIsSound == Spec => []SolveInvariant
<1>1. /\ QueueHeld /\ ExecutionInvariant /\ SelectionHeld /\ WorkersCounted /\ R!TypeOK => TypeOK
  <2> SUFFICES ASSUME QueueHeld, ExecutionInvariant, SelectionHeld, WorkersCounted, R!TypeOK
               PROVE  TypeOK
    OBVIOUS
  <2>1. Range(queue) \cup Range(results) \cup Range(candidates) \subseteq Executions
    BY Ranges DEF QueueHeld, SelectionHeld, CandidatesHeld, BatchHeld
  <2>2. free \in 0..WorkerCount /\ busy \subseteq Executions
    <3>1. Cardinality(busy) \in Nat
      BY ExecutionsAssumption, FS_Subset, FS_CardinalityType DEF WorkersCounted
    <3> QED
      BY <3>1, StrategiesAssumption DEF WorkersCounted
  <2>3. best \in Executions \cup {NoBest}
    BY DEF SelectionHeld, CandidatesHeld, BestOf
  <2>4. result \in Executions \cup {"none", "cancelled", "no_feasible_route"}
    BY <2>3 DEF SelectionHeld, AnswerHeld
  <2> QED
    BY <2>1, <2>2, <2>3, <2>4 DEF TypeOK, ExecutionInvariant, ExecutionTypes
<1>2. Spec => []R!TypeOK
  BY Refinement, UsageWithinLimits, PTL DEF UsesResourceManager
<1> QED
  BY <1>1, <1>2, ExecutionsAgree, SelectionInvariant, WorkersInvariant, WorkEndsWithTheSolve, PTL
     DEF SolveInvariant
=============================================================================
