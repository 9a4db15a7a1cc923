------------------------- MODULE StrategyExecution --------------------------
(***************************************************************************)
(* execute_strategy (src/solver/orchestrator/strategy.rs): one strategy of *)
(* a solve, from its wait for a resource lease to its SolverCandidate.     *)
(* The calling thread acquires the lease, runs the strategy under a child  *)
(* token, evaluates its route, joins the watcher and drops the lease; the  *)
(* watcher thread cancels the child token when the job is cancelled or the *)
(* deadline of the execution passes.  The resources are those of           *)
(* ResourceManager, shared with the executions of other jobs.              *)
(***************************************************************************)
EXTENDS Integers, FiniteSets

CONSTANTS
  Executions,   \* the strategy executions of this solve
  Others,       \* strategy executions of other jobs
  Exact,        \* the execution of exact_bit_dp
  Preserving,   \* those with preserves_result_on_cancellation (annealing)
  Returns,      \* per execution: what its strategy may return
  RequestsOf,   \* per execution: the ResourceRequests its configuration may give it
  Requests, CpuSlots, MaxRuns, MaxProcesses, MemoryLimit, MaxMemory

VARIABLES
  usage, holder, request, cancelled, expired,   \* of ResourceManager
  phase,      \* per execution: where its calling thread is
  watcher,    \* per execution: its watcher thread
  reason,     \* per execution: timeout_reason, written with the child token's cancellation
  returned,   \* per execution: what the strategy and the evaluation gave
  candidate   \* per execution: the SolverCandidate, once there is one

R == INSTANCE ResourceManager WITH Holders <- Executions \cup Others

resourceVars == <<usage, holder, request, cancelled, expired>>
executionVars == <<phase, watcher, reason, returned, candidate>>

Phases == {"idle", "waiting", "leased", "running", "evaluating", "validating",
           "returned", "done"}

(* The calling thread owns the lease. *)
Leased == {"leased", "running", "evaluating", "validating", "returned"}

(* SolverError, the configuration and size errors as one. *)
Errors == {"cancelled", "no_feasible_route", "proven_infeasible", "unsupported",
           "timed_out", "failed"}

NoScore == -1

(* What a strategy returns: a route (its score under the common objective, *)
(* NoScore if evaluation rejects it; the proof and the time-out its own    *)
(* metadata claims; whether it made no iteration), an error or a panic.    *)
Route(score, proof, late, idle) ==
  [kind |-> "route", score |-> score, proof |-> proof, late |-> late, idle |-> idle]

Failure(kind) ==
  [kind |-> kind, score |-> NoScore, proof |-> "none", late |-> FALSE, idle |-> FALSE]

Nothing == Failure("nothing")

Outcomes == {"completed", "timeout", "cancelled", "infeasible", "unsupported", "failed"}
Proofs == {"none", "optimal", "feasible", "infeasible", "unknown"}

(* A cancellation is for the child token to cause: see strategy_returns.   *)
(* The strategies that preserve their result are annealing runs, whose     *)
(* metadata claims no proof (AnnealingStrategy::execute).                  *)
ASSUME ReturnsAssumption ==
  \A e \in Executions :
    /\ Returns[e] \subseteq [kind : Errors \cup {"route", "panic"}, score : Int, proof : Proofs,
                             late : BOOLEAN, idle : BOOLEAN]
    /\ e \in Preserving => \A o \in Returns[e] : o.proof = "none"

(* A job has strategies of its own, and ResourceManager its limits. *)
ASSUME ExecutionsAssumption ==
  /\ IsFiniteSet(Executions) /\ IsFiniteSet(Others) /\ Executions \cap Others = {}
  /\ \A e \in Executions : RequestsOf[e] \subseteq Requests
  /\ Requests \subseteq R!ResourceRequest
  /\ CpuSlots \in Nat \ {0} /\ MaxRuns \in Nat \ {0} /\ MaxProcesses \in Nat
  /\ MaxMemory \in Nat /\ MemoryLimit \in {R!NoLimit} \cup 0..MaxMemory

Candidates ==
  [outcome : Outcomes, proof : Proofs, feasible : BOOLEAN, score : Int, idle : BOOLEAN]

NoCandidate ==
  [outcome |-> "none", proof |-> "none", feasible |-> FALSE, score |-> NoScore, idle |-> FALSE]

ExecutionInit ==
  /\ R!Init
  /\ phase = [e \in Executions |-> "idle"]
  /\ watcher = [e \in Executions |-> "off"]
  /\ reason = [e \in Executions |-> 0]
  /\ returned = [e \in Executions |-> Nothing]
  /\ candidate = [e \in Executions |-> NoCandidate]

-----------------------------------------------------------------------------
(* A candidate without a route. *)
Routeless(outcome, proof) ==
  [outcome |-> outcome, proof |-> proof, feasible |-> FALSE, score |-> NoScore, idle |-> FALSE]

(* Its callers pass a time-out, a cancellation or a text of their own, so  *)
(* the source's case for NoFeasibleRoute of exact_bit_dp never applies.    *)
failed_candidate(timed_out, error) ==
  Routeless(IF timed_out THEN "timeout"
            ELSE IF error = "cancelled" THEN "cancelled" ELSE "failed", "none")

failed_candidate_from_error(error) ==
  CASE error = "cancelled"         -> Routeless("cancelled", "unknown")
    [] error = "proven_infeasible" -> Routeless("infeasible", "infeasible")
    [] error = "unsupported"       -> Routeless("unsupported", "unknown")
    [] error = "timed_out"         -> Routeless("timeout", "unknown")
    [] OTHER                       -> Routeless("failed", "unknown")

Feasible(e, o) ==
  [outcome  |-> IF o.late \/ reason[e] = 1 THEN "timeout" ELSE "completed",
   proof    |-> IF o.proof # "none" THEN o.proof
                ELSE IF e = Exact /\ reason[e] = 0 THEN "optimal" ELSE "feasible",
   feasible |-> TRUE, score |-> o.score, idle |-> o.idle]

Rejected(o) ==
  [outcome |-> "failed", proof |-> "unknown", feasible |-> FALSE, score |-> NoScore,
   idle |-> o.idle]

Judged(e, o) ==
  CASE o.kind = "panic"     -> failed_candidate(FALSE, "panic")
    [] o.kind = "evaluated" -> Feasible(e, o)
    [] o.kind = "rejected"  -> Rejected(o)
    [] OTHER                -> failed_candidate_from_error(o.kind)

(* Seeded fault: an interrupted strategy is judged by its result. *)
CandidateOf_ignores_reason(e) == Judged(e, returned[e])

(* The watcher's reason overrides the result, except for a strategy that   *)
(* preserves it.                                                           *)
CandidateOf(e) ==
  CASE reason[e] = 1 /\ e \notin Preserving -> failed_candidate(TRUE, "timeout")
    [] reason[e] = 2 /\ e \notin Preserving -> failed_candidate(FALSE, "cancelled")
    [] OTHER -> Judged(e, returned[e])

(* execute_strategy returns and its locals are gone. *)
Finish(e, c) ==
  /\ phase' = [phase EXCEPT ![e] = "done"]
  /\ candidate' = [candidate EXCEPT ![e] = c]
  /\ watcher' = [watcher EXCEPT ![e] = "off"]
  /\ reason' = [reason EXCEPT ![e] = 0]
  /\ returned' = [returned EXCEPT ![e] = Nothing]

-----------------------------------------------------------------------------
(* The wait for the lease. *)
Launch(e) ==
  /\ phase[e] = "idle"
  /\ \E r \in RequestsOf[e] :
       \/ /\ R!acquire_until(e, r)
          /\ phase' = [phase EXCEPT ![e] = "waiting"]
          /\ UNCHANGED <<watcher, reason, returned, candidate>>
       \/ /\ R!Refused(e, r)
          /\ Finish(e, failed_candidate(FALSE, "invalid request"))

lease_cancelled(e) ==
  /\ phase[e] = "waiting"
  /\ R!wait_cancelled(e)
  /\ Finish(e, failed_candidate(FALSE, "cancelled"))

lease_expired(e) ==
  /\ phase[e] = "waiting"
  /\ R!wait_expired(e)
  /\ Finish(e, failed_candidate(TRUE, "deadline"))

(* Seeded fault: the lease is taken without looking at the capacity. *)
lease_acquired_unchecked(e) ==
  /\ phase[e] = "waiting" /\ e \notin cancelled
  /\ usage' = R!reserve(usage, request[e])
  /\ R!Leave(e, "holding")
  /\ phase' = [phase EXCEPT ![e] = "leased"]
  /\ UNCHANGED <<watcher, reason, returned, candidate>>

lease_acquired(e) ==
  /\ phase[e] = "waiting"
  /\ R!wait_fits(e)
  /\ phase' = [phase EXCEPT ![e] = "leased"]
  /\ UNCHANGED <<watcher, reason, returned, candidate>>

(* The whole timeout went into the wait: the lease is dropped unused. *)
too_late(e) ==
  /\ phase[e] = "leased" /\ e \in expired
  /\ R!drop_lease(e)
  /\ Finish(e, failed_candidate(TRUE, "deadline"))

start(e) ==
  /\ phase[e] = "leased" /\ e \notin expired
  /\ phase' = [phase EXCEPT ![e] = "running"]
  /\ watcher' = [watcher EXCEPT ![e] = "watching"]
  /\ UNCHANGED <<resourceVars, reason, returned, candidate>>

-----------------------------------------------------------------------------
(* The watcher: the job's token first, then the clock, then the done       *)
(* message of the calling thread.                                          *)
Interrupt(e, why) ==
  /\ watcher[e] = "watching"
  /\ reason' = [reason EXCEPT ![e] = why]
  /\ watcher' = [watcher EXCEPT ![e] = "stopped"]
  /\ UNCHANGED <<resourceVars, phase, returned, candidate>>

(* Seeded fault: the clock is not watched. *)
watch_timeout_ignored(e) == e \in cancelled /\ e \in expired /\ Interrupt(e, 1)

watch_parent(e) == e \in cancelled /\ Interrupt(e, 2)

watch_timeout(e) == e \notin cancelled /\ e \in expired /\ Interrupt(e, 1)

watch_done(e) ==
  /\ watcher[e] = "watching" /\ phase[e] = "returned"
  /\ watcher' = [watcher EXCEPT ![e] = "stopped"]
  /\ UNCHANGED <<resourceVars, phase, reason, returned, candidate>>

(* The strategy returns (external): it reports a cancellation only of its  *)
(* child token.  The token of the evaluation is chosen at once: a fresh    *)
(* one if the result is to be preserved and the child token is cancelled.  *)
strategy_returns(e) ==
  /\ phase[e] = "running"
  /\ \E o \in Returns[e] :
       /\ o.kind = "cancelled" => reason[e] # 0
       /\ returned' = [returned EXCEPT ![e] = o]
       /\ phase' = [phase EXCEPT ![e] =
                      IF o.kind # "route" THEN "returned"
                      ELSE IF e \in Preserving /\ reason[e] # 0 THEN "validating"
                      ELSE "evaluating"]
  /\ UNCHANGED <<resourceVars, watcher, reason, candidate>>

(* ObjectiveEvaluator::evaluate looks at its token once. *)
evaluate(e) ==
  /\ phase[e] \in {"evaluating", "validating"}
  /\ LET stopped == phase[e] = "evaluating" /\ reason[e] # 0
         valid == returned[e].score # NoScore /\ ~stopped
     IN  returned' = [returned EXCEPT ![e].kind = IF valid THEN "evaluated" ELSE "rejected"]
  /\ phase' = [phase EXCEPT ![e] = "returned"]
  /\ UNCHANGED <<resourceVars, watcher, reason, candidate>>

(* Joins the watcher, judges the result, drops the lease. *)
join(e) ==
  /\ phase[e] = "returned" /\ watcher[e] = "stopped"
  /\ Finish(e, CandidateOf(e))
  /\ R!drop_lease(e)

-----------------------------------------------------------------------------
Waiting(e) == lease_cancelled(e) \/ lease_expired(e) \/ lease_acquired(e)

Watch(e) == watch_parent(e) \/ watch_timeout(e) \/ watch_done(e)

Execute(e) ==
  \/ Waiting(e) \/ too_late(e) \/ start(e) \/ strategy_returns(e) \/ evaluate(e) \/ join(e)
  \/ Watch(e)

(* The executions of other jobs, as far as the resources show them. *)
OtherJob(o) ==
  /\ \/ \E r \in Requests : R!acquire_until(o, r)
     \/ R!wait_fits(o)
     \/ R!drop_lease(o)
  /\ UNCHANGED executionVars

(* The job's token is shared by all of its executions. *)
JobCancelled == Executions \subseteq cancelled

CancelJob ==
  /\ R!CancelTokens(Executions)
  /\ UNCHANGED executionVars

TimePasses(e) ==
  /\ phase[e] \notin {"idle", "done"}
  /\ R!DeadlinePasses(e)
  /\ UNCHANGED executionVars

-----------------------------------------------------------------------------
(* A strategy works only while the manager counts its lease, and no lease  *)
(* outlives the execution: executions of all jobs together never run more  *)
(* than max_concurrent_runs strategies.                                    *)
WorkIsLeased ==
  /\ \A e \in Executions : (phase[e] \in Leased) <=> (holder[e] = "holding")
  /\ Cardinality({e \in Executions : phase[e] \in Leased})
       + Cardinality({o \in Others : holder[o] = "holding"}) = usage.runs
  /\ usage.runs <= MaxRuns

Completes(e) == phase[e] # "done" /\ phase'[e] = "done"

(* The route of a strategy that was interrupted, by a cancellation or by   *)
(* its deadline, is usable only if the strategy preserves it, and nothing  *)
(* interrupted is ever called optimal.  Nobody is blamed for what did not  *)
(* happen: an outcome that names a cancellation or a deadline has one      *)
(* behind it, except that an annealing run whose deadline passes before    *)
(* its first iteration reports its cancelled child token as a              *)
(* cancellation, and that a solver may time out on a limit of its own.     *)
InterruptedProvesNothing ==
  [][\A e \in Executions : Completes(e) =>
       /\ reason[e] # 0 =>
            /\ candidate'[e].feasible => e \in Preserving
            /\ candidate'[e].proof # "optimal"
       /\ candidate'[e].outcome = "cancelled" =>
            e \in cancelled \/ (e \in Preserving /\ e \in expired)
       /\ candidate'[e].outcome = "timeout" =>
            e \in expired \/ returned[e].late \/ returned[e].kind = "timed_out"
    ]_<<resourceVars, executionVars>>
=============================================================================
