------------------------- MODULE SolverOrchestrator -------------------------
(***************************************************************************)
(* SolverOrchestrator (src/solver/orchestrator/runner.rs): one solve.      *)
(* With the built-in strategies it is an anytime search: the exact solver, *)
(* a batch of baseline strategies on worker threads, annealing runs while  *)
(* the budget lasts; with registered strategies it is one batch without a  *)
(* budget.  Every candidate goes through CandidateAccumulator, which       *)
(* tracks the best one, and CandidateSelector picks the answer.  The       *)
(* executions are those of StrategyExecution.  A matrix of the wrong size  *)
(* and a problem no strategy applies to end a solve before it starts, and  *)
(* are left out.                                                           *)
(***************************************************************************)
EXTENDS StrategyExecution, Sequences, SequencesExt

CONSTANTS
  Baselines,    \* the baseline strategies, in registration order
  Annealings,   \* the annealing runs, in order; their number bounds the loop
  WorkerCount,  \* worker threads of a batch
  CompareAll,   \* config.compare_all
  MayStopEarly  \* the configuration may end or skip the annealing loop early

ASSUME StrategiesAssumption ==
  /\ Exact \in Executions /\ Baselines \in Seq(Executions) /\ Annealings \in Seq(Executions)
  /\ WorkerCount \in Nat \ {0}
  /\ Executions \cap {"none", "cancelled", "no_feasible_route"} = {}

VARIABLES
  mode,        \* "anytime" or "registered"
  pc,          \* where the solving thread is
  spent,       \* no more than deadline_safety_margin of the budget is left
  queue,       \* the strategies no worker has taken
  free,        \* worker threads that are about to take a strategy
  busy,        \* the executions worker threads are in
  results,     \* the channel: executions in the order of their candidates
  candidates,  \* CandidateAccumulator.candidates, as executions
  best,        \* CandidateAccumulator.best_index, as an execution
  exhausted,   \* an annealing run made no iteration
  termination, \* termination_reason
  result       \* the selected execution or the error

solveVars == <<mode, pc, spent, queue, free, busy, results, candidates, best,
               exhausted, termination, result>>
vars == <<resourceVars, executionVars, solveVars>>

NoBest == "none"

(* Registration order of everything that can become a candidate. *)
Registered == <<Exact>> \o Baselines
Order == Registered \o Annealings
Position(e) == CHOOSE i \in DOMAIN Order : Order[i] = e

(* No two places of a solve share an execution. *)
ASSUME OrderAssumption == IsInjective(Order)

Init ==
  /\ ExecutionInit
  /\ mode \in {"anytime", "registered"}
  /\ pc = "start"
  /\ spent = FALSE
  /\ queue = <<>>
  /\ free = 0
  /\ busy = {}
  /\ results = <<>>
  /\ candidates = <<>>
  /\ best = NoBest
  /\ exhausted = FALSE
  /\ termination = "none"
  /\ result = "none"

-----------------------------------------------------------------------------
(* CandidateAccumulator::consider: only a strictly better candidate is the *)
(* new best.                                                               *)
consider(b, e) ==
  IF /\ candidate[e].feasible
     /\ b = NoBest \/ candidate[e].score < candidate[b].score
  THEN e ELSE b

Accumulate(es) ==
  /\ candidates' = candidates \o es
  /\ best' = FoldLeft(consider, best, es)

(* CandidateSelector: a stable sort, feasible and better first, then the   *)
(* first feasible one.                                                     *)
FeasibleAt(i) == candidate[candidates[i]].feasible
ScoreAt(i) == candidate[candidates[i]].score

RankedBefore(i, j) ==
  \/ FeasibleAt(i) /\ ~FeasibleAt(j)
  \/ FeasibleAt(i) /\ FeasibleAt(j) /\ ScoreAt(i) < ScoreAt(j)
  \/ FeasibleAt(i) = FeasibleAt(j) /\ ScoreAt(i) = ScoreAt(j) /\ i < j

select ==
  IF \E i \in DOMAIN candidates : FeasibleAt(i)
  THEN LET first == CHOOSE i \in DOMAIN candidates :
             \A j \in DOMAIN candidates \ {i} : RankedBefore(i, j)
       IN  candidates[first]
  ELSE "no_feasible_route"

-----------------------------------------------------------------------------
Goto(next) == pc' = next

Return(answer) == pc' = "returned" /\ result' = answer

(* solve_detailed_with_progress *)
solve_cancelled ==
  /\ pc = "start" /\ JobCancelled
  /\ Return("cancelled")
  /\ UNCHANGED <<resourceVars, executionVars, mode, spent, queue, free, busy, results,
                 candidates, best, exhausted, termination>>

StartBatch(tasks) ==
  /\ queue' = tasks
  /\ free' = WorkerCount
  /\ Goto("batch")
  /\ UNCHANGED <<resourceVars, executionVars, mode, spent, busy, results, candidates, best,
                 exhausted, termination, result>>

solve_registered ==
  /\ pc = "start" /\ ~JobCancelled /\ mode = "registered"
  /\ StartBatch(Registered)

(* The exact solver applies to small problems and needs an allowance. *)
run_exact ==
  /\ pc = "start" /\ ~JobCancelled /\ mode = "anytime" /\ ~spent
  /\ Launch(Exact)
  /\ Goto("exact")
  /\ UNCHANGED <<mode, spent, queue, free, busy, results, candidates, best, exhausted,
                 termination, result>>

skip_exact ==
  /\ pc = "start" /\ ~JobCancelled /\ mode = "anytime"
  /\ Goto("baseline")
  /\ UNCHANGED <<resourceVars, executionVars, mode, spent, queue, free, busy, results,
                 candidates, best, exhausted, termination, result>>

exact_done ==
  /\ pc = "exact" /\ phase[Exact] = "done"
  /\ Accumulate(<<Exact>>)
  /\ IF candidate[Exact].feasible /\ ~CompareAll
     THEN termination' = "exact_optimum" /\ Goto("select")
     ELSE UNCHANGED termination /\ Goto("baseline")
  /\ UNCHANGED <<resourceVars, executionVars, mode, spent, queue, free, busy, results,
                 exhausted, result>>

baseline_cancelled ==
  /\ pc = "baseline" /\ JobCancelled
  /\ Return("cancelled")
  /\ UNCHANGED <<resourceVars, executionVars, mode, spent, queue, free, busy, results,
                 candidates, best, exhausted, termination>>

start_baselines ==
  /\ pc = "baseline" /\ ~JobCancelled /\ ~spent
  /\ StartBatch(Baselines)

skip_baselines ==
  /\ pc = "baseline" /\ ~JobCancelled /\ spent
  /\ Goto("annealing")
  /\ UNCHANGED <<resourceVars, executionVars, mode, spent, queue, free, busy, results,
                 candidates, best, exhausted, termination, result>>

-----------------------------------------------------------------------------
(* StrategyBatchExecutor: the worker loop.  The workers are alike, so a    *)
(* free one is counted and a busy one is known by its execution.           *)
StopsWhenCancelled == mode = "anytime"

take_task ==
  /\ free > 0 /\ queue # <<>>
  /\ ~(StopsWhenCancelled /\ JobCancelled)
  /\ mode = "anytime" => ~spent
  /\ Launch(Head(queue))
  /\ queue' = Tail(queue)
  /\ free' = free - 1
  /\ busy' = busy \cup {Head(queue)}
  /\ UNCHANGED <<mode, pc, spent, results, candidates, best, exhausted, termination, result>>

(* Without an allowance the strategy that was taken is given up. *)
give_up_task ==
  /\ free > 0 /\ queue # <<>>
  /\ ~(StopsWhenCancelled /\ JobCancelled)
  /\ mode = "anytime" /\ spent
  /\ queue' = Tail(queue)
  /\ free' = free - 1
  /\ UNCHANGED <<resourceVars, executionVars, mode, pc, spent, busy, results, candidates,
                 best, exhausted, termination, result>>

exit_worker ==
  /\ free > 0
  /\ queue = <<>> \/ (StopsWhenCancelled /\ JobCancelled)
  /\ free' = free - 1
  /\ UNCHANGED <<resourceVars, executionVars, mode, pc, spent, queue, busy, results,
                 candidates, best, exhausted, termination, result>>

send_result(e) ==
  /\ e \in busy /\ phase[e] = "done"
  /\ results' = Append(results, e)
  /\ busy' = busy \ {e}
  /\ free' = free + 1
  /\ UNCHANGED <<resourceVars, executionVars, mode, pc, spent, queue, candidates, best,
                 exhausted, termination, result>>

(* Seeded fault: results stay in the order in which they arrived. *)
InOrder_of_arrival(es) == es

(* results.sort_by_key: back to registration order. *)
InOrder(es) ==
  CHOOSE s \in [1..Cardinality(Range(es)) -> Range(es)] :
    \A i, j \in DOMAIN s : i < j => Position(s[i]) < Position(s[j])

(* thread::scope returns when every worker has. *)
Joined == free = 0 /\ busy = {}

BatchDone(next) ==
  /\ pc = "batch" /\ Joined
  /\ Accumulate(InOrder(results))
  /\ Goto(next)
  /\ UNCHANGED <<resourceVars, executionVars, mode, spent, queue, free, busy, results,
                 exhausted, result>>

finish_baselines ==
  /\ mode = "anytime"
  /\ BatchDone("annealing")
  /\ UNCHANGED termination

finish_registered ==
  /\ mode = "registered" /\ ~JobCancelled
  /\ BatchDone("select")
  /\ termination' = "exhausted"

registered_cancelled ==
  /\ pc = "batch" /\ Joined
  /\ mode = "registered" /\ JobCancelled
  /\ Return("cancelled")
  /\ UNCHANGED <<resourceVars, executionVars, mode, spent, queue, free, busy, results,
                 candidates, best, exhausted, termination>>

-----------------------------------------------------------------------------
(* The annealing loop of solve_anytime. *)
AnnealingsDone == {e \in Range(Annealings) : phase[e] # "idle"}

run_annealing ==
  /\ pc = "annealing" /\ ~JobCancelled /\ ~spent /\ ~exhausted
  /\ Cardinality(AnnealingsDone) < Len(Annealings)
  /\ Launch(Annealings[Cardinality(AnnealingsDone) + 1])
  /\ Goto("annealing run")
  /\ UNCHANGED <<mode, spent, queue, free, busy, results, candidates, best, exhausted,
                 termination, result>>

annealing_done ==
  /\ pc = "annealing run"
  /\ LET e == Annealings[Cardinality(AnnealingsDone)] IN
     /\ phase[e] = "done"
     /\ Accumulate(<<e>>)
     /\ exhausted' = candidate[e].idle
  /\ Goto("annealing")
  /\ UNCHANGED <<resourceVars, executionVars, mode, spent, queue, free, busy, results,
                 termination, result>>

(* Cancelled, out of budget, out of moves; or less than a quantum is left  *)
(* for an adaptive policy, or annealing is not enabled at all.             *)
stop_annealing ==
  /\ pc = "annealing"
  /\ JobCancelled \/ spent \/ exhausted \/ MayStopEarly
  /\ termination' = IF JobCancelled THEN "cancellation"
                    ELSE IF ~exhausted /\ spent THEN "deadline" ELSE "exhausted"
  /\ Goto("select")
  /\ UNCHANGED <<resourceVars, executionVars, mode, spent, queue, free, busy, results,
                 candidates, best, exhausted, result>>

build ==
  /\ pc = "select"
  /\ Return(select)
  /\ UNCHANGED <<resourceVars, executionVars, mode, spent, queue, free, busy, results,
                 candidates, best, exhausted, termination>>

-----------------------------------------------------------------------------
(* The budget runs out (external). *)
SpendBudget ==
  /\ ~spent /\ mode = "anytime" /\ pc # "returned"
  /\ spent' = TRUE
  /\ UNCHANGED <<resourceVars, executionVars, mode, pc, queue, free, busy, results,
                 candidates, best, exhausted, termination, result>>

Solve ==
  \/ solve_cancelled \/ solve_registered \/ run_exact \/ skip_exact \/ exact_done
  \/ baseline_cancelled \/ start_baselines \/ skip_baselines
  \/ finish_baselines \/ finish_registered \/ registered_cancelled
  \/ run_annealing \/ annealing_done \/ stop_annealing \/ build

Work == take_task \/ give_up_task \/ exit_worker \/ \E e \in busy : send_result(e)

Environment ==
  \/ pc # "returned" /\ (CancelJob \/ \E e \in Executions : TimePasses(e))
  \/ \E o \in Others : OtherJob(o)

Next ==
  \/ Solve \/ Work \/ SpendBudget
  \/ (\E e \in Executions : Execute(e)) /\ UNCHANGED solveVars
  \/ Environment /\ UNCHANGED solveVars

Spec == Init /\ [][Next]_vars

(* A strategy returns once its child token is cancelled (the cooperative   *)
(* checks of every solver), time passes, and leases of other jobs end.     *)
FairSpec ==
  /\ Spec
  /\ WF_vars(Solve) /\ WF_vars(Work) /\ WF_vars(SpendBudget)
  /\ \A e \in Executions :
       /\ WF_vars((Waiting(e) \/ too_late(e) \/ start(e) \/ evaluate(e) \/ join(e))
                  /\ UNCHANGED solveVars)
       /\ WF_vars(Watch(e) /\ UNCHANGED solveVars)
       /\ WF_vars(reason[e] # 0 /\ strategy_returns(e) /\ UNCHANGED solveVars)
       /\ WF_vars(TimePasses(e) /\ pc # "returned" /\ UNCHANGED solveVars)

-----------------------------------------------------------------------------
(* Every variable keeps its type. *)
TypeOK ==
  /\ R!TypeOK
  /\ phase \in [Executions -> Phases]
  /\ watcher \in [Executions -> {"off", "watching", "stopped"}]
  /\ reason \in [Executions -> 0..2]
  /\ candidate \in [Executions -> Candidates \cup {NoCandidate}]
  /\ Range(queue) \cup Range(results) \cup Range(candidates) \subseteq Executions
  /\ free \in 0..WorkerCount /\ busy \subseteq Executions
  /\ best \in Executions \cup {NoBest}
  /\ result \in Executions \cup {"none", "cancelled", "no_feasible_route"}

(* The running best that seeds the next annealing run is the candidate the *)
(* final ranking selects: nothing found on the way is lost.                *)
BestIsSelected ==
  (pc = "returned" /\ result # "cancelled") =>
    result = IF best = NoBest THEN "no_feasible_route" ELSE best

(* Every strategy is accounted for: a solve that was neither cancelled nor *)
(* out of budget nor ended by an exact optimum has one candidate of every  *)
(* registered strategy it started, and no candidate twice.                 *)
StrategiesAccountedFor ==
  /\ IsInjective(candidates)
  /\ pc \in {"annealing", "select"} /\ ~spent /\ ~JobCancelled
       /\ termination # "exact_optimum"
     => Range(Baselines) \subseteq Range(candidates)

(* The answer does not depend on which thread was faster: among the        *)
(* feasible candidates it is the best one, and of equally good ones the    *)
(* one registered first.  It is the running best of the solve, and every   *)
(* strategy that was started has been considered.                          *)
SelectionIsDeterministic ==
  LET good == {e \in Range(candidates) : candidate[e].feasible} IN
  /\ result \in Executions =>
       /\ result \in good
       /\ \A e \in good :
            \/ candidate[result].score < candidate[e].score
            \/ candidate[result].score = candidate[e].score
                 /\ Position(result) <= Position(e)
  /\ BestIsSelected
  /\ StrategiesAccountedFor

(* When the solve returns none of its threads is left: no execution waits, *)
(* runs or holds a lease.                                                  *)
NothingLeftBehind ==
  pc = "returned" =>
    \A e \in Executions : phase[e] \in {"idle", "done"} /\ holder[e] # "holding"

(* Every variable keeps its type, work is leased, nothing is left behind. *)
SolveInvariant == TypeOK /\ WorkIsLeased /\ NothingLeftBehind

(* The resource manager sees only what it allows. *)
UsesResourceManager == R!Spec

(* Every solve returns, and on the way work is leased and nothing is left  *)
(* behind.                                                                 *)
SolveEnds == <>(pc = "returned") /\ []SolveInvariant
=============================================================================
