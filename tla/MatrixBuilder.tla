--------------------------- MODULE MatrixBuilder ----------------------------
(***************************************************************************)
(* PairwiseMatrixRoutingProvider::build_matrix_until                       *)
(* (src/routing/matrix_builder.rs): worker threads take directed pairs     *)
(* from a shared counter and query a provider, a watchdog turns the        *)
(* caller's cancellation and the deadline into the token that stops them,  *)
(* and the scope's owner joins everybody and assembles the matrix.         *)
(*                                                                         *)
(* A pair is its index; a travel time is a reachable or an unreachable     *)
(* answer.  The provider is external: it answers, refuses or fails at any  *)
(* time.  The clock is the flag that the deadline has passed.              *)
(***************************************************************************)
EXTENDS Integers, FiniteSets

CONSTANTS
  Workers,   \* min(max_concurrency, number of pairs) threads
  Pairs      \* number of directed pairs

ASSUME WorkersAssumption == Workers # {} /\ IsFiniteSet(Workers)
ASSUME PairsAssumption == Pairs \in Nat \ {0}

VARIABLES
  next_pair,        \* the next index to hand out
  results,          \* per pair "missing", "minutes" or "unreachable"
  completed_pairs,  \* the counter behind the progress reports
  progress_lock,    \* the worker that holds the progress mutex, or NoWorker
  observed,         \* the count the observer was told last
  first_error,      \* the pair of the failure that is reported, 0 if none
  matrix_timed_out, caller_cancelled, cancellation,   \* the shared flags
  worker, pair,     \* each worker's position and the pair it works on
  watchdog,         \* "watching" or "ended"
  finished,         \* the owner has joined the workers and sent ()
  outcome,          \* what the build returned
  caller_token,     \* the caller's CancellationToken
  deadline_passed   \* the clock has reached the deadline

shared == <<next_pair, results, completed_pairs, progress_lock, observed,
            first_error, matrix_timed_out, caller_cancelled, cancellation>>
environment == <<caller_token, deadline_passed>>
vars == <<next_pair, results, completed_pairs, progress_lock, observed,
          first_error, matrix_timed_out, caller_cancelled, cancellation,
          worker, pair, watchdog, finished, outcome, caller_token, deadline_passed>>

NoWorker == "none"
ASSUME NoWorkerAssumption == NoWorker \notin Workers

Indices == 1..Pairs
Answers == {"minutes", "unreachable"}

Init ==
  /\ next_pair = 1
  /\ results = [i \in Indices |-> "missing"]
  /\ completed_pairs = 0
  /\ progress_lock = NoWorker
  /\ observed = 0
  /\ first_error = 0
  /\ matrix_timed_out = FALSE
  /\ caller_cancelled = FALSE
  /\ cancellation = FALSE
  /\ worker = [w \in Workers |-> "top"]
  /\ pair = [w \in Workers |-> 0]
  /\ watchdog = "watching"
  /\ finished = FALSE
  /\ outcome = "none"
  /\ caller_token = FALSE
  /\ deadline_passed = FALSE

-----------------------------------------------------------------------------
(* The environment: the caller cancels, time passes. *)
CallerCancels ==
  /\ ~caller_token /\ outcome = "none"
  /\ caller_token' = TRUE
  /\ UNCHANGED <<shared, worker, pair, watchdog, finished, outcome, deadline_passed>>

DeadlinePasses ==
  /\ ~deadline_passed /\ outcome = "none"
  /\ deadline_passed' = TRUE
  /\ UNCHANGED <<shared, worker, pair, watchdog, finished, outcome, caller_token>>

-----------------------------------------------------------------------------
(* MatrixBuildState::fail: the first failure is kept and stops the others. *)
fail(w, timed_out) ==
  /\ matrix_timed_out' = (matrix_timed_out \/ timed_out)
  /\ IF first_error = 0
     THEN first_error' = pair[w] /\ cancellation' = TRUE
     ELSE UNCHANGED <<first_error, cancellation>>
  /\ worker' = [worker EXCEPT ![w] = "ended"]
  /\ UNCHANGED <<next_pair, results, completed_pairs, progress_lock, observed,
                 caller_cancelled, pair>>

Step(w, from, to) ==
  /\ worker[w] = from
  /\ worker' = [worker EXCEPT ![w] = to]

Elsewhere == UNCHANGED <<watchdog, finished, outcome, environment>>

check_token(w) ==
  /\ Step(w, "top", IF cancellation THEN "ended" ELSE "take")
  /\ Elsewhere
  /\ UNCHANGED <<shared, pair>>

(* Seeded fault: the index is read and not advanced. *)
take_pair_stale(w) ==
  /\ Step(w, "take", IF next_pair \in Indices THEN "check" ELSE "ended")
  /\ pair' = [pair EXCEPT ![w] = next_pair]
  /\ Elsewhere
  /\ UNCHANGED shared

take_pair(w) ==
  /\ Step(w, "take", IF next_pair \in Indices THEN "check" ELSE "ended")
  /\ next_pair' = next_pair + 1
  /\ pair' = [pair EXCEPT ![w] = next_pair]
  /\ Elsewhere
  /\ UNCHANGED <<results, completed_pairs, progress_lock, observed, first_error,
                 matrix_timed_out, caller_cancelled, cancellation>>

(* Before the query: past the deadline the pair fails as timed out. *)
check_deadline(w) ==
  /\ worker[w] = "check"
  /\ \/ deadline_passed /\ fail(w, TRUE)
     \/ /\ ~deadline_passed
        /\ Step(w, "check", IF cancellation THEN "ended" ELSE "query")
        /\ UNCHANGED <<shared, pair>>
  /\ Elsewhere

(* The provider's answer.  One that arrives past the deadline is a         *)
(* failure; an unreachable pair is an answer even then.                    *)
provider_answers(w) ==
  /\ worker[w] = "query"
  /\ \E answer \in Answers :
       IF deadline_passed /\ answer = "minutes"
       THEN fail(w, TRUE)
       ELSE /\ results' = [results EXCEPT ![pair[w]] = answer]
            /\ Step(w, "query", "count")
            /\ UNCHANGED <<next_pair, completed_pairs, progress_lock, observed,
                           first_error, matrix_timed_out, caller_cancelled,
                           cancellation, pair>>
  /\ Elsewhere

provider_fails(w) ==
  /\ worker[w] = "query"
  /\ fail(w, deadline_passed)
  /\ Elsewhere

count_pair(w) ==
  /\ progress_lock = NoWorker
  /\ Step(w, "count", "report")
  /\ progress_lock' = w
  /\ completed_pairs' = completed_pairs + 1
  /\ pair' = [pair EXCEPT ![w] = completed_pairs + 1]
  /\ Elsewhere
  /\ UNCHANGED <<next_pair, results, observed, first_error, matrix_timed_out,
                 caller_cancelled, cancellation>>

pairs_completed(w) ==
  /\ Step(w, "report", "top")
  /\ observed' = pair[w]
  /\ progress_lock' = NoWorker
  /\ Elsewhere
  /\ UNCHANGED <<next_pair, results, completed_pairs, first_error,
                 matrix_timed_out, caller_cancelled, cancellation, pair>>

Work(w) ==
  \/ check_token(w) \/ take_pair(w) \/ check_deadline(w) \/ provider_answers(w)
  \/ provider_fails(w) \/ count_pair(w) \/ pairs_completed(w)

-----------------------------------------------------------------------------
(* The watchdog polls the caller first, the clock second. *)
watch_caller ==
  /\ watchdog = "watching" /\ caller_token
  /\ caller_cancelled' = TRUE
  /\ cancellation' = TRUE
  /\ watchdog' = "ended"
  /\ UNCHANGED <<next_pair, results, completed_pairs, progress_lock, observed,
                 first_error, matrix_timed_out, worker, pair, finished, outcome,
                 environment>>

(* Seeded fault: the workers are stopped and the timeout is not recorded.  *)
watch_deadline_silent ==
  /\ watchdog = "watching" /\ deadline_passed
  /\ cancellation' = TRUE
  /\ watchdog' = "ended"
  /\ UNCHANGED <<next_pair, results, completed_pairs, progress_lock, observed,
                 first_error, matrix_timed_out, caller_cancelled, worker, pair,
                 finished, outcome, environment>>

(* The clock is read after the caller's token, which may change between.   *)
watch_deadline ==
  /\ watchdog = "watching" /\ deadline_passed
  /\ matrix_timed_out' = TRUE
  /\ cancellation' = TRUE
  /\ watchdog' = "ended"
  /\ UNCHANGED <<next_pair, results, completed_pairs, progress_lock, observed,
                 first_error, caller_cancelled, worker, pair, finished, outcome,
                 environment>>

(* Seeded fault: the watchdog outstays the workers until the deadline. *)
watch_finished_late ==
  /\ watchdog = "watching" /\ finished /\ deadline_passed
  /\ watchdog' = "ended"
  /\ UNCHANGED <<shared, worker, pair, finished, outcome, environment>>

watch_finished ==
  /\ watchdog = "watching" /\ finished
  /\ watchdog' = "ended"
  /\ UNCHANGED <<shared, worker, pair, finished, outcome, environment>>

Watch == watch_caller \/ watch_deadline \/ watch_finished

-----------------------------------------------------------------------------
join_workers ==
  /\ ~finished
  /\ \A w \in Workers : worker[w] = "ended"
  /\ finished' = TRUE
  /\ UNCHANGED <<shared, worker, pair, watchdog, outcome, environment>>

Missing == {i \in Indices : results[i] = "missing"}

(* The precedence of the results: cancellation, failure, then a matrix     *)
(* whose every entry is expected to be there.                              *)
BuildOutcome ==
  CASE caller_cancelled \/ caller_token -> "cancelled"
    [] ~(caller_cancelled \/ caller_token) /\ first_error # 0 -> "failed"
    [] ~(caller_cancelled \/ caller_token) /\ first_error = 0
         /\ matrix_timed_out /\ completed_pairs < Pairs ->
           IF Missing = {} THEN "panicked" ELSE "failed"
    [] OTHER -> IF Missing = {} THEN "matrix" ELSE "panicked"

assemble ==
  /\ finished /\ watchdog = "ended" /\ outcome = "none"
  /\ outcome' = BuildOutcome
  /\ UNCHANGED <<shared, worker, pair, watchdog, finished, environment>>

Next ==
  \/ CallerCancels \/ DeadlinePasses
  \/ \E w \in Workers : Work(w)
  \/ Watch \/ join_workers \/ assemble

Spec == Init /\ [][Next]_vars

(* Threads run and the provider, given the token and the deadline, answers.*)
(* Neither the caller nor the clock has to move.                           *)
FairSpec ==
  /\ Spec
  /\ \A w \in Workers : WF_vars(Work(w))
  /\ WF_vars(Watch) /\ WF_vars(join_workers) /\ WF_vars(assemble)

-----------------------------------------------------------------------------
(* The counters never pass the number of pairs, and a worker overshoots    *)
(* the shared index at most once.                                          *)
TypeOK ==
  /\ next_pair \in 1..(Pairs + 1 + Cardinality(Workers))
  /\ results \in [Indices -> Answers \cup {"missing"}]
  /\ completed_pairs \in 0..Pairs
  /\ progress_lock \in Workers \cup {NoWorker}
  /\ observed \in 0..Pairs
  /\ first_error \in 0..Pairs
  /\ matrix_timed_out \in BOOLEAN
  /\ caller_cancelled \in BOOLEAN
  /\ cancellation \in BOOLEAN
  /\ worker \in [Workers -> {"top", "take", "check", "query", "count", "report", "ended"}]
  /\ pair \in [Workers -> Nat]
  /\ watchdog \in {"watching", "ended"}
  /\ finished \in BOOLEAN
  /\ outcome \in {"none", "cancelled", "failed", "matrix", "panicked"}
  /\ caller_token \in BOOLEAN
  /\ deadline_passed \in BOOLEAN

(* The expects of the assembly never fail: when no cancellation and no     *)
(* failure is reported every pair has its result, whichever thread         *)
(* stopped which.                                                          *)
AssemblyNeverPanics == outcome # "panicked"

(* No two workers ever work on the same pair: a result is written once. *)
PairsHandedOutOnce ==
  \A v, w \in Workers :
    (v # w /\ worker[v] \in {"check", "query"} /\ worker[w] \in {"check", "query"})
      => pair[v] # pair[w] /\ results[pair[v]] = "missing"

(* A build is called timed out only if the deadline has passed, whichever  *)
(* of the watchdog and the workers noticed, or failed for another reason.  *)
TimeoutIsHonest == matrix_timed_out => deadline_passed

(* The counters stay in range and the pairs apart, and nobody is told of a *)
(* timeout that did not happen.                                            *)
BuildInvariant == TypeOK /\ PairsHandedOutOnce /\ TimeoutIsHonest

(* The observer is told 1, 2, 3, ... in this order, from whichever thread. *)
ObservedInOrder == [][observed' = observed + 1]_observed

(* Every build returns, and one nobody disturbs returns a matrix unless    *)
(* the provider failed; on the way its progress is reported in order.      *)
BuildEnds ==
  /\ <>(outcome # "none")
  /\ [](~caller_token /\ ~deadline_passed /\ first_error = 0) => <>(outcome = "matrix")
  /\ ObservedInOrder
=============================================================================
