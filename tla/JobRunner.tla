----------------------------- MODULE JobRunner ------------------------------
(***************************************************************************)
(* JobRunner (src/jobs.rs) with the cancellation registry and token, the   *)
(* blocking worker, the cancel endpoint (src/http/handlers/jobs.rs) and    *)
(* the publication of persisted events.                                    *)
(*                                                                         *)
(* Processes: submitters (an HTTP handler inside submit_with_completion),  *)
(* one runner task and one worker thread per job, cancellers (an HTTP      *)
(* handler inside cancel_job).  The runner and the cancellers publish      *)
(* events through the same steps.  An operation of the job store holds the *)
(* store's mutex and is one step here; JobStore opens it up.  It may fail  *)
(* with an I/O error before, between or after its writes.                  *)
(*                                                                         *)
(* A job id is activated at most once, so the fields of its JobActivity    *)
(* (token, sequence, broadcast channel) are functions of the job.          *)
(***************************************************************************)
EXTENDS JobState, Sequences, FiniteSets

CONSTANTS
  Submitters,      \* requests that submit a job
  Cancellers,      \* requests that cancel a job
  MaxConcurrent,   \* TROUTE_MAX_CONCURRENT_JOBS
  MaxOutstanding,  \* TROUTE_MAX_OUTSTANDING_JOBS
  OtherUpdates,    \* what a worker reports besides the stages it enters
  MaxUpdates,      \* bound: updates one worker reports
  MaxFaults        \* bound: store operations that fail

ASSUME LimitAssumption ==
  MaxConcurrent \in Nat \ {0} /\ MaxOutstanding \in Nat \ {0}
ASSUME BoundAssumption == MaxUpdates \in Nat /\ MaxFaults \in Nat
ASSUME ProcessAssumption == Jobs \cap Cancellers = {}

VARIABLES
  job,         \* the persisted record
  result,      \* result.json: "none", "plain" or "full" (the snapshot)
  error,       \* whether error.json exists
  revision,    \* event-sequence.json
  telemetry,   \* how many events solver-telemetry.jsonl holds
  admission,   \* free permits of the admission semaphore
  permits,     \* free permits of the execution semaphore
  registry,    \* jobs in the cancellation registry
  token,       \* whether the job's CancellationToken is cancelled
  sequence,    \* the activity's event counter
  sent,        \* everything sent on the activity's broadcast channel
  submitter, runner, canceller, publisher,   \* where each process stands
  worker,      \* the blocking execution and how it ended
  updates,     \* the unbounded channel from worker to runner
  reported,    \* the updates the worker has reported so far
  snapshot,    \* full_result: a ResultSnapshot has been received
  outcome,     \* what run_inner returned, the JobCompletion
  faults       \* how many store operations have failed

storeVars == <<job, result, error, faults>>
eventVars == <<revision, sequence, sent, publisher>>
limitVars == <<admission, permits>>
workVars == <<worker, updates, reported, snapshot>>
vars == <<job, result, error, revision, telemetry, admission, permits, registry,
          token, sequence, sent, submitter, runner, canceller, publisher,
          worker, updates, reported, snapshot, outcome, faults>>

-----------------------------------------------------------------------------
Publishers == Jobs \cup Cancellers
Outcomes == {"none", "ok", "failed", "cancelled", "error"}
EventKinds == {"progress", "completed", "failed", "cancelled"}

(* What a worker reports: a stage, a telemetry event or the full result.   *)
Telemetry == -1
ResultSnapshot == 0
Updates == OtherUpdates \cup 1..MaxStage

ASSUME UpdateAssumption == OtherUpdates \subseteq {Telemetry, ResultSnapshot}

(* ProgressStage::range: the percentage at which a stage starts. *)
StageStart(stage) == ((stage - 1) * MaxProgress) \div MaxStage

Envelope == [sequence : Nat, state : JobRecord,
             result : {"none", "plain", "full"}, error : BOOLEAN]
Event == [kind : EventKinds, envelope : Envelope]

IdlePublisher == [pc |-> "idle"]

Init ==
  /\ job = [j \in Jobs |-> NoState]
  /\ result = [j \in Jobs |-> "none"]
  /\ error = [j \in Jobs |-> FALSE]
  /\ revision = [j \in Jobs |-> 0]
  /\ telemetry = [j \in Jobs |-> 0]
  /\ admission = MaxOutstanding
  /\ permits = MaxConcurrent
  /\ registry = {}
  /\ token = [j \in Jobs |-> FALSE]
  /\ sequence = [j \in Jobs |-> 0]
  /\ sent = [j \in Jobs |-> << >>]
  /\ submitter = [s \in Submitters |-> [pc |-> "idle"]]
  /\ runner = [j \in Jobs |-> "absent"]
  /\ canceller = [c \in Cancellers |-> [pc |-> "idle"]]
  /\ publisher = [p \in Publishers |-> IdlePublisher]
  /\ worker = [j \in Jobs |-> "none"]
  /\ updates = [j \in Jobs |-> << >>]
  /\ reported = [j \in Jobs |-> << >>]
  /\ snapshot = [j \in Jobs |-> FALSE]
  /\ outcome = [j \in Jobs |-> "none"]
  /\ faults = 0

-----------------------------------------------------------------------------
(* The store.  A writing operation returns Ok, or an I/O error with        *)
(* nothing written ("lost"), with only the payload written ("payload"), or *)
(* with everything but the index written ("late").                         *)
WriteResults ==
  {"ok"} \cup (IF faults < MaxFaults THEN {"lost", "payload", "late"} ELSE {})

Store(j, record, w) ==
  /\ job' = [job EXCEPT ![j] = IF w \in {"ok", "late"} THEN record ELSE @]
  /\ faults' = IF w = "ok" THEN faults ELSE faults + 1

StorePlain(j, record, w) ==
  /\ w # "payload"
  /\ Store(j, record, w)
  /\ UNCHANGED <<result, error>>

(* An operation whose failure the caller only logs. *)
MayFail(fails) ==
  /\ fails => faults < MaxFaults
  /\ faults' = IF fails THEN faults + 1 ELSE faults

-----------------------------------------------------------------------------
(* submit_with_completion, shared by POST /integration/jobs and /optimize. *)
try_admit(s, j) ==
  /\ submitter[s].pc = "idle"
  /\ admission > 0
  /\ admission' = admission - 1
  /\ submitter' = [submitter EXCEPT ![s] = [pc |-> "admitted", job |-> j]]
  /\ UNCHANGED <<storeVars, eventVars, workVars, telemetry, permits, registry,
                 token, runner, canceller, outcome>>

(* The permit is dropped with the error when create_job does not succeed.  *)
Reject(s) ==
  /\ submitter' = [submitter EXCEPT ![s] = [pc |-> "done"]]
  /\ admission' = admission + 1

(* A job that exists is refused, and so is an id whose directory an        *)
(* earlier creation left behind when one of its writes failed.             *)
create_job(s) ==
  /\ submitter[s].pc = "admitted"
  /\ LET j == submitter[s].job IN
     \/ /\ job[j] = NoState
        /\ \E w \in WriteResults :
             /\ StorePlain(j, PendingState, w)
             /\ IF w = "ok"
                THEN /\ submitter' = [submitter EXCEPT ![s] = [pc |-> "created", job |-> j]]
                     /\ UNCHANGED admission
                ELSE Reject(s)
     \/ /\ job[j] # NoState \/ faults > 0
        /\ Reject(s)
        /\ UNCHANGED storeVars
  /\ UNCHANGED <<eventVars, workVars, telemetry, permits, registry, token,
                 runner, canceller, outcome>>

(* Registers the activity and spawns the runner task. *)
spawn_runner(s) ==
  /\ submitter[s].pc = "created"
  /\ registry' = registry \cup {submitter[s].job}
  /\ runner' = [runner EXCEPT ![submitter[s].job] = "queued"]
  /\ submitter' = [submitter EXCEPT ![s] = [pc |-> "done"]]
  /\ UNCHANGED <<storeVars, eventVars, limitVars, workVars, telemetry, token,
                 canceller, outcome>>

-----------------------------------------------------------------------------
(* JobActivity::publish_persisted, by the runner or by a canceller. *)
StartPublish(p, j, kind) ==
  publisher' = [publisher EXCEPT ![p] = [pc |-> "read", job |-> j, kind |-> kind]]

Publishing(p, pc) == publisher[p].pc = pc

(* Seeded fault: a progress event is published whatever the job has become.*)
read_persisted_unfiltered(p) ==
  /\ Publishing(p, "read")
  /\ LET j == publisher[p].job IN
     publisher' = [publisher EXCEPT ![p] =
       [pc |-> "bump", job |-> j, kind |-> publisher[p].kind,
        envelope |-> [sequence |-> 0, state |-> job[j],
                      result |-> result[j], error |-> error[j]]]]
  /\ UNCHANGED <<storeVars, revision, sequence, sent, limitVars, workVars,
                 telemetry, registry, token, submitter, runner, canceller, outcome>>

(* A progress event is dropped when the job it reads is already terminal.  *)
read_persisted(p) ==
  /\ Publishing(p, "read")
  /\ \E fails \in BOOLEAN :
       LET j == publisher[p].job
           kind == publisher[p].kind
           skip == fails \/ (kind = "progress" /\ ~is_active(job[j].status))
       IN /\ MayFail(fails)
          /\ publisher' = [publisher EXCEPT ![p] =
               IF skip THEN IdlePublisher
               ELSE [pc |-> "bump", job |-> j, kind |-> kind,
                     envelope |-> [sequence |-> 0, state |-> job[j],
                                   result |-> result[j], error |-> error[j]]]]
  /\ UNCHANGED <<job, result, error, revision, sequence, sent, limitVars,
                 workVars, telemetry, registry, token, submitter, runner,
                 canceller, outcome>>

bump_sequence(p) ==
  /\ Publishing(p, "bump")
  /\ LET j == publisher[p].job IN
     /\ sequence' = [sequence EXCEPT ![j] = @ + 1]
     /\ publisher' = [publisher EXCEPT ![p] =
          [pc |-> "record", job |-> j, kind |-> publisher[p].kind,
           envelope |-> [publisher[p].envelope EXCEPT !.sequence = sequence[j] + 1]]]
  /\ UNCHANGED <<storeVars, revision, sent, limitVars, workVars, telemetry,
                 registry, token, submitter, runner, canceller, outcome>>

record_event_sequence(p) ==
  /\ Publishing(p, "record")
  /\ \E fails \in BOOLEAN :
       /\ MayFail(fails)
       /\ revision' = IF fails THEN revision
                      ELSE [revision EXCEPT ![publisher[p].job] =
                              publisher[p].envelope.sequence]
  /\ publisher' = [publisher EXCEPT ![p].pc = "send"]
  /\ UNCHANGED <<job, result, error, sequence, sent, limitVars, workVars,
                 telemetry, registry, token, submitter, runner, canceller, outcome>>

send_event(p) ==
  /\ Publishing(p, "send")
  /\ sent' = [sent EXCEPT ![publisher[p].job] =
                Append(@, [kind |-> publisher[p].kind,
                           envelope |-> publisher[p].envelope])]
  /\ publisher' = [publisher EXCEPT ![p] = IdlePublisher]
  /\ UNCHANGED <<storeVars, revision, sequence, limitVars, workVars, telemetry,
                 registry, token, submitter, runner, canceller, outcome>>

-----------------------------------------------------------------------------
(* The worker: executor.execute on the blocking pool.  After the runner    *)
(* has dropped the receiver a report goes nowhere.                         *)
report(j, u) ==
  /\ worker[j] = "executing" /\ Len(reported[j]) < MaxUpdates
  /\ reported' = [reported EXCEPT ![j] = Append(@, u)]
  /\ updates' = IF runner[j] \in {"consuming", "updating"}
                THEN [updates EXCEPT ![j] = Append(@, u)] ELSE updates
  /\ UNCHANGED <<storeVars, eventVars, limitVars, telemetry, registry, token,
                 submitter, runner, canceller, worker, snapshot, outcome>>

(* The execution returns a route, an error or a cancellation, or panics;   *)
(* an executor may report a cancellation nobody asked for.                 *)
finish(j) ==
  /\ worker[j] = "executing"
  /\ \E end \in {"ok", "failed", "cancelled", "panicked"} :
       worker' = [worker EXCEPT ![j] = end]
  /\ UNCHANGED <<storeVars, eventVars, limitVars, telemetry, registry, token,
                 submitter, runner, canceller, updates, reported, snapshot, outcome>>

-----------------------------------------------------------------------------
(* The runner task.  It does nothing else while it publishes. *)
At(j, pc) == runner[j] = pc /\ Publishing(j, "idle")

Goto(j, pc) == runner' = [runner EXCEPT ![j] = pc]

(* run_inner has its completion; its execution permit is still held. *)
Return(j, completion) ==
  /\ Goto(j, "returning")
  /\ outcome' = [outcome EXCEPT ![j] = completion]

(* Seeded fault: the execution permit is dropped where it is acquired. *)
acquire_permit_dropped(j) ==
  /\ At(j, "queued")
  /\ permits > 0
  /\ Goto(j, "acquired")
  /\ UNCHANGED <<storeVars, eventVars, workVars, telemetry, limitVars, registry,
                 token, submitter, canceller, outcome>>

(* The select looks at the token first, but the token may be cancelled     *)
(* between that look and the permit; check_cancelled follows.              *)
acquire_permit(j) ==
  /\ At(j, "queued")
  /\ permits > 0
  /\ permits' = permits - 1
  /\ Goto(j, "acquired")
  /\ UNCHANGED <<storeVars, eventVars, workVars, telemetry, admission, registry,
                 token, submitter, canceller, outcome>>

cancelled_in_queue(j) ==
  /\ At(j, "queued")
  /\ token[j]
  /\ Goto(j, "finishing")
  /\ outcome' = [outcome EXCEPT ![j] = "cancelled"]
  /\ UNCHANGED <<storeVars, eventVars, limitVars, workVars, telemetry, registry,
                 token, submitter, canceller>>

check_cancelled(j) ==
  /\ At(j, "acquired")
  /\ IF token[j] THEN Return(j, "cancelled")
     ELSE Goto(j, "marking") /\ UNCHANGED outcome
  /\ UNCHANGED <<storeVars, eventVars, limitVars, workVars, telemetry, registry,
                 token, submitter, canceller>>

(* An InvalidTransition from cancelled is a lost race, any other an error. *)
RefusedAs(j) == IF job[j].status = "cancelled" THEN "cancelled" ELSE "error"

mark_running(j) ==
  /\ At(j, "marking")
  /\ \/ /\ is_active(job[j].status)
        /\ \E w \in WriteResults :
             /\ StorePlain(j, MarkedRunning(job[j]), w)
             /\ IF w = "ok"
                THEN /\ Goto(j, "consuming")
                     /\ worker' = [worker EXCEPT ![j] = "executing"]
                     /\ UNCHANGED outcome
                ELSE Return(j, "error") /\ UNCHANGED worker
     \/ /\ ~is_active(job[j].status)
        /\ Return(j, RefusedAs(j))
        /\ UNCHANGED <<storeVars, worker>>
  /\ UNCHANGED <<eventVars, limitVars, telemetry, registry, token, submitter,
                 canceller, updates, reported, snapshot>>

-----------------------------------------------------------------------------
(* consume_updates.  Leaving the loop drops the receiver. *)
Received(j, u) == At(j, "consuming") /\ updates[j] # << >> /\ Head(updates[j]) = u

Pop(j) == updates' = [updates EXCEPT ![j] = Tail(@)]

StopConsuming(j) == Goto(j, "joining") /\ updates' = [updates EXCEPT ![j] = << >>]

(* The pacer delays a stage and gives up once the token is cancelled. *)
wait_for_stage(j) ==
  /\ \E stage \in 1..MaxStage : Received(j, stage)
  /\ IF token[j] THEN StopConsuming(j)
     ELSE Goto(j, "updating") /\ UNCHANGED updates
  /\ UNCHANGED <<storeVars, eventVars, limitVars, telemetry, registry, token,
                 submitter, canceller, worker, reported, snapshot, outcome>>

update_progress(j) ==
  /\ At(j, "updating")
  /\ LET stage == Head(updates[j]) IN
     \/ /\ is_active(job[j].status)
        /\ \E w \in WriteResults :
             /\ StorePlain(j, WithProgress(job[j], stage, StageStart(stage)), w)
             /\ IF w = "ok" THEN StartPublish(j, j, "progress")
                ELSE UNCHANGED publisher
        /\ Goto(j, "consuming") /\ Pop(j)
        /\ UNCHANGED token
     \/ /\ job[j].status = "cancelled"
        /\ token' = [token EXCEPT ![j] = TRUE]
        /\ StopConsuming(j)
        /\ UNCHANGED <<storeVars, publisher>>
     \/ /\ job[j].status \in {"completed", "failed"}
        /\ Goto(j, "consuming") /\ Pop(j)
        /\ UNCHANGED <<storeVars, publisher, token>>
  /\ UNCHANGED <<revision, sequence, sent, limitVars, telemetry, registry,
                 submitter, canceller, worker, reported, snapshot, outcome>>

append_solver_event(j) ==
  /\ Received(j, Telemetry)
  /\ Pop(j)
  /\ \E fails \in BOOLEAN :
       /\ MayFail(fails)
       /\ telemetry' = IF fails THEN telemetry ELSE [telemetry EXCEPT ![j] = @ + 1]
  /\ UNCHANGED <<job, result, error, eventVars, limitVars, registry, token,
                 submitter, runner, canceller, worker, reported, snapshot, outcome>>

keep_snapshot(j) ==
  /\ Received(j, ResultSnapshot)
  /\ Pop(j)
  /\ snapshot' = [snapshot EXCEPT ![j] = TRUE]
  /\ UNCHANGED <<storeVars, eventVars, limitVars, telemetry, registry, token,
                 submitter, runner, canceller, worker, reported, outcome>>

(* Seeded fault: the loop ends with the worker, drained or not. *)
updates_closed_undrained(j) ==
  /\ At(j, "consuming")
  /\ worker[j] # "executing"
  /\ Goto(j, "joining")
  /\ UNCHANGED <<storeVars, eventVars, limitVars, workVars, telemetry, registry,
                 token, submitter, canceller, outcome>>

(* The worker has dropped its sender and the channel is drained. *)
updates_closed(j) ==
  /\ At(j, "consuming")
  /\ updates[j] = << >> /\ worker[j] # "executing"
  /\ Goto(j, "joining")
  /\ UNCHANGED <<storeVars, eventVars, limitVars, workVars, telemetry, registry,
                 token, submitter, canceller, outcome>>

-----------------------------------------------------------------------------
(* The execution is joined, then the pacer's minimum duration elapses. *)
join_worker(j) ==
  /\ At(j, "joining")
  /\ worker[j] # "executing"
  /\ Goto(j, IF worker[j] = "cancelled" \/ token[j] THEN "cancelling" ELSE "saving")
  /\ UNCHANGED <<storeVars, eventVars, limitVars, workVars, telemetry, registry,
                 token, submitter, canceller, outcome>>

(* Seeded fault: a failed write is reported as a cancellation. *)
persist_cancelled_ignores_error(j) ==
  /\ At(j, "cancelling")
  /\ Return(j, "cancelled")
  /\ \/ /\ is_active(job[j].status)
        /\ \E w \in WriteResults :
             /\ StorePlain(j, Committed(job[j], "cancelled"), w)
             /\ StartPublish(j, j, "cancelled")
     \/ /\ ~is_active(job[j].status)
        /\ UNCHANGED <<storeVars, publisher>>
  /\ UNCHANGED <<revision, sequence, sent, limitVars, workVars, telemetry,
                 registry, token, submitter, canceller>>

persist_cancelled(j) ==
  /\ At(j, "cancelling")
  /\ \/ /\ is_active(job[j].status)
        /\ \E w \in WriteResults :
             /\ StorePlain(j, Committed(job[j], "cancelled"), w)
             /\ IF w = "ok"
                THEN StartPublish(j, j, "cancelled") /\ Return(j, "cancelled")
                ELSE Return(j, "error") /\ UNCHANGED publisher
     \/ /\ ~is_active(job[j].status)
        /\ Return(j, "cancelled")
        /\ UNCHANGED <<storeVars, publisher>>
  /\ UNCHANGED <<revision, sequence, sent, limitVars, workVars, telemetry,
                 registry, token, submitter, canceller>>

(* Seeded fault: a terminal payload is accepted in any status. *)
Save_unchecked(j, status, files, completion) ==
  /\ Store(j, Committed(job[j], status), "ok")
  /\ files
  /\ StartPublish(j, j, status)
  /\ Return(j, completion)

(* persist_execution: save_result or save_error, accepted while running. *)
Save(j, status, files, completion) ==
  \/ /\ job[j].status = "running"
     /\ \E w \in WriteResults :
          /\ Store(j, Committed(job[j], status), w)
          /\ IF w = "lost" THEN UNCHANGED <<result, error>> ELSE files
          /\ IF w = "ok"
             THEN StartPublish(j, j, status) /\ Return(j, completion)
             ELSE Return(j, "error") /\ UNCHANGED publisher
  \/ /\ job[j].status # "running"
     /\ Return(j, RefusedAs(j))
     /\ UNCHANGED <<storeVars, publisher>>

save_result(j) ==
  /\ At(j, "saving")
  /\ worker[j] = "ok"
  /\ Save(j, "completed",
          /\ result' = [result EXCEPT ![j] = IF snapshot[j] THEN "full" ELSE "plain"]
          /\ UNCHANGED error,
          "ok")
  /\ UNCHANGED <<revision, sequence, sent, limitVars, workVars, telemetry,
                 registry, token, submitter, canceller>>

save_error(j) ==
  /\ At(j, "saving")
  /\ worker[j] \in {"failed", "panicked"}
  /\ Save(j, "failed",
          error' = [error EXCEPT ![j] = TRUE] /\ UNCHANGED result,
          "failed")
  /\ UNCHANGED <<revision, sequence, sent, limitVars, workVars, telemetry,
                 registry, token, submitter, canceller>>

-----------------------------------------------------------------------------
(* Seeded fault: the execution permit is leaked. *)
release_permit_leaks(j) ==
  /\ At(j, "returning")
  /\ Goto(j, "finishing")
  /\ UNCHANGED <<storeVars, eventVars, workVars, telemetry, limitVars, registry,
                 token, submitter, canceller, outcome>>

(* run_inner returns and drops its permit, run removes the activity, the   *)
(* task reports the completion and drops the admission permit.             *)
release_permit(j) ==
  /\ At(j, "returning")
  /\ permits' = permits + 1
  /\ Goto(j, "finishing")
  /\ UNCHANGED <<storeVars, eventVars, workVars, telemetry, admission, registry,
                 token, submitter, canceller, outcome>>

remove_activity(j) ==
  /\ At(j, "finishing")
  /\ registry' = registry \ {j}
  /\ Goto(j, "completing")
  /\ UNCHANGED <<storeVars, eventVars, limitVars, workVars, telemetry, token,
                 submitter, canceller, outcome>>

send_completion(j) ==
  /\ At(j, "completing")
  /\ admission' = admission + 1
  /\ Goto(j, "done")
  /\ UNCHANGED <<storeVars, eventVars, workVars, telemetry, permits, registry,
                 token, submitter, canceller, outcome>>

-----------------------------------------------------------------------------
(* The cancel endpoint: it takes its clone of the activity first. *)
look_up(c, j) ==
  /\ canceller[c].pc = "idle"
  /\ canceller' = [canceller EXCEPT ![c] =
                     [pc |-> "found", job |-> j, active |-> j \in registry]]
  /\ UNCHANGED <<storeVars, eventVars, limitVars, workVars, telemetry, registry,
                 token, submitter, runner, outcome>>

(* Seeded fault: the token is signalled although the store refused. *)
cancel_job_signals_anyway(c) ==
  /\ canceller[c].pc = "found"
  /\ LET j == canceller[c].job IN
     /\ \/ /\ is_active(job[j].status)
           /\ StorePlain(j, Committed(job[j], "cancelled"), "ok")
        \/ /\ ~is_active(job[j].status)
           /\ UNCHANGED storeVars
     /\ canceller' = [canceller EXCEPT ![c] =
                        [pc |-> "signal", job |-> j, active |-> TRUE]]
  /\ UNCHANGED <<eventVars, limitVars, workVars, telemetry,
                 registry, token, submitter, runner, outcome>>

cancel_job(c) ==
  /\ canceller[c].pc = "found"
  /\ LET j == canceller[c].job
         done == canceller' = [canceller EXCEPT ![c] = [pc |-> "done"]]
     IN
     \/ /\ is_active(job[j].status)
        /\ \E w \in WriteResults :
             /\ StorePlain(j, Committed(job[j], "cancelled"), w)
             /\ IF w = "ok" /\ canceller[c].active
                THEN /\ StartPublish(c, j, "cancelled")
                     /\ canceller' = [canceller EXCEPT ![c] =
                                      [pc |-> "signal", job |-> j, active |-> TRUE]]
                ELSE done /\ UNCHANGED publisher
     \/ /\ ~is_active(job[j].status)
        /\ done
        /\ UNCHANGED <<storeVars, publisher>>
  /\ UNCHANGED <<revision, sequence, sent, limitVars, workVars, telemetry,
                 registry, token, submitter, runner, outcome>>

signal_token(c) ==
  /\ canceller[c].pc = "signal" /\ Publishing(c, "idle")
  /\ token' = [token EXCEPT ![canceller[c].job] = TRUE]
  /\ canceller' = [canceller EXCEPT ![c] = [pc |-> "done"]]
  /\ UNCHANGED <<storeVars, eventVars, limitVars, workVars, telemetry, registry,
                 submitter, runner, outcome>>

-----------------------------------------------------------------------------
Submission(s) == create_job(s) \/ spawn_runner(s)

Publication(p) ==
  \/ read_persisted(p) \/ bump_sequence(p)
  \/ record_event_sequence(p) \/ send_event(p)

Run(j) ==
  \/ acquire_permit(j) \/ cancelled_in_queue(j) \/ check_cancelled(j)
  \/ mark_running(j)
  \/ wait_for_stage(j) \/ update_progress(j) \/ append_solver_event(j)
  \/ keep_snapshot(j) \/ updates_closed(j)
  \/ join_worker(j) \/ persist_cancelled(j) \/ save_result(j) \/ save_error(j)
  \/ release_permit(j) \/ remove_activity(j) \/ send_completion(j)

Cancellation(c) == cancel_job(c) \/ signal_token(c)

Next ==
  \/ \E s \in Submitters : Submission(s) \/ \E j \in Jobs : try_admit(s, j)
  \/ \E p \in Publishers : Publication(p)
  \/ \E j \in Jobs : Run(j) \/ finish(j) \/ \E u \in Updates : report(j, u)
  \/ \E c \in Cancellers : Cancellation(c) \/ \E j \in Jobs : look_up(c, j)

Spec == Init /\ [][Next]_vars

(* A handler that has begun, a runner task and a publication go on, and an *)
(* execution ends; no client has to submit or cancel anything.             *)
Fairness ==
  /\ \A s \in Submitters : WF_vars(Submission(s))
  /\ \A p \in Publishers : WF_vars(Publication(p))
  /\ \A j \in Jobs : WF_vars(Run(j)) /\ WF_vars(finish(j))
  /\ \A c \in Cancellers : WF_vars(Cancellation(c))

FairSpec == Spec /\ Fairness

-----------------------------------------------------------------------------
RunnerStates ==
  {"absent", "queued", "acquired", "marking", "consuming", "updating", "joining",
   "cancelling", "saving", "returning", "finishing", "completing", "done"}

PublisherState ==
  {IdlePublisher}
    \cup [pc : {"read"}, job : Jobs, kind : EventKinds]
    \cup [pc : {"bump", "record", "send"}, job : Jobs, kind : EventKinds,
          envelope : Envelope]

(* The store, the semaphores, the activity and every process. *)
TypeOK ==
  /\ job \in [Jobs -> JobRecord \cup {NoState}]
  /\ result \in [Jobs -> {"none", "plain", "full"}]
  /\ error \in [Jobs -> BOOLEAN]
  /\ revision \in [Jobs -> Nat]
  /\ telemetry \in [Jobs -> Nat]
  /\ admission \in 0..MaxOutstanding
  /\ permits \in 0..MaxConcurrent
  /\ registry \subseteq Jobs
  /\ token \in [Jobs -> BOOLEAN]
  /\ sequence \in [Jobs -> Nat]
  /\ sent \in [Jobs -> Seq(Event)]
  /\ submitter \in [Submitters -> [pc : {"idle", "done"}]
                      \cup [pc : {"admitted", "created"}, job : Jobs]]
  /\ runner \in [Jobs -> RunnerStates]
  /\ canceller \in [Cancellers -> [pc : {"idle", "done"}]
                      \cup [pc : {"found", "signal"}, job : Jobs, active : BOOLEAN]]
  /\ publisher \in [Publishers -> PublisherState]
  /\ worker \in [Jobs -> {"none", "executing", "ok", "failed", "cancelled", "panicked"}]
  /\ updates \in [Jobs -> Seq(Updates)]
  /\ reported \in [Jobs -> Seq(Updates)]
  /\ snapshot \in [Jobs -> BOOLEAN]
  /\ outcome \in [Jobs -> Outcomes]
  /\ faults \in 0..MaxFaults

(* A cancelled token always belongs to a job persisted as cancelled: the   *)
(* worker is never told to stop while the job could still complete.        *)
TokenMeansCancelled == \A j \in Jobs : token[j] => job[j].status = "cancelled"

(* What the submitting request is told agrees with the persisted record,   *)
(* whoever wins the race between result, failure and cancellation.         *)
CompletionAgrees ==
  \A j \in Jobs :
    /\ outcome[j] = "ok" => job[j].status = "completed" /\ result[j] # "none"
    /\ outcome[j] = "failed" => job[j].status = "failed" /\ error[j]
    /\ outcome[j] = "cancelled" => job[j].status = "cancelled"

BeforeEnd == {"queued", "acquired", "marking", "consuming", "updating", "joining",
              "cancelling", "saving"}

(* The inductive invariant behind the two: of all submissions of an id     *)
(* only one creates the job and spawns its runner, only that runner may    *)
(* complete or fail the job, and it does so as its last act; a canceller   *)
(* signals only what it has persisted.                                     *)
OneRunnerDecides ==
  /\ \A j \in Jobs : runner[j] \in BeforeEnd =>
       job[j].status \in {"pending", "running", "cancelled"}
  /\ \A j \in Jobs : job[j] = NoState => runner[j] = "absent"
  /\ \A s \in Submitters : submitter[s].pc = "created" =>
       /\ runner[submitter[s].job] = "absent"
       /\ job[submitter[s].job].status \in {"pending", "cancelled"}
       /\ \A t \in Submitters :
            (submitter[t].pc = "created" /\ submitter[t].job = submitter[s].job) => t = s
  /\ \A c \in Cancellers : canceller[c].pc = "signal" =>
       job[canceller[c].job].status = "cancelled"

(* The semaphore bounds what really runs: an execution that outlives its   *)
(* cancelled job still counts against TROUTE_MAX_CONCURRENT_JOBS.          *)
ExecutionBounded ==
  Cardinality({j \in Jobs : worker[j] = "executing"}) + permits <= MaxConcurrent

(* While the store works, a job that is pending or running occupies one of *)
(* the TROUTE_MAX_OUTSTANDING_JOBS admissions.                             *)
OutstandingBounded ==
  faults = 0 =>
    Cardinality({j \in Jobs : is_active(job[j].status)}) + admission <= MaxOutstanding

(* The limits of the configuration hold for executions and for jobs, and   *)
(* the permit counters never leave their ranges.                           *)
LimitsHold == TypeOK /\ ExecutionBounded /\ OutstandingBounded

CountOf(u, s) == Cardinality({i \in DOMAIN s : s[i] = u})

(* While the store works, a job completes or fails only after everything   *)
(* its worker reported has been persisted: every telemetry event, the last *)
(* stage, and the full result in place of the returned one.                *)
NothingReportedIsLost ==
  faults = 0 =>
    \A j \in Jobs : job[j].status \in {"completed", "failed"} =>
      /\ telemetry[j] = CountOf(Telemetry, reported[j])
      /\ \A i \in DOMAIN reported[j] : reported[j][i] <= job[j].stage
      /\ result[j] = "plain" => CountOf(ResultSnapshot, reported[j]) = 0

(* JobEventEnvelope::is_valid_for_event. *)
PayloadIsValid(e) ==
  /\ (e.result # "none") <=> (e.state.status = "completed")
  /\ e.error <=> (e.state.status = "failed")

is_valid_for_event(kind, e) ==
  /\ PayloadIsValid(e)
  /\ CASE kind = "snapshot" -> TRUE
       [] kind = "progress" -> is_active(e.state.status) /\ e.state.stage # 0
       [] OTHER             -> e.state.status = kind

TerminalEvents(j) == {i \in DOMAIN sent[j] : sent[j][i].kind # "progress"}

(* Runner and cancel endpoint never both announce the end of a job, and    *)
(* while the store works what they publish satisfies the wire contract     *)
(* sse_event asserts, although the job is read again after its update and  *)
(* may have been cancelled in between.                                     *)
PublishedEventsValid ==
  \A j \in Jobs :
    /\ Cardinality(TerminalEvents(j)) <= 1
    /\ faults = 0 =>
         \A i \in DOMAIN sent[j] :
           is_valid_for_event(sent[j][i].kind, sent[j][i].envelope)

(* get_job reads every payload file that exists, whatever the status. *)
VisiblePayload(j) ==
  {p \in {"result", "error"} : IF p = "result" THEN result[j] # "none"
                               ELSE error[j]}

Lifecycle == INSTANCE JobLifecycle WITH
  job <- job,
  payload <- [j \in Jobs |-> VisiblePayload(j)],
  failures <- faults

(* Whatever runners, workers and cancellers do, the store goes through an  *)
(* atomic, forward-only, exactly-once terminal life per job, and a job     *)
(* shows a payload other than that of its end only after a failed write.   *)
ImplementsLifecycle == Lifecycle!LifecycleSpec

(* Every permit comes back and every activity is removed, whichever way a  *)
(* job ends and whatever store operation fails; with a working store every *)
(* created job reaches a terminal status.                                  *)
JobsEnd ==
  /\ <>[](registry = {} /\ permits = MaxConcurrent /\ admission = MaxOutstanding)
  /\ [](faults = 0) =>
       \A j \in Jobs : (job[j] # NoState) ~> is_terminal(job[j].status)
=============================================================================
