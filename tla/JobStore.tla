------------------------------ MODULE JobStore ------------------------------
(***************************************************************************)
(* FileJobStore (src/storage.rs) at the granularity of its files.  Every   *)
(* operation takes the store's mutex, reads what it needs and replaces a   *)
(* fixed sequence of files, each by a temporary file and a rename, so one  *)
(* file changes per step and is never seen half written.  The process may  *)
(* stop between any two of those steps, a write may fail and abort the     *)
(* operation, and a restart runs recover_interrupted, which can itself be  *)
(* interrupted, before any other operation.                                *)
(*                                                                         *)
(* An operation that returns an error before its first write (a duplicate  *)
(* id, an invalid transition) changes nothing and is a disabled action.    *)
(* The append-only telemetry and timeline files are not part of this       *)
(* module: no operation of the store proper reads them.                    *)
(***************************************************************************)
EXTENDS JobState

CONSTANTS
  MaxSequence,  \* the largest event sequence (u64::MAX in the code)
  MaxCrashes,   \* bound: how often the process stops
  MaxFaults     \* bound: how many file writes fail

ASSUME JobsAssumption == Jobs # {}
ASSUME SequenceAssumption == MaxSequence \in Nat \ {0}
ASSUME FailureBoundAssumption == MaxCrashes \in Nat /\ MaxFaults \in Nat

VARIABLES
  dir,       \* jobs whose directory exists
  request,   \* jobs whose request.json exists
  state,     \* state.json, NoState where there is none
  sequence,  \* event-sequence.json, NoSequence where there is none
  result,    \* jobs whose result.json exists
  error,     \* error.json: "none", "failure" or "interrupted"
  index,     \* index.json: the status listed for a job, "absent" if unlisted
  mode,      \* the process: "down", "recovering" or "up"
  op,        \* the operation that holds the mutex, NoOp when it is free
  todo,      \* directories recover_interrupted has not looked at yet
  crashes, faults   \* how many of the bounded failures have happened

disk == <<dir, request, state, sequence, result, error, index>>
control == <<mode, op, todo, crashes, faults>>
vars == <<dir, request, state, sequence, result, error, index,
          mode, op, todo, crashes, faults>>

NoSequence == -1

Files == {"dir", "request", "sequence", "state", "result", "error", "index"}
Kinds == {"create", "update", "result", "error", "record", "recover", "rebuild"}

(* What accompanies a job: the payload files that exist. *)
PayloadFiles(j) ==
  {p \in {"result", "error"} : IF p = "result" THEN j \in result
                               ELSE error[j] # "none"}

(* kind: which operation; file: the file it writes next; target: the job   *)
(* record, revision: the event sequence it is going to store; found: the   *)
(* payload files there were when it took the mutex.                        *)
Operation == [kind     : Kinds,
              job      : Jobs,
              file     : Files,
              target   : JobRecord \cup {NoState},
              revision : 0..MaxSequence,
              found    : SUBSET {"result", "error"}]

NoOp == [kind |-> "none"]

-----------------------------------------------------------------------------
Init ==
  /\ dir = {}
  /\ request = {}
  /\ state = [j \in Jobs |-> NoState]
  /\ sequence = [j \in Jobs |-> NoSequence]
  /\ result = {}
  /\ error = [j \in Jobs |-> "none"]
  /\ index = [j \in Jobs |-> "absent"]
  /\ mode = "down"
  /\ op = NoOp
  /\ todo = {}
  /\ crashes = 0
  /\ faults = 0

Begin(kind, j, file, target, revision) ==
  /\ op = NoOp
  /\ op' = [kind |-> kind, job |-> j, file |-> file,
            target |-> target, revision |-> revision,
            found |-> PayloadFiles(j)]
  /\ UNCHANGED <<disk, crashes, faults>>

(* Operations other than recovery run once the server is up. *)
Call(kind, j, file, target, revision) ==
  /\ mode = "up"
  /\ Begin(kind, j, file, target, revision)
  /\ UNCHANGED <<mode, todo>>

create_job(j) ==
  /\ j \notin dir
  /\ Call("create", j, "dir", PendingState, 0)

mark_running(j) ==
  /\ is_active(state[j].status)
  /\ Call("update", j, "state", MarkedRunning(state[j]), 0)

update_progress(j, stage, progress) ==
  /\ is_active(state[j].status)
  /\ Call("update", j, "state", WithProgress(state[j], stage, progress), 0)

(* Seeded fault: the state is committed without its payload. *)
save_result_state_only(j) ==
  /\ state[j].status = "running"
  /\ Call("result", j, "state", Committed(state[j], "completed"), 0)

(* prepare_terminal_write: result and error are accepted while running. *)
save_result(j) ==
  /\ state[j].status = "running"
  /\ Call("result", j, "result", Committed(state[j], "completed"), 0)

save_error(j) ==
  /\ state[j].status = "running"
  /\ Call("error", j, "error", Committed(state[j], "failed"), 0)

cancel_job(j) ==
  /\ is_active(state[j].status)
  /\ Call("update", j, "state", Committed(state[j], "cancelled"), 0)

record_event_sequence(j, n) ==
  /\ j \in dir
  /\ Call("record", j, "sequence", NoState, n)

-----------------------------------------------------------------------------
(* The writes of an operation, in the order its code performs them. *)
FollowingFile(kind, file) ==
  CASE file = "dir"                 -> "request"
    [] file = "request"             -> "sequence"
    [] file \in {"result", "error"} -> "state"
    [] file = "state"               -> IF kind = "recover" THEN "sequence" ELSE "index"
    [] file = "sequence"            -> IF kind = "create" THEN "state" ELSE "done"
    [] file = "index"               -> "done"

(* One write succeeded: the operation goes on to its next file or returns. *)
Continue ==
  LET file == FollowingFile(op.kind, op.file) IN
  /\ op' = IF file = "done" THEN NoOp ELSE [op EXCEPT !.file = file]
  /\ UNCHANGED <<todo, crashes, faults>>

Writes(file) == op # NoOp /\ op.file = file

WriteDirectory ==
  /\ Writes("dir")
  /\ dir' = dir \cup {op.job}
  /\ Continue
  /\ UNCHANGED <<request, state, sequence, result, error, index, mode>>

WriteRequest ==
  /\ Writes("request")
  /\ request' = request \cup {op.job}
  /\ Continue
  /\ UNCHANGED <<dir, state, sequence, result, error, index, mode>>

WriteSequence ==
  /\ Writes("sequence")
  /\ sequence' = [sequence EXCEPT ![op.job] = op.revision]
  /\ Continue
  /\ UNCHANGED <<dir, request, state, result, error, index, mode>>

WriteResult ==
  /\ Writes("result")
  /\ result' = result \cup {op.job}
  /\ Continue
  /\ UNCHANGED <<dir, request, state, sequence, error, index, mode>>

WriteError ==
  /\ Writes("error")
  /\ error' = [error EXCEPT ![op.job] =
                 IF op.kind = "recover" THEN "interrupted" ELSE "failure"]
  /\ Continue
  /\ UNCHANGED <<dir, request, state, sequence, result, index, mode>>

WriteState ==
  /\ Writes("state")
  /\ state' = [state EXCEPT ![op.job] = op.target]
  /\ Continue
  /\ UNCHANGED <<dir, request, sequence, result, error, index, mode>>

update_index_entry ==
  /\ Writes("index") /\ op.kind # "rebuild"
  /\ index' = [index EXCEPT ![op.job] = op.target.status]
  /\ Continue
  /\ UNCHANGED <<dir, request, state, sequence, result, error, mode>>

(* The last step of recover_interrupted; the server binds afterwards. *)
rebuild_index ==
  /\ Writes("index") /\ op.kind = "rebuild"
  /\ index' = [j \in Jobs |-> state[j].status]
  /\ mode' = "up"
  /\ Continue
  /\ UNCHANGED <<dir, request, state, sequence, result, error>>

-----------------------------------------------------------------------------
(* Startup: recover_interrupted walks the directories in any order. *)
Restart ==
  /\ mode = "down"
  /\ mode' = "recovering"
  /\ todo' = dir
  /\ UNCHANGED <<disk, op, crashes, faults>>

RecoverJob(j) ==
  /\ mode = "recovering" /\ j \in todo
  /\ is_active(state[j].status)
  /\ LET revision == IF sequence[j] = NoSequence THEN 1
                     ELSE Smaller(sequence[j] + 1, MaxSequence)
     IN Begin("recover", j, "error", Committed(state[j], "failed"), revision)
  /\ todo' = todo \ {j}
  /\ UNCHANGED mode

(* Seeded fault: only running jobs count as interrupted. *)
KeepJob_pending(j) ==
  /\ mode = "recovering" /\ j \in todo /\ op = NoOp
  /\ state[j].status # "running"
  /\ todo' = todo \ {j}
  /\ UNCHANGED <<disk, mode, op, crashes, faults>>

(* No state.json, or a terminal one: the directory is left as it is. *)
KeepJob(j) ==
  /\ mode = "recovering" /\ j \in todo /\ op = NoOp
  /\ ~is_active(state[j].status)
  /\ todo' = todo \ {j}
  /\ UNCHANGED <<disk, mode, op, crashes, faults>>

(* The rebuild concerns no job in particular. *)
FinishRecovery ==
  /\ mode = "recovering" /\ todo = {}
  /\ Begin("rebuild", CHOOSE j \in Jobs : TRUE, "index", NoState, 0)
  /\ UNCHANGED <<mode, todo>>

(* A write fails: the operation returns the error with the files written   *)
(* so far in place.  At startup the error ends the process.                *)
WriteFails ==
  /\ op # NoOp /\ faults < MaxFaults
  /\ op' = NoOp
  /\ faults' = faults + 1
  /\ mode' = IF mode = "recovering" THEN "down" ELSE mode
  /\ UNCHANGED <<disk, todo, crashes>>

Crash ==
  /\ mode # "down" /\ crashes < MaxCrashes
  /\ mode' = "down"
  /\ op' = NoOp
  /\ crashes' = crashes + 1
  /\ UNCHANGED <<disk, todo, faults>>

-----------------------------------------------------------------------------
Operate(j) ==
  \/ create_job(j)
  \/ mark_running(j)
  \/ \E stage \in 1..MaxStage, progress \in 0..(MaxProgress + 1) :
       update_progress(j, stage, progress)
  \/ save_result(j)
  \/ save_error(j)
  \/ cancel_job(j)
  \/ \E n \in 1..MaxSequence : record_event_sequence(j, n)

Write ==
  \/ WriteDirectory \/ WriteRequest \/ WriteSequence \/ WriteResult
  \/ WriteError \/ WriteState \/ update_index_entry \/ rebuild_index

Recover == FinishRecovery \/ \E j \in Jobs : RecoverJob(j) \/ KeepJob(j)

Next ==
  \/ \E j \in Jobs : Operate(j)
  \/ Recover
  \/ Write \/ Restart \/ WriteFails \/ Crash

Spec == Init /\ [][Next]_vars

-----------------------------------------------------------------------------
(* The files, the index and the operation that holds the mutex. *)
TypeOK ==
  /\ dir \subseteq Jobs
  /\ request \subseteq Jobs
  /\ state \in [Jobs -> JobRecord \cup {NoState}]
  /\ sequence \in [Jobs -> {NoSequence} \cup 0..MaxSequence]
  /\ result \subseteq Jobs
  /\ error \in [Jobs -> {"none", "failure", "interrupted"}]
  /\ index \in [Jobs -> Status \cup {"absent"}]
  /\ mode \in {"down", "recovering", "up"}
  /\ op \in Operation \cup {NoOp}
  /\ todo \subseteq Jobs
  /\ crashes \in 0..MaxCrashes
  /\ faults \in 0..MaxFaults

(* A job whose state.json is completed has its result, and one whose       *)
(* state.json is failed has its error: the payload is on disk before the   *)
(* state that announces it, whatever crash or failed write came between.   *)
TerminalStateHasPayload ==
  \A j \in Jobs :
    /\ state[j].status = "completed" => j \in result
    /\ state[j].status = "failed" => error[j] # "none"

(* What an operation is going to store may follow what is on disk. *)
MayFollow(old, new) ==
  \/ old = NoState /\ new = PendingState
  \/ /\ is_active(old.status)
     /\ \/ new = old
        \/ new = Committed(old, "failed")
        \/ new = Committed(old, "cancelled")
        \/ /\ new \in JobRecord /\ new.status = "running"
           /\ old.stage <= new.stage /\ old.progress <= new.progress
  \/ old.status = "running" /\ new = Committed(old, "completed")

(* state.json is still to be written. *)
StateAhead ==
  \/ op.file \in {"dir", "request", "result", "error", "state"}
  \/ op.file = "sequence" /\ op.kind = "create"

(* The mutex makes read, decide and write one: until an operation writes   *)
(* state.json its target still follows the record on disk, a creation      *)
(* finds none there, and the one payload file that has come since it took  *)
(* the mutex is that of a terminal target, written right before the state. *)
OperationPrepared ==
  op # NoOp =>
    /\ StateAhead => MayFollow(state[op.job], op.target)
    /\ op.kind = "create" /\ StateAhead =>
         state[op.job] = NoState /\ op.target = PendingState
    /\ op.file \in {"dir", "request"} => op.kind = "create"
    /\ StateAhead /\ op.file # "dir" => op.job \in dir
    /\ op.file = "result" => op.target.status = "completed"
    /\ op.file = "error" => op.target.status = "failed"
    /\ StateAhead =>
         PayloadFiles(op.job) =
           op.found \cup (IF op.file = "state" THEN PayloadOf(op.target.status) ELSE {})

(* A job without a directory has no record, so an id can be taken again    *)
(* only if nothing of it was ever stored.                                  *)
RecordsHaveDirectories == \A j \in Jobs : j \notin dir => state[j] = NoState

(* The inductive invariant: what is on disk and what the operation in      *)
(* flight is about to do to it belong together.                            *)
StoreInvariant ==
  /\ TypeOK
  /\ TerminalStateHasPayload
  /\ OperationPrepared
  /\ RecordsHaveDirectories

(* The index agrees with the records whenever the store can be read. *)
IndexAgrees ==
  (mode = "up" /\ op = NoOp) => \A j \in Jobs : index[j] = state[j].status

(* When recovery hands over to the server no job of an earlier process is  *)
(* still active, so none can be waited for in vain, and the list of jobs   *)
(* is the list of their records again, whatever crashes and failed writes  *)
(* (of recovery itself too) came before; while no write has failed the     *)
(* list stays that way.                                                    *)
RecoveryIsComplete ==
  /\ [][(mode = "recovering" /\ mode' = "up") =>
         (IndexAgrees' /\ \A j \in Jobs : ~is_active(state'[j].status))]_vars
  /\ [](faults = 0 => IndexAgrees)

(* get_job reads every payload file that exists, whatever the status.  It  *)
(* takes the mutex too: until an operation has renamed state.json, or was  *)
(* interrupted before, a reader has no more than the operation found.      *)
VisiblePayload(j) ==
  IF op # NoOp /\ op.job = j /\ StateAhead THEN op.found ELSE PayloadFiles(j)

Lifecycle == INSTANCE JobLifecycle WITH
  job <- state,
  payload <- [j \in Jobs |-> VisiblePayload(j)],
  failures <- crashes + faults

(* JobLifecycle is implemented: one atomic, forward-only, exactly-once     *)
(* terminal life per job, its payload with it, and a payload that belongs  *)
(* to no end of the job only after a crash or a failed write.              *)
ImplementsLifecycle == Lifecycle!LifecycleSpec
=============================================================================
