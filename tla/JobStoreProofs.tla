--------------------------- MODULE JobStoreProofs ---------------------------
(***************************************************************************)
(* Proofs about JobStore for any set of jobs, any number of stages, any    *)
(* percentage scale and any bound on sequences, crashes and failed writes. *)
(***************************************************************************)
EXTENDS JobStore, TLAPS

-----------------------------------------------------------------------------
(* The transformations storage.rs applies to a record yield records: the   *)
(* stage stays a stage and the percentage within its scale.                *)
LEMMA RecordTypes ==
  ASSUME NEW st \in JobRecord
  PROVE  /\ MarkedRunning(st) \in JobRecord
         /\ \A status \in Status : Committed(st, status) \in JobRecord
         /\ \A stage \in 1..MaxStage, progress \in Nat :
              WithProgress(st, stage, progress) \in JobRecord
<1>1. MarkedRunning(st) \in JobRecord
  BY DEF MarkedRunning, JobRecord, Status
<1>2. ASSUME NEW status \in Status
      PROVE  Committed(st, status) \in JobRecord
  BY <1>2, ProgressAssumption DEF Committed, JobRecord, Status
<1>3. ASSUME NEW stage \in 1..MaxStage, NEW progress \in Nat
      PROVE  WithProgress(st, stage, progress) \in JobRecord
  BY <1>3, ProgressAssumption, StageAssumption
     DEF WithProgress, JobRecord, Larger, Smaller, Status
<1> QED
  BY <1>1, <1>2, <1>3

(* An active record is a real one: NoState is not active. *)
LEMMA ActiveIsRecord ==
  ASSUME TypeOK, NEW j \in Jobs, is_active(state[j].status)
  PROVE  state[j] \in JobRecord
BY DEF TypeOK, is_active, NoState

(* A write leads to another file or ends the operation. *)
LEMMA FollowingFileType ==
  ASSUME NEW kind, NEW file \in Files
  PROVE  FollowingFile(kind, file) \in Files \cup {"done"}
BY DEF FollowingFile, Files

(* The operation after one of its writes. *)
LEMMA ContinueType ==
  ASSUME TypeOK, op # NoOp, Continue
  PROVE  op' \in Operation \cup {NoOp}
<1>1. op \in Operation
  BY DEF TypeOK
<1>2. op.file \in Files
  BY <1>1 DEF Operation
<1> DEFINE file == FollowingFile(op.kind, op.file)
<1>3. file \in Files \cup {"done"}
  BY <1>2, FollowingFileType
<1>4. CASE file = "done"
  BY <1>4 DEF Continue
<1>5. CASE file \in Files
  <2>1. file # "done"
    BY <1>5 DEF Files
  <2>2. op' = [op EXCEPT !.file = file]
    BY <2>1 DEF Continue
  <2> QED
    BY <1>1, <1>5, <2>2 DEF Operation
<1> QED
  BY <1>3, <1>4, <1>5

-----------------------------------------------------------------------------
(* The empty data directory has the types. *)
LEMMA InitTypeOK == Init => TypeOK
BY FailureBoundAssumption DEF Init, TypeOK

(* Taking the mutex changes the operation and nothing on disk. *)
LEMMA BeginType ==
  ASSUME NEW kind \in Kinds, NEW j \in Jobs, NEW file \in Files,
         NEW target \in JobRecord \cup {NoState}, NEW n \in 0..MaxSequence,
         Begin(kind, j, file, target, n)
  PROVE  op' \in Operation /\ UNCHANGED <<disk, crashes, faults>>
<1>1. PayloadFiles(j) \in SUBSET {"result", "error"}
  BY DEF PayloadFiles
<1> QED
  BY <1>1 DEF Begin, Operation

(* The same for an operation of the running server. *)
LEMMA CallType ==
  ASSUME NEW kind \in Kinds, NEW j \in Jobs, NEW file \in Files,
         NEW target \in JobRecord \cup {NoState}, NEW n \in 0..MaxSequence,
         Call(kind, j, file, target, n)
  PROVE  op' \in Operation /\ UNCHANGED <<disk, mode, todo, crashes, faults>>
BY BeginType DEF Call

(* Every step of the store keeps every file and the operation in its type. *)
LEMMA NextTypeOK == TypeOK /\ [Next]_vars => TypeOK'
<1> SUFFICES ASSUME TypeOK, [Next]_vars
             PROVE  TypeOK'
  OBVIOUS
<1> USE DEF Kinds, Files
<1>0. 0 \in 0..MaxSequence /\ 1..MaxSequence \subseteq 0..MaxSequence
  BY SequenceAssumption
<1>1. ASSUME NEW j \in Jobs, Operate(j)
      PROVE  TypeOK'
  <2>1. SUFFICES op' \in Operation /\ UNCHANGED <<disk, mode, todo, crashes, faults>>
    BY <2>1 DEF TypeOK, disk
  <2>2. CASE create_job(j)
    <3>1. PendingState \in JobRecord
      BY StageAssumption, ProgressAssumption DEF PendingState, JobRecord, Status
    <3> QED
      BY <1>0, <2>2, <3>1, CallType DEF create_job
  <2>3. CASE mark_running(j)
    <3>1. MarkedRunning(state[j]) \in JobRecord
      BY <2>3, ActiveIsRecord, RecordTypes DEF mark_running
    <3> QED
      BY <1>0, <2>3, <3>1, CallType DEF mark_running
  <2>4. ASSUME NEW stage \in 1..MaxStage, NEW progress \in 0..(MaxProgress + 1),
               update_progress(j, stage, progress)
        PROVE  op' \in Operation /\ UNCHANGED <<disk, mode, todo, crashes, faults>>
    <3>1. state[j] \in JobRecord
      BY <2>4, ActiveIsRecord DEF update_progress
    <3>2. progress \in Nat
      OBVIOUS
    <3>3. WithProgress(state[j], stage, progress) \in JobRecord
      BY <3>1, <3>2, RecordTypes
    <3> QED
      BY <1>0, <2>4, <3>3, CallType DEF update_progress
  <2>5. CASE save_result(j)
    <3>1. is_active(state[j].status)
      BY <2>5 DEF save_result, is_active
    <3>2. Committed(state[j], "completed") \in JobRecord
      BY <3>1, ActiveIsRecord, RecordTypes DEF Status
    <3> QED
      BY <1>0, <2>5, <3>2, CallType DEF save_result
  <2>6. CASE save_error(j)
    <3>1. is_active(state[j].status)
      BY <2>6 DEF save_error, is_active
    <3>2. Committed(state[j], "failed") \in JobRecord
      BY <3>1, ActiveIsRecord, RecordTypes DEF Status
    <3> QED
      BY <1>0, <2>6, <3>2, CallType DEF save_error
  <2>7. CASE cancel_job(j)
    <3>1. Committed(state[j], "cancelled") \in JobRecord
      BY <2>7, ActiveIsRecord, RecordTypes DEF cancel_job, Status
    <3> QED
      BY <1>0, <2>7, <3>1, CallType DEF cancel_job
  <2>8. ASSUME NEW n \in 1..MaxSequence, record_event_sequence(j, n)
        PROVE  op' \in Operation /\ UNCHANGED <<disk, mode, todo, crashes, faults>>
    BY <1>0, <2>8, CallType DEF record_event_sequence
  <2> QED
    BY <1>1, <2>2, <2>3, <2>4, <2>5, <2>6, <2>7, <2>8 DEF Operate
<1>2. CASE Recover
  <2>1. CASE FinishRecovery
    <3>1. (CHOOSE j \in Jobs : TRUE) \in Jobs
      BY JobsAssumption
    <3>2. op' \in Operation /\ UNCHANGED <<disk, crashes, faults>>
      BY <1>0, <2>1, <3>1, BeginType DEF FinishRecovery
    <3> QED
      BY <2>1, <3>2 DEF FinishRecovery, TypeOK, disk
  <2>2. ASSUME NEW j \in Jobs, RecoverJob(j)
        PROVE  TypeOK'
    <3>1. Committed(state[j], "failed") \in JobRecord
      BY <2>2, ActiveIsRecord, RecordTypes DEF RecoverJob, Status
    <3>2. PICK n \in 0..MaxSequence :
            Begin("recover", j, "error", Committed(state[j], "failed"), n)
      BY <2>2, SequenceAssumption DEF RecoverJob, Smaller, TypeOK, NoSequence
    <3>3. op' \in Operation /\ UNCHANGED <<disk, crashes, faults>>
      BY <3>1, <3>2, BeginType
    <3> QED
      BY <2>2, <3>3 DEF RecoverJob, TypeOK, disk
  <2>3. ASSUME NEW j \in Jobs, KeepJob(j)
        PROVE  TypeOK'
    BY <2>3 DEF KeepJob, TypeOK, disk
  <2> QED
    BY <1>2, <2>1, <2>2, <2>3 DEF Recover
<1>3. CASE Write
  <2>1. op # NoOp /\ op \in Operation
    BY <1>3 DEF TypeOK, Write, Writes, WriteDirectory, WriteRequest, WriteSequence, WriteResult,
                WriteError, WriteState, update_index_entry, rebuild_index
  <2>2. /\ op.job \in Jobs
        /\ op.target \in JobRecord \cup {NoState}
        /\ op.revision \in 0..MaxSequence
    BY <2>1 DEF Operation
  <2>3. Continue => op' \in Operation \cup {NoOp}
    BY <2>1, ContinueType
  <2>4. CASE WriteDirectory
    BY <2>2, <2>3, <2>4 DEF WriteDirectory, Continue, TypeOK
  <2>5. CASE WriteRequest
    BY <2>2, <2>3, <2>5 DEF WriteRequest, Continue, TypeOK
  <2>6. CASE WriteSequence
    BY <2>2, <2>3, <2>6 DEF WriteSequence, Continue, TypeOK
  <2>7. CASE WriteResult
    BY <2>2, <2>3, <2>7 DEF WriteResult, Continue, TypeOK
  <2>8. CASE WriteError
    BY <2>2, <2>3, <2>8 DEF WriteError, Continue, TypeOK
  <2>9. CASE WriteState
    BY <2>2, <2>3, <2>9 DEF WriteState, Continue, TypeOK
  <2>10. CASE update_index_entry
    <3>1. op.target.status \in Status \cup {"absent"}
      BY <2>2 DEF JobRecord, NoState
    <3> QED
      BY <2>2, <2>3, <2>10, <3>1 DEF update_index_entry, Continue, TypeOK
  <2>11. CASE rebuild_index
    <3>1. \A j \in Jobs : state[j].status \in Status \cup {"absent"}
      BY DEF TypeOK, JobRecord, NoState
    <3> QED
      BY <2>3, <2>11, <3>1 DEF rebuild_index, Continue, TypeOK
  <2> QED
    BY <1>3, <2>4, <2>5, <2>6, <2>7, <2>8, <2>9, <2>10, <2>11 DEF Write
<1>4. CASE Restart
  BY <1>4 DEF Restart, TypeOK, disk
<1>5. CASE WriteFails
  BY <1>5, FailureBoundAssumption DEF WriteFails, TypeOK, disk
<1>6. CASE Crash
  BY <1>6, FailureBoundAssumption DEF Crash, TypeOK, disk
<1>7. CASE UNCHANGED vars
  BY <1>7 DEF vars, TypeOK
<1> QED
  BY <1>1, <1>2, <1>3, <1>4, <1>5, <1>6, <1>7 DEF Next

(* The files, the index and the running operation always have their types, *)
(* through crashes and failed writes.                                      *)
THEOREM TypeCorrect == Spec => []TypeOK
BY InitTypeOK, NextTypeOK, PTL DEF Spec

-----------------------------------------------------------------------------
(* The inductive invariant. *)
LEMMA InitInvariant == Init => StoreInvariant
BY InitTypeOK DEF Init, StoreInvariant, TerminalStateHasPayload, OperationPrepared,
                  RecordsHaveDirectories, NoState

(* An operation that does not begin with a write of state.json, or whose   *)
(* target may follow the record, is prepared.                              *)
LEMMA BeginPrepared ==
  ASSUME StoreInvariant, NEW kind, NEW j \in Jobs, NEW file, NEW target, NEW n,
         Begin(kind, j, file, target, n),
         file # "dir" /\ file # "request",
         file \in {"result", "error", "state"} =>
           MayFollow(state[j], target) /\ j \in dir,
         kind # "create",
         file = "result" => target.status = "completed",
         file = "error" => target.status = "failed",
         file = "state" => target.status \notin {"completed", "failed"}
  PROVE  (TerminalStateHasPayload /\ OperationPrepared /\ RecordsHaveDirectories)'
<1>1. UNCHANGED <<dir, state, result, error>>
  BY DEF Begin, disk
<1>2. op' = [kind |-> kind, job |-> j, file |-> file, target |-> target,
             revision |-> n, found |-> PayloadFiles(j)]
  BY DEF Begin
<1>3. TerminalStateHasPayload' /\ RecordsHaveDirectories'
  BY <1>1 DEF StoreInvariant, TerminalStateHasPayload, RecordsHaveDirectories
<1>4. PayloadFiles(j)' = PayloadFiles(j)
  BY <1>1 DEF PayloadFiles
<1>5. file = "state" => PayloadOf(target.status) = {}
  BY DEF PayloadOf
<1>6. OperationPrepared'
  BY <1>1, <1>2, <1>4, <1>5 DEF OperationPrepared, StateAhead
<1> QED
  BY <1>3, <1>6

(* Only a job with a directory has a record that could be active. *)
LEMMA ActiveHasDirectory ==
  ASSUME StoreInvariant, NEW j \in Jobs, is_active(state[j].status)
  PROVE  j \in dir
BY DEF StoreInvariant, RecordsHaveDirectories, is_active, NoState

(* The record transformations lead to records that may follow. *)
LEMMA TransformationsFollow ==
  ASSUME NEW st \in JobRecord, is_active(st.status)
  PROVE  /\ MayFollow(st, MarkedRunning(st))
         /\ MayFollow(st, Committed(st, "failed"))
         /\ MayFollow(st, Committed(st, "cancelled"))
         /\ st.status = "running" => MayFollow(st, Committed(st, "completed"))
         /\ \A stage \in 1..MaxStage, progress \in Nat :
              MayFollow(st, WithProgress(st, stage, progress))
<1>1. MayFollow(st, MarkedRunning(st))
  <2>1. MarkedRunning(st) \in JobRecord
    BY RecordTypes
  <2>2. /\ MarkedRunning(st).status = "running"
        /\ MarkedRunning(st).stage = st.stage
        /\ MarkedRunning(st).progress = st.progress
    BY DEF MarkedRunning, JobRecord
  <2>3. st.stage \in Int /\ st.progress \in Int
    BY StageAssumption, ProgressAssumption DEF JobRecord
  <2> QED
    BY <2>1, <2>2, <2>3 DEF MayFollow
<1>2. /\ MayFollow(st, Committed(st, "failed"))
      /\ MayFollow(st, Committed(st, "cancelled"))
      /\ st.status = "running" => MayFollow(st, Committed(st, "completed"))
  BY DEF MayFollow
<1>3. ASSUME NEW stage \in 1..MaxStage, NEW progress \in Nat
      PROVE  MayFollow(st, WithProgress(st, stage, progress))
  <2> DEFINE new == WithProgress(st, stage, progress)
  <2>1. new \in JobRecord
    BY RecordTypes
  <2>2. st.stage \in 0..MaxStage /\ st.progress \in 0..MaxProgress
    BY DEF JobRecord
  <2>3. CASE stage < st.stage
    BY <2>3 DEF WithProgress, MayFollow
  <2>4. CASE ~(stage < st.stage)
    <3>1. new.status = "running" /\ st.stage <= new.stage /\ st.progress <= new.progress
      BY <2>2, <2>4, StageAssumption, ProgressAssumption
         DEF WithProgress, Larger, Smaller
    <3> QED
      BY <2>1, <3>1 DEF MayFollow
  <2> QED
    BY <2>3, <2>4
<1> QED
  BY <1>1, <1>2, <1>3

(* Every step keeps disk and operation together: the mutex keeps others    *)
(* out, and the order of the writes puts a payload before its state.       *)
LEMMA NextInvariant == StoreInvariant /\ [Next]_vars => StoreInvariant'
<1> SUFFICES ASSUME StoreInvariant, [Next]_vars
             PROVE  StoreInvariant'
  OBVIOUS
<1> DEFINE Rest == TerminalStateHasPayload /\ OperationPrepared /\ RecordsHaveDirectories
<1>0. TypeOK /\ TypeOK'
  BY NextTypeOK DEF StoreInvariant
<1>s. SUFFICES Rest'
  BY <1>0 DEF StoreInvariant
<1>1. ASSUME NEW j \in Jobs, Operate(j)
      PROVE  Rest'
  <2>1. is_active(state[j].status) =>
          /\ state[j] \in JobRecord
          /\ j \in dir
          /\ MayFollow(state[j], MarkedRunning(state[j]))
          /\ MayFollow(state[j], Committed(state[j], "failed"))
          /\ MayFollow(state[j], Committed(state[j], "cancelled"))
          /\ state[j].status = "running" => MayFollow(state[j], Committed(state[j], "completed"))
    BY <1>0, ActiveIsRecord, ActiveHasDirectory, TransformationsFollow
  <2>2. CASE create_job(j)
    <3>1. state[j] = NoState
      BY <2>2 DEF create_job, StoreInvariant, RecordsHaveDirectories
    <3>2. op' = [kind |-> "create", job |-> j, file |-> "dir",
                 target |-> PendingState, revision |-> 0, found |-> PayloadFiles(j)]
      BY <2>2 DEF create_job, Call, Begin
    <3>3. UNCHANGED <<dir, state, result, error>>
      BY <2>2 DEF create_job, Call, Begin, disk
    <3>4. PayloadFiles(j)' = PayloadFiles(j)
      BY <3>3 DEF PayloadFiles
    <3> QED
      BY <3>1, <3>2, <3>3, <3>4 DEF StoreInvariant, TerminalStateHasPayload, OperationPrepared,
                              RecordsHaveDirectories, StateAhead, MayFollow
  <2>3. CASE mark_running(j)
    <3>1. MarkedRunning(state[j]).status = "running"
      BY <2>1, <2>3 DEF mark_running, MarkedRunning, JobRecord
    <3> QED
      BY <2>1, <2>3, <3>1, BeginPrepared DEF mark_running, Call
  <2>4. ASSUME NEW stage \in 1..MaxStage, NEW progress \in 0..(MaxProgress + 1),
               update_progress(j, stage, progress)
        PROVE  Rest'
    <3>1. is_active(state[j].status) /\ progress \in Nat
      BY <2>4 DEF update_progress
    <3>2. MayFollow(state[j], WithProgress(state[j], stage, progress))
      BY <2>1, <3>1, TransformationsFollow
    <3>3. WithProgress(state[j], stage, progress).status \in {"pending", "running"}
      BY <3>1 DEF WithProgress, is_active
    <3> QED
      BY <2>1, <2>4, <3>1, <3>2, <3>3, BeginPrepared DEF update_progress, Call
  <2>5. CASE save_result(j)
    <3>1. is_active(state[j].status) /\ state[j].status = "running"
      BY <2>5 DEF save_result, is_active
    <3>2. Committed(state[j], "completed").status = "completed"
      BY DEF Committed
    <3> QED
      BY <2>1, <2>5, <3>1, <3>2, BeginPrepared DEF save_result, Call
  <2>6. CASE save_error(j)
    <3>1. is_active(state[j].status)
      BY <2>6 DEF save_error, is_active
    <3>2. Committed(state[j], "failed").status = "failed"
      BY DEF Committed
    <3> QED
      BY <2>1, <2>6, <3>1, <3>2, BeginPrepared DEF save_error, Call
  <2>7. CASE cancel_job(j)
    <3>1. Committed(state[j], "cancelled").status = "cancelled"
      BY DEF Committed
    <3> QED
      BY <2>1, <2>7, <3>1, BeginPrepared DEF cancel_job, Call
  <2>8. ASSUME NEW n \in 1..MaxSequence, record_event_sequence(j, n)
        PROVE  Rest'
    BY <2>8, BeginPrepared DEF record_event_sequence, Call
  <2> QED
    BY <1>1, <2>2, <2>3, <2>4, <2>5, <2>6, <2>7, <2>8 DEF Operate
<1>2. CASE Recover
  <2>1. CASE FinishRecovery
    <3>1. (CHOOSE j \in Jobs : TRUE) \in Jobs
      BY JobsAssumption
    <3> QED
      BY <2>1, <3>1, BeginPrepared DEF FinishRecovery
  <2>2. ASSUME NEW j \in Jobs, RecoverJob(j)
        PROVE  Rest'
    <3>1. is_active(state[j].status)
      BY <2>2 DEF RecoverJob
    <3>2. MayFollow(state[j], Committed(state[j], "failed")) /\ j \in dir
      BY <1>0, <3>1, ActiveIsRecord, ActiveHasDirectory, TransformationsFollow
    <3>3. Committed(state[j], "failed").status = "failed"
      BY DEF Committed
    <3>4. PICK n : Begin("recover", j, "error", Committed(state[j], "failed"), n)
      BY <2>2 DEF RecoverJob
    <3> QED
      BY <3>2, <3>3, <3>4, BeginPrepared
  <2>3. ASSUME NEW j \in Jobs, KeepJob(j)
        PROVE  Rest'
    BY <2>3 DEF KeepJob, disk, StoreInvariant, TerminalStateHasPayload, OperationPrepared,
                RecordsHaveDirectories, StateAhead
  <2> QED
    BY <1>2, <2>1, <2>2, <2>3 DEF Recover
<1>3. CASE Write
  <2>1. op # NoOp /\ op \in Operation /\ Continue
    BY <1>0, <1>3 DEF TypeOK, Write, Writes, WriteDirectory, WriteRequest, WriteSequence,
                WriteResult, WriteError, WriteState, update_index_entry, rebuild_index
  <2>2. op.job \in Jobs /\ op.kind \in Kinds /\ op.file \in Files
    BY <2>1 DEF Operation
  <2>3. OperationPrepared /\ TerminalStateHasPayload /\ RecordsHaveDirectories
    BY DEF StoreInvariant
  <2>4. \/ op' = NoOp
        \/ /\ op'.kind = op.kind /\ op'.job = op.job /\ op'.target = op.target
           /\ op'.found = op.found
           /\ op'.file = FollowingFile(op.kind, op.file)
           /\ FollowingFile(op.kind, op.file) # "done"
    BY <2>1 DEF Continue, Operation
  <2>p. (UNCHANGED <<result, error>>) =>
          PayloadFiles(op.job)' = PayloadFiles(op.job) \/ op' = NoOp
    BY <2>4 DEF PayloadFiles
  <2>5. CASE WriteDirectory
    <3>1. /\ op.file = "dir" /\ dir' = dir \cup {op.job}
          /\ UNCHANGED <<state, result, error>>
      BY <2>5 DEF WriteDirectory, Writes
    <3>2. FollowingFile(op.kind, op.file) = "request"
      BY <3>1 DEF FollowingFile
    <3> QED
      BY <2>1, <2>2, <2>3, <2>4, <2>p, <3>1, <3>2
         DEF OperationPrepared, TerminalStateHasPayload, RecordsHaveDirectories, StateAhead
  <2>6. CASE WriteRequest
    <3>1. op.file = "request" /\ UNCHANGED <<dir, state, result, error>>
      BY <2>6 DEF WriteRequest, Writes
    <3>2. FollowingFile(op.kind, op.file) = "sequence"
      BY <3>1 DEF FollowingFile
    <3> QED
      BY <2>1, <2>2, <2>3, <2>4, <2>p, <3>1, <3>2
         DEF OperationPrepared, TerminalStateHasPayload, RecordsHaveDirectories, StateAhead
  <2>7. CASE WriteSequence
    <3>1. op.file = "sequence" /\ UNCHANGED <<dir, state, result, error>>
      BY <2>7 DEF WriteSequence, Writes
    <3>2. FollowingFile(op.kind, op.file) = IF op.kind = "create" THEN "state" ELSE "done"
      BY <3>1 DEF FollowingFile
    <3>3. PayloadOf(PendingState.status) = {}
      BY DEF PendingState, PayloadOf
    <3> QED
      BY <2>1, <2>2, <2>3, <2>4, <2>p, <3>1, <3>2, <3>3
         DEF OperationPrepared, TerminalStateHasPayload, RecordsHaveDirectories, StateAhead
  <2>8. CASE WriteResult
    <3>1. /\ op.file = "result" /\ result' = result \cup {op.job}
          /\ UNCHANGED <<dir, state, error>>
      BY <2>8 DEF WriteResult, Writes
    <3>2. FollowingFile(op.kind, op.file) = "state"
      BY <3>1 DEF FollowingFile
    <3>3. PayloadFiles(op.job)' = PayloadFiles(op.job) \cup {"result"} \/ op' = NoOp
      BY <2>4, <3>1 DEF PayloadFiles
    <3>4. PayloadOf("completed") = {"result"}
      BY DEF PayloadOf
    <3> QED
      BY <2>1, <2>2, <2>3, <2>4, <3>1, <3>2, <3>3, <3>4
         DEF OperationPrepared, TerminalStateHasPayload, RecordsHaveDirectories, StateAhead
  <2>9. CASE WriteError
    <3>1. /\ op.file = "error" /\ UNCHANGED <<dir, state, result>>
          /\ \A j \in Jobs : error[j] # "none" => error'[j] # "none"
          /\ error'[op.job] # "none"
      BY <1>0, <2>2, <2>9 DEF WriteError, Writes, TypeOK
    <3>2. FollowingFile(op.kind, op.file) = "state"
      BY <3>1 DEF FollowingFile
    <3>3. PayloadFiles(op.job)' = PayloadFiles(op.job) \cup {"error"} \/ op' = NoOp
      BY <2>4, <3>1 DEF PayloadFiles
    <3>4. PayloadOf("failed") = {"error"}
      BY DEF PayloadOf
    <3> QED
      BY <2>1, <2>2, <2>3, <2>4, <3>1, <3>2, <3>3, <3>4
         DEF OperationPrepared, TerminalStateHasPayload, RecordsHaveDirectories, StateAhead
  <2>10. CASE WriteState
    <3>1. /\ op.file = "state" /\ UNCHANGED <<dir, result, error>>
          /\ state' = [state EXCEPT ![op.job] = op.target]
      BY <2>10 DEF WriteState, Writes
    <3>2. state'[op.job] = op.target /\ \A j \in Jobs : j # op.job => state'[j] = state[j]
      BY <1>0, <2>2, <3>1 DEF TypeOK
    <3>3. FollowingFile(op.kind, op.file) \in {"sequence", "index"}
             /\ (FollowingFile(op.kind, op.file) = "sequence" => op.kind # "create")
      BY <3>1 DEF FollowingFile
    <3>4. TerminalStateHasPayload'
      <4>1. PayloadFiles(op.job) = op.found \cup PayloadOf(op.target.status)
        BY <2>1, <2>3, <3>1 DEF OperationPrepared, StateAhead
      <4>2. /\ op.target.status = "completed" => op.job \in result
            /\ op.target.status = "failed" => error[op.job] # "none"
        BY <4>1 DEF PayloadFiles, PayloadOf
      <4> QED
        BY <2>3, <3>1, <3>2, <4>2 DEF TerminalStateHasPayload
    <3>5. op.job \in dir
      BY <2>1, <2>3, <3>1 DEF OperationPrepared, StateAhead
    <3>6. RecordsHaveDirectories'
      BY <2>3, <3>1, <3>2, <3>5 DEF RecordsHaveDirectories
    <3>7. OperationPrepared'
      BY <2>1, <2>2, <2>3, <2>4, <3>1, <3>2, <3>3 DEF OperationPrepared, StateAhead
    <3> QED
      BY <3>4, <3>6, <3>7
  <2>11. CASE update_index_entry \/ rebuild_index
    <3>1. op.file = "index" /\ UNCHANGED <<dir, state, result, error>>
      BY <2>11 DEF update_index_entry, rebuild_index, Writes
    <3>2. FollowingFile(op.kind, op.file) = "done"
      BY <3>1 DEF FollowingFile
    <3> QED
      BY <2>3, <2>4, <3>1, <3>2
         DEF OperationPrepared, TerminalStateHasPayload, RecordsHaveDirectories
  <2> QED
    BY <1>3, <2>5, <2>6, <2>7, <2>8, <2>9, <2>10, <2>11 DEF Write
<1>4. CASE Restart
  BY <1>4 DEF Restart, disk, StoreInvariant, TerminalStateHasPayload, OperationPrepared,
              RecordsHaveDirectories, StateAhead, PayloadFiles
<1>5. CASE WriteFails \/ Crash
  BY <1>5 DEF WriteFails, Crash, disk, StoreInvariant, TerminalStateHasPayload,
              OperationPrepared, RecordsHaveDirectories
<1>6. CASE UNCHANGED vars
  BY <1>6 DEF vars, StoreInvariant, TerminalStateHasPayload, OperationPrepared,
              RecordsHaveDirectories, StateAhead, PayloadFiles
<1> QED
  BY <1>1, <1>2, <1>3, <1>4, <1>5, <1>6 DEF Next

(* Disk and running operation belong together in every reachable state of  *)
(* the store, between any two file writes of any operation.                *)
THEOREM InvariantHolds == Spec => []StoreInvariant
BY InitInvariant, NextInvariant, PTL DEF Spec

(* A completed job has its result and a failed one its error on disk,      *)
(* whatever crash or failed write happened on the way.                     *)
THEOREM PayloadBeforeState == Spec => []TerminalStateHasPayload
BY InvariantHolds, PTL DEF StoreInvariant

-----------------------------------------------------------------------------
(* Refinement: the store implements JobLifecycle.                          *)
LEMMA InitRefines == Init => Lifecycle!LifecycleInit
BY DEF Init, Lifecycle!LifecycleInit, Lifecycle!NoState, NoState, VisiblePayload, PayloadFiles

(* A step that shows a reader the same records and payloads and is counted *)
(* as no failure.                                                          *)
LEMMA HiddenStep ==
  ASSUME UNCHANGED <<state, crashes, faults>>,
         \A j \in Jobs : VisiblePayload(j)' = VisiblePayload(j)
  PROVE  UNCHANGED Lifecycle!lifecycleVars
BY DEF Lifecycle!lifecycleVars

(* While an operation has not renamed state.json a reader has what the     *)
(* operation found, and afterwards what is there.                          *)
LEMMA Shown ==
  ASSUME StoreInvariant, NEW j \in Jobs
  PROVE  /\ op = NoOp => VisiblePayload(j) = PayloadFiles(j)
         /\ op # NoOp /\ op.job = j /\ StateAhead => VisiblePayload(j) = op.found
         /\ op # NoOp /\ ~ StateAhead => VisiblePayload(j) = PayloadFiles(j)
         /\ op # NoOp /\ op.job # j => VisiblePayload(j) = PayloadFiles(j)
BY DEF VisiblePayload

(* The payload files of a job when an operation of it is about to rename   *)
(* state.json, or has been interrupted before it.                          *)
LEMMA FilesFound ==
  ASSUME StoreInvariant, op # NoOp, StateAhead
  PROVE  PayloadFiles(op.job) =
           op.found \cup (IF op.file = "state" THEN PayloadOf(op.target.status) ELSE {})
BY DEF StoreInvariant, OperationPrepared

(* The rename of state.json is one step of the lifecycle: it shows the new *)
(* record and, with it, the payload that was written before.               *)
LEMMA WriteStateRefines ==
  ASSUME StoreInvariant, StoreInvariant', WriteState,
         NEW j \in Jobs, j = op.job, NEW new, new = op.target
  PROVE  Lifecycle!LifecycleNext \/ UNCHANGED Lifecycle!lifecycleVars
<1> DEFINE old == state[j]
           shown == [k \in Jobs |-> VisiblePayload(k)]
           failures == crashes + faults
<1>1. op # NoOp /\ op \in Operation /\ op.file = "state"
  BY DEF WriteState, Writes, StoreInvariant, TypeOK
<1>2. /\ state' = [state EXCEPT ![j] = new]
      /\ UNCHANGED <<result, error, crashes, faults>>
      /\ state \in [Jobs -> JobRecord \cup {NoState}]
      /\ failures \in Nat
  BY FailureBoundAssumption DEF WriteState, Continue, StoreInvariant, TypeOK
<1>3. MayFollow(old, new)
  BY <1>1 DEF StoreInvariant, OperationPrepared, StateAhead
<1>4. state'[j] = new
  BY <1>2
<1>5. op' = NoOp \/ (op'.job = j /\ op'.kind = op.kind /\ ~ StateAhead')
  <2>1. FollowingFile(op.kind, "state") = IF op.kind = "recover" THEN "sequence" ELSE "index"
    BY DEF FollowingFile
  <2>2. op' = [op EXCEPT !.file = FollowingFile(op.kind, "state")]
    BY <1>1, <2>1 DEF WriteState, Continue
  <2>3. op'.file = FollowingFile(op.kind, "state") /\ op'.kind = op.kind /\ op'.job = op.job
    BY <1>1, <2>2 DEF Operation
  <2> QED
    BY <2>1, <2>3 DEF StateAhead
<1>6. shown' = [shown EXCEPT ![j] = @ \cup PayloadOf(new.status)]
  <2>1. \A k \in Jobs : PayloadFiles(k)' = PayloadFiles(k)
    BY <1>2 DEF PayloadFiles
  <2>2. \A k \in Jobs : VisiblePayload(k)' = PayloadFiles(k)
    BY <1>5, <2>1 DEF VisiblePayload
  <2>3. \A k \in Jobs : k # j => VisiblePayload(k) = PayloadFiles(k)
    BY <1>1, Shown
  <2>4. VisiblePayload(j) = op.found
    BY <1>1, Shown DEF StateAhead
  <2>5. PayloadFiles(j) = op.found \cup PayloadOf(new.status)
    BY <1>1, FilesFound DEF StateAhead
  <2> QED
    BY <2>2, <2>3, <2>4, <2>5
<1>7. PayloadOf(new.status) = {} => shown' = shown
  BY <1>6
<1>8. \A p : PayloadOf(new.status) = {p} => Lifecycle!Deliver(j, p)
  BY <1>6 DEF Lifecycle!Deliver
<1>9. ASSUME \/ Lifecycle!Create(j) \/ Lifecycle!Advance(j) \/ Lifecycle!Complete(j)
             \/ Lifecycle!Fail(j) \/ Lifecycle!Cancel(j)
      PROVE  Lifecycle!LifecycleNext
  <2>1. failures <= failures'
    BY <1>2
  <2> QED
    BY <1>9, <2>1 DEF Lifecycle!LifecycleNext
<1> HIDE DEF shown, failures
<1>10. CASE old = NoState /\ new = PendingState
  <2>1. shown' = shown
    BY <1>7, <1>10 DEF PayloadOf, PendingState
  <2>2. Lifecycle!Create(j)
    BY <1>2, <1>10, <2>1 DEF Lifecycle!Create, Lifecycle!NoState, Lifecycle!PendingState,
                             NoState, PendingState, shown
  <2> QED
    BY <1>9, <2>2
<1>11. CASE is_active(old.status) /\ new = old
  <2>1. state' = state
    BY <1>2, <1>11
  <2>2. shown' = shown
    BY <1>7, <1>11 DEF PayloadOf, is_active
  <2> QED
    BY <1>2, <2>1, <2>2 DEF Lifecycle!lifecycleVars, shown
<1>12. CASE is_active(old.status) /\ new = Committed(old, "failed")
  <2>1. PayloadOf(new.status) = {"error"}
    BY <1>12 DEF Committed, PayloadOf
  <2>2. old \in JobRecord
    BY <1>2, <1>12 DEF NoState, is_active
  <2>3. new = [old EXCEPT !.status = "failed"]
    BY <1>12, <2>2 DEF Committed, JobRecord
  <2>4. Lifecycle!Fail(j)
    BY <1>2, <1>8, <1>12, <2>1, <2>3 DEF Lifecycle!Fail, Lifecycle!is_active, is_active
  <2> QED
    BY <1>9, <2>4
<1>13. CASE is_active(old.status) /\ new = Committed(old, "cancelled")
  <2>1. shown' = shown
    BY <1>7, <1>13 DEF Committed, PayloadOf
  <2>2. old \in JobRecord
    BY <1>2, <1>13 DEF NoState, is_active
  <2>3. new = [old EXCEPT !.status = "cancelled"]
    BY <1>13, <2>2 DEF Committed, JobRecord
  <2>4. Lifecycle!Cancel(j)
    BY <1>2, <1>13, <2>1, <2>3 DEF Lifecycle!Cancel, Lifecycle!is_active, is_active, shown
  <2> QED
    BY <1>9, <2>4
<1>14. CASE /\ is_active(old.status)
            /\ new \in JobRecord /\ new.status = "running"
            /\ old.stage <= new.stage /\ old.progress <= new.progress
  <2>1. shown' = shown
    BY <1>7, <1>14 DEF PayloadOf
  <2>2. old \in JobRecord
    BY <1>2, <1>14 DEF NoState, is_active
  <2>3. new.stage \in old.stage..MaxStage /\ new.progress \in old.progress..MaxProgress
    BY <1>14, <2>2, StageAssumption, ProgressAssumption DEF JobRecord
  <2>4. new = [status |-> "running", stage |-> new.stage, progress |-> new.progress]
    BY <1>14 DEF JobRecord
  <2>5. Lifecycle!Advance(j)
    BY <1>2, <1>14, <2>1, <2>3, <2>4
       DEF Lifecycle!Advance, Lifecycle!is_active, is_active, shown
  <2> QED
    BY <1>9, <2>5
<1>15. CASE old.status = "running" /\ new = Committed(old, "completed")
  <2>1. PayloadOf(new.status) = {"result"}
    BY <1>15 DEF Committed, PayloadOf
  <2>2. new = [status |-> "completed", stage |-> old.stage, progress |-> MaxProgress]
    BY <1>15 DEF Committed
  <2>3. Lifecycle!Complete(j)
    BY <1>2, <1>8, <1>15, <2>1, <2>2 DEF Lifecycle!Complete
  <2> QED
    BY <1>9, <2>3
<1> QED
  BY <1>3, <1>10, <1>11, <1>12, <1>13, <1>14, <1>15 DEF MayFollow

(* An operation stops before it is done.  It may have written the payload  *)
(* of an end and not the end: the job stays active and keeps the payload.  *)
LEMMA InterruptionRefines ==
  ASSUME StoreInvariant, WriteFails \/ Crash
  PROVE  Lifecycle!LifecycleNext
<1> DEFINE shown == [k \in Jobs |-> VisiblePayload(k)]
           failures == crashes + faults
<1>1. /\ op' = NoOp /\ UNCHANGED <<state, result, error>>
      /\ failures < failures' /\ failures <= failures'
  BY FailureBoundAssumption DEF WriteFails, Crash, disk, StoreInvariant, TypeOK
<1>2. \A k \in Jobs : VisiblePayload(k)' = PayloadFiles(k)
  BY <1>1 DEF VisiblePayload, PayloadFiles
<1>3. CASE \A k \in Jobs : VisiblePayload(k) = PayloadFiles(k)
  <2>1. shown' = shown
    BY <1>2, <1>3
  <2>2. Lifecycle!FailUnseen
    BY <1>1, <2>1 DEF Lifecycle!FailUnseen
  <2> QED
    BY <1>1, <2>2 DEF Lifecycle!LifecycleNext
<1>4. ASSUME NEW j \in Jobs, VisiblePayload(j) # PayloadFiles(j)
      PROVE  Lifecycle!LifecycleNext
  <2>1. op # NoOp /\ op.job = j /\ StateAhead
    BY <1>4, Shown
  <2>2. /\ VisiblePayload(j) = op.found
        /\ \A k \in Jobs : k # j => VisiblePayload(k) = PayloadFiles(k)
    BY <2>1, Shown
  <2>3. /\ op.file = "state"
        /\ PayloadFiles(j) = op.found \cup PayloadOf(op.target.status)
        /\ PayloadOf(op.target.status) # {}
    BY <1>4, <2>1, <2>2, FilesFound
  <2>4. PICK p \in {"result", "error"} :
          PayloadOf(op.target.status) = {p} /\ op.target.status \in {"completed", "failed"}
    BY <2>3 DEF PayloadOf
  <2>5. MayFollow(state[j], op.target)
    BY <2>1 DEF StoreInvariant, OperationPrepared
  <2>6. is_active(state[j].status)
    BY <2>4, <2>5 DEF MayFollow, is_active, PendingState
  <2>7. shown' = [shown EXCEPT ![j] = @ \cup {p}]
    BY <1>2, <2>2, <2>3, <2>4
  <2>8. Lifecycle!LeaveBehind(j)
    BY <1>1, <2>6, <2>7 DEF Lifecycle!LeaveBehind, Lifecycle!Deliver, Lifecycle!is_active,
                            is_active
  <2> QED
    BY <1>1, <2>8 DEF Lifecycle!LifecycleNext
<1> QED
  BY <1>3, <1>4

(* Files other than state.json show a reader nothing: he waits for the     *)
(* mutex until the payload and the state that announces it are written.    *)
LEMMA PayloadWriteHidden ==
  ASSUME StoreInvariant, WriteResult \/ WriteError
  PROVE  UNCHANGED Lifecycle!lifecycleVars
<1>1. /\ op # NoOp /\ op \in Operation /\ op.file \in {"result", "error"}
      /\ UNCHANGED <<state, crashes, faults>>
  BY DEF WriteResult, WriteError, Writes, Continue, StoreInvariant, TypeOK
<1>2. op' = [op EXCEPT !.file = "state"]
  BY <1>1 DEF WriteResult, WriteError, Continue, FollowingFile
<1>3. /\ op' # NoOp /\ op'.job = op.job /\ op'.found = op.found
      /\ StateAhead /\ StateAhead'
  <2>1. op'.file = "state" /\ op'.job = op.job /\ op'.found = op.found /\ op'.kind = op.kind
    BY <1>1, <1>2 DEF Operation
  <2>2. op'.kind # "none"
    BY <1>1, <2>1 DEF Operation, Kinds
  <2> QED
    BY <1>1, <2>1, <2>2 DEF StateAhead, NoOp
<1>4. \A k \in Jobs : k # op.job => PayloadFiles(k)' = PayloadFiles(k)
  BY DEF WriteResult, WriteError, PayloadFiles, StoreInvariant, TypeOK
<1>5. ASSUME NEW k \in Jobs
      PROVE  VisiblePayload(k)' = VisiblePayload(k)
  BY <1>1, <1>3, <1>4 DEF VisiblePayload
<1> QED
  BY <1>1, <1>5, HiddenStep

(* Taking the mutex shows a reader nothing: what the operation finds is    *)
(* what he had.                                                            *)
LEMMA BeginHidden ==
  ASSUME NEW kind, NEW i, NEW file, NEW target, NEW n, Begin(kind, i, file, target, n)
  PROVE  UNCHANGED Lifecycle!lifecycleVars
<1>1. /\ op = NoOp /\ op'.job = i /\ op'.found = PayloadFiles(i)
      /\ UNCHANGED <<state, result, error, crashes, faults>>
  BY DEF Begin, disk
<1>2. \A k : PayloadFiles(k)' = PayloadFiles(k)
  BY <1>1 DEF PayloadFiles
<1>3. \A k \in Jobs : VisiblePayload(k)' = VisiblePayload(k)
  BY <1>1, <1>2 DEF VisiblePayload
<1> QED
  BY <1>1, <1>3, HiddenStep

(* No other write, and no other step of a restart, shows a reader anything.*)
LEMMA OtherStepsHidden ==
  ASSUME StoreInvariant, [Next]_vars, ~WriteState, ~WriteFails, ~Crash
  PROVE  UNCHANGED Lifecycle!lifecycleVars
<1>1. CASE WriteResult \/ WriteError
  BY <1>1, PayloadWriteHidden
<1>2. ASSUME NEW kind, NEW i, NEW file, NEW target, NEW n, Begin(kind, i, file, target, n)
      PROVE  UNCHANGED Lifecycle!lifecycleVars
  BY <1>2, BeginHidden
<1>3. ASSUME UNCHANGED <<state, result, error, crashes, faults>>,
             \/ op' = op
             \/ op # NoOp /\ op' = NoOp /\ ~ StateAhead
             \/ /\ op # NoOp /\ op' # NoOp /\ op'.job = op.job /\ op'.found = op.found
                /\ StateAhead' = StateAhead
      PROVE  UNCHANGED Lifecycle!lifecycleVars
  <2>1. \A k \in Jobs : PayloadFiles(k)' = PayloadFiles(k)
    BY <1>3 DEF PayloadFiles
  <2>2. \A k \in Jobs : VisiblePayload(k)' = VisiblePayload(k)
    BY <1>3, <2>1 DEF VisiblePayload, StateAhead
  <2> QED
    BY <1>3, <2>2, HiddenStep
<1>4. CASE \/ WriteDirectory \/ WriteRequest \/ WriteSequence
           \/ update_index_entry \/ rebuild_index
  <2>1. /\ op # NoOp /\ op \in Operation /\ Continue
        /\ op.file \in {"dir", "request", "sequence", "index"}
        /\ UNCHANGED <<state, result, error, crashes, faults>>
    BY <1>4 DEF WriteDirectory, WriteRequest, WriteSequence, update_index_entry,
                rebuild_index, Writes, Continue, StoreInvariant, TypeOK
  <2>2. CASE FollowingFile(op.kind, op.file) = "done"
    <3>1. op' = NoOp /\ ~ StateAhead
      BY <2>1, <2>2 DEF Continue, FollowingFile, StateAhead
    <3> QED
      BY <1>3, <2>1, <3>1
  <2>3. CASE FollowingFile(op.kind, op.file) # "done"
    <3>1. op' = [op EXCEPT !.file = FollowingFile(op.kind, op.file)]
      BY <2>1, <2>3 DEF Continue
    <3>2. /\ op'.job = op.job /\ op'.found = op.found /\ op'.kind = op.kind
          /\ op'.file = FollowingFile(op.kind, op.file)
      BY <2>1, <3>1 DEF Operation
    <3>3. op' # NoOp
      BY <2>1, <3>2 DEF Operation, Kinds, NoOp
    <3>4. (op.kind = "create" /\ op.file = "sequence") \/ op.file \in {"dir", "request"}
      BY <2>1, <2>3 DEF FollowingFile
    <3>5. op.file \in {"dir", "request"} => op.kind = "create"
      BY <2>1 DEF StoreInvariant, OperationPrepared
    <3>6. StateAhead /\ StateAhead'
      BY <3>2, <3>4, <3>5 DEF StateAhead, FollowingFile
    <3> QED
      BY <1>3, <2>1, <3>2, <3>3, <3>6
  <2> QED
    BY <2>2, <2>3
<1>5. CASE Restart \/ (\E j \in Jobs : KeepJob(j)) \/ UNCHANGED vars
  <2>1. UNCHANGED <<state, result, error, crashes, faults>>
    BY <1>5 DEF Restart, KeepJob, disk, vars
  <2>2. op' = op
    BY <1>5 DEF Restart, KeepJob, vars
  <2> QED
    BY <1>3, <2>1, <2>2
<1>6. CASE FinishRecovery \/ (\E j \in Jobs : RecoverJob(j) \/ Operate(j))
  BY <1>2, <1>6 DEF FinishRecovery, RecoverJob, Operate, create_job, mark_running,
                    update_progress, save_result, save_error, cancel_job,
                    record_event_sequence, Call
<1> QED
  BY <1>1, <1>4, <1>5, <1>6 DEF Next, Write, Recover

(* The file store implements the atomic lifecycle: readers see a job       *)
(* created once, moving forward and ending once, with the payload of its   *)
(* end, and a payload that is not that of its end only where a crash or a  *)
(* failed write has left it, for any number of jobs, crashes and failures. *)
THEOREM Refinement == Spec => ImplementsLifecycle
<1>1. Init => Lifecycle!LifecycleInit
  BY InitRefines
<1>2. StoreInvariant /\ StoreInvariant' /\ [Next]_vars
        => [Lifecycle!LifecycleNext]_(Lifecycle!lifecycleVars)
  <2> SUFFICES ASSUME StoreInvariant, StoreInvariant', [Next]_vars
               PROVE  Lifecycle!LifecycleNext \/ UNCHANGED Lifecycle!lifecycleVars
    OBVIOUS
  <2>1. CASE WriteState
    <3>1. op.job \in Jobs
      BY <2>1 DEF WriteState, Writes, StoreInvariant, TypeOK, Operation
    <3> QED
      BY <2>1, <3>1, WriteStateRefines
  <2>2. CASE WriteFails \/ Crash
    BY <2>2, InterruptionRefines
  <2>3. CASE ~WriteState /\ ~WriteFails /\ ~Crash
    BY <2>3, OtherStepsHidden
  <2> QED
    BY <2>1, <2>2, <2>3
<1> QED
  BY <1>1, <1>2, InvariantHolds, PTL DEF Spec, ImplementsLifecycle, Lifecycle!LifecycleSpec

(* What get_job returns: an end comes with its payload, whatever happened; *)
(* until the first crash or failed write a completed job has its result    *)
(* and no error, a failed one its error and no result, and no other job    *)
(* has either.  After one a reader may find both (recover_interrupted      *)
(* leaves the result.json of a job it fails in place).                     *)
THEOREM PayloadKept == Spec => []Lifecycle!PayloadAsPromised
<1>0. \A status : Lifecycle!PayloadOf(status) = PayloadOf(status)
  BY DEF Lifecycle!PayloadOf, PayloadOf
<1>1. Lifecycle!LifecycleInit => Lifecycle!PayloadAsPromised
  <2>1. PayloadOf(Lifecycle!NoState.status) = {}
    BY DEF PayloadOf, Lifecycle!NoState
  <2> QED
    BY <1>0, <2>1 DEF Lifecycle!LifecycleInit, Lifecycle!PayloadAsPromised
<1>2. ASSUME Lifecycle!PayloadAsPromised, StoreInvariant, StoreInvariant',
             [Lifecycle!LifecycleNext]_(Lifecycle!lifecycleVars)
      PROVE  Lifecycle!PayloadAsPromised'
  <2> DEFINE shown == [k \in Jobs |-> VisiblePayload(k)]
             failures == crashes + faults
  <2>0. TypeOK /\ TypeOK'
    BY <1>2 DEF StoreInvariant
  <2>1. failures \in Nat /\ failures' \in Nat /\ state \in [Jobs -> JobRecord \cup {NoState}]
    <3>1. crashes \in Nat /\ faults \in Nat
      BY <2>0, FailureBoundAssumption DEF TypeOK
    <3>2. crashes' \in Nat /\ faults' \in Nat
      BY <2>0, FailureBoundAssumption DEF TypeOK
    <3>3. \A a, b \in Nat : a + b \in Nat
      OBVIOUS
    <3>4. failures \in Nat
      BY <3>1, <3>3, Zenon
    <3>5. failures' \in Nat
      BY <3>2, <3>3, Zenon
    <3>6. state \in [Jobs -> JobRecord \cup {NoState}]
      BY <2>0 DEF TypeOK
    <3> QED
      BY <3>4, <3>5, <3>6
  <2>2. \A j \in Jobs :
          /\ PayloadOf(state[j].status) \subseteq shown[j]
          /\ failures = 0 => shown[j] = PayloadOf(state[j].status)
    BY <1>0, <1>2 DEF Lifecycle!PayloadAsPromised
  <2>3. SUFFICES ASSUME NEW j \in Jobs
                 PROVE  /\ PayloadOf(state'[j].status) \subseteq shown'[j]
                        /\ failures' = 0 => shown'[j] = PayloadOf(state'[j].status)
    BY <1>0, <2>3 DEF Lifecycle!PayloadAsPromised
  <2> HIDE DEF shown, failures
  <2>4. CASE UNCHANGED Lifecycle!lifecycleVars
    <3>1. UNCHANGED <<state, shown, failures>>
      BY <2>4 DEF Lifecycle!lifecycleVars, shown, failures
    <3> QED
      BY <2>2, <3>1
  <2>5. CASE Lifecycle!FailUnseen
    <3>1. UNCHANGED <<state, shown>> /\ failures < failures'
      BY <2>5 DEF Lifecycle!FailUnseen, shown, failures
    <3> QED
      BY <2>1, <2>2, <3>1
  <2>6. ASSUME NEW i \in Jobs, failures <= failures',
               \/ Lifecycle!Create(i) \/ Lifecycle!Advance(i) \/ Lifecycle!Cancel(i)
               \/ Lifecycle!Complete(i) \/ Lifecycle!Fail(i)
        PROVE  /\ PayloadOf(state'[j].status) \subseteq shown'[j]
               /\ failures' = 0 => shown'[j] = PayloadOf(state'[j].status)
    <3>1. PICK p : /\ p \in SUBSET {"result", "error"}
                   /\ shown' = [shown EXCEPT ![i] = @ \cup p]
                   /\ PayloadOf(state'[i].status) = p
                   /\ PayloadOf(state[i].status) = {}
                   /\ \A k \in Jobs : k # i => state'[k] = state[k]
      <4>1. CASE Lifecycle!Create(i) \/ Lifecycle!Advance(i) \/ Lifecycle!Cancel(i)
        <5>1. /\ shown' = shown
              /\ \A k \in Jobs : k # i => state'[k] = state[k]
          BY <2>1, <4>1 DEF Lifecycle!Create, Lifecycle!Advance, Lifecycle!Cancel, shown
        <5>2. /\ state[i].status \notin {"completed", "failed"}
              /\ state'[i].status \notin {"completed", "failed"}
          BY <2>1, <4>1 DEF Lifecycle!Create, Lifecycle!Advance, Lifecycle!Cancel,
             Lifecycle!is_active, Lifecycle!NoState, Lifecycle!PendingState, JobRecord, NoState
        <5>3. shown = [shown EXCEPT ![i] = @ \cup {}]
          BY DEF shown
        <5>4. PayloadOf(state[i].status) = {} /\ PayloadOf(state'[i].status) = {}
          BY <5>2 DEF PayloadOf
        <5> QED
          BY <5>1, <5>3, <5>4
      <4>2. CASE Lifecycle!Complete(i)
        <5>1. /\ shown' = [shown EXCEPT ![i] = @ \cup {"result"}]
              /\ state'[i].status = "completed" /\ state[i].status = "running"
              /\ \A k \in Jobs : k # i => state'[k] = state[k]
          BY <2>1, <4>2 DEF Lifecycle!Complete, Lifecycle!Deliver, shown
        <5> QED
          BY <5>1 DEF PayloadOf
      <4>3. CASE Lifecycle!Fail(i)
        <5>1. /\ shown' = [shown EXCEPT ![i] = @ \cup {"error"}]
              /\ is_active(state[i].status)
              /\ state' = [state EXCEPT ![i].status = "failed"]
          BY <4>3 DEF Lifecycle!Fail, Lifecycle!Deliver, Lifecycle!is_active, is_active, shown
        <5>2. state'[i].status = "failed" /\ \A k \in Jobs : k # i => state'[k] = state[k]
          BY <2>1, <5>1 DEF JobRecord, NoState
        <5> QED
          BY <5>1, <5>2 DEF PayloadOf, is_active
      <4> QED
        BY <2>6, <4>1, <4>2, <4>3
    <3>2. failures' = 0 => failures = 0
      BY <2>1, <2>6
    <3>3. shown \in [Jobs -> SUBSET {"result", "error"}]
      BY <1>2 DEF shown, VisiblePayload, PayloadFiles, StoreInvariant, TypeOK, Operation
    <3>4. CASE j = i
      <4>1. shown'[i] = shown[i] \cup p
        BY <3>1, <3>3
      <4>2. failures' = 0 => shown[i] = {}
        BY <2>2, <3>1, <3>2
      <4>3. p \subseteq shown'[i] /\ (failures' = 0 => shown'[i] = p)
        BY <4>1, <4>2
      <4> QED
        BY <3>1, <3>4, <4>3
    <3>5. CASE j # i
      <4>1. shown'[j] = shown[j]
        BY <3>1, <3>3, <3>5
      <4> QED
        BY <2>2, <3>1, <3>2, <3>5, <4>1
    <3> QED
      BY <3>4, <3>5
  <2>7. ASSUME NEW i \in Jobs, Lifecycle!LeaveBehind(i)
        PROVE  /\ PayloadOf(state'[j].status) \subseteq shown'[j]
               /\ failures' = 0 => shown'[j] = PayloadOf(state'[j].status)
    <3>1. PICK p : shown' = [shown EXCEPT ![i] = @ \cup {p}]
      BY <2>7 DEF Lifecycle!LeaveBehind, Lifecycle!Deliver, shown
    <3>2. state' = state /\ failures' # 0
      BY <2>1, <2>7 DEF Lifecycle!LeaveBehind, failures
    <3>3. shown[j] \subseteq shown'[j]
      BY <3>1 DEF shown
    <3> QED
      BY <2>2, <3>2, <3>3
  <2>8. Lifecycle!LifecycleNext => failures <= failures'
    BY DEF Lifecycle!LifecycleNext, failures
  <2> QED
    BY <1>2, <2>4, <2>5, <2>6, <2>7, <2>8 DEF Lifecycle!LifecycleNext
<1> QED
  BY <1>1, <1>2, Refinement, InvariantHolds, PTL
     DEF ImplementsLifecycle, Lifecycle!LifecycleSpec

-----------------------------------------------------------------------------
(* The operation that holds the mutex is a part of recover_interrupted. *)
Recovers == op # NoOp /\ op.kind \in {"recover", "rebuild"}

(* An interrupted job whose failure is not written yet. *)
BeingFailed(j) ==
  op # NoOp /\ op.kind = "recover" /\ op.file \in {"error", "state"} /\ op.job = j

(* recover_interrupted runs alone; what it has not looked at yet is to do, *)
(* and the rebuild comes when nothing is.                                  *)
RecoveryAlone ==
  /\ Recovers => mode = "recovering"
  /\ mode = "recovering" /\ op # NoOp => Recovers
  /\ mode = "down" => op = NoOp
  /\ (op # NoOp /\ op.kind = "recover") =>
       op.file \in {"error", "state", "sequence"} /\ ~ is_active(op.target.status)
  /\ (op # NoOp /\ op.kind = "rebuild") => op.file = "index" /\ todo = {}
  /\ mode = "recovering" =>
       \A j \in Jobs : is_active(state[j].status) => j \in todo \/ BeingFailed(j)

(* The entry of the index that is behind is the one to be written. *)
IndexFollows ==
  /\ (op # NoOp /\ op.kind # "rebuild" /\ op.file = "index") => op.target = state[op.job]
  /\ faults = 0 /\ mode = "up" =>
       \A j \in Jobs : \/ index[j] = state[j].status
                       \/ op # NoOp /\ op.file = "index" /\ op.job = j

RecoveryInvariant == RecoveryAlone /\ IndexFollows

(* An operation of the server leaves recovery and index alone. *)
LEMMA CallRecovery ==
  ASSUME RecoveryInvariant, NEW kind \in Kinds \ {"recover", "rebuild"}, NEW j \in Jobs,
         NEW file \in Files \ {"index"}, NEW target, NEW n, Call(kind, j, file, target, n)
  PROVE  RecoveryInvariant'
<1>1. /\ mode = "up" /\ op = NoOp /\ UNCHANGED <<state, index, mode, todo, faults>>
      /\ op' = [kind |-> kind, job |-> j, file |-> file, target |-> target,
                revision |-> n, found |-> PayloadFiles(j)]
  BY DEF Call, Begin, disk
<1>2. op' # NoOp /\ op'.kind = kind /\ op'.file = file
  BY <1>1 DEF NoOp
<1>3. \A i \in Jobs : faults = 0 => index[i] = state[i].status
  BY <1>1 DEF RecoveryInvariant, IndexFollows
<1>4. RecoveryAlone'
  BY <1>1, <1>2 DEF RecoveryAlone, Recovers
<1>5. IndexFollows'
  BY <1>1, <1>2, <1>3 DEF IndexFollows
<1> QED
  BY <1>4, <1>5 DEF RecoveryInvariant

(* One write after another. *)
LEMMA ContinueFacts ==
  ASSUME TypeOK, op # NoOp, Continue
  PROVE  /\ UNCHANGED <<todo, faults>>
         /\ op' = NoOp <=> FollowingFile(op.kind, op.file) = "done"
         /\ op' # NoOp =>
              /\ op'.file = FollowingFile(op.kind, op.file)
              /\ op'.kind = op.kind /\ op'.job = op.job /\ op'.target = op.target
<1>1. op \in Operation
  BY DEF TypeOK
<1>2. UNCHANGED <<todo, faults>>
  BY DEF Continue
<1> DEFINE file == FollowingFile(op.kind, op.file)
<1>3. CASE file = "done"
  BY <1>2, <1>3 DEF Continue
<1>4. CASE file # "done"
  <2>1. op' = [op EXCEPT !.file = file]
    BY <1>4 DEF Continue
  <2>2. op' # NoOp
    <3>1. DOMAIN op' = DOMAIN op /\ "file" \in DOMAIN op /\ "file" \notin DOMAIN NoOp
      BY <1>1, <2>1 DEF Operation, NoOp
    <3> QED
      BY <3>1
  <2> QED
    BY <1>1, <1>2, <1>4, <2>1, <2>2 DEF Operation
<1> QED
  BY <1>3, <1>4

(* A write of a file that is neither state.json nor the index. *)
LEMMA OtherWriteRecovery ==
  ASSUME TypeOK, RecoveryInvariant, op # NoOp, op.file \in Files \ {"state", "index"}, Continue,
         UNCHANGED <<state, index, mode>>
  PROVE  RecoveryInvariant'
<1>1. /\ UNCHANGED <<todo, faults>>
      /\ op' = NoOp <=> FollowingFile(op.kind, op.file) = "done"
      /\ op' # NoOp =>
              /\ op'.file = FollowingFile(op.kind, op.file)
              /\ op'.kind = op.kind /\ op'.job = op.job /\ op'.target = op.target
  BY ContinueFacts
<1>2. op.file \in {"dir", "request", "sequence", "result", "error"}
  BY DEF Files
<1>3. /\ FollowingFile(op.kind, op.file) \in {"request", "sequence", "state", "done"}
      /\ op.file = "error" => FollowingFile(op.kind, op.file) = "state"
      /\ op.file = "sequence" /\ op.kind = "recover" => FollowingFile(op.kind, op.file) = "done"
  BY <1>2 DEF FollowingFile
<1>4. /\ op.kind # "rebuild"
      /\ op.kind = "recover" => op.file \in {"error", "sequence"} /\ ~ is_active(op.target.status)
      /\ op.kind = "recover" <=> mode = "recovering"
      /\ mode # "down"
  BY <1>2 DEF RecoveryInvariant, RecoveryAlone, Recovers
<1>5. ASSUME NEW j \in Jobs, mode = "recovering", is_active(state[j].status)
      PROVE  j \in todo \/ BeingFailed(j)'
  <2>1. CASE j \in todo
    BY <2>1
  <2>2. CASE BeingFailed(j)
    <3>1. op.file = "error" /\ op.job = j /\ op.kind = "recover"
      BY <1>2, <2>2 DEF BeingFailed
    <3>2. op' # NoOp /\ op'.file = "state" /\ op'.kind = "recover" /\ op'.job = j
      BY <1>1, <1>3, <3>1
    <3> QED
      BY <3>2 DEF BeingFailed
  <2> QED
    BY <1>5, <2>1, <2>2 DEF RecoveryInvariant, RecoveryAlone
<1>6. RecoveryAlone'
  <2>1. Recovers' => mode' = "recovering"
    BY <1>1, <1>4 DEF Recovers
  <2>2. mode' = "recovering" /\ op' # NoOp => Recovers'
    BY <1>1, <1>4 DEF Recovers
  <2>3. mode' # "down"
    BY <1>4
  <2>4. (op' # NoOp /\ op'.kind = "recover") =>
          op'.file \in {"error", "state", "sequence"} /\ ~ is_active(op'.target.status)
    BY <1>1, <1>3, <1>4
  <2>5. op' # NoOp => op'.kind # "rebuild"
    BY <1>1, <1>4
  <2> QED
    BY <1>1, <1>5, <2>1, <2>2, <2>3, <2>4, <2>5 DEF RecoveryAlone
<1>7. IndexFollows'
  BY <1>1, <1>2, <1>3 DEF RecoveryInvariant, IndexFollows
<1> QED
  BY <1>6, <1>7 DEF RecoveryInvariant

(* The write of state.json. *)
LEMMA StateWriteRecovery ==
  ASSUME TypeOK, RecoveryInvariant, WriteState
  PROVE  RecoveryInvariant'
<1>1. /\ op # NoOp /\ op.file = "state" /\ Continue /\ UNCHANGED <<index, mode>>
      /\ state' = [state EXCEPT ![op.job] = op.target]
  BY DEF WriteState, Writes
<1>2. /\ UNCHANGED <<todo, faults>>
      /\ op' = NoOp <=> FollowingFile(op.kind, op.file) = "done"
      /\ op' # NoOp =>
              /\ op'.file = FollowingFile(op.kind, op.file)
              /\ op'.kind = op.kind /\ op'.job = op.job /\ op'.target = op.target
  BY <1>1, ContinueFacts
<1>3. op.job \in Jobs
  BY <1>1 DEF TypeOK, Operation
<1>4. /\ state'[op.job] = op.target /\ \A j \in Jobs \ {op.job} : state'[j] = state[j]
  BY <1>1, <1>3 DEF TypeOK
<1>5. /\ op.kind # "rebuild" /\ mode # "down"
      /\ op.kind = "recover" => ~ is_active(op.target.status)
      /\ op.kind = "recover" <=> mode = "recovering"
  BY <1>1 DEF RecoveryInvariant, RecoveryAlone, Recovers
<1>6. /\ op' # NoOp /\ op'.file = IF op.kind = "recover" THEN "sequence" ELSE "index"
      /\ op'.kind = op.kind /\ op'.job = op.job /\ op'.target = op.target
  <2>1. FollowingFile(op.kind, op.file) = IF op.kind = "recover" THEN "sequence" ELSE "index"
    BY <1>1 DEF FollowingFile
  <2> QED
    BY <1>2, <2>1
<1>7. ASSUME NEW j \in Jobs, mode = "recovering", is_active(state'[j].status)
      PROVE  j \in todo
  <2>1. j # op.job /\ state'[j] = state[j]
    BY <1>4, <1>5, <1>7
  <2> QED
    BY <1>7, <2>1 DEF RecoveryInvariant, RecoveryAlone, BeingFailed
<1>8. RecoveryAlone'
  BY <1>1, <1>2, <1>5, <1>6, <1>7 DEF RecoveryAlone, Recovers
<1>9. IndexFollows'
  <2>1. (op' # NoOp /\ op'.kind # "rebuild" /\ op'.file = "index") => op'.target = state'[op'.job]
    BY <1>4, <1>6
  <2>2. ASSUME faults = 0, mode = "up", NEW j \in Jobs
        PROVE  index[j] = state'[j].status \/ (op' # NoOp /\ op'.file = "index" /\ op'.job = j)
    <3>1. CASE j = op.job
      BY <1>5, <1>6, <2>2, <3>1
    <3>2. CASE j # op.job
      BY <1>1, <1>4, <2>2, <3>2 DEF RecoveryInvariant, IndexFollows
    <3> QED
      BY <3>1, <3>2
  <2> QED
    BY <1>1, <1>2, <2>1, <2>2 DEF IndexFollows
<1> QED
  BY <1>8, <1>9 DEF RecoveryInvariant

(* The entry of one job. *)
LEMMA IndexEntryRecovery ==
  ASSUME TypeOK, RecoveryInvariant, update_index_entry
  PROVE  RecoveryInvariant'
<1>1. /\ op # NoOp /\ op.file = "index" /\ op.kind # "rebuild" /\ Continue /\ UNCHANGED <<state, mode>>
      /\ index' = [index EXCEPT ![op.job] = op.target.status]
  BY DEF update_index_entry, Writes
<1>2. op' = NoOp /\ UNCHANGED <<todo, faults>>
  BY <1>1, ContinueFacts DEF FollowingFile
<1>3. op.job \in Jobs /\ op.target = state[op.job]
  BY <1>1 DEF TypeOK, Operation, RecoveryInvariant, IndexFollows
<1>4. mode = "up"
  BY <1>1 DEF RecoveryInvariant, RecoveryAlone, Recovers, TypeOK
<1>5. RecoveryAlone'
  BY <1>1, <1>2, <1>4 DEF RecoveryAlone, Recovers
<1>6. ASSUME faults = 0, NEW j \in Jobs PROVE index'[j] = state[j].status
  <2>1. CASE j = op.job
    BY <1>1, <1>3, <2>1 DEF TypeOK
  <2>2. CASE j # op.job
    <3>1. index'[j] = index[j]
      BY <1>1, <1>3, <2>2 DEF TypeOK
    <3> QED
      BY <1>4, <1>6, <2>2, <3>1 DEF RecoveryInvariant, IndexFollows
  <2> QED
    BY <2>1, <2>2
<1>7. IndexFollows'
  BY <1>1, <1>2, <1>6 DEF IndexFollows
<1> QED
  BY <1>5, <1>7 DEF RecoveryInvariant

(* The last step of recover_interrupted: no job is active, and the index   *)
(* lists the records.                                                      *)
LEMMA RebuildRecovery ==
  ASSUME TypeOK, RecoveryInvariant, rebuild_index
  PROVE  /\ RecoveryInvariant' /\ IndexAgrees'
         /\ \A j \in Jobs : ~ is_active(state'[j].status)
<1>1. /\ op # NoOp /\ op.file = "index" /\ op.kind = "rebuild" /\ Continue /\ UNCHANGED state
      /\ index' = [j \in Jobs |-> state[j].status] /\ mode' = "up"
  BY DEF rebuild_index, Writes
<1>2. op' = NoOp /\ UNCHANGED <<todo, faults>>
  BY <1>1, ContinueFacts DEF FollowingFile
<1>3. mode = "recovering" /\ todo = {}
  BY <1>1 DEF RecoveryInvariant, RecoveryAlone, Recovers
<1>4. \A j \in Jobs : ~ is_active(state[j].status)
  BY <1>1, <1>3 DEF RecoveryInvariant, RecoveryAlone, BeingFailed
<1>5. RecoveryAlone'
  BY <1>1, <1>2 DEF RecoveryAlone, Recovers
<1>6. IndexFollows' /\ IndexAgrees'
  BY <1>1, <1>2 DEF IndexFollows, IndexAgrees
<1> QED
  BY <1>1, <1>4, <1>5, <1>6 DEF RecoveryInvariant

(* Only the rebuild hands over to the server. *)
LEMMA NextRecovery ==
  ASSUME StoreInvariant, RecoveryInvariant, [Next]_vars
  PROVE  /\ RecoveryInvariant'
         /\ (mode = "recovering" /\ mode' = "up") =>
              IndexAgrees' /\ \A j \in Jobs : ~ is_active(state'[j].status)
<1>1. TypeOK
  BY DEF StoreInvariant
<1>2. CASE rebuild_index
  BY <1>1, <1>2, RebuildRecovery
<1> DEFINE Goal == RecoveryInvariant' /\ ~ (mode = "recovering" /\ mode' = "up")
<1>3. ASSUME NEW j \in Jobs, Operate(j) PROVE Goal
  <2>1. \E kind \in Kinds \ {"recover", "rebuild"}, file \in Files \ {"index"} :
          \E target, n : Call(kind, j, file, target, n)
    BY <1>3 DEF Operate, create_job, mark_running, update_progress, save_result, save_error, cancel_job,
                record_event_sequence, Kinds, Files
  <2>2. mode = "up"
    BY <2>1 DEF Call
  <2> QED
    BY <2>1, <2>2, CallRecovery
<1>4. CASE WriteDirectory \/ WriteRequest \/ WriteSequence \/ WriteResult \/ WriteError
  <2>1. /\ op # NoOp /\ op.file \in Files \ {"state", "index"} /\ Continue
        /\ UNCHANGED <<state, index, mode>>
    BY <1>4 DEF WriteDirectory, WriteRequest, WriteSequence, WriteResult, WriteError, Writes, Files
  <2> QED
    BY <1>1, <2>1, OtherWriteRecovery
<1>5. CASE WriteState
  BY <1>1, <1>5, StateWriteRecovery DEF WriteState
<1>6. CASE update_index_entry
  BY <1>1, <1>6, IndexEntryRecovery DEF update_index_entry
<1>7. CASE Restart
  <2>1. /\ mode = "down" /\ mode' = "recovering" /\ todo' = dir /\ op = NoOp /\ op' = NoOp
        /\ UNCHANGED <<state, index, faults>>
    BY <1>7 DEF Restart, disk, RecoveryInvariant, RecoveryAlone
  <2>2. \A j \in Jobs : is_active(state[j].status) => j \in dir
    BY ActiveHasDirectory
  <2> QED
    BY <2>1, <2>2 DEF RecoveryInvariant, RecoveryAlone, IndexFollows, Recovers
<1>8. ASSUME NEW j \in Jobs, RecoverJob(j) PROVE Goal
  <2>1. /\ mode = "recovering" /\ mode' = mode /\ op = NoOp /\ todo' = todo \ {j}
        /\ UNCHANGED <<state, index, faults>>
        /\ \E n : op' = [kind |-> "recover", job |-> j, file |-> "error",
                         target |-> Committed(state[j], "failed"), revision |-> n,
                         found |-> PayloadFiles(j)]
    BY <1>8 DEF RecoverJob, Begin, disk
  <2>2. /\ op' # NoOp /\ op'.kind = "recover" /\ op'.job = j /\ op'.file = "error"
        /\ ~ is_active(op'.target.status)
    BY <2>1 DEF NoOp, Committed, is_active
  <2>3. \A i \in Jobs : is_active(state[i].status) => i \in todo
    BY <2>1 DEF RecoveryInvariant, RecoveryAlone, BeingFailed
  <2>4. \A i \in Jobs : is_active(state[i].status) => i \in todo' \/ BeingFailed(i)'
    BY <2>1, <2>2, <2>3 DEF BeingFailed
  <2> QED
    BY <2>1, <2>2, <2>4 DEF RecoveryInvariant, RecoveryAlone, IndexFollows, Recovers
<1>9. ASSUME NEW j \in Jobs, KeepJob(j) PROVE Goal
  <2>1. /\ mode = "recovering" /\ mode' = mode /\ op = NoOp /\ op' = NoOp /\ todo' = todo \ {j}
        /\ UNCHANGED <<state, index, faults>> /\ ~ is_active(state[j].status)
    BY <1>9 DEF KeepJob, disk
  <2>2. \A i \in Jobs : is_active(state[i].status) => i \in todo
    BY <2>1 DEF RecoveryInvariant, RecoveryAlone, BeingFailed
  <2> QED
    BY <2>1, <2>2 DEF RecoveryInvariant, RecoveryAlone, IndexFollows, Recovers
<1>10. CASE FinishRecovery
  <2>1. /\ mode = "recovering" /\ mode' = mode /\ op = NoOp /\ todo = {} /\ todo' = {}
        /\ UNCHANGED <<state, index, faults>>
        /\ \E j : op' = [kind |-> "rebuild", job |-> j, file |-> "index",
                         target |-> NoState, revision |-> 0, found |-> PayloadFiles(j)]
    BY <1>10 DEF FinishRecovery, Begin, disk
  <2>2. op' # NoOp /\ op'.kind = "rebuild" /\ op'.file = "index"
    BY <2>1 DEF NoOp
  <2>3. \A i \in Jobs : ~ is_active(state[i].status)
    BY <2>1 DEF RecoveryInvariant, RecoveryAlone, BeingFailed
  <2> QED
    BY <2>1, <2>2, <2>3 DEF RecoveryInvariant, RecoveryAlone, IndexFollows, Recovers
<1>11. CASE WriteFails
  <2>1. /\ op' = NoOp /\ faults' # 0 /\ UNCHANGED <<state, index, todo>>
        /\ mode' = IF mode = "recovering" THEN "down" ELSE mode
    BY <1>1, <1>11 DEF WriteFails, disk, TypeOK
  <2> QED
    BY <2>1 DEF RecoveryInvariant, RecoveryAlone, IndexFollows, Recovers
<1>12. CASE Crash
  BY <1>12 DEF Crash, disk, RecoveryInvariant, RecoveryAlone, IndexFollows, Recovers
<1>13. CASE UNCHANGED vars
  BY <1>13 DEF vars, RecoveryInvariant, RecoveryAlone, IndexFollows, Recovers, BeingFailed
<1> QED
  BY <1>2, <1>3, <1>4, <1>5, <1>6, <1>7, <1>8, <1>9, <1>10, <1>11, <1>12, <1>13
     DEF Next, Write, Recover

(* recover_interrupted leaves no job of an earlier process active and an   *)
(* index that lists the records, whatever crashes and failed writes came   *)
(* before; without failed writes the index stays that way.                 *)
THEOREM RecoveryCompletes == Spec => RecoveryIsComplete
<1> DEFINE HandsOver == (mode = "recovering" /\ mode' = "up") =>
             (IndexAgrees' /\ \A j \in Jobs : ~ is_active(state'[j].status))
<1>1. Init => RecoveryInvariant
  BY DEF Init, RecoveryInvariant, RecoveryAlone, IndexFollows, Recovers
<1>2. StoreInvariant /\ RecoveryInvariant /\ [Next]_vars => RecoveryInvariant' /\ [HandsOver]_vars
  BY NextRecovery
<1>3. RecoveryInvariant => (faults = 0 => IndexAgrees)
  BY DEF RecoveryInvariant, IndexFollows, IndexAgrees
<1> QED
  BY <1>1, <1>2, <1>3, InvariantHolds, PTL DEF Spec, RecoveryIsComplete
=============================================================================
