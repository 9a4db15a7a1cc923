-------------------------- MODULE JobEventsProofs ---------------------------
(***************************************************************************)
(* Proofs about JobRunner and about JobEvents, which extends it, for any   *)
(* number of jobs, requests, streams and failed reads and writes, and any  *)
(* capacity of the broadcast channel: first the runner, then its streams.  *)
(***************************************************************************)
EXTENDS JobEvents, FiniteSetTheorems, TLAPS

SubmitterState ==
  [pc : {"idle", "done"}] \cup [pc : {"admitted", "created"}, job : Jobs]

CancellerState ==
  [pc : {"idle", "done"}] \cup [pc : {"found", "signal"}, job : Jobs, active : BOOLEAN]

(* The part of TypeOK the argument needs. *)
CoreTypes ==
  /\ job \in [Jobs -> JobRecord \cup {NoState}]
  /\ result \in [Jobs -> {"none", "plain", "full"}]
  /\ error \in [Jobs -> BOOLEAN]
  /\ token \in [Jobs -> BOOLEAN]
  /\ submitter \in [Submitters -> SubmitterState]
  /\ runner \in [Jobs -> RunnerStates]
  /\ canceller \in [Cancellers -> CancellerState]
  /\ updates \in [Jobs -> Seq(Updates)]
  /\ outcome \in [Jobs -> Outcomes]

(* A runner that is about to store a stage has one at the channel's head.  *)
HeadIsStage ==
  \A j \in Jobs : runner[j] = "updating" =>
    updates[j] # << >> /\ Head(updates[j]) \in 1..MaxStage

RunnerInvariant ==
  /\ CoreTypes
  /\ HeadIsStage
  /\ TokenMeansCancelled
  /\ CompletionAgrees
  /\ OneRunnerDecides

-----------------------------------------------------------------------------
(* The transformations storage.rs applies to a record yield records: the   *)
(* stage stays a stage and the percentage within its scale.                *)
LEMMA RecordTypes ==
  ASSUME NEW st \in JobRecord
  PROVE  /\ MarkedRunning(st) \in JobRecord
         /\ \A status \in Status : Committed(st, status) \in JobRecord
         /\ \A stage \in 1..MaxStage, progress \in Nat :
              WithProgress(st, stage, progress) \in JobRecord
<1>1. MarkedRunning(st) \in JobRecord
  BY DEF MarkedRunning, JobRecord, Status
<1>2. ASSUME NEW status \in Status
      PROVE  Committed(st, status) \in JobRecord
  BY <1>2, ProgressAssumption DEF Committed, JobRecord, Status
<1>3. ASSUME NEW stage \in 1..MaxStage, NEW progress \in Nat
      PROVE  WithProgress(st, stage, progress) \in JobRecord
  BY <1>3, ProgressAssumption, StageAssumption
     DEF WithProgress, JobRecord, Larger, Smaller, Status
<1> QED
  BY <1>1, <1>2, <1>3

(* ProgressStage::range starts at a percentage. *)
LEMMA StageStartType ==
  ASSUME NEW stage \in 1..MaxStage
  PROVE  StageStart(stage) \in Nat
<1>1. (stage - 1) * MaxProgress \in Nat
  BY StageAssumption, ProgressAssumption
<1>2. \A a \in Nat, b \in Nat \ {0} : a \div b \in Nat
  OBVIOUS
<1> QED
  BY <1>1, <1>2, StageAssumption DEF StageStart

(* An active record is a real one: NoState is not active. *)
LEMMA ActiveIsRecord ==
  ASSUME CoreTypes, NEW j \in Jobs, is_active(job[j].status)
  PROVE  job[j] \in JobRecord
BY DEF CoreTypes, is_active, NoState

(* Before the first submission there is nothing to disagree about. *)
LEMMA InitInvariant == Init => RunnerInvariant
<1> SUFFICES ASSUME Init
             PROVE  RunnerInvariant
  OBVIOUS
<1>1. CoreTypes
  BY DEF Init, CoreTypes, SubmitterState, CancellerState, RunnerStates, Outcomes
<1>2. HeadIsStage /\ TokenMeansCancelled
  BY DEF Init, HeadIsStage, TokenMeansCancelled
<1>3. CompletionAgrees
  BY DEF Init, CompletionAgrees
<1>4. OneRunnerDecides
  BY DEF Init, OneRunnerDecides, BeforeEnd
<1> QED
  BY <1>1, <1>2, <1>3, <1>4 DEF RunnerInvariant

(* Most steps leave everything the invariant speaks about alone. *)
LEMMA Frame ==
  ASSUME RunnerInvariant,
         UNCHANGED <<job, result, error, token, submitter, runner, canceller, updates, outcome>>
  PROVE  RunnerInvariant'
BY DEF RunnerInvariant, CoreTypes, HeadIsStage, TokenMeansCancelled, CompletionAgrees,
       OneRunnerDecides

(* A store operation either stores the record or changes nothing. *)
LEMMA StoreEffect ==
  ASSUME CoreTypes, NEW j \in Jobs, NEW record, NEW w, Store(j, record, w)
  PROVE  /\ w = "ok" => job' = [job EXCEPT ![j] = record]
         /\ UNCHANGED job \/ job' = [job EXCEPT ![j] = record]
<1>1. CASE w \in {"ok", "late"}
  BY <1>1 DEF Store
<1>2. CASE w \notin {"ok", "late"}
  <2>1. job' = [job EXCEPT ![j] = job[j]]
    BY <1>2 DEF Store
  <2> QED
    BY <1>2, <2>1 DEF CoreTypes
<1> QED
  BY <1>1, <1>2

(* The submitters: only the one that finds no job creates it. *)
LEMMA SubmitterSteps ==
  ASSUME RunnerInvariant, NEW s \in Submitters,
         Submission(s) \/ \E j \in Jobs : try_admit(s, j)
  PROVE  RunnerInvariant'
<1> USE DEF RunnerInvariant
<1>1. ASSUME NEW j \in Jobs, try_admit(s, j)
      PROVE  RunnerInvariant'
  <2>1. UNCHANGED <<job, result, error, token, runner, canceller, updates, outcome>>
    BY <1>1 DEF try_admit, storeVars, workVars
  <2>2. submitter' = [submitter EXCEPT ![s] = [pc |-> "admitted", job |-> j]]
    BY <1>1 DEF try_admit
  <2>3. CoreTypes'
    BY <2>1, <2>2 DEF CoreTypes, SubmitterState
  <2>4. OneRunnerDecides'
    BY <2>1, <2>2 DEF CoreTypes, OneRunnerDecides
  <2> QED
    BY <2>1, <2>3, <2>4 DEF HeadIsStage, TokenMeansCancelled, CompletionAgrees
<1>2. CASE create_job(s)
  <2>0. PICK j \in Jobs : submitter[s] = [pc |-> "admitted", job |-> j]
    BY <1>2 DEF create_job, CoreTypes, SubmitterState
  <2>1. UNCHANGED <<result, error, token, runner, canceller, updates, outcome>>
    BY <1>2 DEF create_job, StorePlain, Reject, storeVars, workVars
  <2>2. /\ \/ UNCHANGED job
           \/ job[j] = NoState /\ job' = [job EXCEPT ![j] = PendingState]
        /\ \/ submitter' = [submitter EXCEPT ![s] = [pc |-> "done"]]
           \/ /\ job[j] = NoState /\ job' = [job EXCEPT ![j] = PendingState]
              /\ submitter' = [submitter EXCEPT ![s] = [pc |-> "created", job |-> j]]
    <3>1. CASE Reject(s) /\ UNCHANGED storeVars
      BY <3>1 DEF Reject, storeVars
    <3>2. CASE ~(Reject(s) /\ UNCHANGED storeVars)
      <4>0. job[j] = NoState
        BY <1>2, <2>0, <3>2 DEF create_job
      <4>1. PICK w \in WriteResults :
              /\ Store(j, PendingState, w)
              /\ IF w = "ok"
                 THEN submitter' = [submitter EXCEPT ![s] = [pc |-> "created", job |-> j]]
                 ELSE submitter' = [submitter EXCEPT ![s] = [pc |-> "done"]]
        BY <1>2, <2>0, <3>2 DEF create_job, StorePlain, Reject
      <4> QED
        BY <4>0, <4>1, StoreEffect
    <3> QED
      BY <3>1, <3>2
  <2>3. PendingState \in JobRecord /\ PendingState.status = "pending" /\ NoState.status = "absent"
    BY StageAssumption, ProgressAssumption DEF PendingState, JobRecord, Status, NoState
  <2>4. CoreTypes'
    <3>1. job' \in [Jobs -> JobRecord \cup {NoState}]
      BY <2>0, <2>2, <2>3 DEF CoreTypes
    <3>2. submitter' \in [Submitters -> SubmitterState]
      <4>1. [pc |-> "done"] \in SubmitterState /\ [pc |-> "created", job |-> j] \in SubmitterState
        BY <2>0 DEF SubmitterState
      <4> QED
        BY <2>2, <4>1 DEF CoreTypes
    <3> QED
      BY <2>1, <3>1, <3>2 DEF CoreTypes
  <2>5. TokenMeansCancelled' /\ CompletionAgrees' /\ HeadIsStage'
    <3>1. \A k \in Jobs : job'[k] = job[k] \/ job[k].status = "absent"
      BY <2>0, <2>2, <2>3 DEF CoreTypes
    <3>2. TokenMeansCancelled' /\ CompletionAgrees'
      BY <2>1, <3>1 DEF TokenMeansCancelled, CompletionAgrees
    <3> QED
      BY <2>1, <3>2 DEF HeadIsStage
  <2>6. OneRunnerDecides'
    <3>1. CASE submitter' = [submitter EXCEPT ![s] = [pc |-> "done"]]
      <4>1. \A t \in Submitters : submitter'[t].pc = "created" =>
              /\ submitter[t].pc = "created" /\ submitter'[t] = submitter[t]
              /\ submitter[t].job \in Jobs
        BY <3>1 DEF CoreTypes, SubmitterState
      <4>2. \A k \in Jobs : job'[k] = job[k] \/ (job[k] = NoState /\ job'[k] = PendingState)
        BY <2>2 DEF CoreTypes
      <4>3. \A c \in Cancellers : canceller[c].pc = "signal" => canceller[c].job \in Jobs
        BY DEF CoreTypes, CancellerState
      <4> QED
        BY <2>1, <2>3, <4>1, <4>2, <4>3 DEF OneRunnerDecides, BeforeEnd
    <3>2. CASE /\ job[j] = NoState /\ job' = [job EXCEPT ![j] = PendingState]
               /\ submitter' = [submitter EXCEPT ![s] = [pc |-> "created", job |-> j]]
      <4>1. \A t \in Submitters : submitter'[t].pc = "created" =>
              \/ t = s
              \/ /\ submitter[t].pc = "created" /\ submitter'[t] = submitter[t]
                 /\ submitter[t].job \in Jobs /\ submitter[t].job # j
        <5> TAKE t \in Submitters
        <5>1. CASE t # s /\ submitter[t].pc = "created"
          <6>1. submitter'[t] = submitter[t] /\ submitter[t] \in SubmitterState
            BY <3>2, <5>1 DEF CoreTypes
          <6>2. submitter[t].job \in Jobs
            BY <5>1, <6>1 DEF SubmitterState
          <6>3. job[submitter[t].job].status \in {"pending", "cancelled"}
            BY <5>1 DEF OneRunnerDecides
          <6> QED
            BY <2>3, <3>2, <5>1, <6>1, <6>2, <6>3
        <5> QED
          BY <3>2, <5>1 DEF CoreTypes
      <4>2. submitter'[s] = [pc |-> "created", job |-> j] /\ runner[j] = "absent"
        BY <3>2 DEF CoreTypes, OneRunnerDecides
      <4>3. job'[j] = PendingState /\ \A k \in Jobs : k # j => job'[k] = job[k]
        BY <3>2 DEF CoreTypes
      <4>4. \A c \in Cancellers : canceller[c].pc = "signal" => canceller[c].job \in Jobs
        BY DEF CoreTypes, CancellerState
      <4> QED
        BY <2>1, <2>3, <3>2, <4>1, <4>2, <4>3, <4>4 DEF OneRunnerDecides, BeforeEnd
    <3> QED
      BY <2>2, <3>1, <3>2
  <2> QED
    BY <2>4, <2>5, <2>6
<1>3. CASE spawn_runner(s)
  <2>0. PICK j \in Jobs : submitter[s] = [pc |-> "created", job |-> j]
    BY <1>3 DEF spawn_runner, CoreTypes, SubmitterState
  <2>1. UNCHANGED <<job, result, error, token, canceller, updates, outcome>>
    BY <1>3 DEF spawn_runner, storeVars, workVars
  <2>2. /\ runner' = [runner EXCEPT ![j] = "queued"]
        /\ submitter' = [submitter EXCEPT ![s] = [pc |-> "done"]]
    BY <1>3, <2>0 DEF spawn_runner
  <2>3. CoreTypes'
    BY <2>1, <2>2 DEF CoreTypes, SubmitterState, RunnerStates
  <2>4. TokenMeansCancelled' /\ CompletionAgrees' /\ HeadIsStage'
    BY <2>1, <2>2 DEF CoreTypes, TokenMeansCancelled, CompletionAgrees, HeadIsStage
  <2>5. OneRunnerDecides'
    <3>1. job[j].status \in {"pending", "cancelled"} /\ NoState.status = "absent"
      BY <2>0 DEF OneRunnerDecides, NoState
    <3>2. \A t \in Submitters : submitter'[t].pc = "created" =>
            /\ submitter[t].pc = "created" /\ submitter'[t] = submitter[t]
            /\ submitter[t].job \in Jobs /\ submitter[t].job # j
      <4> TAKE t \in Submitters
      <4>1. CASE t # s /\ submitter[t].pc = "created"
        <5>1. submitter'[t] = submitter[t] /\ submitter[t] \in SubmitterState
          BY <2>2, <4>1 DEF CoreTypes
        <5>2. submitter[t].job \in Jobs
          BY <4>1, <5>1 DEF SubmitterState
        <5>3. submitter[s].pc = "created" /\ submitter[s].job = j
          BY <2>0
        <5>4. submitter[t].job # j
          BY <4>1, <5>3 DEF OneRunnerDecides
        <5> QED
          BY <4>1, <5>1, <5>2, <5>4
      <4> QED
        BY <2>2, <4>1 DEF CoreTypes
    <3> QED
      BY <2>1, <2>2, <3>1, <3>2 DEF CoreTypes, OneRunnerDecides, BeforeEnd
  <2> QED
    BY <2>3, <2>4, <2>5
<1> QED
  BY <1>1, <1>2, <1>3 DEF Submission

(* Publication and the worker touch nothing but the update channel. *)
LEMMA WorkerSteps ==
  ASSUME RunnerInvariant, NEW j \in Jobs, finish(j) \/ \E u \in Updates : report(j, u)
  PROVE  RunnerInvariant'
<1>1. CASE finish(j)
  BY <1>1, Frame DEF finish, storeVars
<1>2. ASSUME NEW u \in Updates, report(j, u)
      PROVE  RunnerInvariant'
  <2>1. UNCHANGED <<job, result, error, token, submitter, runner, canceller, outcome>>
    BY <1>2 DEF report, storeVars
  <2>2. \/ UNCHANGED updates
        \/ updates' = [updates EXCEPT ![j] = Append(@, u)]
    BY <1>2 DEF report
  <2>3. CASE UNCHANGED updates
    BY <2>1, <2>3, Frame
  <2>4. CASE updates' = [updates EXCEPT ![j] = Append(@, u)]
    <3>1. CoreTypes'
      BY <2>1, <2>4 DEF RunnerInvariant, CoreTypes
    <3>2. HeadIsStage'
      <4>1. \A q \in Seq(Updates) : q # << >> =>
              Append(q, u) # << >> /\ Head(Append(q, u)) = Head(q)
        OBVIOUS
      <4> QED
        BY <2>1, <2>4, <4>1 DEF RunnerInvariant, CoreTypes, HeadIsStage
    <3> QED
      BY <2>1, <3>1, <3>2 DEF RunnerInvariant, TokenMeansCancelled, CompletionAgrees,
                              OneRunnerDecides
  <2> QED
    BY <2>2, <2>3, <2>4
<1> QED
  BY <1>1, <1>2

(* A publication reads the job and touches only events and sequences. *)
LEMMA PublicationSteps ==
  ASSUME RunnerInvariant, NEW p \in Publishers, Publication(p)
  PROVE  RunnerInvariant'
BY Frame DEF Publication, read_persisted, bump_sequence, record_event_sequence, send_event,
             storeVars, workVars

-----------------------------------------------------------------------------
(* What the argument needs to know of the other jobs: nothing happens. *)
OnlyAt(j) ==
  \A k \in Jobs : k # j =>
    /\ job'[k] = job[k] /\ result'[k] = result[k] /\ error'[k] = error[k]
    /\ token'[k] = token[k] /\ outcome'[k] = outcome[k]
    /\ runner'[k] = runner[k] /\ updates'[k] = updates[k]

(* The invariant as it speaks about one job. *)
AgreesAt(j) ==
  /\ runner[j] \in BeforeEnd => job[j].status \in {"pending", "running", "cancelled"}
  /\ token[j] => job[j].status = "cancelled"
  /\ runner[j] = "updating" => updates[j] # << >> /\ Head(updates[j]) \in 1..MaxStage
  /\ outcome[j] = "ok" => job[j].status = "completed" /\ result[j] # "none"
  /\ outcome[j] = "failed" => job[j].status = "failed" /\ error[j]
  /\ outcome[j] = "cancelled" => job[j].status = "cancelled"

(* A step of the runner of job j: it concerns j alone, changes the record  *)
(* only of an active job, and leaves the invariant at j true.              *)
LEMMA RunnerStep ==
  ASSUME RunnerInvariant, CoreTypes', NEW j \in Jobs, runner[j] # "absent", runner'[j] # "absent",
         submitter' = submitter, canceller' = canceller,
         OnlyAt(j), AgreesAt(j)',
         job'[j] = job[j] \/ (is_active(job[j].status) /\ job'[j] # NoState)
  PROVE  RunnerInvariant'
<1> USE DEF OnlyAt, AgreesAt
<1> USE DEF RunnerInvariant
<1>1. HeadIsStage'
  BY DEF HeadIsStage
<1>2. TokenMeansCancelled'
  BY DEF TokenMeansCancelled
<1>3. CompletionAgrees'
  BY DEF CompletionAgrees
<1>4. OneRunnerDecides'
  <2>1. \A s \in Submitters : submitter[s].pc = "created" =>
          submitter[s].job \in Jobs /\ submitter[s].job # j
    <3>1. \A s \in Submitters : submitter[s].pc = "created" => submitter[s].job \in Jobs
      BY DEF CoreTypes, SubmitterState
    <3> QED
      BY <3>1 DEF OneRunnerDecides
  <2>2. \A c \in Cancellers : canceller[c].pc = "signal" => canceller[c].job \in Jobs
    BY DEF CoreTypes, CancellerState
  <2>3. job[j].status = "cancelled" => job'[j] = job[j]
    BY DEF is_active
  <2>4. job'[j] # NoState
    BY DEF OneRunnerDecides
  <2> QED
    BY <2>1, <2>2, <2>3, <2>4 DEF OneRunnerDecides, BeforeEnd
<1> QED
  BY <1>1, <1>2, <1>3, <1>4

(* Where every case below starts from. *)
LEMMA RunnerFacts ==
  ASSUME RunnerInvariant, NEW j \in Jobs, runner[j] # "absent"
  PROVE  job[j] \in JobRecord /\ AgreesAt(j)
BY DEF RunnerInvariant, CoreTypes, OneRunnerDecides, TokenMeansCancelled, CompletionAgrees,
       HeadIsStage, AgreesAt

(* Steps of the runner that write nothing to the store. *)
LEMMA QuietRunnerSteps ==
  ASSUME RunnerInvariant, NEW j \in Jobs,
         \/ acquire_permit(j) \/ cancelled_in_queue(j) \/ check_cancelled(j)
         \/ wait_for_stage(j) \/ append_solver_event(j) \/ keep_snapshot(j)
         \/ updates_closed(j) \/ join_worker(j)
         \/ release_permit(j) \/ remove_activity(j) \/ send_completion(j)
  PROVE  RunnerInvariant'
<1> USE DEF At, Goto, Return
<1>0. runner[j] # "absent"
  BY DEF acquire_permit, cancelled_in_queue, check_cancelled, wait_for_stage,
         append_solver_event, keep_snapshot, updates_closed, join_worker, release_permit,
         remove_activity, send_completion, Received
<1>1. UNCHANGED <<job, result, error, token, submitter, canceller>>
  BY DEF acquire_permit, cancelled_in_queue, check_cancelled, wait_for_stage,
         append_solver_event, keep_snapshot, updates_closed, join_worker, release_permit,
         remove_activity, send_completion, storeVars
<1>2. CASE acquire_permit(j) \/ updates_closed(j) \/ join_worker(j) \/ release_permit(j)
             \/ remove_activity(j) \/ send_completion(j)
  <2>1. UNCHANGED <<updates, outcome>>
    BY <1>2 DEF acquire_permit, updates_closed, join_worker, release_permit,
                remove_activity, send_completion, workVars
  <2>2. PICK pc \in RunnerStates \ {"absent", "updating"} :
          /\ runner' = [runner EXCEPT ![j] = pc]
          /\ pc \in BeforeEnd => runner[j] \in BeforeEnd
    BY <1>2 DEF acquire_permit, updates_closed, join_worker, release_permit,
                remove_activity, send_completion, RunnerStates, BeforeEnd
  <2>3. CoreTypes'
    BY <1>1, <2>1, <2>2 DEF RunnerInvariant, CoreTypes
  <2>4. OnlyAt(j) /\ runner'[j] = pc /\ updates'[j] = updates[j] /\ outcome'[j] = outcome[j]
    BY <1>1, <2>1, <2>2 DEF RunnerInvariant, CoreTypes, OnlyAt
  <2>5. AgreesAt(j)'
    BY <1>0, <1>1, <2>4, <2>2, RunnerFacts DEF AgreesAt, BeforeEnd
  <2> QED
    BY <1>0, <1>1, <2>3, <2>4, <2>5, RunnerStep
<1>3. CASE cancelled_in_queue(j) \/ check_cancelled(j)
  <2>1. UNCHANGED updates
    BY <1>3 DEF cancelled_in_queue, check_cancelled, workVars
  <2>2. PICK pc \in {"finishing", "returning", "marking"} :
          /\ runner' = [runner EXCEPT ![j] = pc]
          /\ \/ UNCHANGED outcome
             \/ token[j] /\ outcome' = [outcome EXCEPT ![j] = "cancelled"]
    BY <1>3 DEF cancelled_in_queue, check_cancelled
  <2>3. runner[j] \in BeforeEnd
    BY <1>3 DEF cancelled_in_queue, check_cancelled, BeforeEnd
  <2>4. CoreTypes'
    BY <1>1, <2>1, <2>2 DEF RunnerInvariant, CoreTypes, RunnerStates, Outcomes
  <2>5. /\ OnlyAt(j) /\ runner'[j] = pc
        /\ outcome'[j] = outcome[j] \/ (token[j] /\ outcome'[j] = "cancelled")
    BY <1>1, <2>1, <2>2 DEF RunnerInvariant, CoreTypes, OnlyAt
  <2>6. AgreesAt(j)'
    BY <1>0, <1>1, <2>5, <2>2, <2>3, RunnerFacts DEF AgreesAt, BeforeEnd
  <2> QED
    BY <1>0, <1>1, <2>4, <2>5, <2>6, RunnerStep
<1>4. CASE wait_for_stage(j)
  <2>1. UNCHANGED outcome /\ runner[j] \in BeforeEnd
    BY <1>4 DEF wait_for_stage, Received, BeforeEnd
  <2>2. \/ /\ runner' = [runner EXCEPT ![j] = "joining"]
           /\ updates' = [updates EXCEPT ![j] = << >>]
        \/ /\ runner' = [runner EXCEPT ![j] = "updating"]
           /\ UNCHANGED updates
           /\ updates[j] # << >> /\ Head(updates[j]) \in 1..MaxStage
    BY <1>4 DEF wait_for_stage, Received, StopConsuming
  <2>3. << >> \in Seq(Updates)
    OBVIOUS
  <2>4. CoreTypes'
    <3>1. runner' \in [Jobs -> RunnerStates]
      BY <2>2 DEF RunnerInvariant, CoreTypes, RunnerStates
    <3>2. updates' \in [Jobs -> Seq(Updates)]
      BY <2>2, <2>3 DEF RunnerInvariant, CoreTypes
    <3> QED
      BY <1>1, <2>1, <3>1, <3>2 DEF RunnerInvariant, CoreTypes
  <2>5. OnlyAt(j) /\ outcome'[j] = outcome[j] /\ (runner'[j] = "joining" \/
          (runner'[j] = "updating" /\ updates'[j] # << >> /\ Head(updates'[j]) \in 1..MaxStage))
    BY <1>1, <2>1, <2>2 DEF RunnerInvariant, CoreTypes, OnlyAt
  <2>6. AgreesAt(j)'
    BY <1>0, <1>1, <2>5, <2>1, RunnerFacts DEF AgreesAt, BeforeEnd
  <2> QED
    BY <1>0, <1>1, <2>4, <2>5, <2>6, RunnerStep
<1>5. CASE append_solver_event(j) \/ keep_snapshot(j)
  <2>1. UNCHANGED <<runner, outcome>> /\ runner[j] = "consuming" /\ updates[j] # << >>
    BY <1>5 DEF append_solver_event, keep_snapshot, Received
  <2>2. updates' = [updates EXCEPT ![j] = Tail(updates[j])]
    BY <1>5 DEF append_solver_event, keep_snapshot, Pop
  <2>3. updates[j] \in Seq(Updates)
    BY DEF RunnerInvariant, CoreTypes
  <2>4. Tail(updates[j]) \in Seq(Updates)
    BY <2>1, <2>3
  <2>5. CoreTypes'
    BY <1>1, <2>1, <2>2, <2>4 DEF RunnerInvariant, CoreTypes
  <2>6. OnlyAt(j) /\ runner'[j] = "consuming" /\ outcome'[j] = outcome[j]
    BY <1>1, <2>1, <2>2 DEF RunnerInvariant, CoreTypes, OnlyAt
  <2>7. AgreesAt(j)'
    BY <1>0, <1>1, <2>6, <2>1, RunnerFacts DEF AgreesAt, BeforeEnd
  <2> QED
    BY <1>0, <1>1, <2>5, <2>6, <2>7, RunnerStep
<1> QED
  BY <1>2, <1>3, <1>4, <1>5

(* The steps that store something.  Each either stores a record that       *)
(* follows an active one or leaves the store as it was.                    *)
LEMMA mark_running_Step ==
  ASSUME RunnerInvariant, NEW j \in Jobs, mark_running(j)
  PROVE  RunnerInvariant'
<1> DEFINE st == MarkedRunning(job[j])
<1>0. runner[j] = "marking" /\ runner[j] # "absent"
  BY DEF mark_running, At
<1>1. /\ submitter' = submitter /\ canceller' = canceller
      /\ UNCHANGED <<result, error, token, updates>>
  BY DEF mark_running, StorePlain, storeVars
<1>2. job[j] \in JobRecord /\ AgreesAt(j)
  BY <1>0, RunnerFacts
<1>3. \/ /\ is_active(job[j].status)
         /\ job' = [job EXCEPT ![j] = st] \/ UNCHANGED job
         /\ \/ /\ runner' = [runner EXCEPT ![j] = "consuming"]
               /\ UNCHANGED outcome
            \/ /\ runner' = [runner EXCEPT ![j] = "returning"]
               /\ outcome' = [outcome EXCEPT ![j] = "error"]
      \/ /\ UNCHANGED job
         /\ runner' = [runner EXCEPT ![j] = "returning"]
         /\ outcome' = [outcome EXCEPT ![j] = RefusedAs(j)]
  <2>1. CASE is_active(job[j].status)
    <3>1. PICK w \in WriteResults :
            /\ Store(j, st, w)
            /\ \/ Goto(j, "consuming") /\ UNCHANGED outcome
               \/ Return(j, "error")
      BY <2>1 DEF mark_running, StorePlain
    <3>2. job' = [job EXCEPT ![j] = st] \/ UNCHANGED job
      BY <3>1, StoreEffect DEF RunnerInvariant
    <3> QED
      BY <2>1, <3>1, <3>2 DEF Goto, Return
  <2>2. CASE ~is_active(job[j].status)
    BY <2>2 DEF mark_running, storeVars, Goto, Return
  <2> QED
    BY <2>1, <2>2
<1>4. st \in JobRecord /\ st.status = "running"
  BY <1>2, RecordTypes DEF MarkedRunning, JobRecord
<1>5. RefusedAs(j) \in {"cancelled", "error"} /\
        (RefusedAs(j) = "cancelled" => job[j].status = "cancelled")
  BY DEF RefusedAs
<1>6. CoreTypes'
  <2>1. job' \in [Jobs -> JobRecord \cup {NoState}]
    BY <1>3, <1>4 DEF RunnerInvariant, CoreTypes
  <2>2. runner' \in [Jobs -> RunnerStates]
    BY <1>3 DEF RunnerInvariant, CoreTypes, RunnerStates
  <2>3. outcome' \in [Jobs -> Outcomes]
    BY <1>3, <1>5 DEF RunnerInvariant, CoreTypes, Outcomes
  <2> QED
    BY <1>1, <2>1, <2>2, <2>3 DEF RunnerInvariant, CoreTypes
<1>7. /\ OnlyAt(j)
      /\ job'[j] = job[j] \/ (is_active(job[j].status) /\ job'[j] = st)
      /\ \/ runner'[j] = "consuming" /\ outcome'[j] = outcome[j] /\ is_active(job[j].status)
         \/ runner'[j] = "returning" /\ outcome'[j] = "error"
         \/ runner'[j] = "returning" /\ outcome'[j] = RefusedAs(j) /\ job'[j] = job[j]
  BY <1>1, <1>3 DEF RunnerInvariant, CoreTypes, OnlyAt
<1>8. AgreesAt(j)'
  BY <1>1, <1>2, <1>4, <1>5, <1>7 DEF AgreesAt, BeforeEnd, is_active
<1>9. st # NoState
  BY <1>4 DEF NoState
<1>10. runner'[j] # "absent"
  BY <1>7
<1> QED
  BY <1>0, <1>1, <1>6, <1>7, <1>8, <1>9, <1>10, RunnerStep

(* A progress report moves an active job forward or learns of its          *)
(* cancellation.                                                           *)
LEMMA update_progress_Step ==
  ASSUME RunnerInvariant, NEW j \in Jobs, update_progress(j)
  PROVE  RunnerInvariant'
<1> DEFINE stage == Head(updates[j])
           st == WithProgress(job[j], stage, StageStart(stage))
<1>0. runner[j] = "updating" /\ runner[j] # "absent"
  BY DEF update_progress, At
<1>1. /\ submitter' = submitter /\ canceller' = canceller
      /\ UNCHANGED <<result, error, outcome>>
  BY DEF update_progress, StorePlain, storeVars
<1>2. job[j] \in JobRecord /\ AgreesAt(j)
  BY <1>0, RunnerFacts
<1>3. /\ stage \in 1..MaxStage /\ updates[j] # << >>
      /\ job[j].status \in {"pending", "running", "cancelled"}
  BY <1>0, <1>2 DEF AgreesAt, BeforeEnd
<1>4. \/ /\ is_active(job[j].status) /\ UNCHANGED token
         /\ job' = [job EXCEPT ![j] = st] \/ UNCHANGED job
         /\ runner' = [runner EXCEPT ![j] = "consuming"]
         /\ updates' = [updates EXCEPT ![j] = Tail(updates[j])]
      \/ /\ job[j].status = "cancelled" /\ UNCHANGED job
         /\ token' = [token EXCEPT ![j] = TRUE]
         /\ runner' = [runner EXCEPT ![j] = "joining"]
         /\ updates' = [updates EXCEPT ![j] = << >>]
  <2>1. CASE is_active(job[j].status)
    <3>1. PICK w \in WriteResults : Store(j, st, w)
      BY <2>1 DEF update_progress, StorePlain, is_active
    <3>2. job' = [job EXCEPT ![j] = st] \/ UNCHANGED job
      BY <3>1, StoreEffect DEF RunnerInvariant
    <3> QED
      BY <2>1, <3>2 DEF update_progress, Goto, Pop, is_active
  <2>2. CASE job[j].status = "cancelled"
    BY <2>2 DEF update_progress, storeVars, StopConsuming, Goto, is_active
  <2> QED
    BY <1>3, <2>1, <2>2 DEF is_active
<1>5. st \in JobRecord
  BY <1>2, <1>3, RecordTypes, StageStartType
<1>6. is_active(job[j].status) => is_active(st.status)
  BY <1>2 DEF WithProgress, is_active
<1>7. Tail(updates[j]) \in Seq(Updates) /\ << >> \in Seq(Updates)
  <2>1. updates[j] \in Seq(Updates)
    BY DEF RunnerInvariant, CoreTypes
  <2> QED
    BY <1>3, <2>1
<1>8. CoreTypes'
  <2>1. updates' \in [Jobs -> Seq(Updates)] /\ runner' \in [Jobs -> RunnerStates]
    <3>1. updates' \in [Jobs -> Seq(Updates)]
      BY <1>4, <1>7 DEF RunnerInvariant, CoreTypes
    <3>2. runner' \in [Jobs -> RunnerStates]
      BY <1>4 DEF RunnerInvariant, CoreTypes, RunnerStates
    <3> QED
      BY <3>1, <3>2
  <2>2. token' \in [Jobs -> BOOLEAN] /\ job' \in [Jobs -> JobRecord \cup {NoState}]
    BY <1>4, <1>5 DEF RunnerInvariant, CoreTypes
  <2> QED
    BY <1>1, <2>1, <2>2 DEF RunnerInvariant, CoreTypes
<1>9. /\ OnlyAt(j)
      /\ \/ /\ is_active(job[j].status) /\ token'[j] = token[j]
            /\ job'[j] = st \/ job'[j] = job[j]
            /\ runner'[j] = "consuming"
         \/ job[j].status = "cancelled" /\ job'[j] = job[j] /\ runner'[j] = "joining"
  BY <1>1, <1>4 DEF RunnerInvariant, CoreTypes, OnlyAt
<1>10. AgreesAt(j)'
  BY <1>1, <1>2, <1>6, <1>9 DEF AgreesAt, BeforeEnd, is_active
<1>11. st # NoState
  BY <1>5 DEF NoState, JobRecord, Status
<1>12. runner'[j] # "absent"
  BY <1>9
<1> QED
  BY <1>0, <1>1, <1>8, <1>9, <1>10, <1>11, <1>12, RunnerStep

(* The runner ends a job nobody else has ended. *)
LEMMA persist_cancelled_Step ==
  ASSUME RunnerInvariant, NEW j \in Jobs, persist_cancelled(j)
  PROVE  RunnerInvariant'
<1> DEFINE st == Committed(job[j], "cancelled")
<1>0. runner[j] = "cancelling" /\ runner[j] # "absent"
  BY DEF persist_cancelled, At
<1>1. /\ submitter' = submitter /\ canceller' = canceller
      /\ UNCHANGED <<result, error, token, updates>>
  BY DEF persist_cancelled, StorePlain, storeVars, workVars
<1>2. /\ job[j] \in JobRecord /\ AgreesAt(j)
      /\ job[j].status \in {"pending", "running", "cancelled"}
  BY <1>0, RunnerFacts DEF AgreesAt, BeforeEnd
<1>3. /\ runner' = [runner EXCEPT ![j] = "returning"]
      /\ \/ /\ is_active(job[j].status)
            /\ job' = [job EXCEPT ![j] = st] \/ UNCHANGED job
            /\ outcome' = [outcome EXCEPT ![j] = "error"]
         \/ /\ is_active(job[j].status)
            /\ job' = [job EXCEPT ![j] = st]
            /\ outcome' = [outcome EXCEPT ![j] = "cancelled"]
         \/ /\ job[j].status = "cancelled" /\ UNCHANGED job
            /\ outcome' = [outcome EXCEPT ![j] = "cancelled"]
  <2>1. CASE is_active(job[j].status)
    <3>1. PICK w \in WriteResults :
            /\ Store(j, st, w)
            /\ \/ w = "ok" /\ Return(j, "cancelled")
               \/ Return(j, "error")
      BY <2>1 DEF persist_cancelled, StorePlain
    <3>2. /\ w = "ok" => job' = [job EXCEPT ![j] = st]
          /\ job' = [job EXCEPT ![j] = st] \/ UNCHANGED job
      BY <3>1, StoreEffect DEF RunnerInvariant
    <3> QED
      BY <2>1, <3>1, <3>2 DEF Goto, Return
  <2>2. CASE ~is_active(job[j].status)
    BY <1>2, <2>2 DEF persist_cancelled, storeVars, Goto, Return, is_active
  <2> QED
    BY <2>1, <2>2
<1>4. st \in JobRecord /\ st.status = "cancelled" /\ st # NoState
  BY <1>2, RecordTypes DEF Committed, Status, NoState
<1>5. CoreTypes'
  <2>1. job' \in [Jobs -> JobRecord \cup {NoState}]
    BY <1>3, <1>4 DEF RunnerInvariant, CoreTypes
  <2>2. runner' \in [Jobs -> RunnerStates] /\ outcome' \in [Jobs -> Outcomes]
    BY <1>3 DEF RunnerInvariant, CoreTypes, RunnerStates, Outcomes
  <2> QED
    BY <1>1, <2>1, <2>2 DEF RunnerInvariant, CoreTypes
<1>6. /\ OnlyAt(j) /\ runner'[j] = "returning" /\ runner'[j] # "absent"
      /\ job'[j] = job[j] \/ (is_active(job[j].status) /\ job'[j] = st)
      /\ \/ outcome'[j] = "error"
         \/ outcome'[j] = "cancelled" /\ (job'[j] = st \/ job'[j].status = "cancelled")
  BY <1>1, <1>3 DEF RunnerInvariant, CoreTypes, OnlyAt
<1>7. AgreesAt(j)'
  BY <1>1, <1>2, <1>4, <1>6 DEF AgreesAt, BeforeEnd, is_active
<1> QED
  BY <1>0, <1>1, <1>4, <1>5, <1>6, <1>7, RunnerStep

(* save_result and save_error differ in the payload and the status.        *)
LEMMA SaveStep ==
  ASSUME RunnerInvariant, NEW j \in Jobs, runner[j] = "saving",
         submitter' = submitter, canceller' = canceller, UNCHANGED <<token, updates>>,
         NEW status \in {"completed", "failed"}, NEW completion \in {"ok", "failed"},
         completion = "ok" <=> status = "completed",
         NEW w,
         job[j].status = "running",
         Store(j, Committed(job[j], status), w),
         result' \in [Jobs -> {"none", "plain", "full"}], error' \in [Jobs -> BOOLEAN],
         \A k \in Jobs : k # j => result'[k] = result[k] /\ error'[k] = error[k],
         w = "ok" => IF status = "completed" THEN result'[j] # "none" ELSE error'[j],
         Return(j, IF w = "ok" THEN completion ELSE "error")
  PROVE  RunnerInvariant'
<1> DEFINE st == Committed(job[j], status)
<1>0. runner[j] # "absent"
  OBVIOUS
<1>1. job[j] \in JobRecord /\ AgreesAt(j) /\ is_active(job[j].status)
  BY <1>0, RunnerFacts DEF is_active
<1>2. /\ w = "ok" => job' = [job EXCEPT ![j] = st]
      /\ UNCHANGED job \/ job' = [job EXCEPT ![j] = st]
  BY StoreEffect DEF RunnerInvariant
<1>3. st \in JobRecord /\ st.status = status /\ st # NoState
  BY <1>1, RecordTypes DEF Committed, Status, NoState
<1>4. /\ runner' = [runner EXCEPT ![j] = "returning"]
      /\ outcome' = [outcome EXCEPT ![j] = IF w = "ok" THEN completion ELSE "error"]
  BY DEF Return, Goto
<1>5. CoreTypes'
  <2>1. runner' \in [Jobs -> RunnerStates] /\ outcome' \in [Jobs -> Outcomes]
    BY <1>4 DEF RunnerInvariant, CoreTypes, RunnerStates, Outcomes
  <2>2. job' \in [Jobs -> JobRecord \cup {NoState}]
    BY <1>2, <1>3 DEF RunnerInvariant, CoreTypes
  <2> QED
    BY <2>1, <2>2 DEF RunnerInvariant, CoreTypes
<1>6. /\ OnlyAt(j) /\ runner'[j] = "returning"
      /\ job'[j] = job[j] \/ job'[j] = st
      /\ w = "ok" => job'[j] = st
      /\ outcome'[j] = IF w = "ok" THEN completion ELSE "error"
  BY <1>2, <1>4 DEF RunnerInvariant, CoreTypes, OnlyAt
<1>7. ~token[j]
  BY <1>1 DEF AgreesAt
<1>8. AgreesAt(j)'
  BY <1>3, <1>6, <1>7 DEF AgreesAt, BeforeEnd
<1>9. runner'[j] # "absent"
  BY <1>6
<1> QED
  BY <1>0, <1>1, <1>3, <1>5, <1>6, <1>8, <1>9, RunnerStep

(* The store refuses a payload because the job is no longer running. *)
LEMMA RefusedStep ==
  ASSUME RunnerInvariant, NEW j \in Jobs, runner[j] = "saving",
         submitter' = submitter, canceller' = canceller,
         UNCHANGED <<job, result, error, token, updates>>,
         Return(j, RefusedAs(j))
  PROVE  RunnerInvariant'
<1>0. runner[j] # "absent"
  OBVIOUS
<1>1. AgreesAt(j)
  BY <1>0, RunnerFacts
<1>2. /\ runner' = [runner EXCEPT ![j] = "returning"]
      /\ outcome' = [outcome EXCEPT ![j] = RefusedAs(j)]
  BY DEF Return, Goto
<1>3. RefusedAs(j) \in {"cancelled", "error"} /\
        (RefusedAs(j) = "cancelled" => job[j].status = "cancelled")
  BY DEF RefusedAs
<1>4. CoreTypes'
  <2>1. runner' \in [Jobs -> RunnerStates] /\ outcome' \in [Jobs -> Outcomes]
    BY <1>2, <1>3 DEF RunnerInvariant, CoreTypes, RunnerStates, Outcomes
  <2> QED
    BY <2>1 DEF RunnerInvariant, CoreTypes
<1>5. OnlyAt(j) /\ runner'[j] = "returning" /\ outcome'[j] = RefusedAs(j) /\ job'[j] = job[j]
  BY <1>2 DEF RunnerInvariant, CoreTypes, OnlyAt
<1>6. AgreesAt(j)'
  BY <1>1, <1>3, <1>5 DEF AgreesAt, BeforeEnd
<1>7. runner'[j] # "absent"
  BY <1>5
<1> QED
  BY <1>0, <1>4, <1>5, <1>6, <1>7, RunnerStep

(* A result completes a running job or is refused. *)
LEMMA save_result_Step ==
  ASSUME RunnerInvariant, NEW j \in Jobs, save_result(j)
  PROVE  RunnerInvariant'
<1>1. /\ runner[j] = "saving" /\ submitter' = submitter /\ canceller' = canceller
      /\ UNCHANGED <<token, updates>>
  BY DEF save_result, At, workVars
<1>2. CASE job[j].status # "running"
  BY <1>1, <1>2, RefusedStep DEF save_result, Save, storeVars
<1>3. CASE job[j].status = "running"
  <2> DEFINE full == IF snapshot[j] THEN "full" ELSE "plain"
  <2>1. PICK w \in WriteResults :
          /\ Store(j, Committed(job[j], "completed"), w)
          /\ IF w = "lost" THEN UNCHANGED <<result, error>>
             ELSE result' = [result EXCEPT ![j] = full] /\ UNCHANGED error
          /\ Return(j, IF w = "ok" THEN "ok" ELSE "error")
    BY <1>3 DEF save_result, Save
  <2>2. full \in {"plain", "full"}
    OBVIOUS
  <2>3. /\ result' \in [Jobs -> {"none", "plain", "full"}] /\ error' \in [Jobs -> BOOLEAN]
        /\ \A k \in Jobs : k # j => result'[k] = result[k] /\ error'[k] = error[k]
        /\ w = "ok" => result'[j] # "none"
    BY <2>1, <2>2 DEF RunnerInvariant, CoreTypes
  <2> QED
    BY <1>1, <1>3, <2>1, <2>3, SaveStep
<1> QED
  BY <1>2, <1>3

(* An error fails a running job or is refused. *)
LEMMA save_error_Step ==
  ASSUME RunnerInvariant, NEW j \in Jobs, save_error(j)
  PROVE  RunnerInvariant'
<1>1. /\ runner[j] = "saving" /\ submitter' = submitter /\ canceller' = canceller
      /\ UNCHANGED <<token, updates>>
  BY DEF save_error, At, workVars
<1>2. CASE job[j].status # "running"
  BY <1>1, <1>2, RefusedStep DEF save_error, Save, storeVars
<1>3. CASE job[j].status = "running"
  <2>1. PICK w \in WriteResults :
          /\ Store(j, Committed(job[j], "failed"), w)
          /\ IF w = "lost" THEN UNCHANGED <<result, error>>
             ELSE error' = [error EXCEPT ![j] = TRUE] /\ UNCHANGED result
          /\ Return(j, IF w = "ok" THEN "failed" ELSE "error")
    BY <1>3 DEF save_error, Save
  <2>2. /\ result' \in [Jobs -> {"none", "plain", "full"}] /\ error' \in [Jobs -> BOOLEAN]
        /\ \A k \in Jobs : k # j => result'[k] = result[k] /\ error'[k] = error[k]
        /\ w = "ok" => error'[j]
    BY <2>1 DEF RunnerInvariant, CoreTypes
  <2> QED
    BY <1>1, <1>3, <2>1, <2>2, SaveStep
<1> QED
  BY <1>2, <1>3

-----------------------------------------------------------------------------
(* The cancellers.  A cancellation only ends active jobs, and the token    *)
(* follows the record.                                                     *)
LEMMA CancellerSteps ==
  ASSUME RunnerInvariant, NEW c \in Cancellers,
         Cancellation(c) \/ \E j \in Jobs : look_up(c, j)
  PROVE  RunnerInvariant'
<1> USE DEF RunnerInvariant
<1>1. ASSUME NEW j \in Jobs, look_up(c, j)
      PROVE  RunnerInvariant'
  <2>1. UNCHANGED <<job, result, error, token, submitter, runner, updates, outcome>>
    BY <1>1 DEF look_up, storeVars, workVars
  <2>2. canceller' = [canceller EXCEPT ![c] =
                        [pc |-> "found", job |-> j, active |-> j \in registry]]
    BY <1>1 DEF look_up
  <2>3. (j \in registry) \in BOOLEAN
    OBVIOUS
  <2>4. CoreTypes'
    BY <2>1, <2>2, <2>3 DEF CoreTypes, CancellerState
  <2>5. OneRunnerDecides'
    BY <2>1, <2>2 DEF CoreTypes, OneRunnerDecides
  <2> QED
    BY <2>1, <2>4, <2>5 DEF HeadIsStage, TokenMeansCancelled, CompletionAgrees
<1>2. CASE cancel_job(c)
  <2>0. PICK j \in Jobs, b \in BOOLEAN :
          canceller[c] = [pc |-> "found", job |-> j, active |-> b]
    BY <1>2 DEF cancel_job, CoreTypes, CancellerState
  <2> DEFINE st == Committed(job[j], "cancelled")
  <2>1. UNCHANGED <<result, error, token, submitter, runner, updates, outcome>>
    BY <1>2 DEF cancel_job, StorePlain, storeVars, workVars
  <2>2. \/ /\ UNCHANGED job \/ (is_active(job[j].status) /\ job' = [job EXCEPT ![j] = st])
           /\ canceller' = [canceller EXCEPT ![c] = [pc |-> "done"]]
        \/ /\ is_active(job[j].status) /\ job' = [job EXCEPT ![j] = st]
           /\ canceller' = [canceller EXCEPT ![c] =
                              [pc |-> "signal", job |-> j, active |-> TRUE]]
    <3>1. CASE is_active(job[j].status)
      <4>1. PICK w \in WriteResults :
              /\ Store(j, st, w)
              /\ \/ canceller' = [canceller EXCEPT ![c] = [pc |-> "done"]]
                 \/ /\ w = "ok"
                    /\ canceller' = [canceller EXCEPT ![c] =
                                       [pc |-> "signal", job |-> j, active |-> TRUE]]
        BY <1>2, <2>0, <3>1 DEF cancel_job, StorePlain
      <4> QED
        BY <3>1, <4>1, StoreEffect
    <3>2. CASE ~is_active(job[j].status)
      BY <1>2, <2>0, <3>2 DEF cancel_job, storeVars
    <3> QED
      BY <3>1, <3>2
  <2>3. is_active(job[j].status) => st \in JobRecord /\ st.status = "cancelled" /\ st # NoState
    BY ActiveIsRecord, RecordTypes DEF Committed, Status, NoState
  <2>4. /\ \A k \in Jobs : k # j => job'[k] = job[k]
        /\ job'[j] = job[j] \/ (is_active(job[j].status) /\ job'[j] = st)
    BY <2>2 DEF CoreTypes
  <2>5. CoreTypes'
    <3>1. job' \in [Jobs -> JobRecord \cup {NoState}]
      BY <2>2, <2>3 DEF CoreTypes
    <3>2. canceller' \in [Cancellers -> CancellerState]
      <4>1. /\ [pc |-> "done"] \in CancellerState
            /\ [pc |-> "signal", job |-> j, active |-> TRUE] \in CancellerState
        BY DEF CancellerState
      <4> QED
        BY <2>2, <4>1 DEF CoreTypes
    <3> QED
      BY <2>1, <3>1, <3>2 DEF CoreTypes
  <2>6. TokenMeansCancelled' /\ CompletionAgrees' /\ HeadIsStage'
    BY <2>1, <2>3, <2>4 DEF TokenMeansCancelled, CompletionAgrees, HeadIsStage, is_active
  <2>7. OneRunnerDecides'
    <3>1. \A k \in Jobs : job'[k] = job[k] \/
            (is_active(job[k].status) /\ job'[k].status = "cancelled" /\ job'[k] # NoState)
      BY <2>3, <2>4
    <3>2. \A s \in Submitters : submitter[s].pc = "created" => submitter[s].job \in Jobs
      BY DEF CoreTypes, SubmitterState
    <3>3. \A d \in Cancellers : canceller'[d].pc = "signal" =>
            /\ canceller'[d].job \in Jobs
            /\ job'[canceller'[d].job].status = "cancelled"
      <4> TAKE d \in Cancellers
      <4>1. CASE d # c /\ canceller[d].pc = "signal"
        <5>1. canceller'[d] = canceller[d] /\ canceller[d] \in CancellerState
          BY <2>2, <4>1 DEF CoreTypes
        <5>2. canceller[d].job \in Jobs
          BY <4>1, <5>1 DEF CancellerState
        <5>3. job[canceller[d].job].status = "cancelled"
          BY <4>1 DEF OneRunnerDecides
        <5> QED
          BY <3>1, <5>1, <5>2, <5>3
      <4>2. CASE d # c /\ canceller[d].pc # "signal"
        BY <2>2, <4>2 DEF CoreTypes
      <4>3. CASE d = c
        BY <2>2, <2>3, <2>4, <4>3 DEF CoreTypes
      <4> QED
        BY <4>1, <4>2, <4>3
    <3> QED
      BY <2>1, <3>1, <3>2, <3>3 DEF OneRunnerDecides, is_active
  <2> QED
    BY <2>5, <2>6, <2>7
<1>3. CASE signal_token(c)
  <2>0. PICK j \in Jobs : canceller[c].pc = "signal" /\ canceller[c].job = j
    BY <1>3 DEF signal_token, CoreTypes, CancellerState
  <2>1. UNCHANGED <<job, result, error, submitter, runner, updates, outcome>>
    BY <1>3 DEF signal_token, storeVars, workVars
  <2>2. /\ token' = [token EXCEPT ![j] = TRUE]
        /\ canceller' = [canceller EXCEPT ![c] = [pc |-> "done"]]
    BY <1>3, <2>0 DEF signal_token
  <2>3. job[j].status = "cancelled"
    BY <2>0 DEF OneRunnerDecides
  <2>4. CoreTypes'
    BY <2>1, <2>2 DEF CoreTypes, CancellerState
  <2>5. TokenMeansCancelled'
    BY <2>1, <2>2, <2>3 DEF CoreTypes, TokenMeansCancelled
  <2>6. OneRunnerDecides'
    BY <2>1, <2>2 DEF CoreTypes, OneRunnerDecides
  <2> QED
    BY <2>1, <2>4, <2>5, <2>6 DEF HeadIsStage, CompletionAgrees
<1> QED
  BY <1>1, <1>2, <1>3 DEF Cancellation

-----------------------------------------------------------------------------
(* Every step of every process keeps the invariant. *)
LEMMA NextInvariant == RunnerInvariant /\ [Next]_vars => RunnerInvariant'
<1> SUFFICES ASSUME RunnerInvariant, [Next]_vars
             PROVE  RunnerInvariant'
  OBVIOUS
<1>1. ASSUME NEW s \in Submitters, Submission(s) \/ \E j \in Jobs : try_admit(s, j)
      PROVE  RunnerInvariant'
  BY <1>1, SubmitterSteps
<1>2. ASSUME NEW p \in Publishers, Publication(p)
      PROVE  RunnerInvariant'
  BY <1>2, PublicationSteps
<1>3. ASSUME NEW j \in Jobs, finish(j) \/ \E u \in Updates : report(j, u)
      PROVE  RunnerInvariant'
  BY <1>3, WorkerSteps
<1>4. ASSUME NEW j \in Jobs, Run(j)
      PROVE  RunnerInvariant'
  BY <1>4, QuietRunnerSteps, mark_running_Step, update_progress_Step,
     persist_cancelled_Step, save_result_Step, save_error_Step DEF Run
<1>5. ASSUME NEW c \in Cancellers, Cancellation(c) \/ \E j \in Jobs : look_up(c, j)
      PROVE  RunnerInvariant'
  BY <1>5, CancellerSteps
<1>6. CASE UNCHANGED vars
  BY <1>6, Frame DEF vars
<1> QED
  BY <1>1, <1>2, <1>3, <1>4, <1>5, <1>6 DEF Next

(* The record, the token, the completion and the processes that decide     *)
(* them belong together in every reachable state, for any number of jobs,  *)
(* submitters and cancellers (src/jobs.rs with the cancel endpoint).       *)
THEOREM InvariantHolds == Spec => []RunnerInvariant
BY InitInvariant, NextInvariant, PTL DEF Spec

(* A worker is told to stop only when its job is already persisted as      *)
(* cancelled, however submissions, runners and cancel requests interleave. *)
THEOREM TokenFollowsRecord == Spec => []TokenMeansCancelled
BY InvariantHolds, PTL DEF RunnerInvariant

(* What the submitting request is told is what the store holds, whoever    *)
(* wins the race between result, failure and cancellation and whichever    *)
(* store operation fails.                                                  *)
THEOREM CompletionIsTrue == Spec => []CompletionAgrees
BY InvariantHolds, PTL DEF RunnerInvariant

-----------------------------------------------------------------------------
(* Refinement: whatever the processes do, the store goes through the       *)
(* lifecycle of JobLifecycle.                                              *)
LEMMA InitRefines == Init => Lifecycle!LifecycleInit
BY DEF Init, Lifecycle!LifecycleInit, Lifecycle!NoState, NoState, VisiblePayload

(* The store of the other jobs is left alone. *)
StoreOnlyAt(j) ==
  \A k \in Jobs : k # j =>
    job'[k] = job[k] /\ result'[k] = result[k] /\ error'[k] = error[k]

Unpaid(j) == VisiblePayload(j)' = VisiblePayload(j)

Paid(j, p) == VisiblePayload(j)' = VisiblePayload(j) \cup {p}

(* What a step may do to the record of a job and what shows beside it: a   *)
(* payload comes with its end, or alone when the save failed in between.   *)
MovesAlong(j) ==
  \/ job'[j] = job[j] /\ Unpaid(j)
  \/ /\ job'[j] = job[j] /\ is_active(job[j].status) /\ faults' = faults + 1
     /\ \E p \in {"result", "error"} : Paid(j, p)
  \/ job[j] = NoState /\ job'[j] = PendingState /\ Unpaid(j)
  \/ /\ is_active(job[j].status) /\ job'[j].status = "running"
     /\ job'[j] \in JobRecord
     /\ job[j].stage <= job'[j].stage /\ job[j].progress <= job'[j].progress
     /\ Unpaid(j)
  \/ /\ job[j].status = "running" /\ job'[j] = Committed(job[j], "completed")
     /\ Paid(j, "result")
  \/ /\ job[j].status = "running" /\ job'[j] = Committed(job[j], "failed")
     /\ Paid(j, "error")
  \/ is_active(job[j].status) /\ job'[j] = Committed(job[j], "cancelled") /\ Unpaid(j)

(* A progress report moves an active record forward or leaves it. *)
LEMMA ProgressForward ==
  ASSUME NEW st \in JobRecord, NEW stage \in 1..MaxStage, NEW progress \in Nat
  PROVE  LET new == WithProgress(st, stage, progress) IN
         /\ st.stage <= new.stage /\ st.progress <= new.progress /\ stage <= new.stage
         /\ new = st \/ new.status = "running"
BY StageAssumption, ProgressAssumption DEF WithProgress, JobRecord, Larger, Smaller

(* A change of one job's record, with the payload that shows beside it, is *)
(* a step of the lifecycle.                                                *)
LEMMA LifecycleStep ==
  ASSUME CoreTypes, CoreTypes', faults \in Nat, faults' \in {faults, faults + 1},
         NEW j \in Jobs, StoreOnlyAt(j), MovesAlong(j)
  PROVE  Lifecycle!LifecycleNext \/ UNCHANGED Lifecycle!lifecycleVars
<1> DEFINE shown == [k \in Jobs |-> VisiblePayload(k)]
           old == job[j]
           new == job'[j]
<1>1. job' = [job EXCEPT ![j] = new]
  BY DEF CoreTypes, StoreOnlyAt
<1>2. \A k \in Jobs : k # j => VisiblePayload(k)' = VisiblePayload(k)
  BY DEF StoreOnlyAt, VisiblePayload
<1>3. /\ Unpaid(j) => shown' = shown
      /\ \A p : Paid(j, p) => Lifecycle!Deliver(j, p)
  BY <1>2 DEF Unpaid, Paid, Lifecycle!Deliver
<1>4. faults <= faults' /\ (faults' # faults => faults < faults')
  OBVIOUS
<1>5. is_active(old.status) \/ old.status = "running" => old \in JobRecord
  BY ActiveIsRecord DEF is_active
<1>e. ASSUME \/ Lifecycle!FailUnseen \/ Lifecycle!LeaveBehind(j)
             \/ Lifecycle!Create(j) \/ Lifecycle!Advance(j) \/ Lifecycle!Complete(j)
             \/ Lifecycle!Fail(j) \/ Lifecycle!Cancel(j)
      PROVE  Lifecycle!LifecycleNext
  BY <1>4, <1>e DEF Lifecycle!LifecycleNext
<1> HIDE DEF shown
<1>6. CASE new = old /\ Unpaid(j)
  <2>1. job' = job
    BY <1>1, <1>6 DEF CoreTypes
  <2>2. CASE faults' = faults
    BY <1>3, <1>6, <2>1, <2>2 DEF Lifecycle!lifecycleVars, shown
  <2>3. CASE faults' # faults
    <3>1. Lifecycle!FailUnseen
      BY <1>3, <1>4, <1>6, <2>1, <2>3 DEF Lifecycle!FailUnseen, shown
    <3> QED
      BY <1>e, <3>1
  <2> QED
    BY <2>2, <2>3
<1>7. ASSUME new = old, is_active(old.status), faults' = faults + 1,
             NEW p \in {"result", "error"}, Paid(j, p)
      PROVE  Lifecycle!LifecycleNext
  <2>1. job' = job
    BY <1>1, <1>7 DEF CoreTypes
  <2>2. faults < faults'
    BY <1>4, <1>7
  <2>3. Lifecycle!LeaveBehind(j)
    BY <1>3, <1>7, <2>1, <2>2 DEF Lifecycle!LeaveBehind, Lifecycle!is_active, is_active
  <2> QED
    BY <1>e, <2>3
<1>8. CASE old = NoState /\ new = PendingState /\ Unpaid(j)
  <2>1. Lifecycle!Create(j)
    BY <1>1, <1>3, <1>8 DEF Lifecycle!Create, Lifecycle!NoState, Lifecycle!PendingState,
                            NoState, PendingState, shown
  <2> QED
    BY <1>e, <2>1
<1>9. CASE /\ is_active(old.status) /\ new.status = "running" /\ new \in JobRecord
           /\ old.stage <= new.stage /\ old.progress <= new.progress
           /\ Unpaid(j)
  <2>1. new.stage \in old.stage..MaxStage /\ new.progress \in old.progress..MaxProgress
    BY <1>5, <1>9, StageAssumption, ProgressAssumption DEF JobRecord
  <2>2. new = [status |-> "running", stage |-> new.stage, progress |-> new.progress]
    BY <1>9 DEF JobRecord
  <2>3. Lifecycle!Advance(j)
    BY <1>1, <1>3, <1>9, <2>1, <2>2
       DEF Lifecycle!Advance, Lifecycle!is_active, is_active, shown
  <2> QED
    BY <1>e, <2>3
<1>10. CASE /\ old.status = "running" /\ new = Committed(old, "completed")
            /\ Paid(j, "result")
  <2>1. new = [status |-> "completed", stage |-> old.stage, progress |-> MaxProgress]
    BY <1>10 DEF Committed
  <2>2. Lifecycle!Complete(j)
    BY <1>1, <1>3, <1>10, <2>1 DEF Lifecycle!Complete
  <2> QED
    BY <1>e, <2>2
<1>11. CASE /\ old.status = "running" /\ new = Committed(old, "failed")
            /\ Paid(j, "error")
  <2>1. new = [old EXCEPT !.status = "failed"]
    BY <1>5, <1>11 DEF Committed, JobRecord
  <2>2. Lifecycle!Fail(j)
    BY <1>1, <1>3, <1>11, <2>1 DEF Lifecycle!Fail, Lifecycle!is_active
  <2> QED
    BY <1>e, <2>2
<1>12. CASE is_active(old.status) /\ new = Committed(old, "cancelled") /\ Unpaid(j)
  <2>1. new = [old EXCEPT !.status = "cancelled"]
    BY <1>5, <1>12 DEF Committed, JobRecord
  <2>2. Lifecycle!Cancel(j)
    BY <1>1, <1>3, <1>12, <2>1 DEF Lifecycle!Cancel, Lifecycle!is_active, is_active, shown
  <2> QED
    BY <1>e, <2>2
<1> QED
  BY <1>6, <1>7, <1>8, <1>9, <1>10, <1>11, <1>12 DEF MovesAlong

(* Most steps do not touch the store. *)
LEMMA StoreUntouched ==
  ASSUME UNCHANGED <<job, result, error>>, NEW j \in Jobs
  PROVE  StoreOnlyAt(j) /\ MovesAlong(j)
BY DEF StoreOnlyAt, MovesAlong, Unpaid, VisiblePayload

(* A store operation writes the record of its job or none. *)
LEMMA StoreWrites ==
  ASSUME CoreTypes, NEW j \in Jobs, NEW record, NEW w, Store(j, record, w)
  PROVE  /\ \A k \in Jobs : k # j => job'[k] = job[k]
         /\ w \in {"ok", "late"} => job'[j] = record
         /\ w \notin {"ok", "late"} => job'[j] = job[j] /\ faults' = faults + 1
BY DEF Store, CoreTypes

(* The operations that write no payload. *)
LEMMA PlainStoreMoves ==
  ASSUME CoreTypes, NEW j \in Jobs, NEW record, NEW w, StorePlain(j, record, w),
         \/ job[j] = NoState /\ record = PendingState
         \/ /\ is_active(job[j].status)
            /\ \/ record = job[j]
               \/ /\ record \in JobRecord /\ record.status = "running"
                  /\ job[j].stage <= record.stage /\ job[j].progress <= record.progress
               \/ record = Committed(job[j], "cancelled")
  PROVE  StoreOnlyAt(j) /\ MovesAlong(j)
<1>1. /\ \A k \in Jobs : k # j => job'[k] = job[k]
      /\ job'[j] = record \/ job'[j] = job[j]
      /\ UNCHANGED <<result, error>>
  BY StoreWrites DEF StorePlain
<1>2. StoreOnlyAt(j)
  BY <1>1 DEF StoreOnlyAt
<1>3. Unpaid(j)
  BY <1>1 DEF VisiblePayload, Unpaid
<1> QED
  BY <1>1, <1>2, <1>3 DEF MovesAlong

(* Creation, as the lifecycle sees it. *)
LEMMA SubmitterRefines ==
  ASSUME RunnerInvariant, RunnerInvariant', NEW s \in Submitters,
         Submission(s) \/ \E j \in Jobs : try_admit(s, j)
  PROVE  \E j \in Jobs : StoreOnlyAt(j) /\ MovesAlong(j)
<1> USE DEF RunnerInvariant
<1>0. PICK i \in Jobs : TRUE
  BY DEF Submission, create_job, spawn_runner, try_admit, CoreTypes, SubmitterState
<1>1. CASE UNCHANGED <<job, result, error>>
  BY <1>0, <1>1, StoreUntouched
<1>2. CASE ~UNCHANGED <<job, result, error>>
  <2>1. create_job(s)
    BY <1>2 DEF Submission, spawn_runner, try_admit, storeVars
  <2>2. PICK j \in Jobs : submitter[s] = [pc |-> "admitted", job |-> j]
    BY <2>1 DEF create_job, CoreTypes, SubmitterState
  <2>3. job[j] = NoState /\ \E w \in WriteResults : StorePlain(j, PendingState, w)
    BY <1>2, <2>1, <2>2 DEF create_job, storeVars
  <2>4. StoreOnlyAt(j) /\ MovesAlong(j)
    BY <2>3, PlainStoreMoves
  <2> QED
    BY <2>4
<1> QED
  BY <1>1, <1>2

(* Cancellation by request, as the lifecycle sees it. *)
LEMMA CancellerRefines ==
  ASSUME RunnerInvariant, RunnerInvariant', NEW c \in Cancellers,
         Cancellation(c) \/ \E j \in Jobs : look_up(c, j)
  PROVE  \E j \in Jobs : StoreOnlyAt(j) /\ MovesAlong(j)
<1> USE DEF RunnerInvariant
<1>0. PICK i \in Jobs : TRUE
  BY DEF Cancellation, cancel_job, signal_token, look_up, CoreTypes, CancellerState
<1>1. CASE UNCHANGED <<job, result, error>>
  BY <1>0, <1>1, StoreUntouched
<1>2. CASE ~UNCHANGED <<job, result, error>>
  <2>1. cancel_job(c)
    BY <1>2 DEF Cancellation, signal_token, look_up, storeVars
  <2>2. PICK j \in Jobs : canceller[c].job = j
    BY <2>1 DEF cancel_job, CoreTypes, CancellerState
  <2>3. /\ is_active(job[j].status)
        /\ \E w \in WriteResults : StorePlain(j, Committed(job[j], "cancelled"), w)
    BY <1>2, <2>1, <2>2 DEF cancel_job, storeVars
  <2>4. StoreOnlyAt(j) /\ MovesAlong(j)
    BY <2>3, PlainStoreMoves
  <2> QED
    BY <2>4
<1> QED
  BY <1>1, <1>2

(* The payload is written before the record: it is there with the record,  *)
(* or alone when the operation fails in between.                           *)
LEMMA SaveMoves ==
  ASSUME CoreTypes, CoreTypes', NEW j \in Jobs, job[j].status = "running",
         NEW status \in {"completed", "failed"}, NEW w \in {"ok", "lost", "payload", "late"},
         Store(j, Committed(job[j], status), w),
         \A k \in Jobs : k # j => result'[k] = result[k] /\ error'[k] = error[k],
         w = "lost" => UNCHANGED <<result, error>>,
         w # "lost" => IF status = "completed"
                       THEN result'[j] # "none" /\ error'[j] = error[j]
                       ELSE error'[j] /\ result'[j] = result[j]
  PROVE  StoreOnlyAt(j) /\ MovesAlong(j)
<1>1. /\ \A k \in Jobs : k # j => job'[k] = job[k]
      /\ w \in {"ok", "late"} => job'[j] = Committed(job[j], status)
      /\ w \notin {"ok", "late"} => job'[j] = job[j] /\ faults' = faults + 1
  BY StoreWrites
<1>2. StoreOnlyAt(j)
  BY <1>1 DEF StoreOnlyAt
<1>3. w = "lost" => Unpaid(j)
  BY DEF VisiblePayload, Unpaid
<1>4. w # "lost" => Paid(j, IF status = "completed" THEN "result" ELSE "error")
  BY DEF VisiblePayload, Paid
<1>5. is_active(job[j].status)
  BY DEF is_active
<1> QED
  BY <1>1, <1>2, <1>3, <1>4, <1>5 DEF MovesAlong

(* The runner, as the lifecycle sees it. *)
LEMMA RunRefines ==
  ASSUME RunnerInvariant, RunnerInvariant', NEW j \in Jobs, Run(j)
  PROVE  StoreOnlyAt(j) /\ MovesAlong(j)
<1> SUFFICES ASSUME ~UNCHANGED <<job, result, error>>
             PROVE  StoreOnlyAt(j) /\ MovesAlong(j)
  BY StoreUntouched
<1>0. \/ mark_running(j) \/ update_progress(j) \/ persist_cancelled(j)
      \/ save_result(j) \/ save_error(j)
  BY DEF Run, acquire_permit, cancelled_in_queue, check_cancelled, wait_for_stage,
         append_solver_event, keep_snapshot, updates_closed, join_worker, release_permit,
         remove_activity, send_completion, storeVars
<1>1. runner[j] # "absent" /\ job[j] \in JobRecord /\ AgreesAt(j)
  <2>1. runner[j] # "absent"
    BY <1>0 DEF mark_running, update_progress, persist_cancelled, save_result, save_error, At
  <2> QED
    BY <2>1, RunnerFacts
<1>2. CASE mark_running(j)
  <2>1. /\ is_active(job[j].status)
        /\ \E w \in WriteResults : StorePlain(j, MarkedRunning(job[j]), w)
    BY <1>2 DEF mark_running, storeVars
  <2>2. /\ MarkedRunning(job[j]) \in JobRecord /\ MarkedRunning(job[j]).status = "running"
        /\ job[j].stage <= MarkedRunning(job[j]).stage
        /\ job[j].progress <= MarkedRunning(job[j]).progress
    BY <1>1, RecordTypes, StageAssumption, ProgressAssumption DEF MarkedRunning, JobRecord
  <2> QED
    BY <2>1, <2>2, PlainStoreMoves DEF RunnerInvariant
<1>3. CASE update_progress(j)
  <2> DEFINE stage == Head(updates[j])
             st == WithProgress(job[j], stage, StageStart(stage))
  <2>1. /\ is_active(job[j].status)
        /\ \E w \in WriteResults : StorePlain(j, st, w)
    BY <1>3 DEF update_progress, storeVars
  <2>2. stage \in 1..MaxStage
    BY <1>1, <1>3 DEF update_progress, At, AgreesAt
  <2>3. st \in JobRecord
    BY <1>1, <2>2, RecordTypes, StageStartType
  <2>4. /\ job[j].stage <= st.stage /\ job[j].progress <= st.progress
        /\ st = job[j] \/ st.status = "running"
    BY <1>1, <2>2, ProgressForward, StageStartType
  <2> QED
    BY <2>1, <2>3, <2>4, PlainStoreMoves DEF RunnerInvariant
<1>4. CASE persist_cancelled(j)
  <2>1. /\ is_active(job[j].status)
        /\ \E w \in WriteResults : StorePlain(j, Committed(job[j], "cancelled"), w)
    BY <1>4 DEF persist_cancelled, storeVars
  <2> QED
    BY <2>1, PlainStoreMoves DEF RunnerInvariant
<1>5. CASE save_result(j)
  <2> DEFINE full == IF snapshot[j] THEN "full" ELSE "plain"
  <2>1. /\ job[j].status = "running"
        /\ \E w \in WriteResults :
             /\ Store(j, Committed(job[j], "completed"), w)
             /\ IF w = "lost" THEN UNCHANGED <<result, error>>
                ELSE result' = [result EXCEPT ![j] = full] /\ UNCHANGED error
    BY <1>5 DEF save_result, Save, storeVars
  <2>2. PICK w \in WriteResults :
             /\ Store(j, Committed(job[j], "completed"), w)
             /\ IF w = "lost" THEN UNCHANGED <<result, error>>
                ELSE result' = [result EXCEPT ![j] = full] /\ UNCHANGED error
    BY <2>1
  <2>3. full # "none"
    OBVIOUS
  <2>4. /\ \A k \in Jobs : k # j => result'[k] = result[k] /\ error'[k] = error[k]
        /\ w # "lost" => result'[j] # "none" /\ error'[j] = error[j]
        /\ w \in {"ok", "lost", "payload", "late"}
    BY <2>2, <2>3 DEF RunnerInvariant, CoreTypes, WriteResults
  <2> QED
    BY <2>1, <2>2, <2>4, SaveMoves DEF RunnerInvariant
<1>6. CASE save_error(j)
  <2>1. job[j].status = "running"
    BY <1>6 DEF save_error, Save, storeVars
  <2>2. PICK w \in WriteResults :
             /\ Store(j, Committed(job[j], "failed"), w)
             /\ IF w = "lost" THEN UNCHANGED <<result, error>>
                ELSE error' = [error EXCEPT ![j] = TRUE] /\ UNCHANGED result
    BY <1>6, <2>1 DEF save_error, Save
  <2>3. /\ \A k \in Jobs : k # j => result'[k] = result[k] /\ error'[k] = error[k]
        /\ w # "lost" => error'[j] /\ result'[j] = result[j]
        /\ w \in {"ok", "lost", "payload", "late"}
    BY <2>2 DEF RunnerInvariant, CoreTypes, WriteResults
  <2> QED
    BY <2>1, <2>2, <2>3, SaveMoves DEF RunnerInvariant
<1> QED
  BY <1>0, <1>2, <1>3, <1>4, <1>5, <1>6

(* Every step changes the store at one job and moves its record along. *)
LEMMA NextMoves ==
  ASSUME RunnerInvariant, RunnerInvariant', [Next]_vars, Jobs # {}
  PROVE  \E j \in Jobs : StoreOnlyAt(j) /\ MovesAlong(j)
<1>1. CASE UNCHANGED <<job, result, error>>
  BY <1>1, StoreUntouched
<1>2. CASE ~UNCHANGED <<job, result, error>>
  <2>1. ASSUME NEW p \in Publishers, Publication(p)
        PROVE  FALSE
    BY <1>2, <2>1 DEF Publication, read_persisted, bump_sequence, record_event_sequence,
                      send_event, storeVars
  <2>2. ASSUME NEW j \in Jobs, finish(j) \/ \E u \in Updates : report(j, u)
        PROVE  FALSE
    BY <1>2, <2>2 DEF finish, report, storeVars
  <2>3. ~UNCHANGED vars
    BY <1>2 DEF vars
  <2> QED
    BY <2>1, <2>2, <2>3, SubmitterRefines, CancellerRefines, RunRefines DEF Next
<1> QED
  BY <1>1, <1>2

(* A step counts at most one failed store operation. *)
LEMMA FaultsCount == ASSUME [Next]_vars PROVE faults' \in {faults, faults + 1}
<1>1. ASSUME NEW j, NEW record, NEW w, Store(j, record, w)
      PROVE  faults' \in {faults, faults + 1}
  BY <1>1 DEF Store
<1>2. ASSUME NEW fails, MayFail(fails)
      PROVE  faults' \in {faults, faults + 1}
  BY <1>2 DEF MayFail
<1> SUFFICES ASSUME faults' # faults
             PROVE  faults' = faults + 1
  OBVIOUS
<1>3. ASSUME NEW s \in Submitters, Submission(s) \/ \E j \in Jobs : try_admit(s, j)
      PROVE  faults' = faults + 1
  BY <1>1, <1>3 DEF Submission, create_job, spawn_runner, try_admit, StorePlain, storeVars
<1>4. ASSUME NEW p \in Publishers, Publication(p)
      PROVE  faults' = faults + 1
  BY <1>2, <1>4 DEF Publication, read_persisted, bump_sequence, record_event_sequence,
                    send_event, storeVars
<1>5. ASSUME NEW j \in Jobs, Run(j)
      PROVE  faults' = faults + 1
  <2>1. \/ mark_running(j) \/ update_progress(j) \/ persist_cancelled(j)
        \/ save_result(j) \/ save_error(j) \/ append_solver_event(j)
    BY <1>5 DEF Run, acquire_permit, cancelled_in_queue, check_cancelled, wait_for_stage,
           keep_snapshot, updates_closed, join_worker, release_permit,
           remove_activity, send_completion, storeVars
  <2>2. CASE mark_running(j)
    BY <1>1, <2>2 DEF mark_running, StorePlain, storeVars
  <2>3. CASE update_progress(j)
    BY <1>1, <2>3 DEF update_progress, StorePlain, storeVars
  <2>4. CASE persist_cancelled(j)
    BY <1>1, <2>4 DEF persist_cancelled, StorePlain, storeVars
  <2>5. CASE save_result(j)
    BY <1>1, <2>5 DEF save_result, Save, storeVars
  <2>6. CASE save_error(j)
    BY <1>1, <2>6 DEF save_error, Save, storeVars
  <2>7. CASE append_solver_event(j)
    BY <1>2, <2>7 DEF append_solver_event, storeVars
  <2> QED
    BY <2>1, <2>2, <2>3, <2>4, <2>5, <2>6, <2>7
<1>6. ASSUME NEW c \in Cancellers, Cancellation(c) \/ \E j \in Jobs : look_up(c, j)
      PROVE  faults' = faults + 1
  BY <1>1, <1>6 DEF Cancellation, cancel_job, signal_token, look_up, StorePlain, storeVars
<1>7. ~UNCHANGED vars
  BY DEF vars
<1>8. ASSUME NEW j \in Jobs, finish(j) \/ \E u \in Updates : report(j, u)
      PROVE  FALSE
  BY <1>8 DEF finish, report, storeVars
<1> QED
  BY <1>3, <1>4, <1>5, <1>6, <1>7, <1>8 DEF Next

(* Every step is a step of the lifecycle or invisible to it. *)
LEMMA NextRefines ==
  ASSUME RunnerInvariant, RunnerInvariant', faults \in Nat, [Next]_vars
  PROVE  Lifecycle!LifecycleNext \/ UNCHANGED Lifecycle!lifecycleVars
<1>1. faults' \in {faults, faults + 1}
  BY FaultsCount
<1>2. CASE Jobs # {}
  BY <1>1, <1>2, NextMoves, LifecycleStep DEF RunnerInvariant
<1>3. CASE Jobs = {}
  <2>1. CASE faults' = faults
    BY <1>3, <2>1 DEF Lifecycle!lifecycleVars, RunnerInvariant, CoreTypes
  <2>2. CASE faults' = faults + 1
    <3>1. Lifecycle!FailUnseen
      BY <1>3, <2>2 DEF Lifecycle!FailUnseen, RunnerInvariant, CoreTypes
    <3> QED
      BY <2>2, <3>1 DEF Lifecycle!LifecycleNext
  <2> QED
    BY <1>1, <2>1, <2>2
<1> QED
  BY <1>2, <1>3

(* The failed operations are counted from zero. *)
FaultsCounted == faults \in Nat

LEMMA FaultsAreNatural == Spec => []FaultsCounted
<1>1. Init => FaultsCounted
  BY DEF Init, FaultsCounted
<1>2. FaultsCounted /\ [Next]_vars => FaultsCounted'
  BY FaultsCount DEF FaultsCounted
<1> QED
  BY <1>1, <1>2, PTL DEF Spec

(* Runners, workers and cancel requests together implement the atomic      *)
(* lifecycle: every job is created once, only moves forward and ends       *)
(* exactly once with the payload of its end, whoever wins the race, and a  *)
(* payload that is not that of its end is left only by a failed operation. *)
THEOREM Refinement == Spec => ImplementsLifecycle
<1>1. Init => Lifecycle!LifecycleInit
  BY InitRefines
<1>2. RunnerInvariant /\ RunnerInvariant' /\ FaultsCounted /\ [Next]_vars
        => [Lifecycle!LifecycleNext]_(Lifecycle!lifecycleVars)
  BY NextRefines DEF FaultsCounted
<1> QED
  BY <1>1, <1>2, InvariantHolds, FaultsAreNatural, PTL
     DEF Spec, ImplementsLifecycle, Lifecycle!LifecycleSpec

(* What get_job returns beside a record.                                   *)
PayloadHeld(k) ==
  /\ PayloadOf(job[k].status) \subseteq VisiblePayload(k)
  /\ faults = 0 => VisiblePayload(k) = PayloadOf(job[k].status)

(* A job that moves along keeps it so. *)
LEMMA MoveKeepsPayload ==
  ASSUME NEW j \in Jobs, job[j] \in JobRecord \cup {NoState}, faults \in Nat,
         faults' \in {faults, faults + 1}, MovesAlong(j), PayloadHeld(j)
  PROVE  PayloadHeld(j)'
<1> DEFINE shown == VisiblePayload(j)
<1>1. faults' = 0 => faults = 0
  OBVIOUS
<1>2. /\ \A status : is_active(status) => PayloadOf(status) = {}
      /\ PayloadOf("running") = {} /\ PayloadOf("cancelled") = {}
      /\ PayloadOf("completed") = {"result"} /\ PayloadOf("failed") = {"error"}
  BY DEF PayloadOf, is_active
<1>3. PayloadOf(NoState.status) = {} /\ PayloadOf(PendingState.status) = {}
  BY DEF PayloadOf, NoState, PendingState
<1>4. \A st, status : Committed(st, status).status = status
  BY DEF Committed
<1>5. CASE job'[j] = job[j] /\ Unpaid(j)
  BY <1>1, <1>5 DEF PayloadHeld, Unpaid
<1>6. CASE /\ job'[j] = job[j] /\ is_active(job[j].status) /\ faults' = faults + 1
           /\ \E p \in {"result", "error"} : Paid(j, p)
  BY <1>2, <1>6 DEF PayloadHeld, Paid
<1>7. CASE /\ Unpaid(j) /\ PayloadOf(job[j].status) = {} /\ PayloadOf(job'[j].status) = {}
  BY <1>1, <1>7 DEF PayloadHeld, Unpaid
<1>8. CASE job[j].status = "running" /\ job'[j] = Committed(job[j], "completed")
           /\ Paid(j, "result")
  BY <1>1, <1>2, <1>4, <1>8 DEF PayloadHeld, Paid
<1>9. CASE job[j].status = "running" /\ job'[j] = Committed(job[j], "failed") /\ Paid(j, "error")
  BY <1>1, <1>2, <1>4, <1>9 DEF PayloadHeld, Paid
<1> QED
  BY <1>2, <1>3, <1>4, <1>5, <1>6, <1>7, <1>8, <1>9 DEF MovesAlong

(* What get_job returns while nothing restarts: an end comes with its      *)
(* payload, and until the first failed store operation a completed job has *)
(* its result alone, a failed one its error alone, and no other job has    *)
(* either.                                                                 *)
THEOREM PayloadKept == Spec => []Lifecycle!PayloadAsPromised
<1> DEFINE Kept == \A k \in Jobs : PayloadHeld(k)
<1>1. Init => Kept
  BY DEF Init, PayloadHeld, VisiblePayload, PayloadOf, NoState
<1>2. Kept /\ RunnerInvariant /\ RunnerInvariant' /\ FaultsCounted /\ [Next]_vars => Kept'
  <2> SUFFICES ASSUME Kept, RunnerInvariant, RunnerInvariant', FaultsCounted, [Next]_vars,
                      NEW k \in Jobs
               PROVE  PayloadHeld(k)'
    OBVIOUS
  <2>1. faults \in Nat /\ faults' \in {faults, faults + 1}
    BY FaultsCount DEF FaultsCounted
  <2>2. PICK j \in Jobs : StoreOnlyAt(j) /\ MovesAlong(j)
    BY <2>1, NextMoves
  <2>3. CASE k = j
    BY <2>1, <2>2, <2>3, MoveKeepsPayload DEF RunnerInvariant, CoreTypes
  <2>4. CASE k # j
    <3>1. job'[k] = job[k] /\ VisiblePayload(k)' = VisiblePayload(k)
      BY <2>2, <2>4 DEF StoreOnlyAt, VisiblePayload
    <3>2. faults' = 0 => faults = 0
      BY <2>1
    <3> QED
      BY <3>1, <3>2 DEF PayloadHeld
  <2> QED
    BY <2>3, <2>4
<1>3. Kept => Lifecycle!PayloadAsPromised
  BY DEF PayloadHeld, Lifecycle!PayloadAsPromised, Lifecycle!PayloadOf, PayloadOf
<1> HIDE DEF Kept
<1> QED
  BY <1>1, <1>2, <1>3, InvariantHolds, FaultsAreNatural, PTL DEF Spec

-----------------------------------------------------------------------------
(* The limits.  Between acquire_permit and release_permit a runner holds   *)
(* an execution permit; an admission permit belongs to the submitter until *)
(* it spawns the runner, and then to the runner until its completion.      *)
WorkingStates == {"consuming", "updating", "joining", "cancelling", "saving"}

HoldingStates == {"acquired", "marking", "returning"} \cup WorkingStates

HoldingPermit == {j \in Jobs : runner[j] \in HoldingStates}

Admitted == {s \in Submitters : submitter[s].pc \in {"admitted", "created"}}

Live == {j \in Jobs : runner[j] \notin {"absent", "done"}}

WorkerStates == {"none", "executing", "ok", "failed", "cancelled", "panicked"}

PermitsCounted ==
  /\ permits \in Nat
  /\ IsFiniteSet(HoldingPermit)
  /\ permits + Cardinality(HoldingPermit) = MaxConcurrent

AdmissionsCounted ==
  /\ admission \in Nat
  /\ IsFiniteSet(Admitted) /\ IsFiniteSet(Live)
  /\ admission + Cardinality(Admitted) + Cardinality(Live) = MaxOutstanding

(* The runner waits for its worker, and works only for a job that started. *)
RunnerWaits ==
  \A j \in Jobs :
    /\ worker[j] = "executing" => runner[j] \in {"consuming", "updating", "joining"}
    /\ runner[j] \in WorkingStates => job[j].status \in {"running", "cancelled"}

(* While the store works an active job has a process that will end it. *)
Owned(j) ==
  \/ runner[j] \in BeforeEnd
  \/ \E s \in Submitters : submitter[s].pc = "created" /\ submitter[s].job = j

ActiveIsOwned == faults = 0 => \A j \in Jobs : is_active(job[j].status) => Owned(j)

LimitTypes ==
  /\ worker \in [Jobs -> WorkerStates]
  /\ faults \in 0..MaxFaults
  /\ registry \subseteq Jobs

LimitInvariant ==
  LimitTypes /\ PermitsCounted /\ AdmissionsCounted /\ RunnerWaits /\ ActiveIsOwned

(* A failure is counted, and none is when none happened. *)
LEMMA WriteFaults ==
  ASSUME faults \in 0..MaxFaults, NEW j, NEW record, NEW w \in WriteResults, Store(j, record, w)
  PROVE  faults' \in 0..MaxFaults /\ (faults' = 0 => faults = 0 /\ w = "ok")
BY BoundAssumption DEF WriteResults, Store

(* The same when the failure is only logged. *)
LEMMA LoggedFaults ==
  ASSUME faults \in 0..MaxFaults, NEW fails \in BOOLEAN, MayFail(fails)
  PROVE  faults' \in 0..MaxFaults /\ (faults' = 0 => faults = 0 /\ ~fails)
BY BoundAssumption DEF MayFail

(* A step of a runner, as the limits see it. *)
LEMMA LimitStep ==
  ASSUME CoreTypes, LimitInvariant, NEW j \in Jobs, NEW pc \in RunnerStates,
         runner[j] \notin {"absent", "done"}, pc # "absent",
         runner' = [runner EXCEPT ![j] = pc],
         submitter' = submitter,
         \A k \in Jobs : k # j => job'[k] = job[k] /\ worker'[k] = worker[k],
         LimitTypes', faults' = 0 => faults = 0,
         worker'[j] = "executing" => pc \in {"consuming", "updating", "joining"},
         pc \in WorkingStates => job'[j].status \in {"running", "cancelled"},
         faults' = 0 /\ is_active(job'[j].status) => pc \in BeforeEnd,
         \/ permits' = permits /\ (runner[j] \in HoldingStates <=> pc \in HoldingStates)
         \/ /\ permits > 0 /\ permits' = permits - 1
            /\ runner[j] \notin HoldingStates /\ pc \in HoldingStates
         \/ permits' = permits + 1 /\ runner[j] \in HoldingStates /\ pc \notin HoldingStates,
         admission' = IF pc = "done" THEN admission + 1 ELSE admission
  PROVE  LimitInvariant'
<1> USE DEF LimitInvariant
<1>0. runner'[j] = pc /\ \A k \in Jobs : k # j => runner'[k] = runner[k]
  BY DEF CoreTypes
<1>1. PermitsCounted'
  <2>1. CASE permits' = permits /\ (runner[j] \in HoldingStates <=> pc \in HoldingStates)
    <3>1. HoldingPermit' = HoldingPermit
      BY <1>0, <2>1 DEF HoldingPermit
    <3> QED
      BY <2>1, <3>1 DEF PermitsCounted
  <2>2. CASE /\ permits > 0 /\ permits' = permits - 1
             /\ runner[j] \notin HoldingStates /\ pc \in HoldingStates
    <3>1. HoldingPermit' = HoldingPermit \cup {j} /\ j \notin HoldingPermit
      BY <1>0, <2>2 DEF HoldingPermit
    <3>2. IsFiniteSet(HoldingPermit') /\ Cardinality(HoldingPermit') = Cardinality(HoldingPermit) + 1
      BY <3>1, FS_AddElement DEF PermitsCounted
    <3>3. Cardinality(HoldingPermit) \in Nat
      BY FS_CardinalityType DEF PermitsCounted
    <3> QED
      BY <2>2, <3>2, <3>3, LimitAssumption DEF PermitsCounted
  <2>3. CASE permits' = permits + 1 /\ runner[j] \in HoldingStates /\ pc \notin HoldingStates
    <3>1. HoldingPermit' = HoldingPermit \ {j} /\ j \in HoldingPermit
      BY <1>0, <2>3 DEF HoldingPermit
    <3>2. IsFiniteSet(HoldingPermit') /\ Cardinality(HoldingPermit') = Cardinality(HoldingPermit) - 1
      BY <3>1, FS_RemoveElement DEF PermitsCounted
    <3>3. Cardinality(HoldingPermit) \in Nat
      BY FS_CardinalityType DEF PermitsCounted
    <3> QED
      BY <2>3, <3>2, <3>3, LimitAssumption DEF PermitsCounted
  <2> QED
    BY <2>1, <2>2, <2>3
<1>2. AdmissionsCounted'
  <2>1. Admitted' = Admitted
    BY DEF Admitted
  <2>2. CASE pc # "done"
    <3>1. Live' = Live
      BY <1>0, <2>2 DEF Live
    <3> QED
      BY <2>1, <2>2, <3>1 DEF AdmissionsCounted
  <2>3. CASE pc = "done"
    <3>1. Live' = Live \ {j} /\ j \in Live
      BY <1>0, <2>3 DEF Live
    <3>2. IsFiniteSet(Live') /\ Cardinality(Live') = Cardinality(Live) - 1
      BY <3>1, FS_RemoveElement DEF AdmissionsCounted
    <3>3. Cardinality(Live) \in Nat /\ Cardinality(Admitted) \in Nat
      BY FS_CardinalityType DEF AdmissionsCounted
    <3> QED
      BY <2>1, <2>3, <3>2, <3>3, LimitAssumption DEF AdmissionsCounted
  <2> QED
    BY <2>2, <2>3
<1>3. RunnerWaits'
  BY <1>0 DEF RunnerWaits
<1>4. ActiveIsOwned'
  BY <1>0 DEF ActiveIsOwned, Owned
<1> QED
  BY <1>1, <1>2, <1>3, <1>4

(* The runner takes and returns its permit once and waits for its worker.  *)
LEMMA RunLimits ==
  ASSUME RunnerInvariant, RunnerInvariant', LimitInvariant, NEW j \in Jobs, Run(j)
  PROVE  LimitInvariant'
<1> USE DEF At, Goto, Return, RunnerInvariant
<1> DEFINE Quiet == UNCHANGED <<job, submitter, worker, faults>>
<1>a. faults \in 0..MaxFaults /\ registry \subseteq Jobs /\ worker \in [Jobs -> WorkerStates]
  BY DEF LimitInvariant, LimitTypes
<1>b. /\ worker[j] = "executing" => runner[j] \in {"consuming", "updating", "joining"}
      /\ runner[j] \in WorkingStates => job[j].status \in {"running", "cancelled"}
  BY DEF LimitInvariant, RunnerWaits
<1>c. runner \in [Jobs -> RunnerStates] /\ (token[j] => job[j].status = "cancelled")
  BY DEF CoreTypes, TokenMeansCancelled
<1>1. CASE acquire_permit(j)
  <2>1. /\ Quiet /\ UNCHANGED registry /\ admission' = admission
        /\ runner[j] = "queued" /\ runner' = [runner EXCEPT ![j] = "acquired"]
        /\ permits > 0 /\ permits' = permits - 1
    BY <1>1 DEF acquire_permit, storeVars, workVars
  <2> QED
    BY <1>a, <1>b, <2>1, LimitStep
       DEF LimitTypes, HoldingStates, WorkingStates, BeforeEnd, RunnerStates
<1>2. CASE cancelled_in_queue(j)
  <2>1. /\ Quiet /\ UNCHANGED <<registry, admission, permits>> /\ token[j]
        /\ runner[j] = "queued" /\ runner' = [runner EXCEPT ![j] = "finishing"]
    BY <1>2 DEF cancelled_in_queue, storeVars, workVars, limitVars
  <2> QED
    BY <1>a, <1>b, <1>c, <2>1, LimitStep
       DEF LimitTypes, HoldingStates, WorkingStates, is_active, RunnerStates
<1>3. CASE check_cancelled(j)
  <2>1. /\ Quiet /\ UNCHANGED <<registry, admission, permits>>
        /\ runner[j] = "acquired"
        /\ \/ token[j] /\ runner' = [runner EXCEPT ![j] = "returning"]
           \/ runner' = [runner EXCEPT ![j] = "marking"]
    BY <1>3 DEF check_cancelled, storeVars, workVars, limitVars
  <2>2. CASE token[j] /\ runner' = [runner EXCEPT ![j] = "returning"]
    BY <1>a, <1>b, <1>c, <2>1, <2>2, LimitStep
       DEF LimitTypes, HoldingStates, WorkingStates, is_active, RunnerStates
  <2>3. CASE runner' = [runner EXCEPT ![j] = "marking"]
    BY <1>a, <1>b, <2>1, <2>3, LimitStep
       DEF LimitTypes, HoldingStates, WorkingStates, BeforeEnd, RunnerStates
  <2> QED
    BY <2>1, <2>2, <2>3
<1>4. CASE mark_running(j)
  <2>1. /\ UNCHANGED <<submitter, registry, admission, permits>> /\ runner[j] = "marking"
    BY <1>4 DEF mark_running, limitVars
  <2>2. CASE ~is_active(job[j].status)
    <3>1. Quiet /\ runner' = [runner EXCEPT ![j] = "returning"]
      BY <1>4, <2>1, <2>2 DEF mark_running, storeVars
    <3> QED
      BY <1>a, <1>b, <2>1, <2>2, <3>1, LimitStep
         DEF LimitTypes, HoldingStates, WorkingStates, RunnerStates
  <2>3. CASE is_active(job[j].status)
    <3>1. PICK w \in WriteResults :
            /\ Store(j, MarkedRunning(job[j]), w)
            /\ IF w = "ok"
               THEN /\ runner' = [runner EXCEPT ![j] = "consuming"]
                    /\ worker' = [worker EXCEPT ![j] = "executing"]
               ELSE runner' = [runner EXCEPT ![j] = "returning"] /\ UNCHANGED worker
      BY <1>4, <2>3 DEF mark_running, StorePlain
    <3>2. /\ \A k \in Jobs : k # j => job'[k] = job[k]
          /\ w = "ok" => job'[j] = MarkedRunning(job[j])
      BY <3>1, StoreWrites
    <3>3. faults' \in 0..MaxFaults /\ (faults' = 0 => faults = 0 /\ w = "ok")
      BY <1>a, <3>1, WriteFaults
    <3>4. MarkedRunning(job[j]).status = "running"
      BY <2>3, ActiveIsRecord DEF MarkedRunning, JobRecord
    <3>5. CASE w = "ok"
      <4>1. /\ LimitTypes'
            /\ \A k \in Jobs : k # j => worker'[k] = worker[k]
        BY <1>a, <2>1, <3>1, <3>3, <3>5 DEF LimitTypes, WorkerStates
      <4> QED
        BY <2>1, <3>1, <3>2, <3>3, <3>4, <3>5, <4>1, LimitStep
           DEF HoldingStates, WorkingStates, BeforeEnd, RunnerStates
    <3>6. CASE w # "ok"
      BY <1>a, <1>b, <2>1, <3>1, <3>2, <3>3, <3>6, LimitStep
         DEF LimitTypes, HoldingStates, WorkingStates, RunnerStates
    <3> QED
      BY <3>5, <3>6
  <2> QED
    BY <2>2, <2>3
<1>5. CASE wait_for_stage(j) \/ updates_closed(j)
  <2>1. /\ Quiet /\ UNCHANGED <<registry, admission, permits>> /\ runner[j] = "consuming"
        /\ \E pc \in {"joining", "updating"} : runner' = [runner EXCEPT ![j] = pc]
    BY <1>5 DEF wait_for_stage, updates_closed, Received, StopConsuming, storeVars,
                workVars, limitVars
  <2>2. PICK pc \in {"joining", "updating"} : runner' = [runner EXCEPT ![j] = pc]
    BY <2>1
  <2> QED
    BY <1>a, <1>b, <2>1, <2>2, LimitStep
       DEF LimitTypes, HoldingStates, WorkingStates, BeforeEnd, RunnerStates
<1>6. CASE update_progress(j)
  <2> DEFINE stage == Head(updates[j])
             st == WithProgress(job[j], stage, StageStart(stage))
  <2>1. UNCHANGED <<submitter, worker, registry, admission, permits>> /\ runner[j] = "updating"
    BY <1>6 DEF update_progress, limitVars
  <2>2. job[j].status \in {"running", "cancelled"}
    BY <1>b, <2>1 DEF WorkingStates
  <2>3. PICK pc \in {"joining", "consuming"} : runner' = [runner EXCEPT ![j] = pc]
    BY <1>6 DEF update_progress, StopConsuming
  <2>4. /\ \A k \in Jobs : k # j => job'[k] = job[k]
        /\ job'[j].status \in {"running", "cancelled"}
        /\ faults' \in 0..MaxFaults /\ (faults' = 0 => faults = 0)
    <3>1. CASE UNCHANGED <<job, faults>>
      BY <1>a, <2>2, <3>1
    <3>2. CASE ~UNCHANGED <<job, faults>>
      <4>1. PICK w \in WriteResults : Store(j, st, w)
        BY <1>6, <3>2 DEF update_progress, StorePlain, storeVars
      <4>2. st = job[j] \/ st.status = "running"
        BY DEF WithProgress
      <4> QED
        BY <1>a, <2>2, <4>1, <4>2, StoreWrites, WriteFaults
    <3> QED
      BY <3>1, <3>2
  <2> QED
    BY <1>a, <2>1, <2>3, <2>4, LimitStep
       DEF LimitTypes, HoldingStates, WorkingStates, BeforeEnd, RunnerStates
<1>7. CASE append_solver_event(j) \/ keep_snapshot(j)
  <2>1. /\ UNCHANGED <<job, submitter, worker, registry, admission, permits>>
        /\ runner[j] = "consuming" /\ runner' = runner
    BY <1>7 DEF append_solver_event, keep_snapshot, Received, storeVars, limitVars
  <2>2. runner' = [runner EXCEPT ![j] = "consuming"]
    BY <1>c, <2>1
  <2>3. UNCHANGED faults \/ \E fails \in BOOLEAN : MayFail(fails)
    BY <1>7 DEF append_solver_event, keep_snapshot, storeVars
  <2>4. faults' \in 0..MaxFaults /\ (faults' = 0 => faults = 0)
    BY <1>a, <2>3, LoggedFaults
  <2> QED
    BY <1>a, <1>b, <2>1, <2>2, <2>4, LimitStep
       DEF LimitTypes, HoldingStates, WorkingStates, BeforeEnd, RunnerStates
<1>8. CASE join_worker(j)
  <2>1. /\ Quiet /\ UNCHANGED <<registry, admission, permits>>
        /\ runner[j] = "joining" /\ worker[j] # "executing"
        /\ \E pc \in {"cancelling", "saving"} : runner' = [runner EXCEPT ![j] = pc]
    BY <1>8 DEF join_worker, storeVars, workVars, limitVars
  <2>2. PICK pc \in {"cancelling", "saving"} : runner' = [runner EXCEPT ![j] = pc]
    BY <2>1
  <2> QED
    BY <1>a, <1>b, <2>1, <2>2, LimitStep
       DEF LimitTypes, HoldingStates, WorkingStates, BeforeEnd, RunnerStates
<1>9. CASE persist_cancelled(j) \/ save_result(j) \/ save_error(j)
  <2>1. /\ UNCHANGED <<submitter, worker, registry, admission, permits>>
        /\ runner[j] \in {"cancelling", "saving"}
        /\ runner' = [runner EXCEPT ![j] = "returning"]
    BY <1>9 DEF persist_cancelled, save_result, save_error, Save, limitVars, workVars
  <2>2. job[j].status \in {"running", "cancelled"}
    BY <1>b, <2>1 DEF WorkingStates
  <2>3. \/ UNCHANGED <<job, faults>> /\ ~is_active(job[j].status)
        \/ \E w \in WriteResults, status \in {"completed", "failed", "cancelled"} :
             Store(j, Committed(job[j], status), w)
    <3>1. CASE persist_cancelled(j)
      BY <3>1 DEF persist_cancelled, StorePlain, storeVars
    <3>2. CASE save_result(j)
      BY <2>2, <3>2 DEF save_result, Save, storeVars, is_active
    <3>3. CASE save_error(j)
      BY <2>2, <3>3 DEF save_error, Save, storeVars, is_active
    <3> QED
      BY <1>9, <3>1, <3>2, <3>3
  <2>4. /\ \A k \in Jobs : k # j => job'[k] = job[k]
        /\ faults' \in 0..MaxFaults /\ (faults' = 0 => faults = 0)
        /\ faults' = 0 => ~is_active(job'[j].status)
    <3>1. CASE UNCHANGED <<job, faults>> /\ ~is_active(job[j].status)
      BY <1>a, <3>1
    <3>2. ASSUME NEW w \in WriteResults, NEW status \in {"completed", "failed", "cancelled"},
                 Store(j, Committed(job[j], status), w)
          PROVE  /\ \A k \in Jobs : k # j => job'[k] = job[k]
                 /\ faults' \in 0..MaxFaults /\ (faults' = 0 => faults = 0)
                 /\ faults' = 0 => ~is_active(job'[j].status)
      <4>1. ~is_active(Committed(job[j], status).status)
        BY DEF Committed, is_active
      <4>2. faults' \in 0..MaxFaults /\ (faults' = 0 => faults = 0 /\ w = "ok")
        BY <1>a, <3>2, WriteFaults
      <4>3. /\ \A k \in Jobs : k # j => job'[k] = job[k]
            /\ w = "ok" => job'[j] = Committed(job[j], status)
        BY <3>2, StoreWrites
      <4> QED
        BY <4>1, <4>2, <4>3
    <3> QED
      BY <2>3, <3>1, <3>2
  <2> QED
    BY <1>a, <1>b, <2>1, <2>4, LimitStep
       DEF LimitTypes, HoldingStates, WorkingStates, RunnerStates
<1>10. CASE release_permit(j)
  <2>1. /\ Quiet /\ UNCHANGED registry /\ admission' = admission
        /\ runner[j] = "returning" /\ runner' = [runner EXCEPT ![j] = "finishing"]
        /\ permits' = permits + 1
    BY <1>10 DEF release_permit, storeVars, workVars
  <2>2. faults = 0 => ~is_active(job[j].status)
    <3>1. \A s \in Submitters : ~(submitter[s].pc = "created" /\ submitter[s].job = j)
      BY <2>1 DEF OneRunnerDecides
    <3> QED
      BY <2>1, <3>1 DEF LimitInvariant, ActiveIsOwned, Owned, BeforeEnd
  <2> QED
    BY <1>a, <1>b, <2>1, <2>2, LimitStep
       DEF LimitTypes, HoldingStates, WorkingStates, RunnerStates
<1>11. CASE remove_activity(j) \/ send_completion(j)
  <2>1. /\ Quiet /\ registry' \subseteq Jobs /\ permits' = permits
        /\ \/ /\ runner[j] = "finishing" /\ runner' = [runner EXCEPT ![j] = "completing"]
              /\ admission' = admission
           \/ /\ runner[j] = "completing" /\ runner' = [runner EXCEPT ![j] = "done"]
              /\ admission' = admission + 1
    BY <1>a, <1>11 DEF remove_activity, send_completion, storeVars, workVars, limitVars
  <2>2. faults = 0 => ~is_active(job[j].status)
    <3>1. \A s \in Submitters : ~(submitter[s].pc = "created" /\ submitter[s].job = j)
      BY <2>1 DEF OneRunnerDecides
    <3> QED
      BY <2>1, <3>1 DEF LimitInvariant, ActiveIsOwned, Owned, BeforeEnd
  <2>3. CASE runner[j] = "finishing"
    BY <1>a, <1>b, <2>1, <2>2, <2>3, LimitStep
       DEF LimitTypes, HoldingStates, WorkingStates, RunnerStates
  <2>4. CASE runner[j] = "completing"
    BY <1>a, <1>b, <2>1, <2>2, <2>4, LimitStep
       DEF LimitTypes, HoldingStates, WorkingStates, RunnerStates
  <2> QED
    BY <2>1, <2>3, <2>4
<1> QED
  BY <1>1, <1>2, <1>3, <1>4, <1>5, <1>6, <1>7, <1>8, <1>9, <1>10, <1>11 DEF Run

(* The other processes leave the runners and their permits alone. *)
LEMMA LimitFrame ==
  ASSUME CoreTypes, LimitInvariant, UNCHANGED <<runner, submitter, permits, admission>>,
         LimitTypes', faults' = 0 => faults = 0,
         \A k \in Jobs : job'[k] = job[k] \/ job'[k].status = "cancelled",
         \A k \in Jobs : worker'[k] = worker[k] \/ worker'[k] # "executing"
  PROVE  LimitInvariant'
<1> USE DEF LimitInvariant
<1>1. PermitsCounted' /\ AdmissionsCounted'
  BY DEF PermitsCounted, AdmissionsCounted, HoldingPermit, Admitted, Live
<1>2. RunnerWaits'
  BY DEF RunnerWaits
<1>3. ActiveIsOwned'
  BY DEF ActiveIsOwned, Owned, is_active
<1> QED
  BY <1>1, <1>2, <1>3

(* An admission passes from the semaphore to the submitter, back when the  *)
(* job is not created, and on to the runner when it is.                    *)
LEMMA SubmitterLimits ==
  ASSUME RunnerInvariant, RunnerInvariant', LimitInvariant, NEW s \in Submitters,
         Submission(s) \/ \E j \in Jobs : try_admit(s, j)
  PROVE  LimitInvariant'
<1> USE DEF RunnerInvariant
<1>a. faults \in 0..MaxFaults /\ registry \subseteq Jobs /\ worker \in [Jobs -> WorkerStates]
  BY DEF LimitInvariant, LimitTypes
<1>b. /\ admission \in Nat /\ IsFiniteSet(Admitted) /\ IsFiniteSet(Live)
      /\ Cardinality(Admitted) \in Nat /\ Cardinality(Live) \in Nat
      /\ admission + Cardinality(Admitted) + Cardinality(Live) = MaxOutstanding
  BY FS_CardinalityType DEF LimitInvariant, AdmissionsCounted
<1>c. \A t \in Submitters : submitter[t].pc = "created" => submitter[t].job \in Jobs
  BY DEF CoreTypes, SubmitterState
<1>1. ASSUME NEW j \in Jobs, try_admit(s, j)
      PROVE  LimitInvariant'
  <2>1. /\ UNCHANGED <<job, worker, faults, registry, permits, runner>>
        /\ submitter[s].pc = "idle" /\ admission > 0 /\ admission' = admission - 1
        /\ submitter' = [submitter EXCEPT ![s] = [pc |-> "admitted", job |-> j]]
    BY <1>1 DEF try_admit, storeVars, workVars
  <2>2. /\ submitter'[s].pc = "admitted"
        /\ \A t \in Submitters : t # s => submitter'[t] = submitter[t]
    BY <2>1 DEF CoreTypes
  <2>3. Admitted' = Admitted \cup {s} /\ s \notin Admitted /\ Live' = Live
    BY <2>1, <2>2 DEF Admitted, Live
  <2>4. AdmissionsCounted'
    <3>1. IsFiniteSet(Admitted') /\ Cardinality(Admitted') = Cardinality(Admitted) + 1
      BY <1>b, <2>3, FS_AddElement
    <3> QED
      BY <1>b, <2>1, <2>3, <3>1, LimitAssumption DEF AdmissionsCounted
  <2>5. PermitsCounted' /\ RunnerWaits' /\ LimitTypes'
    BY <1>a, <2>1 DEF LimitInvariant, PermitsCounted, HoldingPermit, RunnerWaits, LimitTypes
  <2>6. ActiveIsOwned'
    BY <2>1, <2>2 DEF LimitInvariant, ActiveIsOwned, Owned
  <2> QED
    BY <2>4, <2>5, <2>6 DEF LimitInvariant
<1>2. CASE create_job(s)
  <2>0. PICK j \in Jobs : submitter[s] = [pc |-> "admitted", job |-> j]
    BY <1>2 DEF create_job, CoreTypes, SubmitterState
  <2>1. UNCHANGED <<worker, registry, permits, runner>>
    BY <1>2 DEF create_job, workVars
  <2>2. /\ faults' \in 0..MaxFaults /\ (faults' = 0 => faults = 0)
        /\ \A k \in Jobs : k # j => job'[k] = job[k]
        /\ \/ /\ admission' = admission
              /\ submitter' = [submitter EXCEPT ![s] = [pc |-> "created", job |-> j]]
           \/ Reject(s) /\ (faults' = 0 => job'[j] = job[j])
        /\ runner[j] \in WorkingStates => job'[j] = job[j]
    <3>0. runner[j] \in WorkingStates => job[j] # NoState
      BY DEF OneRunnerDecides, WorkingStates
    <3>1. CASE Reject(s) /\ UNCHANGED storeVars
      BY <1>a, <3>1 DEF storeVars
    <3>2. CASE ~(Reject(s) /\ UNCHANGED storeVars)
      <4>1. job[j] = NoState
        BY <1>2, <2>0, <3>2 DEF create_job
      <4>2. PICK w \in WriteResults :
              /\ Store(j, PendingState, w)
              /\ IF w = "ok"
                 THEN /\ submitter' = [submitter EXCEPT ![s] = [pc |-> "created", job |-> j]]
                      /\ UNCHANGED admission
                 ELSE Reject(s)
        BY <1>2, <2>0, <3>2 DEF create_job, StorePlain
      <4>3. faults' \in 0..MaxFaults /\ (faults' = 0 => faults = 0 /\ w = "ok")
        BY <1>a, <4>2, WriteFaults
      <4>4. \A k \in Jobs : k # j => job'[k] = job[k]
        BY <4>2, StoreWrites
      <4> QED
        BY <3>0, <4>1, <4>2, <4>3, <4>4
    <3> QED
      BY <3>1, <3>2
  <2>3. /\ \A t \in Submitters : t # s => submitter'[t] = submitter[t]
        /\ s \in Admitted
    BY <2>0, <2>2 DEF CoreTypes, Reject, Admitted
  <2>4. LimitTypes' /\ PermitsCounted'
    BY <1>a, <2>1, <2>2 DEF LimitInvariant, LimitTypes, PermitsCounted, HoldingPermit
  <2>5. RunnerWaits'
    BY <2>1, <2>2 DEF LimitInvariant, RunnerWaits
  <2>6. Live' = Live
    BY <2>1 DEF Live
  <2>7. CASE /\ admission' = admission
             /\ submitter' = [submitter EXCEPT ![s] = [pc |-> "created", job |-> j]]
    <3>1. submitter'[s] = [pc |-> "created", job |-> j]
      BY <2>7 DEF CoreTypes
    <3>2. Admitted' = Admitted
      BY <2>3, <3>1 DEF Admitted
    <3>3. AdmissionsCounted'
      BY <1>b, <2>6, <2>7, <3>2 DEF AdmissionsCounted
    <3>4. ActiveIsOwned'
      <4>1. Owned(j)'
        BY <3>1 DEF Owned
      <4>2. \A k \in Jobs : Owned(k) => Owned(k)'
        BY <2>0, <2>1, <2>3 DEF Owned
      <4> QED
        BY <2>2, <4>1, <4>2 DEF LimitInvariant, ActiveIsOwned
    <3> QED
      BY <2>4, <2>5, <3>3, <3>4 DEF LimitInvariant
  <2>8. CASE Reject(s) /\ (faults' = 0 => job'[j] = job[j])
    <3>1. submitter'[s] = [pc |-> "done"] /\ admission' = admission + 1
      BY <2>8 DEF Reject, CoreTypes
    <3>2. Admitted' = Admitted \ {s}
      BY <2>3, <3>1 DEF Admitted
    <3>3. AdmissionsCounted'
      <4>1. IsFiniteSet(Admitted') /\ Cardinality(Admitted') = Cardinality(Admitted) - 1
        BY <1>b, <2>3, <3>2, FS_RemoveElement
      <4> QED
        BY <1>b, <2>6, <3>1, <4>1, LimitAssumption DEF AdmissionsCounted
    <3>4. ActiveIsOwned'
      <4>2. \A k \in Jobs : Owned(k) => Owned(k)'
        BY <2>0, <2>1, <2>3 DEF Owned
      <4> QED
        BY <2>2, <2>8, <4>2 DEF LimitInvariant, ActiveIsOwned
    <3> QED
      BY <2>4, <2>5, <3>3, <3>4 DEF LimitInvariant
  <2> QED
    BY <2>2, <2>7, <2>8
<1>3. CASE spawn_runner(s)
  <2>0. PICK j \in Jobs : submitter[s] = [pc |-> "created", job |-> j]
    BY <1>3 DEF spawn_runner, CoreTypes, SubmitterState
  <2>1. /\ UNCHANGED <<job, worker, faults, permits, admission>>
        /\ registry' = registry \cup {j}
        /\ runner' = [runner EXCEPT ![j] = "queued"]
        /\ submitter' = [submitter EXCEPT ![s] = [pc |-> "done"]]
    BY <1>3, <2>0 DEF spawn_runner, storeVars, workVars, limitVars
  <2>2. /\ runner[j] = "absent" /\ runner'[j] = "queued"
        /\ \A k \in Jobs : k # j => runner'[k] = runner[k]
        /\ submitter'[s] = [pc |-> "done"]
        /\ \A t \in Submitters : t # s => submitter'[t] = submitter[t]
    <3>1. runner[j] = "absent"
      <4>1. submitter[s].pc = "created" /\ submitter[s].job = j
        BY <2>0
      <4> QED
        BY <4>1 DEF OneRunnerDecides
    <3> QED
      BY <2>1, <3>1 DEF CoreTypes
  <2>3. /\ Admitted' = Admitted \ {s} /\ s \in Admitted
        /\ Live' = Live \cup {j} /\ j \notin Live
    BY <2>0, <2>2 DEF Admitted, Live
  <2>4. AdmissionsCounted'
    <3>1. IsFiniteSet(Admitted') /\ Cardinality(Admitted') = Cardinality(Admitted) - 1
      BY <1>b, <2>3, FS_RemoveElement
    <3>2. IsFiniteSet(Live') /\ Cardinality(Live') = Cardinality(Live) + 1
      BY <1>b, <2>3, FS_AddElement
    <3> QED
      BY <1>b, <2>1, <3>1, <3>2, LimitAssumption DEF AdmissionsCounted
  <2>5. PermitsCounted'
    <3>1. HoldingPermit' = HoldingPermit
      BY <2>2 DEF HoldingPermit, HoldingStates, WorkingStates
    <3> QED
      BY <2>1, <3>1 DEF LimitInvariant, PermitsCounted
  <2>6. RunnerWaits'
    BY <2>1, <2>2 DEF LimitInvariant, RunnerWaits, WorkingStates
  <2>7. ActiveIsOwned'
    <3>1. Owned(j)'
      BY <2>2 DEF Owned, BeforeEnd
    <3>2. \A k \in Jobs : k # j /\ Owned(k) => Owned(k)'
      BY <2>0, <2>2 DEF Owned
    <3> QED
      BY <2>1, <3>1, <3>2 DEF LimitInvariant, ActiveIsOwned
  <2>8. LimitTypes'
    BY <1>a, <2>1 DEF LimitTypes
  <2> QED
    BY <2>4, <2>5, <2>6, <2>7, <2>8 DEF LimitInvariant
<1> QED
  BY <1>1, <1>2, <1>3 DEF Submission

(* Publications, workers and cancellers hold no permit. *)
LEMMA OtherLimits ==
  ASSUME RunnerInvariant, LimitInvariant,
         \/ \E p \in Publishers : Publication(p)
         \/ \E j \in Jobs : finish(j) \/ \E u \in Updates : report(j, u)
         \/ \E c \in Cancellers : Cancellation(c) \/ \E j \in Jobs : look_up(c, j)
         \/ UNCHANGED vars
  PROVE  LimitInvariant'
<1> USE DEF RunnerInvariant
<1>a. faults \in 0..MaxFaults /\ registry \subseteq Jobs /\ worker \in [Jobs -> WorkerStates]
  BY DEF LimitInvariant, LimitTypes
<1>1. ASSUME NEW p \in Publishers, Publication(p)
      PROVE  LimitInvariant'
  <2>1. UNCHANGED <<job, worker, registry, runner, submitter, permits, admission>>
    BY <1>1 DEF Publication, read_persisted, bump_sequence, record_event_sequence,
                send_event, storeVars, workVars, limitVars
  <2>2. UNCHANGED faults \/ \E fails \in BOOLEAN : MayFail(fails)
    BY <1>1 DEF Publication, read_persisted, bump_sequence, record_event_sequence,
                send_event, storeVars
  <2>3. faults' \in 0..MaxFaults /\ (faults' = 0 => faults = 0)
    BY <1>a, <2>2, LoggedFaults
  <2> QED
    BY <1>a, <2>1, <2>3, LimitFrame DEF LimitTypes
<1>2. ASSUME NEW j \in Jobs, finish(j) \/ \E u \in Updates : report(j, u)
      PROVE  LimitInvariant'
  <2>1. UNCHANGED <<job, faults, registry, runner, submitter, permits, admission>>
    BY <1>2 DEF finish, report, storeVars, limitVars
  <2>2. /\ worker' \in [Jobs -> WorkerStates]
        /\ \A k \in Jobs : worker'[k] = worker[k] \/ worker'[k] # "executing"
    <3>1. CASE finish(j)
      <4>1. PICK end \in {"ok", "failed", "cancelled", "panicked"} :
              worker' = [worker EXCEPT ![j] = end]
        BY <3>1 DEF finish
      <4> QED
        BY <1>a, <4>1 DEF WorkerStates
    <3>2. CASE \E u \in Updates : report(j, u)
      BY <1>a, <3>2 DEF report
    <3> QED
      BY <1>2, <3>1, <3>2
  <2> QED
    BY <1>a, <2>1, <2>2, LimitFrame DEF LimitTypes
<1>3. ASSUME NEW c \in Cancellers, Cancellation(c) \/ \E j \in Jobs : look_up(c, j)
      PROVE  LimitInvariant'
  <2>1. UNCHANGED <<worker, registry, runner, submitter, permits, admission>>
    BY <1>3 DEF Cancellation, cancel_job, signal_token, look_up, workVars, limitVars
  <2>2. /\ faults' \in 0..MaxFaults /\ (faults' = 0 => faults = 0)
        /\ \A k \in Jobs : job'[k] = job[k] \/ job'[k].status = "cancelled"
    <3>1. CASE UNCHANGED <<job, faults>>
      BY <1>a, <3>1
    <3>2. CASE ~UNCHANGED <<job, faults>>
      <4>1. cancel_job(c)
        BY <1>3, <3>2 DEF Cancellation, signal_token, look_up, storeVars
      <4>2. PICK j \in Jobs : canceller[c].job = j
        BY <4>1 DEF cancel_job, CoreTypes, CancellerState
      <4>3. PICK w \in WriteResults : Store(j, Committed(job[j], "cancelled"), w)
        BY <3>2, <4>1, <4>2 DEF cancel_job, StorePlain, storeVars
      <4>4. Committed(job[j], "cancelled").status = "cancelled"
        BY DEF Committed
      <4> QED
        BY <1>a, <4>3, <4>4, StoreWrites, WriteFaults
    <3> QED
      BY <3>1, <3>2
  <2> QED
    BY <1>a, <2>1, <2>2, LimitFrame DEF LimitTypes
<1>4. CASE UNCHANGED vars
  BY <1>a, <1>4, LimitFrame DEF LimitTypes, vars
<1> QED
  BY <1>1, <1>2, <1>3, <1>4

(* Nothing runs and nobody is admitted when the service starts. *)
LEMMA InitLimits == Init => LimitInvariant
<1> SUFFICES ASSUME Init
             PROVE  LimitInvariant
  OBVIOUS
<1>1. HoldingPermit = {} /\ Admitted = {} /\ Live = {}
  BY DEF Init, HoldingPermit, Admitted, Live, HoldingStates, WorkingStates
<1>2. PermitsCounted /\ AdmissionsCounted
  BY <1>1, FS_EmptySet, LimitAssumption DEF Init, PermitsCounted, AdmissionsCounted
<1>3. RunnerWaits /\ ActiveIsOwned
  BY DEF Init, RunnerWaits, ActiveIsOwned, WorkingStates, is_active, NoState
<1>4. LimitTypes
  BY BoundAssumption DEF Init, LimitTypes, WorkerStates
<1> QED
  BY <1>2, <1>3, <1>4 DEF LimitInvariant

(* Every step keeps the permits and the admissions counted. *)
LEMMA NextLimits ==
  RunnerInvariant /\ RunnerInvariant' /\ LimitInvariant /\ [Next]_vars => LimitInvariant'
BY SubmitterLimits, RunLimits, OtherLimits DEF Next

(* Permits and admissions are neither lost nor made up. *)
THEOREM LimitsCounted == Spec => []LimitInvariant
BY InitLimits, NextLimits, InvariantHolds, PTL DEF Spec

(* An execution that outlives its cancelled job keeps its permit. *)
LEMMA PermitsBound ==
  ASSUME LimitInvariant
  PROVE  ExecutionBounded /\ permits \in 0..MaxConcurrent /\ admission \in 0..MaxOutstanding
<1> USE DEF LimitInvariant
<1>1. /\ IsFiniteSet(HoldingPermit) /\ Cardinality(HoldingPermit) \in Nat
      /\ Cardinality(Admitted) \in Nat /\ Cardinality(Live) \in Nat
  BY FS_CardinalityType DEF PermitsCounted, AdmissionsCounted
<1> DEFINE E == {j \in Jobs : worker[j] = "executing"}
<1>2. E \in SUBSET HoldingPermit
  BY DEF RunnerWaits, HoldingPermit, HoldingStates, WorkingStates
<1>3. Cardinality(E) <= Cardinality(HoldingPermit) /\ Cardinality(E) \in Nat
  BY <1>1, <1>2, FS_Subset, FS_CardinalityType
<1>4. E = {j \in Jobs : worker[j] = "executing"}
  OBVIOUS
<1> HIDE DEF E
<1>5. ExecutionBounded
  BY <1>1, <1>3, <1>4, LimitAssumption DEF PermitsCounted, ExecutionBounded
<1> QED
  BY <1>1, <1>5, LimitAssumption DEF PermitsCounted, AdmissionsCounted

(* An active job stands behind an admission of its own. *)
LEMMA AdmissionsBound ==
  ASSUME CoreTypes, LimitInvariant
  PROVE  OutstandingBounded
<1> USE DEF LimitInvariant
<1> SUFFICES ASSUME faults = 0
             PROVE  Cardinality({j \in Jobs : is_active(job[j].status)}) + admission
                      <= MaxOutstanding
  BY DEF OutstandingBounded
<1> DEFINE A == {j \in Jobs : is_active(job[j].status)}
           waiting == {s \in Submitters : submitter[s].pc = "created"}
           created == {j \in Jobs : \E s \in waiting : submitter[s].job = j}
           f == [s \in waiting |-> submitter[s].job]
<1>1. /\ IsFiniteSet(Admitted) /\ IsFiniteSet(Live)
      /\ Cardinality(Admitted) \in Nat /\ Cardinality(Live) \in Nat
  BY FS_CardinalityType DEF AdmissionsCounted
<1>2. waiting \in SUBSET Admitted
  BY DEF Admitted
<1>3. IsFiniteSet(waiting) /\ Cardinality(waiting) <= Cardinality(Admitted)
  BY <1>1, <1>2, FS_Subset
<1>4. f \in Surjection(waiting, created)
  <2>1. \A s \in waiting : submitter[s].job \in Jobs
    BY DEF CoreTypes, SubmitterState
  <2> QED
    BY <2>1 DEF Surjection
<1>5. /\ IsFiniteSet(created) /\ Cardinality(created) <= Cardinality(waiting)
      /\ Cardinality(created) \in Nat /\ Cardinality(waiting) \in Nat
  <2> HIDE DEF created, waiting, f
  <2>1. IsFiniteSet(created) /\ Cardinality(created) <= Cardinality(waiting)
    BY <1>3, <1>4, FS_Surjection
  <2> QED
    BY <1>3, <2>1, FS_CardinalityType
<1>6. A \in SUBSET (Live \cup created)
  BY DEF ActiveIsOwned, Owned, Live, BeforeEnd
<1>7. A = {j \in Jobs : is_active(job[j].status)}
  OBVIOUS
<1> HIDE DEF A, created, waiting, f
<1>8. /\ IsFiniteSet(Live \cup created) /\ IsFiniteSet(Live \cap created)
      /\ Cardinality(Live \cup created) =
           Cardinality(Live) + Cardinality(created) - Cardinality(Live \cap created)
  BY <1>1, <1>5, FS_Union, FS_Subset
<1>9. Cardinality(Live \cap created) \in Nat /\ Cardinality(Live \cup created) \in Nat
  BY <1>8, FS_CardinalityType
<1>10. IsFiniteSet(A) /\ Cardinality(A) <= Cardinality(Live \cup created)
  BY <1>6, <1>8, FS_Subset
<1>11. Cardinality(A) \in Nat
  BY <1>10, FS_CardinalityType
<1>12. Cardinality(A) <= Cardinality(Live) + Cardinality(Admitted)
  BY <1>1, <1>3, <1>5, <1>8, <1>9, <1>10, <1>11
<1>13. admission \in Nat /\ admission + Cardinality(Admitted) + Cardinality(Live) = MaxOutstanding
  BY DEF AdmissionsCounted
<1> QED
  BY <1>1, <1>7, <1>11, <1>12, <1>13, LimitAssumption

-----------------------------------------------------------------------------
(* The events. *)
Busy(p) == publisher[p].pc # "idle"

Ends(kind) == kind # "progress"

EventTypes ==
  /\ publisher \in [Publishers -> PublisherState]
  /\ sent \in [Jobs -> Seq(Event)]
  /\ sequence \in [Jobs -> Nat]
  /\ revision \in [Jobs -> Nat]
  /\ faults \in 0..MaxFaults

(* What a publisher is about to announce is true of the record, ... *)
AnnouncesRecord ==
  \A p \in Publishers : Busy(p) =>
    IF Ends(publisher[p].kind)
    THEN job[publisher[p].job].status = publisher[p].kind
    ELSE job[publisher[p].job] \in JobRecord /\ job[publisher[p].job].stage # 0

(* ... and so is an end that has been announced. *)
SentIsRecord ==
  \A j \in Jobs : \A i \in DOMAIN sent[j] :
    Ends(sent[j][i].kind) => job[j].status = sent[j][i].kind

(* An end is being announced once, has been announced once, or neither. *)
OneAnnouncement ==
  /\ \A p, q \in Publishers :
       (/\ Busy(p) /\ Busy(q) /\ publisher[p].job = publisher[q].job
        /\ Ends(publisher[p].kind) /\ Ends(publisher[q].kind)) => p = q
  /\ \A p \in Publishers : Busy(p) /\ Ends(publisher[p].kind) =>
       \A i \in DOMAIN sent[publisher[p].job] : ~Ends(sent[publisher[p].job][i].kind)
  /\ \A j \in Jobs : \A i, k \in DOMAIN sent[j] :
       Ends(sent[j][i].kind) /\ Ends(sent[j][k].kind) => i = k

PayloadsMatch ==
  faults = 0 => \A j \in Jobs :
    /\ (result[j] # "none") <=> (job[j].status = "completed")
    /\ error[j] <=> (job[j].status = "failed")

EnvelopesValid ==
  faults = 0 =>
    /\ \A p \in Publishers : publisher[p].pc \in {"bump", "record", "send"} =>
         is_valid_for_event(publisher[p].kind, publisher[p].envelope)
    /\ \A j \in Jobs : \A i \in DOMAIN sent[j] :
         is_valid_for_event(sent[j][i].kind, sent[j][i].envelope)

EventInvariant ==
  /\ EventTypes /\ AnnouncesRecord /\ SentIsRecord /\ OneAnnouncement
  /\ PayloadsMatch /\ EnvelopesValid

(* The fields of a publication in progress. *)
LEMMA PublisherFacts ==
  ASSUME publisher \in [Publishers -> PublisherState], NEW p \in Publishers
  PROVE  /\ ~Busy(p) => publisher[p] = IdlePublisher
         /\ Busy(p) => /\ publisher[p].job \in Jobs /\ publisher[p].kind \in EventKinds
                       /\ publisher[p].pc \in {"read", "bump", "record", "send"}
         /\ publisher[p].pc \in {"bump", "record", "send"} =>
              /\ publisher[p].envelope \in Envelope
              /\ publisher[p] = [pc |-> publisher[p].pc, job |-> publisher[p].job,
                                 kind |-> publisher[p].kind,
                                 envelope |-> publisher[p].envelope]
<1>1. publisher[p] \in PublisherState
  OBVIOUS
<1>2. CASE publisher[p] = IdlePublisher
  BY <1>2 DEF IdlePublisher, Busy
<1>3. CASE publisher[p] \in [pc : {"read"}, job : Jobs, kind : EventKinds]
  BY <1>3 DEF Busy
<1>4. CASE publisher[p] \in [pc : {"bump", "record", "send"}, job : Jobs, kind : EventKinds,
                             envelope : Envelope]
  BY <1>4 DEF Busy
<1> QED
  BY <1>1, <1>2, <1>3, <1>4 DEF PublisherState

(* A change of one job's store, with the publication it may start. *)
LEMMA EventStep ==
  ASSUME CoreTypes, CoreTypes', EventInvariant, NEW j \in Jobs, StoreOnlyAt(j),
         UNCHANGED <<sent, sequence, revision>>,
         faults' \in 0..MaxFaults, faults' = 0 => faults = 0,
         \/ job'[j] = job[j]
         \/ job[j] = NoState
         \/ is_active(job[j].status) /\ job'[j] \in JobRecord /\ job[j].stage <= job'[j].stage,
         faults' = 0 => /\ (result'[j] # "none") <=> (job'[j].status = "completed")
                        /\ error'[j] <=> (job'[j].status = "failed"),
         \/ publisher' = publisher
         \/ \E p \in Publishers, kind \in EventKinds :
              /\ publisher' = [publisher EXCEPT ![p] =
                                 [pc |-> "read", job |-> j, kind |-> kind]]
              /\ IF Ends(kind)
                 THEN is_active(job[j].status) /\ job'[j].status = kind
                 ELSE job'[j] \in JobRecord /\ job'[j].stage # 0
  PROVE  EventInvariant'
<1> USE DEF EventInvariant
<1>0. EventTypes
  OBVIOUS
<1>1. \A k \in Jobs : job'[k] = job[k] \/
        (k = j /\ (job[k] = NoState \/
           (is_active(job[k].status) /\ job'[k] \in JobRecord /\ job[k].stage <= job'[k].stage)))
  BY DEF StoreOnlyAt
<1>2. \A k \in Jobs : job[k].status \in {"completed", "failed", "cancelled"} => job'[k] = job[k]
  BY <1>1 DEF is_active, NoState
<1>3. \A k \in Jobs : job[k] \in JobRecord /\ job[k].stage # 0 =>
        job'[k] \in JobRecord /\ job'[k].stage # 0
  BY <1>1, StageAssumption DEF JobRecord, NoState
<1>4. \A p \in Publishers : Busy(p) => publisher[p].job \in Jobs /\ publisher[p].kind \in EventKinds
  BY <1>0, PublisherFacts DEF EventTypes
<1>5. \A k \in Jobs : \A i \in DOMAIN sent[k] : sent[k][i].kind \in EventKinds
  <2>1. \A k \in Jobs : sent[k] \in Seq(Event)
    BY <1>0 DEF EventTypes
  <2>2. \A q \in Seq(Event) : \A i \in DOMAIN q : q[i] \in Event
    OBVIOUS
  <2>3. \A e \in Event : e.kind \in EventKinds
    BY DEF Event
  <2> QED
    BY <2>1, <2>2, <2>3
<1>6. SentIsRecord'
  BY <1>2, <1>5 DEF SentIsRecord, EventKinds, Ends
<1>7. PayloadsMatch'
  BY DEF PayloadsMatch, StoreOnlyAt
<1>8. CASE publisher' = publisher
  <2>1. AnnouncesRecord'
    BY <1>2, <1>3, <1>4, <1>8 DEF AnnouncesRecord, Busy, Ends, EventKinds
  <2>2. OneAnnouncement' /\ EnvelopesValid' /\ EventTypes'
    BY <1>8 DEF OneAnnouncement, EnvelopesValid, EventTypes, Busy
  <2> QED
    BY <1>6, <1>7, <2>1, <2>2
<1>9. ASSUME NEW p \in Publishers, NEW kind \in EventKinds,
             publisher' = [publisher EXCEPT ![p] = [pc |-> "read", job |-> j, kind |-> kind]],
             IF Ends(kind)
             THEN is_active(job[j].status) /\ job'[j].status = kind
             ELSE job'[j] \in JobRecord /\ job'[j].stage # 0
      PROVE  EventInvariant'
  <2>1. /\ publisher'[p] = [pc |-> "read", job |-> j, kind |-> kind]
        /\ \A q \in Publishers : q # p => publisher'[q] = publisher[q]
    BY <1>0, <1>9 DEF EventTypes
  <2>2. EventTypes'
    <3>1. [pc |-> "read", job |-> j, kind |-> kind] \in PublisherState
      BY DEF PublisherState
    <3> QED
      BY <1>0, <1>9, <3>1 DEF EventTypes
  <2>3. AnnouncesRecord'
    <3> SUFFICES ASSUME NEW q \in Publishers, Busy(q)'
                 PROVE  IF Ends(publisher'[q].kind)
                        THEN job'[publisher'[q].job].status = publisher'[q].kind
                        ELSE /\ job'[publisher'[q].job] \in JobRecord
                             /\ job'[publisher'[q].job].stage # 0
      BY DEF AnnouncesRecord
    <3>1. CASE q = p
      BY <1>9, <2>1, <3>1
    <3>2. CASE q # p
      BY <1>2, <1>3, <1>4, <2>1, <3>2 DEF AnnouncesRecord, Busy, Ends, EventKinds
    <3> QED
      BY <3>1, <3>2
  <2>4. Ends(kind) => /\ \A i \in DOMAIN sent[j] : ~Ends(sent[j][i].kind)
                      /\ \A q \in Publishers : Busy(q) /\ publisher[q].job = j =>
                           ~Ends(publisher[q].kind)
    BY <1>4, <1>5, <1>9 DEF SentIsRecord, AnnouncesRecord, is_active, EventKinds, Ends
  <2>5. OneAnnouncement'
    <3>1. ASSUME NEW q \in Publishers, NEW r \in Publishers, Busy(q)', Busy(r)',
                 publisher'[q].job = publisher'[r].job,
                 Ends(publisher'[q].kind), Ends(publisher'[r].kind)
          PROVE  q = r
      <4>1. CASE q # p /\ r # p
        BY <2>1, <3>1, <4>1 DEF OneAnnouncement, Busy
      <4>2. CASE q = p /\ r # p
        BY <2>1, <2>4, <3>1, <4>2 DEF Busy
      <4>3. CASE q # p /\ r = p
        BY <2>1, <2>4, <3>1, <4>3 DEF Busy
      <4> QED
        BY <4>1, <4>2, <4>3
    <3>2. ASSUME NEW q \in Publishers, Busy(q)', Ends(publisher'[q].kind)
          PROVE  \A i \in DOMAIN sent'[publisher'[q].job] : ~Ends(sent'[publisher'[q].job][i].kind)
      <4>1. CASE q = p
        BY <2>1, <2>4, <3>2, <4>1
      <4>2. CASE q # p
        BY <2>1, <3>2, <4>2 DEF OneAnnouncement, Busy
      <4> QED
        BY <4>1, <4>2
    <3>3. \A k \in Jobs : \A i, m \in DOMAIN sent'[k] :
            Ends(sent'[k][i].kind) /\ Ends(sent'[k][m].kind) => i = m
      BY DEF OneAnnouncement
    <3> QED
      BY <3>1, <3>2, <3>3 DEF OneAnnouncement
  <2>6. EnvelopesValid'
    BY <2>1 DEF EnvelopesValid
  <2> QED
    BY <1>6, <1>7, <2>2, <2>3, <2>5, <2>6
<1> QED
  BY <1>8, <1>9

(* A step of a publication: the record is left alone. *)
LEMMA PublicationEvents ==
  ASSUME CoreTypes, EventInvariant, NEW p \in Publishers, Publication(p)
  PROVE  EventInvariant'
<1> USE DEF EventInvariant
<1>0. EventTypes
  OBVIOUS
<1> DEFINE j == publisher[p].job
           kind == publisher[p].kind
<1>1. UNCHANGED <<job, result, error>>
  BY DEF Publication, read_persisted, bump_sequence, record_event_sequence, send_event, storeVars
<1>2. Busy(p) /\ j \in Jobs /\ kind \in EventKinds
  <2>1. Busy(p)
    BY DEF Publication, read_persisted, bump_sequence, record_event_sequence, send_event,
           Publishing, Busy
  <2> QED
    BY <1>0, <2>1, PublisherFacts DEF EventTypes
<1>3. faults' \in 0..MaxFaults /\ (faults' = 0 => faults = 0)
  <2>1. UNCHANGED faults \/ \E fails \in BOOLEAN : MayFail(fails)
    BY DEF Publication, read_persisted, bump_sequence, record_event_sequence, send_event,
           storeVars
  <2> QED
    BY <1>0, <2>1, LoggedFaults DEF EventTypes
<1>4. /\ PayloadsMatch'
      /\ faults = 0 => /\ (result[j] # "none") <=> (job[j].status = "completed")
                       /\ error[j] <=> (job[j].status = "failed")
  BY <1>1, <1>2, <1>3 DEF PayloadsMatch
<1>5. IF Ends(kind) THEN job[j].status = kind ELSE job[j] \in JobRecord /\ job[j].stage # 0
  BY <1>2 DEF AnnouncesRecord
<1>6. job[j] \in JobRecord
  BY <1>2, <1>5 DEF CoreTypes, NoState, EventKinds, Ends
<1>7. ASSUME UNCHANGED sent, publisher' \in [Publishers -> PublisherState],
             sequence' \in [Jobs -> Nat], revision' \in [Jobs -> Nat],
             \A q \in Publishers : q # p => publisher'[q] = publisher[q],
             \/ ~Busy(p)'
             \/ /\ publisher'[p].job = j /\ publisher'[p].kind = kind
                /\ publisher'[p].pc \in {"bump", "record", "send"}
                /\ faults' = 0 => is_valid_for_event(kind, publisher'[p].envelope)
      PROVE  EventInvariant'
  <2>1. EventTypes'
    BY <1>0, <1>3, <1>7 DEF EventTypes
  <2>2. AnnouncesRecord' /\ SentIsRecord'
    BY <1>1, <1>2, <1>5, <1>7 DEF AnnouncesRecord, SentIsRecord, Busy
  <2>3. OneAnnouncement'
    BY <1>2, <1>7 DEF OneAnnouncement, Busy
  <2>4. EnvelopesValid'
    BY <1>3, <1>7 DEF EnvelopesValid, Busy
  <2> QED
    BY <1>4, <2>1, <2>2, <2>3, <2>4
<1>8. CASE read_persisted(p)
  <2>1. PICK fails \in BOOLEAN :
          LET skip == fails \/ (kind = "progress" /\ ~is_active(job[j].status))
          IN  publisher' = [publisher EXCEPT ![p] =
                 IF skip THEN IdlePublisher
                 ELSE [pc |-> "bump", job |-> j, kind |-> kind,
                       envelope |-> [sequence |-> 0, state |-> job[j],
                                     result |-> result[j], error |-> error[j]]]]
    BY <1>8 DEF read_persisted
  <2> DEFINE skip == fails \/ (kind = "progress" /\ ~is_active(job[j].status))
             e == [sequence |-> 0, state |-> job[j], result |-> result[j], error |-> error[j]]
             busy == [pc |-> "bump", job |-> j, kind |-> kind, envelope |-> e]
  <2>2. UNCHANGED <<sent, sequence, revision>>
    BY <1>8 DEF read_persisted
  <2>3. e \in Envelope
    BY <1>2, <1>6 DEF CoreTypes, Envelope
  <2>4. busy \in PublisherState /\ IdlePublisher \in PublisherState
    BY <1>2, <2>3 DEF PublisherState
  <2>5. faults = 0 /\ ~skip => is_valid_for_event(kind, e)
    <3>1. faults = 0 => PayloadIsValid(e)
      BY <1>4 DEF PayloadIsValid
    <3> QED
      BY <1>2, <1>5, <3>1 DEF is_valid_for_event, EventKinds, Ends
  <2>6. publisher' = [publisher EXCEPT ![p] = IF skip THEN IdlePublisher ELSE busy]
    BY <2>1
  <2>7. CASE skip
    <3>1. publisher' = [publisher EXCEPT ![p] = IdlePublisher]
      BY <2>6, <2>7
    <3>2. ~Busy(p)'
      BY <1>0, <3>1 DEF EventTypes, Busy, IdlePublisher
    <3> HIDE DEF skip
    <3> QED
      BY <1>0, <1>7, <2>2, <2>4, <3>1, <3>2 DEF EventTypes
  <2>8. CASE ~skip
    <3>1. publisher' = [publisher EXCEPT ![p] = busy]
      BY <2>6, <2>8
    <3>2. publisher'[p] = busy
      BY <1>0, <3>1 DEF EventTypes
    <3>3. busy.job = j /\ busy.kind = kind /\ busy.pc = "bump" /\ busy.envelope = e
      OBVIOUS
    <3> HIDE DEF skip, busy, e
    <3> QED
      BY <1>0, <1>3, <1>7, <2>2, <2>4, <2>5, <2>8, <3>1, <3>2, <3>3 DEF EventTypes
  <2> QED
    BY <2>7, <2>8
<1>9. CASE bump_sequence(p)
  <2> DEFINE e == publisher[p].envelope
             n == sequence[j] + 1
             new == [pc |-> "record", job |-> j, kind |-> kind,
                     envelope |-> [e EXCEPT !.sequence = n]]
  <2>1. publisher[p].pc = "bump" /\ UNCHANGED <<sent, revision, faults>>
    BY <1>9 DEF bump_sequence, Publishing, storeVars
  <2>2. e \in Envelope /\ publisher[p] = [pc |-> "bump", job |-> j, kind |-> kind, envelope |-> e]
    BY <1>0, <2>1, PublisherFacts DEF EventTypes
  <2>3. sequence' = [sequence EXCEPT ![j] = n] /\ n \in Nat
    BY <1>0, <1>2, <1>9 DEF bump_sequence, EventTypes
  <2>4. publisher' = [publisher EXCEPT ![p] = new]
    BY <1>9 DEF bump_sequence
  <2>5. new.envelope \in Envelope /\ new \in PublisherState
    <3>1. [e EXCEPT !.sequence = n] \in Envelope
      BY <2>2, <2>3 DEF Envelope
    <3> QED
      BY <1>2, <3>1 DEF PublisherState
  <2>6. faults = 0 => is_valid_for_event(kind, new.envelope)
    <3>1. faults = 0 => is_valid_for_event(kind, e)
      BY <2>1 DEF EnvelopesValid
    <3>2. /\ new.envelope.state = e.state /\ new.envelope.result = e.result
          /\ new.envelope.error = e.error
      BY <2>2 DEF Envelope
    <3> QED
      BY <3>1, <3>2 DEF is_valid_for_event, PayloadIsValid
  <2>7. new.job = j /\ new.kind = kind /\ new.pc = "record"
    OBVIOUS
  <2>8. publisher'[p] = new
    BY <1>0, <2>4 DEF EventTypes
  <2> HIDE DEF new, e, n
  <2> QED
    BY <1>0, <1>2, <1>7, <2>1, <2>3, <2>4, <2>5, <2>6, <2>7, <2>8 DEF EventTypes
<1>10. CASE record_event_sequence(p)
  <2> DEFINE e == publisher[p].envelope
             new == [pc |-> "send", job |-> j, kind |-> kind, envelope |-> e]
  <2>1. publisher[p].pc = "record" /\ UNCHANGED <<sent, sequence>>
    BY <1>10 DEF record_event_sequence, Publishing
  <2>2. /\ e \in Envelope
        /\ publisher[p] = [pc |-> "record", job |-> j, kind |-> kind, envelope |-> e]
    BY <1>0, <2>1, PublisherFacts DEF EventTypes
  <2>3. revision' \in [Jobs -> Nat]
    <3>1. e.sequence \in Nat
      BY <2>2 DEF Envelope
    <3>2. revision' = revision \/ revision' = [revision EXCEPT ![j] = e.sequence]
      BY <1>10 DEF record_event_sequence
    <3> QED
      BY <1>0, <3>1, <3>2 DEF EventTypes
  <2>4. publisher' = [publisher EXCEPT ![p] = new]
    <3>1. publisher' = [publisher EXCEPT ![p] = [publisher[p] EXCEPT !.pc = "send"]]
      BY <1>10 DEF record_event_sequence
    <3>2. [publisher[p] EXCEPT !.pc = "send"] = new
      BY <2>2
    <3> QED
      BY <3>1, <3>2
  <2>5. new \in PublisherState /\ new.job = j /\ new.kind = kind /\ new.pc = "send" /\ new.envelope = e
    BY <1>2, <2>2 DEF PublisherState
  <2>6. faults = 0 => is_valid_for_event(kind, e)
    BY <2>1 DEF EnvelopesValid
  <2>7. publisher'[p] = new
    BY <1>0, <2>4 DEF EventTypes
  <2> HIDE DEF new, e
  <2> QED
    BY <1>0, <1>3, <1>7, <2>1, <2>3, <2>4, <2>5, <2>6, <2>7 DEF EventTypes
<1>11. CASE send_event(p)
  <2> DEFINE e == publisher[p].envelope
             event == [kind |-> kind, envelope |-> e]
  <2>1. publisher[p].pc = "send" /\ UNCHANGED <<sequence, revision, faults>>
    BY <1>11 DEF send_event, Publishing, storeVars
  <2>2. /\ sent' = [sent EXCEPT ![j] = Append(sent[j], event)]
        /\ publisher' = [publisher EXCEPT ![p] = IdlePublisher]
    BY <1>11 DEF send_event
  <2>3. event \in Event
    BY <1>0, <1>2, <2>1, PublisherFacts DEF EventTypes, Event
  <2>4. sent[j] \in Seq(Event)
    BY <1>0, <1>2 DEF EventTypes
  <2>5. /\ ~Busy(p)' /\ \A q \in Publishers : q # p => publisher'[q] = publisher[q]
        /\ publisher' \in [Publishers -> PublisherState]
    BY <1>0, <2>2 DEF EventTypes, Busy, IdlePublisher, PublisherState
  <2> DEFINE n == Len(sent[j]) + 1
  <2>6. /\ sent' \in [Jobs -> Seq(Event)]
        /\ \A k \in Jobs : k # j => sent'[k] = sent[k]
        /\ sent'[j] = Append(sent[j], event)
    BY <1>0, <1>2, <2>2, <2>3, <2>4 DEF EventTypes
  <2>7. /\ DOMAIN sent'[j] = 1..n /\ DOMAIN sent[j] = 1..(n - 1) /\ n \in Nat
        /\ \A i \in DOMAIN sent[j] : sent'[j][i] = sent[j][i]
        /\ sent'[j][n] = event
    BY <2>3, <2>4, <2>6
  <2>8. \A i \in DOMAIN sent'[j] : i = n \/ i \in DOMAIN sent[j]
    BY <2>7
  <2>9. event.kind = kind /\ event.envelope = e
    OBVIOUS
  <2> HIDE DEF event, n, e
  <2>10. EventTypes'
    BY <1>0, <2>1, <2>5, <2>6 DEF EventTypes
  <2>11. AnnouncesRecord'
    BY <1>1, <2>5 DEF AnnouncesRecord, Busy
  <2>12. SentIsRecord'
    <3> SUFFICES ASSUME NEW k \in Jobs, NEW i \in DOMAIN sent'[k], Ends(sent'[k][i].kind)
                 PROVE  job[k].status = sent'[k][i].kind
      BY <1>1 DEF SentIsRecord
    <3>1. CASE k # j
      BY <2>6, <3>1 DEF SentIsRecord
    <3>2. CASE k = j /\ i = n
      BY <1>5, <2>7, <2>9, <3>2
    <3>3. CASE k = j /\ i # n
      BY <2>7, <2>8, <3>3 DEF SentIsRecord
    <3> QED
      BY <3>1, <3>2, <3>3
  <2>13. OneAnnouncement'
    <3>1. Ends(kind) => \A i \in DOMAIN sent[j] : ~Ends(sent[j][i].kind)
      BY <1>2 DEF OneAnnouncement
    <3>2. \A q, r \in Publishers :
            (/\ Busy(q)' /\ Busy(r)' /\ publisher'[q].job = publisher'[r].job
             /\ Ends(publisher'[q].kind) /\ Ends(publisher'[r].kind)) => q = r
      BY <2>5 DEF OneAnnouncement, Busy
    <3>3. ASSUME NEW q \in Publishers, Busy(q)', Ends(publisher'[q].kind)
          PROVE  \A i \in DOMAIN sent'[publisher'[q].job] : ~Ends(sent'[publisher'[q].job][i].kind)
      <4>1. /\ q # p /\ publisher'[q] = publisher[q] /\ Busy(q) /\ Ends(publisher[q].kind)
            /\ publisher[q].job \in Jobs
        BY <1>0, <2>5, <3>3, PublisherFacts DEF Busy, EventTypes
      <4>2. publisher[q].job = j => ~Ends(kind)
        BY <1>2, <4>1 DEF OneAnnouncement
      <4>3. \A i \in DOMAIN sent[publisher[q].job] : ~Ends(sent[publisher[q].job][i].kind)
        BY <4>1 DEF OneAnnouncement
      <4>4. CASE publisher[q].job = j
        BY <2>7, <2>8, <2>9, <4>1, <4>2, <4>3, <4>4
      <4>5. CASE publisher[q].job # j
        BY <2>6, <4>1, <4>3, <4>5
      <4> QED
        BY <4>4, <4>5
    <3>4. ASSUME NEW k \in Jobs, NEW i \in DOMAIN sent'[k], NEW m \in DOMAIN sent'[k],
                 Ends(sent'[k][i].kind), Ends(sent'[k][m].kind)
          PROVE  i = m
      <4>1. CASE k # j
        BY <2>6, <3>4, <4>1 DEF OneAnnouncement
      <4>2. CASE k = j /\ Ends(kind)
        BY <2>7, <2>8, <3>1, <3>4, <4>2
      <4>3. CASE k = j /\ ~Ends(kind)
        <5>1. i # n /\ m # n
          BY <2>7, <2>9, <3>4, <4>3
        <5>2. i \in DOMAIN sent[j] /\ m \in DOMAIN sent[j]
          BY <2>8, <4>3, <5>1
        <5> QED
          BY <2>7, <3>4, <4>3, <5>2 DEF OneAnnouncement
      <4> QED
        BY <4>1, <4>2, <4>3
    <3> QED
      BY <3>2, <3>3, <3>4 DEF OneAnnouncement
  <2>14. EnvelopesValid'
    <3> SUFFICES ASSUME faults = 0
                 PROVE  /\ \A q \in Publishers : publisher'[q].pc \in {"bump", "record", "send"} =>
                             is_valid_for_event(publisher'[q].kind, publisher'[q].envelope)
                        /\ \A k \in Jobs : \A i \in DOMAIN sent'[k] :
                             is_valid_for_event(sent'[k][i].kind, sent'[k][i].envelope)
      BY <2>1 DEF EnvelopesValid
    <3>1. is_valid_for_event(kind, e)
      BY <2>1 DEF EnvelopesValid, e
    <3>2. ASSUME NEW k \in Jobs, NEW i \in DOMAIN sent'[k]
          PROVE  is_valid_for_event(sent'[k][i].kind, sent'[k][i].envelope)
      <4>1. CASE k # j
        BY <2>6, <3>2, <4>1 DEF EnvelopesValid
      <4>2. CASE k = j /\ i = n
        BY <2>7, <2>9, <3>1, <4>2
      <4>3. CASE k = j /\ i # n
        BY <2>7, <2>8, <3>2, <4>3 DEF EnvelopesValid
      <4> QED
        BY <4>1, <4>2, <4>3
    <3> QED
      BY <2>5, <3>2 DEF EnvelopesValid, Busy
  <2> QED
    BY <1>4, <2>10, <2>11, <2>12, <2>13, <2>14
<1> QED
  BY <1>8, <1>9, <1>10, <1>11 DEF Publication

(* An operation that writes no payload, with what it may announce. *)
LEMMA PlainStoreEvents ==
  ASSUME CoreTypes, CoreTypes', EventInvariant, NEW j \in Jobs, NEW record,
         NEW w \in WriteResults, StorePlain(j, record, w),
         UNCHANGED <<sent, sequence, revision>>,
         \/ job[j] = NoState
         \/ is_active(job[j].status) /\ record \in JobRecord /\ job[j].stage <= record.stage,
         record.status \notin {"completed", "failed"},
         NEW p \in Publishers, NEW kind \in EventKinds,
         \/ publisher' = publisher
         \/ /\ w = "ok" /\ is_active(job[j].status) /\ record \in JobRecord
            /\ StartPublish(p, j, kind)
            /\ IF Ends(kind) THEN record.status = kind ELSE record.stage # 0
  PROVE  EventInvariant'
<1>1. /\ \A k \in Jobs : k # j => job'[k] = job[k]
      /\ job'[j] = record \/ job'[j] = job[j]
      /\ w = "ok" => job'[j] = record
      /\ UNCHANGED <<result, error>>
  BY StoreWrites DEF StorePlain
<1>2. StoreOnlyAt(j)
  BY <1>1 DEF StoreOnlyAt
<1>3. faults' \in 0..MaxFaults /\ (faults' = 0 => faults = 0 /\ w = "ok")
  BY WriteFaults DEF EventInvariant, EventTypes, StorePlain
<1>4. faults' = 0 => /\ (result'[j] # "none") <=> (job'[j].status = "completed")
                     /\ error'[j] <=> (job'[j].status = "failed")
  BY <1>1, <1>3 DEF EventInvariant, PayloadsMatch, is_active, NoState
<1> QED
  BY <1>1, <1>2, <1>3, <1>4, EventStep DEF StartPublish

(* Steps without an event. *)
LEMMA EventFrame ==
  ASSUME EventInvariant, UNCHANGED <<job, result, error, eventVars>>,
         faults' \in 0..MaxFaults, faults' = 0 => faults = 0
  PROVE  EventInvariant'
BY DEF EventInvariant, EventTypes, AnnouncesRecord, SentIsRecord, OneAnnouncement,
       PayloadsMatch, EnvelopesValid, Busy, eventVars

(* A submission announces nothing: a queued job has published no event. *)
LEMMA SubmitterEvents ==
  ASSUME RunnerInvariant, RunnerInvariant', EventInvariant, NEW s \in Submitters,
         Submission(s) \/ \E j \in Jobs : try_admit(s, j)
  PROVE  EventInvariant'
<1> USE DEF RunnerInvariant
<1>1. UNCHANGED eventVars
  BY DEF Submission, create_job, spawn_runner, try_admit
<1>2. CASE UNCHANGED storeVars
  BY <1>1, <1>2, EventFrame DEF storeVars, EventInvariant, EventTypes
<1>3. CASE ~UNCHANGED storeVars
  <2>1. create_job(s)
    BY <1>3 DEF Submission, spawn_runner, try_admit
  <2>2. PICK j \in Jobs : submitter[s] = [pc |-> "admitted", job |-> j]
    BY <2>1 DEF create_job, CoreTypes, SubmitterState
  <2>3. job[j] = NoState /\ \E w \in WriteResults : StorePlain(j, PendingState, w)
    BY <1>3, <2>1, <2>2 DEF create_job
  <2>4. PendingState.status = "pending" /\ j \in Publishers /\ "progress" \in EventKinds
    BY DEF PendingState, Publishers, EventKinds
  <2> QED
    BY <1>1, <2>3, <2>4, PlainStoreEvents DEF eventVars
<1> QED
  BY <1>2, <1>3

(* cancel_job announces the cancellation it persisted, and no other. *)
LEMMA CancellerEvents ==
  ASSUME RunnerInvariant, RunnerInvariant', EventInvariant, NEW c \in Cancellers,
         Cancellation(c) \/ \E j \in Jobs : look_up(c, j)
  PROVE  EventInvariant'
<1> USE DEF RunnerInvariant
<1>1. CASE UNCHANGED <<storeVars, eventVars>>
  BY <1>1, EventFrame DEF storeVars, EventInvariant, EventTypes
<1>2. CASE ~UNCHANGED <<storeVars, eventVars>>
  <2>1. cancel_job(c)
    BY <1>2 DEF Cancellation, signal_token, look_up
  <2>2. PICK j \in Jobs : canceller[c].job = j
    BY <2>1 DEF cancel_job, CoreTypes, CancellerState
  <2> DEFINE st == Committed(job[j], "cancelled")
  <2>3. is_active(job[j].status) /\ UNCHANGED <<sent, sequence, revision>>
    BY <1>2, <2>1, <2>2 DEF cancel_job, eventVars
  <2>4. PICK w \in WriteResults :
          /\ StorePlain(j, st, w)
          /\ publisher' = publisher \/ (w = "ok" /\ StartPublish(c, j, "cancelled"))
    BY <2>1, <2>2, <2>3 DEF cancel_job
  <2>5. /\ st \in JobRecord /\ st.status = "cancelled" /\ job[j].stage <= st.stage
        /\ c \in Publishers /\ "cancelled" \in EventKinds
    BY <2>3, ActiveIsRecord, RecordTypes, StageAssumption
       DEF Committed, Status, JobRecord, Publishers, EventKinds
  <2> HIDE DEF st
  <2> QED
    BY <2>3, <2>4, <2>5, PlainStoreEvents DEF Ends
<1> QED
  BY <1>1, <1>2

(* The end of a job is announced together with its payload. *)
LEMMA SaveEvents ==
  ASSUME RunnerInvariant, RunnerInvariant', EventInvariant, NEW j \in Jobs,
         job[j].status = "running",
         NEW status \in {"completed", "failed"}, NEW w \in WriteResults,
         Store(j, Committed(job[j], status), w),
         \A k \in Jobs : k # j => result'[k] = result[k] /\ error'[k] = error[k],
         w = "ok" => IF status = "completed" THEN result'[j] # "none" /\ error'[j] = error[j]
                     ELSE error'[j] /\ result'[j] = result[j],
         UNCHANGED <<sent, sequence, revision>>,
         IF w = "ok" THEN StartPublish(j, j, status) ELSE UNCHANGED publisher
  PROVE  EventInvariant'
<1> DEFINE st == Committed(job[j], status)
<1>1. is_active(job[j].status) /\ job[j] \in JobRecord
  BY ActiveIsRecord DEF RunnerInvariant, is_active
<1>2. st \in JobRecord /\ st.status = status /\ job[j].stage <= st.stage
  BY <1>1, RecordTypes, StageAssumption DEF Committed, Status, JobRecord
<1>3. /\ \A k \in Jobs : k # j => job'[k] = job[k]
      /\ job'[j] = st \/ job'[j] = job[j]
      /\ w = "ok" => job'[j] = st
  BY StoreWrites DEF RunnerInvariant
<1>4. StoreOnlyAt(j)
  BY <1>3 DEF StoreOnlyAt
<1>5. faults' \in 0..MaxFaults /\ (faults' = 0 => faults = 0 /\ w = "ok")
  BY WriteFaults DEF EventInvariant, EventTypes
<1>6. faults' = 0 => /\ (result'[j] # "none") <=> (job'[j].status = "completed")
                     /\ error'[j] <=> (job'[j].status = "failed")
  BY <1>2, <1>3, <1>5 DEF EventInvariant, PayloadsMatch
<1>7. \/ publisher' = publisher
      \/ /\ publisher' = [publisher EXCEPT ![j] = [pc |-> "read", job |-> j, kind |-> status]]
         /\ w = "ok"
  BY DEF StartPublish
<1>8. j \in Publishers /\ status \in EventKinds /\ Ends(status)
  BY DEF Publishers, EventKinds, Ends
<1> HIDE DEF st
<1> QED
  BY <1>1, <1>2, <1>3, <1>4, <1>5, <1>6, <1>7, <1>8, EventStep DEF RunnerInvariant

(* run_job announces what the store operation before it has persisted. *)
LEMMA RunEvents ==
  ASSUME RunnerInvariant, RunnerInvariant', EventInvariant, NEW j \in Jobs, Run(j)
  PROVE  EventInvariant'
<1>a. j \in Publishers /\ {"progress", "cancelled"} \subseteq EventKinds
  BY DEF Publishers, EventKinds
<1>b. faults \in 0..MaxFaults
  BY DEF EventInvariant, EventTypes
<1>1. CASE UNCHANGED <<storeVars, eventVars>>
  BY <1>b, <1>1, EventFrame DEF storeVars
<1>2. CASE append_solver_event(j)
  <2>1. UNCHANGED <<job, result, error, eventVars>> /\ \E fails \in BOOLEAN : MayFail(fails)
    BY <1>2 DEF append_solver_event
  <2>2. faults' \in 0..MaxFaults /\ (faults' = 0 => faults = 0)
    BY <1>b, <2>1, LoggedFaults
  <2> QED
    BY <2>1, <2>2, EventFrame
<1>3. CASE ~UNCHANGED <<storeVars, eventVars>> /\ ~append_solver_event(j)
  <2>0. \/ mark_running(j) \/ update_progress(j) \/ persist_cancelled(j)
        \/ save_result(j) \/ save_error(j)
    BY <1>3 DEF Run, acquire_permit, cancelled_in_queue, check_cancelled, wait_for_stage,
           keep_snapshot, updates_closed, join_worker, release_permit,
           remove_activity, send_completion
  <2>1. UNCHANGED <<sent, sequence, revision>>
    BY <2>0 DEF mark_running, update_progress, persist_cancelled, save_result, save_error,
                eventVars
  <2>2. runner[j] # "absent" /\ job[j] \in JobRecord /\ AgreesAt(j)
    <3>1. runner[j] # "absent"
      BY <2>0 DEF mark_running, update_progress, persist_cancelled, save_result, save_error, At
    <3> QED
      BY <3>1, RunnerFacts
  <2>3. CASE mark_running(j)
    <3>1. /\ is_active(job[j].status) /\ UNCHANGED publisher
          /\ \E w \in WriteResults : StorePlain(j, MarkedRunning(job[j]), w)
      BY <1>3, <2>3 DEF mark_running, eventVars
    <3>2. /\ MarkedRunning(job[j]) \in JobRecord /\ MarkedRunning(job[j]).status = "running"
          /\ job[j].stage <= MarkedRunning(job[j]).stage
      BY <2>2, RecordTypes, StageAssumption DEF MarkedRunning, JobRecord
    <3> QED
      BY <1>a, <2>1, <3>1, <3>2, PlainStoreEvents DEF RunnerInvariant
  <2>4. CASE update_progress(j)
    <3> DEFINE stage == Head(updates[j])
               st == WithProgress(job[j], stage, StageStart(stage))
    <3>1. is_active(job[j].status)
      BY <1>3, <2>1, <2>4 DEF update_progress, eventVars
    <3>2. PICK w \in WriteResults :
            /\ StorePlain(j, st, w)
            /\ publisher' = publisher \/ (w = "ok" /\ StartPublish(j, j, "progress"))
      BY <2>4, <3>1 DEF update_progress, is_active
    <3>3. stage \in 1..MaxStage
      BY <2>2, <2>4 DEF update_progress, At, AgreesAt
    <3>4. st \in JobRecord
      BY <2>2, <3>3, RecordTypes, StageStartType
    <3>5. /\ job[j].stage <= st.stage /\ stage <= st.stage
          /\ st = job[j] \/ st.status = "running"
      BY <2>2, <3>3, ProgressForward, StageStartType
    <3>6. st.stage # 0 /\ st.status \notin {"completed", "failed"}
      BY <3>1, <3>3, <3>4, <3>5, StageAssumption DEF JobRecord, is_active
    <3> HIDE DEF st
    <3> QED
      BY <1>a, <2>1, <3>1, <3>2, <3>4, <3>5, <3>6, PlainStoreEvents DEF RunnerInvariant, Ends
  <2>5. CASE persist_cancelled(j)
    <3> DEFINE st == Committed(job[j], "cancelled")
    <3>1. is_active(job[j].status)
      BY <1>3, <2>1, <2>5 DEF persist_cancelled, eventVars
    <3>2. PICK w \in WriteResults :
            /\ StorePlain(j, st, w)
            /\ publisher' = publisher \/ (w = "ok" /\ StartPublish(j, j, "cancelled"))
      BY <2>5, <3>1 DEF persist_cancelled
    <3>3. st \in JobRecord /\ st.status = "cancelled" /\ job[j].stage <= st.stage
      BY <2>2, RecordTypes, StageAssumption DEF Committed, Status, JobRecord
    <3> HIDE DEF st
    <3> QED
      BY <1>a, <2>1, <3>1, <3>2, <3>3, PlainStoreEvents DEF RunnerInvariant, Ends
  <2>6. CASE save_result(j)
    <3> DEFINE full == IF snapshot[j] THEN "full" ELSE "plain"
    <3>1. job[j].status = "running"
      BY <1>3, <2>1, <2>6 DEF save_result, Save, eventVars
    <3>2. PICK w \in WriteResults :
             /\ Store(j, Committed(job[j], "completed"), w)
             /\ IF w = "lost" THEN UNCHANGED <<result, error>>
                ELSE result' = [result EXCEPT ![j] = full] /\ UNCHANGED error
             /\ IF w = "ok" THEN StartPublish(j, j, "completed") ELSE UNCHANGED publisher
      BY <2>6, <3>1 DEF save_result, Save
    <3>3. full # "none"
      OBVIOUS
    <3>4. /\ \A k \in Jobs : k # j => result'[k] = result[k] /\ error'[k] = error[k]
          /\ w = "ok" => result'[j] # "none" /\ error'[j] = error[j]
      BY <3>2, <3>3 DEF RunnerInvariant, CoreTypes
    <3> QED
      BY <2>1, <3>1, <3>2, <3>4, SaveEvents
  <2>7. CASE save_error(j)
    <3>1. job[j].status = "running"
      BY <1>3, <2>1, <2>7 DEF save_error, Save, eventVars
    <3>2. PICK w \in WriteResults :
             /\ Store(j, Committed(job[j], "failed"), w)
             /\ IF w = "lost" THEN UNCHANGED <<result, error>>
                ELSE error' = [error EXCEPT ![j] = TRUE] /\ UNCHANGED result
             /\ IF w = "ok" THEN StartPublish(j, j, "failed") ELSE UNCHANGED publisher
      BY <2>7, <3>1 DEF save_error, Save
    <3>3. /\ \A k \in Jobs : k # j => result'[k] = result[k] /\ error'[k] = error[k]
          /\ w = "ok" => error'[j] /\ result'[j] = result[j]
      BY <3>2 DEF RunnerInvariant, CoreTypes
    <3> QED
      BY <2>1, <3>1, <3>2, <3>3, SaveEvents
  <2> QED
    BY <2>0, <2>3, <2>4, <2>5, <2>6, <2>7
<1> QED
  BY <1>1, <1>2, <1>3

(* Nothing is announced before the first job. *)
LEMMA InitEvents == Init => EventInvariant
<1> SUFFICES ASSUME Init
             PROVE  EventInvariant
  OBVIOUS
<1>1. EventTypes
  BY BoundAssumption DEF Init, EventTypes, PublisherState
<1>2. AnnouncesRecord /\ SentIsRecord /\ OneAnnouncement
  BY DEF Init, AnnouncesRecord, SentIsRecord, OneAnnouncement, Busy, IdlePublisher
<1>3. PayloadsMatch /\ EnvelopesValid
  BY DEF Init, PayloadsMatch, EnvelopesValid, IdlePublisher, NoState
<1> QED
  BY <1>1, <1>2, <1>3 DEF EventInvariant

(* Every step keeps what is announced true. *)
LEMMA NextEvents ==
  RunnerInvariant /\ RunnerInvariant' /\ EventInvariant /\ [Next]_vars => EventInvariant'
<1> SUFFICES ASSUME RunnerInvariant, RunnerInvariant', EventInvariant, [Next]_vars
             PROVE  EventInvariant'
  OBVIOUS
<1>1. ASSUME NEW p \in Publishers, Publication(p)
      PROVE  EventInvariant'
  BY <1>1, PublicationEvents DEF RunnerInvariant
<1>2. ASSUME NEW j \in Jobs, finish(j) \/ \E u \in Updates : report(j, u)
      PROVE  EventInvariant'
  <2>1. UNCHANGED <<storeVars, eventVars>>
    BY <1>2 DEF finish, report
  <2> QED
    BY <2>1, EventFrame DEF storeVars, EventInvariant, EventTypes
<1>3. CASE UNCHANGED vars
  BY <1>3, EventFrame DEF vars, eventVars, EventInvariant, EventTypes
<1> QED
  BY <1>1, <1>2, <1>3, SubmitterEvents, CancellerEvents, RunEvents DEF Next

(* What is announced about a job is what its record says. *)
THEOREM EventsAreTrue == Spec => []EventInvariant
BY InitEvents, NextEvents, InvariantHolds, PTL DEF Spec

(* No two processes announce the end of a job, and what is published       *)
(* satisfies the contract of sse_event (is_valid_for_event) as long as the *)
(* store works.                                                            *)
THEOREM EventsValid == Spec => []PublishedEventsValid
<1>1. EventInvariant => PublishedEventsValid
  <2> SUFFICES ASSUME EventInvariant, NEW j \in Jobs
               PROVE  /\ Cardinality(TerminalEvents(j)) <= 1
                      /\ faults = 0 => \A i \in DOMAIN sent[j] :
                           is_valid_for_event(sent[j][i].kind, sent[j][i].envelope)
    BY DEF PublishedEventsValid
  <2>1. \A i, k \in TerminalEvents(j) : i = k
    BY DEF EventInvariant, OneAnnouncement, TerminalEvents, Ends
  <2>2. TerminalEvents(j) = {} \/ \E i : TerminalEvents(j) = {i}
    BY <2>1
  <2>3. Cardinality(TerminalEvents(j)) <= 1
    <3>1. CASE TerminalEvents(j) = {}
      BY <3>1, FS_EmptySet
    <3>2. ASSUME NEW i, TerminalEvents(j) = {i}
          PROVE  Cardinality(TerminalEvents(j)) <= 1
      <4>1. Cardinality({i}) = 1
        BY FS_Singleton
      <4> QED
        BY <3>2, <4>1
    <3> QED
      BY <2>2, <3>1, <3>2
  <2> QED
    BY <2>3 DEF EventInvariant, EnvelopesValid
<1> QED
  BY <1>1, EventsAreTrue, PTL

-----------------------------------------------------------------------------
(* The updates.  How often something occurs in a sequence. *)
(* A sequence holds a natural number of them, ... *)
LEMMA CountType ==
  ASSUME NEW S, NEW s \in Seq(S), NEW u
  PROVE  IsFiniteSet({i \in DOMAIN s : s[i] = u}) /\ CountOf(u, s) \in Nat
<1>1. IsFiniteSet(DOMAIN s)
  BY FS_Interval
<1>2. {i \in DOMAIN s : s[i] = u} \in SUBSET DOMAIN s
  OBVIOUS
<1>3. IsFiniteSet({i \in DOMAIN s : s[i] = u})
  BY <1>1, <1>2, FS_Subset
<1> QED
  BY <1>3, FS_CardinalityType DEF CountOf

(* ... the empty sequence holds none, ... *)
LEMMA CountNone ==
  ASSUME NEW s, NEW u, \A i \in DOMAIN s : s[i] # u
  PROVE  CountOf(u, s) = 0
<1>1. {i \in DOMAIN s : s[i] = u} = {}
  OBVIOUS
<1> QED
  BY <1>1, FS_EmptySet DEF CountOf

(* ... sending one more counts it, ... *)
LEMMA CountAppend ==
  ASSUME NEW S, NEW s \in Seq(S), NEW v \in S, NEW u
  PROVE  CountOf(u, Append(s, v)) = CountOf(u, s) + (IF v = u THEN 1 ELSE 0)
<1> DEFINE n == Len(s) + 1
           old == {i \in DOMAIN s : s[i] = u}
           new == {i \in DOMAIN Append(s, v) : Append(s, v)[i] = u}
<1>1. /\ DOMAIN Append(s, v) = 1..n /\ DOMAIN s = 1..(n - 1) /\ n \in Nat
      /\ \A i \in 1..(n - 1) : Append(s, v)[i] = s[i]
      /\ Append(s, v)[n] = v
  OBVIOUS
<1>2. \A i : i \in 1..n <=> i \in 1..(n - 1) \/ i = n
  BY <1>1
<1>3. n \notin old /\ new = IF v = u THEN old \cup {n} ELSE old
  BY <1>1, <1>2
<1>4. IsFiniteSet(old) /\ Cardinality(old) \in Nat
  BY CountType DEF CountOf
<1>5. Cardinality(new) = Cardinality(old) + (IF v = u THEN 1 ELSE 0)
  <2> HIDE DEF new, old, n
  <2>1. CASE v = u
    BY <1>3, <1>4, <2>1, FS_AddElement
  <2>2. CASE v # u
    BY <1>3, <1>4, <2>2
  <2> QED
    BY <2>1, <2>2
<1> QED
  BY <1>5 DEF CountOf

(* ... and receiving the head uncounts it. *)
LEMMA CountTail ==
  ASSUME NEW S, NEW s \in Seq(S), s # << >>, NEW u
  PROVE  CountOf(u, s) = CountOf(u, Tail(s)) + (IF Head(s) = u THEN 1 ELSE 0)
<1> DEFINE n == Len(s)
           all == {i \in DOMAIN s : s[i] = u}
           rest == {i \in DOMAIN Tail(s) : Tail(s)[i] = u}
           later == all \ {1}
           f == [i \in rest |-> i + 1]
<1>1. /\ DOMAIN s = 1..n /\ n \in Nat \ {0} /\ DOMAIN Tail(s) = 1..(n - 1)
      /\ Tail(s) \in Seq(S) /\ Head(s) = s[1]
      /\ \A i \in 1..(n - 1) : Tail(s)[i] = s[i + 1]
  OBVIOUS
<1>2. \A i \in rest : i \in 1..(n - 1) /\ s[i + 1] = u /\ i + 1 \in 2..n
  BY <1>1
<1>3. \A i \in later : i \in 2..n /\ s[i] = u /\ i - 1 \in rest
  BY <1>1
<1>4. f \in Bijection(rest, later)
  <2>1. f \in [rest -> later]
    BY <1>1, <1>2
  <2>2. \A a, b \in rest : f[a] = f[b] => a = b
    BY <1>2
  <2>3. \A t \in later : \E a \in rest : f[a] = t
    <3> TAKE t \in later
    <3>1. t - 1 \in rest /\ f[t - 1] = t
      BY <1>3
    <3> QED
      BY <3>1
  <2> HIDE DEF f, rest, later
  <2> QED
    BY <2>1, <2>2, <2>3 DEF Bijection, Injection, Surjection, IsInjective
<1>5. /\ IsFiniteSet(rest) /\ Cardinality(rest) \in Nat
      /\ IsFiniteSet(all) /\ Cardinality(all) \in Nat
  <2>1. IsFiniteSet(rest)
    BY <1>1, CountType
  <2>2. IsFiniteSet(all)
    BY CountType
  <2> HIDE DEF rest, all
  <2> QED
    BY <2>1, <2>2, FS_CardinalityType
<1>6. Cardinality(later) = Cardinality(rest)
  <2> HIDE DEF rest, later, f
  <2>1. ExistsBijection(rest, later)
    BY <1>4 DEF ExistsBijection
  <2> QED
    BY <1>5, <2>1, FS_Bijection
<1>7. 1 \in all <=> Head(s) = u
  BY <1>1
<1>8. Cardinality(later) = IF Head(s) = u THEN Cardinality(all) - 1 ELSE Cardinality(all)
  <2> HIDE DEF rest, all
  <2> QED
    BY <1>5, <1>7, FS_RemoveElement
<1>9. CountOf(u, s) = Cardinality(all) /\ CountOf(u, Tail(s)) = Cardinality(rest)
  BY DEF CountOf
<1> HIDE DEF all, rest, later
<1> QED
  BY <1>5, <1>6, <1>8, <1>9

(* Whatever was in a sequence is its head or still in its tail. *)
LEMMA HeadOrTail ==
  ASSUME NEW S, NEW s \in Seq(S), s # << >>, NEW i \in DOMAIN s
  PROVE  s[i] = Head(s) \/ \E k \in DOMAIN Tail(s) : Tail(s)[k] = s[i]
<1>1. /\ DOMAIN s = 1..Len(s) /\ DOMAIN Tail(s) = 1..(Len(s) - 1) /\ Head(s) = s[1]
      /\ \A k \in 1..(Len(s) - 1) : Tail(s)[k] = s[k + 1]
      /\ Len(s) \in Nat
  OBVIOUS
<1>2. CASE i = 1
  BY <1>1, <1>2
<1>3. CASE i # 1
  <2>1. i - 1 \in 1..(Len(s) - 1) /\ (i - 1) + 1 = i
    BY <1>1, <1>3
  <2> QED
    BY <1>1, <2>1
<1> QED
  BY <1>2, <1>3

-----------------------------------------------------------------------------
(* The types of what is reported and what is persisted of it. *)
ReportTypes ==
  /\ reported \in [Jobs -> Seq(Updates)]
  /\ snapshot \in [Jobs -> BOOLEAN]
  /\ telemetry \in [Jobs -> Nat]

InChannel(j, u) == \E i \in DOMAIN updates[j] : updates[j][i] = u

(* Everything reported is persisted or waits in the channel. *)
ReportsAccounted(j) ==
  /\ CountOf(Telemetry, reported[j]) = telemetry[j] + CountOf(Telemetry, updates[j])
  /\ \A i \in DOMAIN reported[j] :
       /\ reported[j][i] <= job[j].stage \/ InChannel(j, reported[j][i])
       /\ reported[j][i] = ResultSnapshot => snapshot[j] \/ InChannel(j, ResultSnapshot)

(* What holds of the reports of one job, state by state of its runner. *)
ReportsAt(j) ==
  /\ runner[j] \in {"absent", "queued", "acquired", "marking"} =>
       /\ worker[j] = "none" /\ reported[j] = << >> /\ updates[j] = << >>
       /\ telemetry[j] = 0
  /\ runner[j] \in {"joining", "cancelling", "saving"} =>
       /\ updates[j] = << >>
       /\ job[j].status = "running" => worker[j] # "executing"
  /\ job[j].status \in {"completed", "failed"} =>
       runner[j] \in {"returning", "finishing", "completing", "done"}
  /\ faults = 0 =>
       /\ job[j].status = "running" /\ runner[j] \in WorkingStates => ReportsAccounted(j)
       /\ job[j].status \in {"completed", "failed"} =>
            /\ updates[j] = << >> /\ ReportsAccounted(j)
            /\ result[j] = "plain" => ~snapshot[j]

ReportInvariant == ReportTypes /\ \A j \in Jobs : ReportsAt(j)

(* A step that concerns one job. *)
ReportsOnlyAt(j) ==
  \A k \in Jobs : k # j =>
    /\ runner'[k] = runner[k] /\ worker'[k] = worker[k] /\ reported'[k] = reported[k]
    /\ updates'[k] = updates[k] /\ telemetry'[k] = telemetry[k]
    /\ snapshot'[k] = snapshot[k] /\ job'[k] = job[k] /\ result'[k] = result[k]

(* A step that concerns one job is judged by that job alone. *)
LEMMA ReportStep ==
  ASSUME ReportInvariant, ReportTypes', NEW j \in Jobs, ReportsOnlyAt(j),
         faults' = 0 => faults = 0, ReportsAt(j)'
  PROVE  ReportInvariant'
<1>1. ASSUME NEW k \in Jobs, k # j
      PROVE  ReportsAt(k)'
  BY <1>1 DEF ReportInvariant, ReportsOnlyAt, ReportsAt, ReportsAccounted, InChannel
<1> QED
  BY <1>1 DEF ReportInvariant

(* A step that touches no report keeps every account. *)
LEMMA ReportFrame ==
  ASSUME ReportInvariant, faults' = 0 => faults = 0,
         UNCHANGED <<job, result, runner, workVars, telemetry>>
  PROVE  ReportInvariant'
BY DEF ReportInvariant, ReportTypes, ReportsAt, ReportsAccounted, InChannel, workVars

(* Submissions, publications and cancellations leave the reports alone. *)
LEMMA OtherReports ==
  ASSUME RunnerInvariant, RunnerInvariant', LimitInvariant, LimitInvariant', ReportInvariant,
         \/ \E s \in Submitters : Submission(s) \/ \E j \in Jobs : try_admit(s, j)
         \/ \E p \in Publishers : Publication(p)
         \/ \E c \in Cancellers : Cancellation(c) \/ \E j \in Jobs : look_up(c, j)
         \/ UNCHANGED vars
  PROVE  ReportInvariant'
<1> USE DEF RunnerInvariant
<1>a. faults \in 0..MaxFaults
  BY DEF LimitInvariant, LimitTypes
<1>b. ReportTypes
  BY DEF ReportInvariant
<1>1. ASSUME NEW s \in Submitters, Submission(s) \/ \E j \in Jobs : try_admit(s, j)
      PROVE  ReportInvariant'
  <2>1. CASE \E j \in Jobs : try_admit(s, j)
    BY <2>1, ReportFrame DEF try_admit, storeVars
  <2>2. CASE create_job(s)
    <3>0. PICK j \in Jobs : submitter[s] = [pc |-> "admitted", job |-> j]
      BY <2>2 DEF create_job, CoreTypes, SubmitterState
    <3>1. UNCHANGED <<result, runner, workVars, telemetry>>
      BY <2>2 DEF create_job, StorePlain, storeVars
    <3>2. CASE UNCHANGED storeVars
      BY <3>1, <3>2, ReportFrame DEF storeVars
    <3>3. CASE ~UNCHANGED storeVars
      <4>1. job[j] = NoState
        BY <2>2, <3>0, <3>3 DEF create_job
      <4>2. PICK w \in WriteResults : Store(j, PendingState, w)
        BY <2>2, <3>0, <3>3 DEF create_job, StorePlain
      <4>3. faults' = 0 => faults = 0
        BY <1>a, <4>2, WriteFaults
      <4>4. /\ \A k \in Jobs : k # j => job'[k] = job[k]
            /\ job'[j].status \in {"absent", "pending"}
        BY <4>1, <4>2, StoreWrites DEF NoState, PendingState
      <4>5. ReportsAt(j)'
        BY <3>1, <4>4 DEF ReportInvariant, ReportsAt, workVars
      <4> QED
        BY <1>b, <3>1, <4>3, <4>4, <4>5, ReportStep DEF ReportsOnlyAt, ReportTypes, workVars
    <3> QED
      BY <3>2, <3>3
  <2>3. CASE spawn_runner(s)
    <3>0. PICK j \in Jobs : submitter[s] = [pc |-> "created", job |-> j]
      BY <2>3 DEF spawn_runner, CoreTypes, SubmitterState
    <3>1. /\ UNCHANGED <<storeVars, workVars, telemetry>>
          /\ runner' = [runner EXCEPT ![j] = "queued"]
      BY <2>3, <3>0 DEF spawn_runner
    <3>2. /\ runner[j] = "absent" /\ job[j].status \in {"pending", "cancelled"}
      <4>1. submitter[s].pc = "created" /\ submitter[s].job = j
        BY <3>0
      <4> QED
        BY <4>1 DEF OneRunnerDecides
    <3>3. runner'[j] = "queued" /\ \A k \in Jobs : k # j => runner'[k] = runner[k]
      BY <3>1 DEF CoreTypes
    <3>4. ReportsAt(j)'
      BY <3>1, <3>2, <3>3
         DEF ReportInvariant, ReportsAt, storeVars, workVars, WorkingStates
    <3> QED
      BY <1>b, <3>1, <3>3, <3>4, ReportStep DEF ReportsOnlyAt, ReportTypes, storeVars, workVars
  <2> QED
    BY <1>1, <2>1, <2>2, <2>3 DEF Submission
<1>2. ASSUME NEW p \in Publishers, Publication(p)
      PROVE  ReportInvariant'
  <2>1. UNCHANGED <<job, result, runner, workVars, telemetry>>
    BY <1>2 DEF Publication, read_persisted, bump_sequence, record_event_sequence,
                send_event, storeVars
  <2>2. UNCHANGED faults \/ \E fails \in BOOLEAN : MayFail(fails)
    BY <1>2 DEF Publication, read_persisted, bump_sequence, record_event_sequence,
                send_event, storeVars
  <2>3. faults' = 0 => faults = 0
    BY <1>a, <2>2, LoggedFaults
  <2> QED
    BY <2>1, <2>3, ReportFrame
<1>3. ASSUME NEW c \in Cancellers, Cancellation(c) \/ \E j \in Jobs : look_up(c, j)
      PROVE  ReportInvariant'
  <2>1. UNCHANGED <<result, runner, workVars, telemetry>>
    BY <1>3 DEF Cancellation, cancel_job, signal_token, look_up, StorePlain, storeVars
  <2>2. CASE UNCHANGED storeVars
    BY <2>1, <2>2, ReportFrame DEF storeVars
  <2>3. CASE ~UNCHANGED storeVars
    <3>1. cancel_job(c)
      BY <1>3, <2>3 DEF Cancellation, signal_token, look_up
    <3>2. PICK j \in Jobs : canceller[c].job = j
      BY <3>1 DEF cancel_job, CoreTypes, CancellerState
    <3>3. PICK w \in WriteResults : Store(j, Committed(job[j], "cancelled"), w)
      BY <2>3, <3>1, <3>2 DEF cancel_job, StorePlain
    <3>4. faults' = 0 => faults = 0 
      BY <1>a, <3>3, WriteFaults
    <3>5. /\ \A k \in Jobs : k # j => job'[k] = job[k]
          /\ job'[j] = job[j] \/ job'[j].status = "cancelled"
      BY <3>3, StoreWrites DEF Committed
    <3>6. ReportsAt(j)'
      <4>1. CASE job'[j].status = "cancelled"
        BY <2>1, <4>1 DEF ReportInvariant, ReportsAt, workVars
      <4>2. CASE job'[j] = job[j]
        BY <2>1, <3>4, <4>2 DEF ReportInvariant, ReportsAt, workVars, ReportsAccounted, InChannel
      <4> QED
        BY <3>5, <4>1, <4>2
    <3> QED
      BY <1>b, <2>1, <3>4, <3>5, <3>6, ReportStep DEF ReportsOnlyAt, ReportTypes, workVars
  <2> QED
    BY <2>2, <2>3
<1>4. CASE UNCHANGED vars
  BY <1>4, ReportFrame DEF vars, workVars
<1> QED
  BY <1>1, <1>2, <1>3, <1>4

(* The worker reports, and its channel takes it while the runner listens.  *)
LEMMA WorkerReports ==
  ASSUME RunnerInvariant, LimitInvariant, ReportInvariant, NEW j \in Jobs,
         finish(j) \/ \E u \in Updates : report(j, u)
  PROVE  ReportInvariant'
<1>a. /\ UNCHANGED <<storeVars, runner, telemetry, snapshot>> /\ worker[j] = "executing"
  BY DEF finish, report
<1>b. /\ runner[j] \in {"consuming", "updating", "joining"}
      /\ job[j].status \in {"running", "cancelled"}
  BY <1>a DEF LimitInvariant, RunnerWaits, WorkingStates
<1>c. ReportTypes /\ ReportsAt(j) /\ worker \in [Jobs -> WorkerStates]
      /\ updates \in [Jobs -> Seq(Updates)]
  BY DEF ReportInvariant, LimitInvariant, LimitTypes, RunnerInvariant, CoreTypes
<1>1. CASE finish(j)
  <2>1. /\ UNCHANGED <<updates, reported>>
        /\ \E end \in {"ok", "failed", "cancelled", "panicked"} :
             worker' = [worker EXCEPT ![j] = end]
    BY <1>1 DEF finish
  <2>2. worker'[j] # "executing" /\ \A k \in Jobs : k # j => worker'[k] = worker[k]
    BY <1>c, <2>1
  <2>3. ReportsAt(j)'
    BY <1>a, <1>b, <1>c, <2>1, <2>2
       DEF ReportsAt, ReportsAccounted, InChannel, storeVars
  <2> QED
    BY <1>a, <1>c, <2>1, <2>2, <2>3, ReportStep DEF ReportsOnlyAt, ReportTypes, storeVars
<1>2. ASSUME NEW u \in Updates, report(j, u)
      PROVE  ReportInvariant'
  <2>1. /\ UNCHANGED worker
        /\ reported' = [reported EXCEPT ![j] = Append(reported[j], u)]
        /\ updates' = IF runner[j] \in {"consuming", "updating"}
                      THEN [updates EXCEPT ![j] = Append(updates[j], u)] ELSE updates
    BY <1>2 DEF report
  <2>2. reported[j] \in Seq(Updates) /\ updates[j] \in Seq(Updates)
    BY <1>c DEF ReportTypes
  <2>3. /\ reported' \in [Jobs -> Seq(Updates)]
        /\ reported'[j] = Append(reported[j], u)
        /\ \A k \in Jobs : k # j => reported'[k] = reported[k] /\ updates'[k] = updates[k]
        /\ updates'[j] = IF runner[j] \in {"consuming", "updating"}
                         THEN Append(updates[j], u) ELSE updates[j]
    BY <1>c, <2>1, <2>2 DEF ReportTypes
  <2>4. CASE runner[j] = "joining"
    <3>1. job[j].status = "cancelled"
      BY <1>a, <1>b, <1>c, <2>4 DEF ReportsAt
    <3>2. ReportsAt(j)'
      BY <1>a, <1>c, <2>1, <2>3, <2>4, <3>1 DEF ReportsAt, storeVars
    <3> QED
      BY <1>a, <1>c, <2>1, <2>3, <3>2, ReportStep DEF ReportsOnlyAt, ReportTypes, storeVars
  <2>5. CASE runner[j] \in {"consuming", "updating"}
    <3>1. ReportsAccounted(j) => ReportsAccounted(j)'
      <4> SUFFICES ASSUME ReportsAccounted(j)
                   PROVE  ReportsAccounted(j)'
        OBVIOUS
      <4>1. /\ CountOf(Telemetry, reported'[j]) =
                 CountOf(Telemetry, reported[j]) + (IF u = Telemetry THEN 1 ELSE 0)
            /\ CountOf(Telemetry, updates'[j]) =
                 CountOf(Telemetry, updates[j]) + (IF u = Telemetry THEN 1 ELSE 0)
        BY <2>2, <2>3, <2>5, CountAppend
      <4>2. /\ CountOf(Telemetry, reported[j]) \in Nat /\ CountOf(Telemetry, updates[j]) \in Nat
            /\ telemetry[j] \in Nat
        BY <1>c, <2>2, CountType DEF ReportTypes
      <4>3. telemetry'[j] = telemetry[j] /\ snapshot'[j] = snapshot[j] /\ job'[j] = job[j]
        BY <1>a DEF storeVars
      <4>4. CountOf(Telemetry, reported'[j]) = telemetry'[j] + CountOf(Telemetry, updates'[j])
        BY <4>1, <4>2, <4>3 DEF ReportsAccounted
      <4>5. /\ DOMAIN updates'[j] = 1..(Len(updates[j]) + 1)
            /\ DOMAIN updates[j] = 1..Len(updates[j]) /\ Len(updates[j]) \in Nat
            /\ \A i \in DOMAIN updates[j] : updates'[j][i] = updates[j][i]
            /\ updates'[j][Len(updates[j]) + 1] = u
        BY <2>2, <2>3, <2>5
      <4>6. \A v : v = u \/ InChannel(j, v) => \E m \in DOMAIN updates'[j] : updates'[j][m] = v
        BY <4>5 DEF InChannel
      <4>7. \A i \in DOMAIN reported'[j] :
              \/ reported'[j][i] = u
              \/ i \in DOMAIN reported[j] /\ reported'[j][i] = reported[j][i]
        BY <2>2, <2>3
      <4>8. ASSUME NEW i \in DOMAIN reported'[j]
            PROVE  /\ \/ reported'[j][i] <= job'[j].stage
                      \/ \E m \in DOMAIN updates'[j] : updates'[j][m] = reported'[j][i]
                   /\ reported'[j][i] = ResultSnapshot =>
                        \/ snapshot'[j]
                        \/ \E m \in DOMAIN updates'[j] : updates'[j][m] = ResultSnapshot
        <5>1. CASE reported'[j][i] = u
          BY <4>6, <5>1
        <5>2. CASE i \in DOMAIN reported[j] /\ reported'[j][i] = reported[j][i]
          BY <4>3, <4>6, <5>2 DEF ReportsAccounted
        <5> QED
          BY <4>7, <5>1, <5>2
      <4> QED
        BY <4>4, <4>8 DEF ReportsAccounted, InChannel
    <3>2. ReportsAt(j)'
      BY <1>a, <1>b, <1>c, <2>5, <3>1 DEF ReportsAt, storeVars
    <3> QED
      BY <1>a, <1>c, <2>1, <2>3, <3>2, ReportStep DEF ReportsOnlyAt, ReportTypes, storeVars
  <2> QED
    BY <1>b, <2>4, <2>5
<1> QED
  BY <1>1, <1>2

(* One update leaves the channel: what it stood for is persisted, or it    *)
(* was not what the account is about.                                      *)
LEMMA PopAccounted ==
  ASSUME NEW j \in Jobs, ReportTypes, updates[j] \in Seq(Updates), updates[j] # << >>,
         ReportsAccounted(j), UNCHANGED reported, updates'[j] = Tail(updates[j]),
         job[j] \in JobRecord, job'[j] \in JobRecord, job[j].stage <= job'[j].stage,
         Head(updates[j]) <= job'[j].stage,
         telemetry'[j] = telemetry[j] + (IF Head(updates[j]) = Telemetry THEN 1 ELSE 0),
         snapshot'[j] <=> snapshot[j] \/ Head(updates[j]) = ResultSnapshot
  PROVE  ReportsAccounted(j)'
<1>1. /\ CountOf(Telemetry, reported[j]) \in Nat /\ CountOf(Telemetry, Tail(updates[j])) \in Nat
      /\ telemetry[j] \in Nat
  <2>1. reported[j] \in Seq(Updates) /\ Tail(updates[j]) \in Seq(Updates)
    BY DEF ReportTypes
  <2> QED
    BY <2>1, CountType DEF ReportTypes
<1>2. CountOf(Telemetry, updates[j]) =
        CountOf(Telemetry, Tail(updates[j])) + (IF Head(updates[j]) = Telemetry THEN 1 ELSE 0)
  BY CountTail
<1>3. CountOf(Telemetry, reported'[j]) = telemetry'[j] + CountOf(Telemetry, updates'[j])
  BY <1>1, <1>2 DEF ReportsAccounted
<1>4. \A v : InChannel(j, v) => v = Head(updates[j])
                             \/ \E m \in DOMAIN updates'[j] : updates'[j][m] = v
  BY HeadOrTail DEF InChannel
<1>5. ASSUME NEW i \in DOMAIN reported[j]
      PROVE  /\ \/ reported[j][i] <= job'[j].stage
                \/ \E m \in DOMAIN updates'[j] : updates'[j][m] = reported[j][i]
             /\ reported[j][i] = ResultSnapshot =>
                  \/ snapshot'[j]
                  \/ \E m \in DOMAIN updates'[j] : updates'[j][m] = ResultSnapshot
  <2>1. reported[j][i] \in Int
    <3>1. reported[j] \in Seq(Updates)
      BY DEF ReportTypes
    <3>2. reported[j][i] \in Updates
      BY <1>5, <3>1
    <3>3. \A v \in Updates : v \in Int
      <4>1. Telemetry \in Int /\ ResultSnapshot \in Int
        BY DEF Telemetry, ResultSnapshot
      <4> QED
        BY <4>1, UpdateAssumption, StageAssumption DEF Updates
    <3> QED
      BY <3>2, <3>3
  <2>2. job[j].stage \in Int /\ job'[j].stage \in Int
    BY StageAssumption DEF JobRecord
  <2>3. CASE reported[j][i] <= job[j].stage
    <3>1. reported[j][i] <= job'[j].stage
      BY <2>1, <2>2, <2>3
    <3> QED
      BY <1>4, <1>5, <3>1 DEF ReportsAccounted
  <2>4. CASE InChannel(j, reported[j][i])
    BY <1>4, <1>5, <2>4 DEF ReportsAccounted
  <2> QED
    BY <1>5, <2>3, <2>4 DEF ReportsAccounted
<1> QED
  BY <1>3, <1>5 DEF ReportsAccounted, InChannel

(* The runner drains the channel before it ends the job. *)
LEMMA RunReports ==
  ASSUME RunnerInvariant, RunnerInvariant', LimitInvariant, EventInvariant, ReportInvariant,
         NEW j \in Jobs, Run(j)
  PROVE  ReportInvariant'
<1> USE DEF At, Goto, Return
<1>a. /\ faults \in 0..MaxFaults /\ ReportTypes /\ ReportsAt(j)
      /\ runner \in [Jobs -> RunnerStates] /\ updates \in [Jobs -> Seq(Updates)]
      /\ worker \in [Jobs -> WorkerStates]
  BY DEF LimitInvariant, LimitTypes, ReportInvariant, RunnerInvariant, CoreTypes
<1>b. /\ worker[j] = "executing" => runner[j] \in {"consuming", "updating", "joining"}
      /\ runner[j] \in WorkingStates => job[j].status \in {"running", "cancelled"}
      /\ token[j] => job[j].status = "cancelled"
  BY DEF LimitInvariant, RunnerWaits, RunnerInvariant, TokenMeansCancelled
<1>1. CASE \/ acquire_permit(j) \/ cancelled_in_queue(j) \/ check_cancelled(j)
           \/ updates_closed(j) \/ join_worker(j)
           \/ release_permit(j) \/ remove_activity(j) \/ send_completion(j)
  <2>1. UNCHANGED <<job, result, faults, worker, reported, updates, telemetry, snapshot>>
    BY <1>1 DEF acquire_permit, cancelled_in_queue, check_cancelled, updates_closed,
                join_worker, release_permit, remove_activity, send_completion,
                storeVars, workVars
  <2>2. \E pc \in RunnerStates :
          /\ runner' = [runner EXCEPT ![j] = pc]
          /\ \/ runner[j] = "queued" /\ pc = "acquired"
             \/ runner[j] = "acquired" /\ pc = "marking"
             \/ token[j] /\ runner[j] \in {"queued", "acquired"} /\ pc \in {"finishing", "returning"}
             \/ /\ runner[j] = "consuming" /\ pc = "joining"
                /\ updates[j] = << >> /\ worker[j] # "executing"
             \/ /\ runner[j] = "joining" /\ pc \in {"cancelling", "saving"}
                /\ worker[j] # "executing"
             \/ /\ runner[j] \in {"returning", "finishing", "completing"}
                /\ pc \in {"finishing", "completing", "done"}
    BY <1>1 DEF acquire_permit, cancelled_in_queue, check_cancelled, updates_closed,
                join_worker, release_permit, remove_activity, send_completion, RunnerStates
  <2>3. PICK pc \in RunnerStates :
          /\ runner' = [runner EXCEPT ![j] = pc]
          /\ \/ runner[j] = "queued" /\ pc = "acquired"
             \/ runner[j] = "acquired" /\ pc = "marking"
             \/ token[j] /\ runner[j] \in {"queued", "acquired"} /\ pc \in {"finishing", "returning"}
             \/ /\ runner[j] = "consuming" /\ pc = "joining"
                /\ updates[j] = << >> /\ worker[j] # "executing"
             \/ /\ runner[j] = "joining" /\ pc \in {"cancelling", "saving"}
                /\ worker[j] # "executing"
             \/ /\ runner[j] \in {"returning", "finishing", "completing"}
                /\ pc \in {"finishing", "completing", "done"}
    BY <2>2
  <2>4. runner'[j] = pc /\ \A k \in Jobs : k # j => runner'[k] = runner[k]
    BY <1>a, <2>3
  <2>5. ReportsAccounted(j) => ReportsAccounted(j)'
    BY <2>1 DEF ReportsAccounted, InChannel
  <2>6. ReportsAt(j)'
    BY <1>a, <1>b, <2>1, <2>3, <2>4, <2>5 DEF ReportsAt, WorkingStates
  <2> QED
    BY <1>a, <2>1, <2>4, <2>6, ReportStep DEF ReportsOnlyAt, ReportTypes
<1>2. CASE mark_running(j)
  <2>1. /\ UNCHANGED <<result, updates, reported, telemetry, snapshot>> /\ runner[j] = "marking"
    BY <1>2 DEF mark_running, StorePlain, storeVars
  <2>2. job[j].status \in {"pending", "running", "cancelled"}
    BY <2>1 DEF RunnerInvariant, OneRunnerDecides, BeforeEnd
  <2>3. /\ \A k \in Jobs : k # j => job'[k] = job[k] /\ runner'[k] = runner[k]
                                    /\ worker'[k] = worker[k]
        /\ job'[j].status \in {"pending", "running", "cancelled"}
        /\ runner'[j] \in {"consuming", "returning"}
        /\ faults' = 0 => faults = 0
    <3>1. CASE is_active(job[j].status)
      <4>1. PICK w \in WriteResults :
              /\ Store(j, MarkedRunning(job[j]), w)
              /\ IF w = "ok"
                 THEN /\ runner' = [runner EXCEPT ![j] = "consuming"]
                      /\ worker' = [worker EXCEPT ![j] = "executing"]
                 ELSE runner' = [runner EXCEPT ![j] = "returning"] /\ UNCHANGED worker
        BY <1>2, <3>1 DEF mark_running, StorePlain
      <4>2. MarkedRunning(job[j]).status = "running"
        BY <3>1, ActiveIsRecord DEF RunnerInvariant, MarkedRunning, JobRecord
      <4>3. /\ \A k \in Jobs : k # j => job'[k] = job[k]
            /\ job'[j].status \in {"pending", "running", "cancelled"}
        BY <2>2, <4>1, <4>2, StoreWrites DEF RunnerInvariant
      <4>4. faults' = 0 => faults = 0
        BY <1>a, <4>1, WriteFaults
      <4> QED
        BY <1>a, <4>1, <4>3, <4>4
    <3>2. CASE ~is_active(job[j].status)
      BY <1>2, <1>a, <2>2, <3>2 DEF mark_running, storeVars
    <3> QED
      BY <3>1, <3>2
  <2>4. ReportsAccounted(j)'
    <3>1. reported[j] = << >> /\ updates[j] = << >> /\ telemetry[j] = 0
      BY <1>a, <2>1 DEF ReportsAt
    <3>2. CountOf(Telemetry, << >>) = 0
      BY CountNone
    <3> QED
      BY <2>1, <3>1, <3>2 DEF ReportsAccounted
  <2>5. ReportsAt(j)'
    BY <2>3, <2>4 DEF ReportsAt
  <2> QED
    BY <1>a, <2>1, <2>3, <2>5, ReportStep DEF ReportsOnlyAt, ReportTypes
<1>3. CASE wait_for_stage(j)
  <2>1. UNCHANGED <<job, result, faults, worker, reported, telemetry, snapshot>>
    BY <1>3 DEF wait_for_stage, storeVars
  <2>2. /\ runner[j] = "consuming"
        /\ \/ /\ token[j] /\ runner' = [runner EXCEPT ![j] = "joining"]
              /\ updates' = [updates EXCEPT ![j] = << >>]
           \/ runner' = [runner EXCEPT ![j] = "updating"] /\ UNCHANGED updates
    BY <1>3 DEF wait_for_stage, Received, StopConsuming
  <2>3. /\ \A k \in Jobs : k # j => runner'[k] = runner[k] /\ updates'[k] = updates[k]
        /\ \/ token[j] /\ runner'[j] = "joining" /\ updates'[j] = << >>
           \/ runner'[j] = "updating" /\ updates'[j] = updates[j]
    BY <1>a, <2>2
  <2>4. ReportsAt(j)'
    BY <1>a, <1>b, <2>1, <2>2, <2>3
       DEF ReportsAt, ReportsAccounted, InChannel, WorkingStates
  <2> QED
    BY <1>a, <2>1, <2>3, <2>4, ReportStep DEF ReportsOnlyAt, ReportTypes
<1>4. CASE update_progress(j)
  <2> DEFINE stage == Head(updates[j])
             st == WithProgress(job[j], stage, StageStart(stage))
  <2>0. /\ UNCHANGED <<result, worker, reported, telemetry, snapshot>> /\ runner[j] = "updating"
    BY <1>4 DEF update_progress, StorePlain, storeVars
  <2>1. /\ job[j] \in JobRecord /\ stage \in 1..MaxStage /\ updates[j] # << >>
        /\ job[j].status \in {"running", "cancelled"}
    <3>1. runner[j] # "absent"
      BY <2>0
    <3> QED
      BY <1>b, <2>0, <3>1, RunnerFacts DEF AgreesAt, WorkingStates
  <2>2. CASE job[j].status = "cancelled"
    <3>1. /\ UNCHANGED <<job, faults>> /\ runner' = [runner EXCEPT ![j] = "joining"]
          /\ updates' = [updates EXCEPT ![j] = << >>]
      BY <1>4, <2>2 DEF update_progress, StopConsuming, storeVars, is_active
    <3>2. /\ \A k \in Jobs : k # j => runner'[k] = runner[k] /\ updates'[k] = updates[k]
          /\ runner'[j] = "joining" /\ updates'[j] = << >>
      BY <1>a, <3>1
    <3>3. ReportsAt(j)'
      BY <2>2, <3>1, <3>2 DEF ReportsAt
    <3> QED
      BY <1>a, <2>0, <3>1, <3>2, <3>3, ReportStep DEF ReportsOnlyAt, ReportTypes
  <2>3. CASE job[j].status = "running"
    <3>1. PICK w \in WriteResults : Store(j, st, w)
      BY <1>4, <2>3 DEF update_progress, StorePlain, is_active
    <3>2. /\ runner' = [runner EXCEPT ![j] = "consuming"]
          /\ updates' = [updates EXCEPT ![j] = Tail(updates[j])]
      BY <1>4, <2>3 DEF update_progress, Pop, is_active
    <3>3. /\ \A k \in Jobs : k # j => runner'[k] = runner[k] /\ updates'[k] = updates[k]
          /\ runner'[j] = "consuming" /\ updates'[j] = Tail(updates[j])
      BY <1>a, <3>2
    <3>4. /\ st \in JobRecord /\ job[j].stage <= st.stage /\ stage <= st.stage
          /\ st.status = "running"
      BY <2>1, <2>3, RecordTypes, ProgressForward, StageStartType
    <3>5. faults' = 0 => faults = 0 /\ w = "ok"
      BY <1>a, <3>1, WriteFaults
    <3>6. /\ \A k \in Jobs : k # j => job'[k] = job[k]
          /\ job'[j] = st \/ job'[j] = job[j]
          /\ w = "ok" => job'[j] = st
      BY <3>1, StoreWrites DEF RunnerInvariant
    <3>7. faults' = 0 => ReportsAccounted(j)'
      <4> SUFFICES ASSUME faults' = 0
                   PROVE  ReportsAccounted(j)'
        OBVIOUS
      <4>1. ReportsAccounted(j)
        BY <1>a, <2>0, <2>3, <3>5 DEF ReportsAt, WorkingStates
      <4>2. job'[j] = st
        BY <3>5, <3>6
      <4>3. stage # Telemetry /\ stage # ResultSnapshot
        BY <2>1, StageAssumption DEF Telemetry, ResultSnapshot
      <4>4. telemetry[j] \in Nat /\ snapshot[j] \in BOOLEAN /\ updates[j] \in Seq(Updates)
        BY <1>a DEF ReportTypes
      <4>5. telemetry'[j] = telemetry[j] + (IF stage = Telemetry THEN 1 ELSE 0)
        BY <2>0, <4>3, <4>4
      <4>6. snapshot'[j] <=> snapshot[j] \/ stage = ResultSnapshot
        BY <2>0, <4>3
      <4> HIDE DEF st
      <4> QED
        BY <1>a, <2>0, <2>1, <3>3, <3>4, <4>1, <4>2, <4>4, <4>5, <4>6, PopAccounted
    <3>8. ReportsAt(j)'
      BY <2>3, <3>3, <3>4, <3>6, <3>7 DEF ReportsAt
    <3> QED
      BY <1>a, <2>0, <3>3, <3>5, <3>6, <3>8, ReportStep DEF ReportsOnlyAt, ReportTypes
  <2> QED
    BY <2>1, <2>2, <2>3
<1>5. CASE append_solver_event(j) \/ keep_snapshot(j)
  <2>0. /\ UNCHANGED <<job, result, worker, runner, reported>> /\ runner[j] = "consuming"
        /\ updates[j] # << >> /\ updates' = [updates EXCEPT ![j] = Tail(updates[j])]
    BY <1>5 DEF append_solver_event, keep_snapshot, Received, Pop, storeVars
  <2>1. /\ job[j] \in JobRecord /\ job[j].status \in {"running", "cancelled"}
        /\ updates[j] \in Seq(Updates)
    <3>1. runner[j] # "absent"
      BY <2>0
    <3> QED
      BY <1>a, <1>b, <2>0, <3>1, RunnerFacts DEF WorkingStates
  <2>2. /\ updates'[j] = Tail(updates[j])
        /\ \A k \in Jobs : k # j => updates'[k] = updates[k]
    BY <1>a, <2>0
  <2>3. /\ telemetry' \in [Jobs -> Nat] /\ snapshot' \in [Jobs -> BOOLEAN]
        /\ \A k \in Jobs : k # j => telemetry'[k] = telemetry[k] /\ snapshot'[k] = snapshot[k]
        /\ faults' = 0 => faults = 0
        /\ Head(updates[j]) \in {Telemetry, ResultSnapshot}
        /\ faults' = 0 => telemetry'[j] = telemetry[j] + (IF Head(updates[j]) = Telemetry THEN 1 ELSE 0)
        /\ snapshot'[j] <=> snapshot[j] \/ Head(updates[j]) = ResultSnapshot
    <3>0. telemetry \in [Jobs -> Nat] /\ snapshot \in [Jobs -> BOOLEAN]
      BY <1>a DEF ReportTypes
    <3>1. CASE append_solver_event(j)
      <4>1. PICK fails \in BOOLEAN :
              /\ MayFail(fails)
              /\ telemetry' = IF fails THEN telemetry ELSE [telemetry EXCEPT ![j] = telemetry[j] + 1]
        BY <3>1 DEF append_solver_event
      <4>2. faults' = 0 => faults = 0 /\ ~fails
        BY <1>a, <4>1, LoggedFaults
      <4>3. UNCHANGED snapshot /\ Head(updates[j]) = Telemetry /\ Telemetry # ResultSnapshot
        BY <3>1 DEF append_solver_event, Received, Telemetry, ResultSnapshot
      <4> QED
        BY <3>0, <4>1, <4>2, <4>3
    <3>2. CASE keep_snapshot(j)
      <4>1. /\ UNCHANGED <<telemetry, faults>> /\ Head(updates[j]) = ResultSnapshot
            /\ snapshot' = [snapshot EXCEPT ![j] = TRUE] /\ Telemetry # ResultSnapshot
        BY <3>2 DEF keep_snapshot, Received, storeVars, Telemetry, ResultSnapshot
      <4> QED
        BY <3>0, <4>1
    <3> QED
      BY <1>5, <3>1, <3>2
  <2>4. Head(updates[j]) <= job[j].stage /\ job[j].stage <= job[j].stage
    BY <2>1, <2>3, StageAssumption DEF Telemetry, ResultSnapshot, JobRecord
  <2>5. faults' = 0 /\ job[j].status = "running" => ReportsAccounted(j)'
    <3> SUFFICES ASSUME faults' = 0, job[j].status = "running"
                 PROVE  ReportsAccounted(j)'
      OBVIOUS
    <3>1. ReportsAccounted(j)
      BY <1>a, <2>0, <2>3 DEF ReportsAt, WorkingStates
    <3> QED
      BY <1>a, <2>0, <2>1, <2>2, <2>3, <2>4, <3>1, PopAccounted
  <2>6. ReportsAt(j)'
    BY <2>0, <2>1, <2>5 DEF ReportsAt
  <2> QED
    BY <1>a, <2>0, <2>2, <2>3, <2>6, ReportStep DEF ReportsOnlyAt, ReportTypes
<1>6. CASE persist_cancelled(j) \/ save_result(j) \/ save_error(j)
  <2>0. /\ UNCHANGED <<worker, updates, reported, telemetry, snapshot>>
        /\ runner[j] \in {"cancelling", "saving"}
        /\ runner' = [runner EXCEPT ![j] = "returning"]
    BY <1>6 DEF persist_cancelled, save_result, save_error, Save, workVars
  <2>1. /\ runner'[j] = "returning" /\ \A k \in Jobs : k # j => runner'[k] = runner[k]
        /\ job[j].status \in {"running", "cancelled"} /\ updates[j] = << >>
    BY <1>a, <1>b, <2>0 DEF WorkingStates, ReportsAt
  <2>2. CASE UNCHANGED <<job, result, faults>>
    <3>1. ReportsAt(j)'
      BY <2>1, <2>2 DEF ReportsAt, WorkingStates
    <3> QED
      BY <1>a, <2>0, <2>1, <2>2, <3>1, ReportStep DEF ReportsOnlyAt, ReportTypes
  <2>3. CASE ~UNCHANGED <<job, result, faults>>
    <3>1. PICK w \in WriteResults, status \in {"completed", "failed", "cancelled"} :
            /\ Store(j, Committed(job[j], status), w)
            /\ job[j].status = "running"
            /\ \/ UNCHANGED result
               \/ /\ status = "completed"
                  /\ result' = [result EXCEPT ![j] = IF snapshot[j] THEN "full" ELSE "plain"]
      <4>1. CASE persist_cancelled(j)
        BY <2>1, <2>3, <4>1 DEF persist_cancelled, StorePlain, storeVars, is_active
      <4>2. CASE save_result(j)
        BY <2>3, <4>2 DEF save_result, Save, storeVars
      <4>3. CASE save_error(j)
        BY <2>3, <4>3 DEF save_error, Save, storeVars
      <4> QED
        BY <1>6, <4>1, <4>2, <4>3
    <3>2. faults' = 0 => faults = 0 /\ w = "ok"
      BY <1>a, <3>1, WriteFaults
    <3>3. /\ \A k \in Jobs : k # j => job'[k] = job[k] /\ result'[k] = result[k]
          /\ job'[j] = Committed(job[j], status) \/ job'[j] = job[j]
          /\ result'[j] = result[j] \/ result'[j] = IF snapshot[j] THEN "full" ELSE "plain"
      <4>1. result \in [Jobs -> {"none", "plain", "full"}]
        BY DEF RunnerInvariant, CoreTypes
      <4> QED
        BY <3>1, <4>1, StoreWrites DEF RunnerInvariant
    <3>4. job'[j].stage = job[j].stage
      BY <3>3 DEF Committed
    <3>5. faults = 0 => result[j] # "plain"
      BY <3>1 DEF EventInvariant, PayloadsMatch
    <3>6. faults' = 0 => ReportsAccounted(j)' /\ (result'[j] = "plain" => ~snapshot'[j])
      <4>1. faults' = 0 => ReportsAccounted(j)
        BY <1>a, <2>0, <3>1, <3>2 DEF ReportsAt, WorkingStates
      <4>2. ReportsAccounted(j) => ReportsAccounted(j)'
        BY <2>0, <3>4 DEF ReportsAccounted, InChannel
      <4>3. faults' = 0 => (result'[j] = "plain" => ~snapshot'[j])
        BY <2>0, <3>2, <3>3, <3>5
      <4> QED
        BY <4>1, <4>2, <4>3
    <3>7. ReportsAt(j)'
      BY <2>0, <2>1, <3>6 DEF ReportsAt, WorkingStates
    <3> QED
      BY <1>a, <2>0, <2>1, <3>2, <3>3, <3>7, ReportStep DEF ReportsOnlyAt, ReportTypes
  <2> QED
    BY <2>2, <2>3
<1> QED
  BY <1>1, <1>2, <1>3, <1>4, <1>5, <1>6 DEF Run

(* Nothing is reported before the first job. *)
LEMMA InitReports == Init => ReportInvariant
<1> SUFFICES ASSUME Init
             PROVE  ReportInvariant
  OBVIOUS
<1>1. ReportTypes
  BY DEF Init, ReportTypes
<1>2. \A j \in Jobs : ReportsAt(j)
  BY DEF Init, ReportsAt, NoState, WorkingStates
<1> QED
  BY <1>1, <1>2 DEF ReportInvariant

(* Every step keeps the reports accounted for. *)
LEMMA NextReports ==
  /\ RunnerInvariant /\ RunnerInvariant' /\ LimitInvariant /\ LimitInvariant'
  /\ EventInvariant /\ ReportInvariant /\ [Next]_vars
  => ReportInvariant'
BY OtherReports, WorkerReports, RunReports DEF Next

(* Everything a worker reports is persisted or on its way there. *)
THEOREM ReportsTracked == Spec => []ReportInvariant
BY InitReports, NextReports, InvariantHolds, LimitsCounted, EventsAreTrue, PTL DEF Spec

(* A job does not complete or fail before everything its worker reported   *)
(* is persisted (consume_updates drains the channel before the worker is   *)
(* joined), unless a store operation failed.                               *)
THEOREM ReportsKept == Spec => []NothingReportedIsLost
<1>1. ReportInvariant => NothingReportedIsLost
  <2> SUFFICES ASSUME ReportInvariant, faults = 0, NEW j \in Jobs,
                      job[j].status \in {"completed", "failed"}
               PROVE  /\ telemetry[j] = CountOf(Telemetry, reported[j])
                      /\ \A i \in DOMAIN reported[j] : reported[j][i] <= job[j].stage
                      /\ result[j] = "plain" => CountOf(ResultSnapshot, reported[j]) = 0
    BY DEF NothingReportedIsLost
  <2>1. /\ updates[j] = << >> /\ ReportsAccounted(j)
        /\ result[j] = "plain" => ~snapshot[j]
    BY DEF ReportInvariant, ReportsAt
  <2>2. \A v : ~InChannel(j, v)
    BY <2>1 DEF InChannel
  <2>3. CountOf(Telemetry, updates[j]) = 0
    BY <2>1, CountNone
  <2>4. telemetry[j] \in Nat
    BY DEF ReportInvariant, ReportTypes
  <2>5. telemetry[j] = CountOf(Telemetry, reported[j])
    BY <2>1, <2>3, <2>4 DEF ReportsAccounted
  <2>6. result[j] = "plain" => CountOf(ResultSnapshot, reported[j]) = 0
    BY <2>1, <2>2, CountNone DEF ReportsAccounted
  <2> QED
    BY <2>1, <2>2, <2>5, <2>6 DEF ReportsAccounted
<1> QED
  BY <1>1, ReportsTracked, PTL

(* The limits of the configuration hold for what really runs and for the   *)
(* jobs that are not over, and every variable keeps its type.              *)
THEOREM LimitsAreKept == Spec => []LimitsHold
<1>1. RunnerInvariant /\ LimitInvariant /\ EventInvariant /\ ReportInvariant => LimitsHold
  <2> SUFFICES ASSUME RunnerInvariant, LimitInvariant, EventInvariant, ReportInvariant
               PROVE  LimitsHold
    OBVIOUS
  <2>1. ExecutionBounded /\ permits \in 0..MaxConcurrent /\ admission \in 0..MaxOutstanding
    BY PermitsBound
  <2>2. OutstandingBounded
    BY AdmissionsBound DEF RunnerInvariant
  <2>3. TypeOK
    BY <2>1 DEF TypeOK, RunnerInvariant, CoreTypes, SubmitterState, CancellerState,
                LimitInvariant, LimitTypes, WorkerStates, EventInvariant, EventTypes,
                ReportInvariant, ReportTypes
  <2> QED
    BY <2>1, <2>2, <2>3 DEF LimitsHold
<1> QED
  BY <1>1, InvariantHolds, LimitsCounted, EventsAreTrue, ReportsTracked, PTL

-----------------------------------------------------------------------------
(* The event streams on top of the runner. *)
(* A record no earlier than another, and one a later read may find. *)
NotBehind(s, t) == s.stage <= t.stage /\ s.progress <= t.progress

Reaches(s, t) == NotBehind(s, t) /\ (is_active(s.status) \/ t = s)

-----------------------------------------------------------------------------
(* Publications.  The envelope is held from its read to its send, and has  *)
(* a number of its own once the counter is bumped.                         *)
Holding(p) == publisher[p].pc \in {"bump", "record", "send"}

Numbered(p) == publisher[p].pc \in {"record", "send"}

(* Only the runner of a job publishes its progress. *)
OwnPublisher ==
  /\ \A j \in Jobs : Busy(j) => publisher[j].job = j
  /\ \A c \in Cancellers : Busy(c) => Ends(publisher[c].kind)

(* An envelope shows a record the job had, active or its last one. *)
Shows(kind, e, j) ==
  /\ job[j] \in JobRecord
  /\ Reaches(e.state, job[j])
  /\ is_active(e.state.status) <=> ~Ends(kind)

EnvelopesReached ==
  /\ \A p \in Publishers : Holding(p) =>
       /\ Shows(publisher[p].kind, publisher[p].envelope, publisher[p].job)
       /\ Numbered(p) => publisher[p].envelope.sequence <= sequence[publisher[p].job]
  /\ \A j \in Jobs : \A i \in DOMAIN sent[j] :
       /\ Shows(sent[j][i].kind, sent[j][i].envelope, j)
       /\ sent[j][i].envelope.sequence <= sequence[j]

(* The runner does not touch the record while it publishes: a canceller    *)
(* may end the job.                                                        *)
HeldIsRecord ==
  \A j \in Jobs : Holding(j) /\ ~Ends(publisher[j].kind) =>
    job[j] = publisher[j].envelope.state \/ ~is_active(job[j].status)

(* Progress events are ordered by their numbers. *)
ProgressOrdered ==
  \A j \in Jobs :
    /\ \A i, k \in DOMAIN sent[j] :
         (/\ ~Ends(sent[j][i].kind) /\ ~Ends(sent[j][k].kind)
          /\ sent[j][i].envelope.sequence < sent[j][k].envelope.sequence) =>
           NotBehind(sent[j][i].envelope.state, sent[j][k].envelope.state)
    /\ Holding(j) /\ ~Ends(publisher[j].kind) =>
         \A i \in DOMAIN sent[j] : ~Ends(sent[j][i].kind) =>
           /\ NotBehind(sent[j][i].envelope.state, publisher[j].envelope.state)
           /\ Numbered(j) => sent[j][i].envelope.sequence < publisher[j].envelope.sequence

PublicationInvariant ==
  OwnPublisher /\ EnvelopesReached /\ HeldIsRecord /\ ProgressOrdered

-----------------------------------------------------------------------------
(* Streams. *)
StreamRecord ==
  [pc : {"before", "read", "after", "stored", "revision", "live", "closed", "refused",
         "aborted"},
   job : Jobs, live : BOOLEAN, next : Nat \ {0}, before : Nat,
   read : [sequence : Nat, state : JobRecord \cup {NoState},
           result : {"none", "plain", "full"}, error : BOOLEAN],
   cursor : Nat]

StreamTypes ==
  /\ stream \in [Streams -> {NoStream} \cup StreamRecord]
  /\ last \in [Streams -> {NoEvent} \cup
                 [kind : EventKinds \cup {"snapshot"}, envelope : Envelope]]

Open(x) == stream[x].pc \in {"before", "read", "after", "live"}

(* What the stream is going to show is not behind what it has shown. *)
ViewHeld(x) ==
  LET j == stream[x].job
      shown == last[x].envelope
      held == publisher[j].envelope
  IN /\ shown.sequence = stream[x].cursor /\ shown.sequence <= sequence[j]
     /\ is_active(shown.state.status)
     /\ job[j] \in JobRecord /\ NotBehind(shown.state, job[j])
     /\ \A i \in DOMAIN sent[j] :
          ~Ends(sent[j][i].kind) /\ shown.sequence < sent[j][i].envelope.sequence =>
            NotBehind(shown.state, sent[j][i].envelope.state)
     /\ (/\ Holding(j) /\ ~Ends(publisher[j].kind)
         /\ Numbered(j) => shown.sequence < held.sequence) => NotBehind(shown.state, held.state)
     /\ StreamAt(x, "after") => NotBehind(shown.state, stream[x].read.state)

(* A snapshot that was read is true, and no older than what the runner is  *)
(* about to number, unless it is the last one.                             *)
ReadHeld(x) ==
  LET j == stream[x].job
      read == stream[x].read
  IN /\ job[j] \in JobRecord /\ Reaches(read.state, job[j])
     /\ (publisher[j].pc = "bump" /\ ~Ends(publisher[j].kind) /\ is_active(read.state.status)) =>
          NotBehind(read.state, publisher[j].envelope.state)

ReadIsValid(x) == stream[x].read.state \in JobRecord /\ (faults = 0 => PayloadIsValid(stream[x].read))

StreamHeld(x) ==
  /\ Open(x) /\ Delivered(x) => ViewHeld(x)
  /\ StreamAt(x, "after") => ReadHeld(x)
  /\ stream[x].pc \in {"after", "revision"} => ReadIsValid(x)
  /\ stream[x].pc \in {"idle", "stored", "revision"} => ~Delivered(x)
  /\ StreamAt(x, "live") => Delivered(x)
  /\ faults = 0 => ~StreamAt(x, "aborted")

StreamInvariant == StreamTypes /\ \A x \in Streams : StreamHeld(x)

-----------------------------------------------------------------------------
(* What is reached from what was reached is reached. *)
LEMMA ReachesTransitive ==
  ASSUME NEW r \in JobRecord, NEW s \in JobRecord, NEW t \in JobRecord,
         Reaches(r, s), Reaches(s, t)
  PROVE  Reaches(r, t)
BY StageAssumption, ProgressAssumption DEF Reaches, NotBehind, JobRecord

(* A record is not behind itself. *)
LEMMA ReachesItself == \A s \in JobRecord : Reaches(s, s) /\ NotBehind(s, s)
BY StageAssumption, ProgressAssumption DEF Reaches, NotBehind, JobRecord

(* The record of a job that exists is left or followed by a later one. *)
LEMMA RecordReaches ==
  ASSUME RunnerInvariant, RunnerInvariant', [Next]_vars, NEW j \in Jobs, job[j] \in JobRecord
  PROVE  job'[j] \in JobRecord /\ Reaches(job[j], job'[j])
<1> DEFINE old == job[j]
           new == job'[j]
<1>0. job \in [Jobs -> JobRecord \cup {NoState}]
  BY DEF RunnerInvariant, CoreTypes
<1>1. CASE new = old
  BY <1>1, ReachesItself
<1>2. ASSUME is_active(old.status), new.stage >= old.stage, new.progress >= old.progress,
             new \in JobRecord
      PROVE  new \in JobRecord /\ Reaches(old, new)
  BY <1>2 DEF Reaches, NotBehind, JobRecord
<1>3. PICK k \in Jobs : StoreOnlyAt(k) /\ MovesAlong(k)
  BY NextMoves
<1>4. CASE k # j
  BY <1>1, <1>3, <1>4 DEF StoreOnlyAt
<1>5. CASE k = j
  <2>1. MovesAlong(j)
    BY <1>3, <1>5
  <2>2. CASE new = old
    BY <1>1, <2>2
  <2>3. CASE old = NoState
    BY <2>3 DEF NoState, JobRecord, Status
  <2>4. CASE /\ is_active(old.status) /\ new.status = "running" /\ new \in JobRecord
             /\ old.stage <= new.stage /\ old.progress <= new.progress
    <3>1. new.stage >= old.stage /\ new.progress >= old.progress
      BY <2>4, StageAssumption, ProgressAssumption DEF JobRecord
    <3> QED
      BY <1>2, <2>4, <3>1
  <2>5. CASE is_active(old.status) /\ \E status \in Status : new = Committed(old, status)
    <3>1. new \in JobRecord
      BY <2>5, RecordTypes
    <3>2. new.stage >= old.stage /\ new.progress >= old.progress
      BY <2>5, StageAssumption, ProgressAssumption DEF Committed, JobRecord
    <3> QED
      BY <1>2, <2>5, <3>1, <3>2
  <2> QED
    BY <2>1, <2>2, <2>3, <2>4, <2>5 DEF MovesAlong, is_active, Status
<1> QED
  BY <1>4, <1>5

-----------------------------------------------------------------------------
(* A step of a process that is not publishing: what it may write while the *)
(* runner publishes, and the publication it may start.                     *)
StoreStep ==
  /\ UNCHANGED <<sent, sequence>>
  /\ faults' \in {faults, faults + 1}
  /\ \A j \in Jobs : Busy(j) /\ job[j] \in JobRecord =>
       job'[j] = job[j] \/ ~is_active(job'[j].status)
  /\ \/ publisher' = publisher
     \/ \E p \in Publishers, k \in Jobs, kind \in EventKinds :
          /\ publisher' = [publisher EXCEPT ![p] = [pc |-> "read", job |-> k, kind |-> kind]]
          /\ p \in Jobs => k = p
          /\ p \in Cancellers => Ends(kind)

(* Submissions and executions leave the publishers alone. *)
LEMMA SubmitterStores ==
  ASSUME CoreTypes, NEW s \in Submitters, Submission(s) \/ \E j \in Jobs : try_admit(s, j)
  PROVE  StoreStep
<1>1. ASSUME UNCHANGED <<job, sent, sequence, publisher, faults>>
      PROVE  StoreStep
  BY <1>1 DEF StoreStep
<1>2. CASE create_job(s)
  <2> DEFINE j == submitter[s].job
  <2>1. UNCHANGED <<sent, sequence, publisher>>
    BY <1>2 DEF create_job, eventVars
  <2>2. j \in Jobs
    BY <1>2 DEF create_job, CoreTypes, SubmitterState
  <2>3. job' = job \/ (job[j] = NoState /\ \A k \in Jobs : k # j => job'[k] = job[k])
    <3>1. CASE job[j] = NoState /\ \E w \in WriteResults : StorePlain(j, PendingState, w)
      BY <2>2, <3>1, StoreWrites DEF StorePlain
    <3>2. CASE UNCHANGED storeVars
      BY <3>2 DEF storeVars
    <3> QED
      BY <1>2, <3>1, <3>2 DEF create_job
  <2>4. NoState \notin JobRecord
    BY DEF NoState, JobRecord, Status
  <2>5. faults' \in {faults, faults + 1}
    BY <1>2 DEF create_job, StorePlain, Store, storeVars
  <2> QED
    BY <2>1, <2>2, <2>3, <2>4, <2>5 DEF StoreStep
<1>3. CASE spawn_runner(s) \/ \E j \in Jobs : try_admit(s, j)
  BY <1>1, <1>3 DEF spawn_runner, try_admit, storeVars, eventVars
<1> QED
  BY <1>2, <1>3 DEF Submission

(* The cancel endpoint ends an active job and announces the end it wrote. *)
LEMMA CancellerStores ==
  ASSUME CoreTypes, NEW c \in Cancellers, Cancellation(c) \/ \E j \in Jobs : look_up(c, j)
  PROVE  StoreStep
<1>1. CASE cancel_job(c)
  <2> DEFINE j == canceller[c].job
  <2>1. UNCHANGED <<sent, sequence>>
    BY <1>1 DEF cancel_job
  <2>2. j \in Jobs
    BY <1>1 DEF cancel_job, CoreTypes, CancellerState
  <2>3. \/ UNCHANGED storeVars
        \/ \E w \in WriteResults : StorePlain(j, Committed(job[j], "cancelled"), w)
    BY <1>1 DEF cancel_job
  <2>4. \A k \in Jobs : job'[k] = job[k] \/ ~is_active(job'[k].status)
    BY <2>2, <2>3, StoreWrites DEF StorePlain, Committed, is_active, storeVars
  <2>5. publisher' = publisher \/ StartPublish(c, j, "cancelled")
    BY <1>1 DEF cancel_job
  <2>6. c \in Publishers /\ "cancelled" \in EventKinds /\ c \notin Jobs /\ Ends("cancelled")
    BY ProcessAssumption DEF Publishers, EventKinds, Ends
  <2>7. faults' \in {faults, faults + 1}
    BY <2>3 DEF StorePlain, Store, storeVars
  <2> QED
    BY <2>1, <2>2, <2>4, <2>5, <2>6, <2>7 DEF StoreStep, StartPublish
<1>2. CASE signal_token(c) \/ \E j \in Jobs : look_up(c, j)
  BY <1>2 DEF signal_token, look_up, storeVars, eventVars, StoreStep
<1> QED
  BY <1>1, <1>2 DEF Cancellation

(* The runner writes and starts to publish only while it is not publishing.*)
LEMMA RunStores ==
  ASSUME CoreTypes, NEW j \in Jobs, Run(j)
  PROVE  StoreStep
<1>1. ASSUME Publishing(j, "idle"), UNCHANGED <<sent, sequence>>,
             UNCHANGED <<job, faults>> \/ \E record, w : Store(j, record, w),
             publisher' = publisher \/ \E kind \in EventKinds : StartPublish(j, j, kind)
      PROVE  StoreStep
  <2>1. \A k \in Jobs : Busy(k) => job'[k] = job[k]
    BY <1>1, StoreWrites DEF Busy, Publishing
  <2>2. j \in Publishers /\ j \notin Cancellers
    BY ProcessAssumption DEF Publishers
  <2>3. faults' \in {faults, faults + 1}
    BY <1>1 DEF Store
  <2> QED
    BY <1>1, <2>1, <2>2, <2>3 DEF StoreStep, StartPublish
<1>2. ASSUME Publishing(j, "idle"), UNCHANGED <<job, eventVars>>,
             UNCHANGED faults \/ \E fails : MayFail(fails)
      PROVE  StoreStep
  BY <1>2 DEF eventVars, StoreStep, MayFail
<1>3. CASE \/ acquire_permit(j) \/ cancelled_in_queue(j) \/ check_cancelled(j)
           \/ wait_for_stage(j) \/ append_solver_event(j) \/ keep_snapshot(j)
           \/ updates_closed(j) \/ join_worker(j) \/ release_permit(j)
           \/ remove_activity(j) \/ send_completion(j)
  BY <1>2, <1>3 DEF acquire_permit, cancelled_in_queue, check_cancelled, wait_for_stage,
     append_solver_event, keep_snapshot, updates_closed, join_worker, release_permit,
     remove_activity, send_completion, Received, At, storeVars
<1>4. CASE mark_running(j)
  <2>1. /\ Publishing(j, "idle") /\ UNCHANGED eventVars
        /\ UNCHANGED storeVars \/ \E w : StorePlain(j, MarkedRunning(job[j]), w)
    BY <1>4 DEF mark_running, At
  <2> QED
    BY <1>1, <2>1 DEF StorePlain, eventVars, storeVars
<1>5. CASE update_progress(j)
  <2>1. /\ Publishing(j, "idle") /\ UNCHANGED <<sent, sequence>>
        /\ UNCHANGED storeVars \/ \E record, w : StorePlain(j, record, w)
        /\ publisher' = publisher \/ StartPublish(j, j, "progress")
    BY <1>5 DEF update_progress, At
  <2> QED
    BY <1>1, <2>1 DEF StorePlain, storeVars, EventKinds
<1>6. CASE persist_cancelled(j)
  <2>1. /\ Publishing(j, "idle") /\ UNCHANGED <<sent, sequence>>
        /\ UNCHANGED storeVars \/ \E record, w : StorePlain(j, record, w)
        /\ publisher' = publisher \/ StartPublish(j, j, "cancelled")
    BY <1>6 DEF persist_cancelled, At
  <2> QED
    BY <1>1, <2>1 DEF StorePlain, storeVars, EventKinds
<1>7. CASE save_result(j)
  <2>1. /\ Publishing(j, "idle") /\ UNCHANGED <<sent, sequence>>
        /\ UNCHANGED storeVars \/ \E record, w : Store(j, record, w)
        /\ publisher' = publisher \/ StartPublish(j, j, "completed")
    BY <1>7 DEF save_result, Save, At
  <2> QED
    BY <1>1, <2>1 DEF storeVars, EventKinds
<1>8. CASE save_error(j)
  <2>1. /\ Publishing(j, "idle") /\ UNCHANGED <<sent, sequence>>
        /\ UNCHANGED storeVars \/ \E record, w : Store(j, record, w)
        /\ publisher' = publisher \/ StartPublish(j, j, "failed")
    BY <1>8 DEF save_error, Save, At
  <2> QED
    BY <1>1, <2>1 DEF storeVars, EventKinds
<1> QED
  BY <1>3, <1>4, <1>5, <1>6, <1>7, <1>8 DEF Run

(* Every step of the runner module stores or publishes. *)
LEMMA StepKinds ==
  ASSUME CoreTypes, [Next]_vars
  PROVE  StoreStep \/ \E p \in Publishers : Publication(p)
<1>1. ASSUME NEW j \in Jobs, finish(j) \/ \E u \in Updates : report(j, u)
      PROVE  StoreStep
  BY <1>1 DEF finish, report, storeVars, eventVars, StoreStep
<1>2. CASE UNCHANGED vars
  BY <1>2 DEF vars, StoreStep
<1> QED
  BY <1>1, <1>2, SubmitterStores, CancellerStores, RunStores DEF Next

-----------------------------------------------------------------------------
(* What has been sent is made of envelopes. *)
LEMMA SentTypes ==
  ASSUME EventTypes, NEW j \in Jobs, NEW i \in DOMAIN sent[j]
  PROVE  /\ sent[j][i].kind \in EventKinds
         /\ sent[j][i].envelope \in Envelope
         /\ sent[j][i].envelope.sequence \in Nat
         /\ sent[j][i].envelope.state \in JobRecord
<1>1. sent[j][i] \in Event
  BY DEF EventTypes
<1>2. sent[j][i].kind \in EventKinds /\ sent[j][i].envelope \in Envelope
  BY <1>1 DEF Event
<1> QED
  BY <1>2 DEF Envelope

(* What a publisher holds is an envelope. *)
LEMMA HeldTypes ==
  ASSUME EventTypes, NEW p \in Publishers, Holding(p)
  PROVE  /\ Busy(p) /\ publisher[p].job \in Jobs /\ publisher[p].kind \in EventKinds
         /\ publisher[p].envelope \in Envelope
         /\ publisher[p].envelope.sequence \in Nat
         /\ publisher[p].envelope.state \in JobRecord
         /\ publisher[p] = [pc |-> publisher[p].pc, job |-> publisher[p].job,
                            kind |-> publisher[p].kind, envelope |-> publisher[p].envelope]
<1>1. publisher \in [Publishers -> PublisherState]
  BY DEF EventTypes
<1>2. Busy(p) /\ publisher[p].pc \in {"bump", "record", "send"}
  BY DEF Holding, Busy
<1>3. /\ publisher[p].job \in Jobs /\ publisher[p].kind \in EventKinds
      /\ publisher[p].envelope \in Envelope
      /\ publisher[p] = [pc |-> publisher[p].pc, job |-> publisher[p].job,
                         kind |-> publisher[p].kind, envelope |-> publisher[p].envelope]
  BY <1>1, <1>2, PublisherFacts
<1> QED
  BY <1>2, <1>3 DEF Envelope

(* What an envelope shows stays true of a record that moves along. *)
LEMMA ShowsStep ==
  ASSUME RunnerInvariant, RunnerInvariant', [Next]_vars, NEW j \in Jobs, NEW kind,
         NEW e \in Envelope, Shows(kind, e, j)
  PROVE  Shows(kind, e, j)'
<1>1. e.state \in JobRecord /\ job[j] \in JobRecord
  BY DEF Envelope, Shows
<1>2. job'[j] \in JobRecord /\ Reaches(job[j], job'[j])
  BY <1>1, RecordReaches
<1>3. Reaches(e.state, job'[j])
  BY <1>1, <1>2, ReachesTransitive DEF Shows
<1> QED
  BY <1>2, <1>3 DEF Shows

(* Steps that do not publish. *)
LEMMA StorePublications ==
  ASSUME RunnerInvariant, RunnerInvariant', EventTypes, PublicationInvariant, [Next]_vars,
         StoreStep
  PROVE  PublicationInvariant'
<1> USE DEF PublicationInvariant
<1>1. \A p \in Publishers :
        \/ publisher'[p] = publisher[p]
        \/ /\ publisher'[p].pc = "read"
           /\ p \in Jobs => publisher'[p].job = p
           /\ p \in Cancellers => Ends(publisher'[p].kind)
  BY DEF StoreStep, EventTypes
<1>2. ASSUME NEW p \in Publishers, Holding(p)'
      PROVE  Holding(p) /\ publisher'[p] = publisher[p]
  BY <1>1, <1>2 DEF Holding
<1>3. sent' = sent /\ sequence' = sequence
  BY DEF StoreStep
<1>4. OwnPublisher'
  BY <1>1 DEF OwnPublisher, Busy, Publishers
<1>5. EnvelopesReached'
  <2>1. ASSUME NEW p \in Publishers, Holding(p)'
        PROVE  /\ Shows(publisher[p].kind, publisher[p].envelope, publisher[p].job)'
               /\ Numbered(p)' => publisher'[p].envelope.sequence <= sequence'[publisher'[p].job]
    <3>1. Holding(p) /\ publisher'[p] = publisher[p]
      BY <1>2, <2>1
    <3>2. publisher[p].envelope \in Envelope /\ publisher[p].job \in Jobs
      BY <3>1, HeldTypes
    <3>3. Shows(publisher[p].kind, publisher[p].envelope, publisher[p].job)
      BY <3>1 DEF EnvelopesReached
    <3>4. /\ job'[publisher[p].job] \in JobRecord
          /\ Reaches(publisher[p].envelope.state, job'[publisher[p].job])
          /\ is_active(publisher[p].envelope.state.status) <=> ~Ends(publisher[p].kind)
      BY <3>2, <3>3, ShowsStep DEF Shows
    <3> QED
      BY <1>3, <3>1, <3>4 DEF Shows, EnvelopesReached, Numbered
  <2>2. ASSUME NEW j \in Jobs, NEW i \in DOMAIN sent[j]
        PROVE  /\ Shows(sent[j][i].kind, sent[j][i].envelope, j)'
               /\ sent[j][i].envelope.sequence <= sequence[j]
    <3>1. /\ Shows(sent[j][i].kind, sent[j][i].envelope, j)
          /\ sent[j][i].envelope.sequence <= sequence[j]
      BY <2>2 DEF EnvelopesReached
    <3>2. /\ job'[j] \in JobRecord /\ Reaches(sent[j][i].envelope.state, job'[j])
          /\ is_active(sent[j][i].envelope.state.status) <=> ~Ends(sent[j][i].kind)
      BY <2>2, <3>1, SentTypes, ShowsStep DEF Shows
    <3> QED
      BY <1>3, <3>1, <3>2 DEF Shows
  <2> QED
    BY <1>3, <2>1, <2>2 DEF EnvelopesReached
<1>6. HeldIsRecord'
  <2> SUFFICES ASSUME NEW j \in Jobs, Holding(j)', ~Ends(publisher'[j].kind)
               PROVE  job'[j] = publisher'[j].envelope.state \/ ~is_active(job'[j].status)
    BY DEF HeldIsRecord
  <2>1. j \in Publishers
    BY DEF Publishers
  <2>2. Holding(j) /\ publisher'[j] = publisher[j]
    BY <1>2, <2>1
  <2>3. Busy(j) /\ publisher[j].job = j
    BY <2>1, <2>2, HeldTypes DEF OwnPublisher
  <2>4. job[j] \in JobRecord
    BY <2>1, <2>2, <2>3 DEF EnvelopesReached, Shows
  <2>5. job'[j] = job[j] \/ ~is_active(job'[j].status)
    BY <2>3, <2>4 DEF StoreStep
  <2>6. ~is_active(job[j].status) => job'[j] = job[j]
    BY <2>4, RecordReaches DEF Reaches
  <2> QED
    BY <2>2, <2>5, <2>6 DEF HeldIsRecord
<1>7. ProgressOrdered'
  <2>1. \A j \in Jobs : Holding(j)' => Holding(j) /\ publisher'[j] = publisher[j]
    BY <1>2 DEF Publishers
  <2> QED
    BY <1>3, <2>1 DEF ProgressOrdered, Numbered
<1> QED
  BY <1>4, <1>5, <1>6, <1>7

(* A publisher other than the one that moves is left alone. *)
LEMMA OthersHold ==
  ASSUME EventTypes, NEW p \in Publishers, Publication(p)
  PROVE  /\ \A q \in Publishers : q # p => publisher'[q] = publisher[q]
         /\ Busy(p) /\ publisher[p].job \in Jobs /\ publisher[p].kind \in EventKinds
         /\ UNCHANGED job
<1>1. publisher \in [Publishers -> PublisherState]
  BY DEF EventTypes
<1>2. UNCHANGED job /\ Busy(p)
  BY DEF Publication, read_persisted, bump_sequence, record_event_sequence, send_event,
         storeVars, Publishing, Busy
<1>3. \A q \in Publishers : q # p => publisher'[q] = publisher[q]
  BY <1>1 DEF Publication, read_persisted, bump_sequence, record_event_sequence, send_event
<1> QED
  BY <1>1, <1>2, <1>3, PublisherFacts

(* The record is read for an envelope, or the publication is dropped. *)
LEMMA ReadEffect ==
  ASSUME CoreTypes, EventInvariant, NEW p \in Publishers, read_persisted(p)
  PROVE  /\ UNCHANGED <<sent, sequence>>
         /\ publisher'[p] # IdlePublisher =>
              /\ publisher'[p].pc = "bump"
              /\ publisher'[p].job = publisher[p].job /\ publisher'[p].kind = publisher[p].kind
              /\ publisher'[p].envelope.state = job[publisher[p].job]
              /\ job[publisher[p].job] \in JobRecord
              /\ is_active(job[publisher[p].job].status) <=> ~Ends(publisher[p].kind)
<1>1. EventTypes /\ AnnouncesRecord
  BY DEF EventInvariant
<1>2. Busy(p) /\ publisher[p].job \in Jobs /\ publisher[p].kind \in EventKinds
  BY <1>1, OthersHold DEF Publication
<1> DEFINE j == publisher[p].job
           kind == publisher[p].kind
           held == [pc |-> "bump", job |-> j, kind |-> kind,
                    envelope |-> [sequence |-> 0, state |-> job[j], result |-> result[j],
                                  error |-> error[j]]]
<1>3. UNCHANGED <<sent, sequence>>
  BY DEF read_persisted
<1>4. \/ publisher'[p] = IdlePublisher
      \/ publisher'[p] = held /\ (kind = "progress" => is_active(job[j].status))
  BY <1>1 DEF read_persisted, EventTypes
<1>5. Ends(kind) => job[j].status = kind
  BY <1>1, <1>2 DEF AnnouncesRecord
<1>6. Ends(kind) => ~is_active(job[j].status) /\ job[j] \in JobRecord
  BY <1>2, <1>5 DEF CoreTypes, NoState, EventKinds, Ends, is_active
<1>7. publisher'[p] = held => is_active(job[j].status) \/ Ends(kind)
  BY <1>4 DEF Ends, IdlePublisher
<1>8. is_active(job[j].status) => job[j] \in JobRecord
  BY <1>2, ActiveIsRecord
<1> QED
  BY <1>3, <1>4, <1>6, <1>7, <1>8

(* What is read now is not behind what was sent before. *)
LEMMA ReadPublications ==
  ASSUME CoreTypes, EventInvariant, PublicationInvariant, NEW p \in Publishers,
         read_persisted(p)
  PROVE  PublicationInvariant'
<1> USE DEF PublicationInvariant
<1> DEFINE j == publisher[p].job
           kind == publisher[p].kind
<1>0. EventTypes
  BY DEF EventInvariant
<1>1. /\ \A q \in Publishers : q # p => publisher'[q] = publisher[q]
      /\ Busy(p) /\ j \in Jobs /\ kind \in EventKinds /\ job' = job
  BY <1>0, OthersHold DEF Publication
<1>2. /\ sent' = sent /\ sequence' = sequence
      /\ publisher'[p] # IdlePublisher =>
              /\ publisher'[p].pc = "bump" /\ publisher'[p].job = j /\ publisher'[p].kind = kind
              /\ publisher'[p].envelope.state = job[j]
              /\ job[j] \in JobRecord
              /\ is_active(job[j].status) <=> ~Ends(kind)
  BY ReadEffect
<1>3. ASSUME NEW q \in Publishers, Holding(q)'
      PROVE  IF q = p
             THEN /\ publisher'[p].pc = "bump" /\ publisher'[p].job = j
                  /\ publisher'[p].kind = kind /\ publisher'[p].envelope.state = job[j]
                  /\ job[j] \in JobRecord
                  /\ is_active(job[j].status) <=> ~Ends(kind)
             ELSE Holding(q) /\ publisher'[q] = publisher[q]
  BY <1>1, <1>2, <1>3 DEF Holding, IdlePublisher
<1>4. OwnPublisher'
  <2>1. ASSUME NEW q \in Publishers, Busy(q)'
        PROVE  /\ Busy(q) /\ publisher'[q].job = publisher[q].job
               /\ publisher'[q].kind = publisher[q].kind
    BY <1>1, <1>2, <2>1 DEF Busy, IdlePublisher
  <2> QED
    BY <2>1 DEF OwnPublisher, Publishers
<1>5. EnvelopesReached'
  <2>1. ASSUME NEW q \in Publishers, Holding(q)'
        PROVE  /\ Shows(publisher[q].kind, publisher[q].envelope, publisher[q].job)'
               /\ Numbered(q)' => publisher'[q].envelope.sequence <= sequence'[publisher'[q].job]
    <3>1. CASE q = p
      BY <1>1, <1>3, <2>1, <3>1, ReachesItself DEF Shows, Numbered
    <3>2. CASE q # p
      BY <1>1, <1>2, <1>3, <2>1, <3>2 DEF Shows, Numbered, EnvelopesReached
    <3> QED
      BY <3>1, <3>2
  <2> QED
    BY <1>1, <1>2, <2>1 DEF EnvelopesReached, Shows
<1>6. HeldIsRecord'
  <2> SUFFICES ASSUME NEW k \in Jobs, Holding(k)', ~Ends(publisher'[k].kind)
               PROVE  job'[k] = publisher'[k].envelope.state \/ ~is_active(job'[k].status)
    BY DEF HeldIsRecord
  <2>1. k \in Publishers
    BY DEF Publishers
  <2>2. CASE k = p
    BY <1>1, <1>3, <2>1, <2>2 DEF OwnPublisher
  <2>3. CASE k # p
    BY <1>1, <1>3, <2>1, <2>3 DEF HeldIsRecord
  <2> QED
    BY <2>2, <2>3
<1>7. ProgressOrdered'
  <2> SUFFICES ASSUME NEW k \in Jobs, Holding(k)', ~Ends(publisher'[k].kind),
                      NEW i \in DOMAIN sent[k], ~Ends(sent[k][i].kind)
               PROVE  /\ NotBehind(sent[k][i].envelope.state, publisher'[k].envelope.state)
                      /\ Numbered(k)' =>
                           sent[k][i].envelope.sequence < publisher'[k].envelope.sequence
    BY <1>2 DEF ProgressOrdered
  <2>1. k \in Publishers
    BY DEF Publishers
  <2>2. CASE k = p
    <3>1. j = k /\ publisher'[k].envelope.state = job[k] /\ ~Numbered(k)'
      BY <1>1, <1>3, <2>1, <2>2 DEF OwnPublisher, Numbered
    <3> QED
      BY <3>1 DEF EnvelopesReached, Shows, Reaches
  <2>3. CASE k # p
    BY <1>3, <2>1, <2>3 DEF ProgressOrdered, Numbered
  <2> QED
    BY <2>2, <2>3
<1> QED
  BY <1>4, <1>5, <1>6, <1>7

(* The envelope is numbered after everything numbered before it. *)
LEMMA BumpPublications ==
  ASSUME CoreTypes, EventInvariant, PublicationInvariant, NEW p \in Publishers,
         bump_sequence(p)
  PROVE  PublicationInvariant'
<1> USE DEF PublicationInvariant
<1> DEFINE j == publisher[p].job
           kind == publisher[p].kind
           env == publisher[p].envelope
<1>0. EventTypes
  BY DEF EventInvariant
<1>1. /\ \A q \in Publishers : q # p => publisher'[q] = publisher[q]
      /\ Busy(p) /\ j \in Jobs /\ kind \in EventKinds /\ job' = job
  BY <1>0, OthersHold DEF Publication
<1>2. Holding(p) /\ env \in Envelope /\ publisher[p].pc = "bump"
  BY <1>0, HeldTypes DEF bump_sequence, Publishing, Holding
<1>3. /\ sent' = sent
      /\ sequence' = [sequence EXCEPT ![j] = sequence[j] + 1]
      /\ publisher'[p] = [pc |-> "record", job |-> j, kind |-> kind,
                          envelope |-> [env EXCEPT !.sequence = sequence[j] + 1]]
  BY <1>0 DEF bump_sequence, EventTypes
<1>4. /\ sequence'[j] = sequence[j] + 1 /\ sequence[j] \in Nat
      /\ \A k \in Jobs : /\ sequence[k] \in Nat /\ sequence'[k] \in Nat
                         /\ sequence[k] <= sequence'[k]
  BY <1>0, <1>1, <1>3 DEF EventTypes
<1>5. /\ publisher'[p].pc = "record" /\ publisher'[p].job = j /\ publisher'[p].kind = kind
      /\ publisher'[p].envelope.state = env.state
      /\ publisher'[p].envelope.sequence = sequence'[j]
  BY <1>2, <1>3, <1>4 DEF Envelope
<1>6. OwnPublisher'
  <2>1. \A q \in Publishers : Busy(q)' => /\ Busy(q) /\ publisher'[q].job = publisher[q].job
                                          /\ publisher'[q].kind = publisher[q].kind
    BY <1>1, <1>5 DEF Busy
  <2> QED
    BY <2>1 DEF OwnPublisher, Publishers
<1>7. EnvelopesReached'
  <2>1. ASSUME NEW q \in Publishers, Holding(q)'
        PROVE  /\ Shows(publisher[q].kind, publisher[q].envelope, publisher[q].job)'
               /\ Numbered(q)' => publisher'[q].envelope.sequence <= sequence'[publisher'[q].job]
    <3>1. CASE q = p
      BY <1>1, <1>2, <1>4, <1>5, <3>1 DEF Shows, EnvelopesReached
    <3>2. CASE q # p
      <4>1. Holding(q) /\ publisher'[q] = publisher[q]
        BY <1>1, <2>1, <3>2 DEF Holding
      <4>2. publisher[q].job \in Jobs /\ publisher[q].envelope.sequence \in Nat
        BY <1>0, <4>1, HeldTypes
      <4>3. Shows(publisher[q].kind, publisher[q].envelope, publisher[q].job)'
        BY <1>1, <4>1 DEF Shows, EnvelopesReached
      <4>4. Numbered(q) => publisher[q].envelope.sequence <= sequence[publisher[q].job]
        BY <4>1 DEF EnvelopesReached
      <4> QED
        BY <1>4, <4>1, <4>2, <4>3, <4>4 DEF Numbered
    <3> QED
      BY <3>1, <3>2
  <2>2. ASSUME NEW k \in Jobs, NEW i \in DOMAIN sent[k]
        PROVE  /\ Shows(sent[k][i].kind, sent[k][i].envelope, k)
               /\ sent[k][i].envelope.sequence <= sequence'[k]
    BY <1>0, <1>4, <2>2, SentTypes DEF EnvelopesReached
  <2> QED
    BY <1>1, <1>3, <2>1, <2>2 DEF EnvelopesReached, Shows
<1>8. HeldIsRecord'
  <2> SUFFICES ASSUME NEW k \in Jobs, Holding(k)', ~Ends(publisher'[k].kind)
               PROVE  job'[k] = publisher'[k].envelope.state \/ ~is_active(job'[k].status)
    BY DEF HeldIsRecord
  <2>1. /\ Holding(k) /\ publisher'[k].kind = publisher[k].kind
        /\ publisher'[k].envelope.state = publisher[k].envelope.state
    BY <1>1, <1>2, <1>5 DEF Holding, Publishers
  <2> QED
    BY <1>1, <2>1 DEF HeldIsRecord
<1>9. ProgressOrdered'
  <2> SUFFICES ASSUME NEW k \in Jobs, Holding(k)', ~Ends(publisher'[k].kind),
                      NEW i \in DOMAIN sent[k], ~Ends(sent[k][i].kind)
               PROVE  /\ NotBehind(sent[k][i].envelope.state, publisher'[k].envelope.state)
                      /\ Numbered(k)' =>
                           sent[k][i].envelope.sequence < publisher'[k].envelope.sequence
    BY <1>3 DEF ProgressOrdered
  <2>1. CASE k = p
    <3>1. j = k
      BY <1>1, <2>1 DEF OwnPublisher
    <3>2. sent[k][i].envelope.sequence <= sequence[k] /\ sent[k][i].envelope.sequence \in Nat
      BY <1>0, SentTypes DEF EnvelopesReached
    <3>3. sent[k][i].envelope.sequence < publisher'[k].envelope.sequence
      BY <1>4, <1>5, <2>1, <3>1, <3>2
    <3> QED
      BY <1>2, <1>5, <2>1, <3>3 DEF ProgressOrdered
  <2>2. CASE k # p
    <3>1. publisher'[k] = publisher[k]
      BY <1>1, <2>2 DEF Publishers
    <3> QED
      BY <3>1 DEF ProgressOrdered, Numbered, Holding
  <2> QED
    BY <2>1, <2>2
<1> QED
  BY <1>6, <1>7, <1>8, <1>9

(* Recording the number changes nothing the streams see. *)
LEMMA RecordPublications ==
  ASSUME CoreTypes, EventInvariant, PublicationInvariant, NEW p \in Publishers,
         record_event_sequence(p)
  PROVE  PublicationInvariant'
<1> USE DEF PublicationInvariant
<1>0. EventTypes
  BY DEF EventInvariant
<1>1. /\ \A q \in Publishers : q # p => publisher'[q] = publisher[q]
      /\ job' = job /\ sent' = sent /\ sequence' = sequence
  BY <1>0, OthersHold DEF Publication, record_event_sequence
<1>2. Numbered(p) /\ Holding(p)
  BY DEF record_event_sequence, Publishing, Holding, Numbered
<1>3. /\ publisher'[p].pc = "send" /\ publisher'[p].job = publisher[p].job
      /\ publisher'[p].kind = publisher[p].kind /\ publisher'[p].envelope = publisher[p].envelope
  <2>1. publisher' = [publisher EXCEPT ![p] = [publisher[p] EXCEPT !.pc = "send"]]
    BY DEF record_event_sequence
  <2>2. publisher'[p] = [publisher[p] EXCEPT !.pc = "send"]
    BY <1>0, <2>1 DEF EventTypes
  <2> QED
    BY <1>0, <1>2, <2>2, HeldTypes
<1>4. \A q \in Publishers : Busy(q)' => /\ Busy(q) /\ publisher'[q].job = publisher[q].job
                                        /\ publisher'[q].kind = publisher[q].kind
  BY <1>1, <1>2, <1>3 DEF Busy, Holding
<1>5. \A q \in Publishers : Holding(q)' =>
        /\ Holding(q) /\ publisher'[q].job = publisher[q].job
        /\ publisher'[q].kind = publisher[q].kind /\ publisher'[q].envelope = publisher[q].envelope
        /\ Numbered(q)' <=> Numbered(q)
  BY <1>1, <1>2, <1>3 DEF Holding, Numbered
<1>6. OwnPublisher'
  BY <1>4 DEF OwnPublisher, Publishers
<1>7. EnvelopesReached'
  BY <1>1, <1>5 DEF EnvelopesReached, Shows
<1>8. \A k \in Jobs : k \in Publishers
  BY DEF Publishers
<1>9. HeldIsRecord'
  BY <1>1, <1>5, <1>8 DEF HeldIsRecord
<1>10. ProgressOrdered'
  BY <1>1, <1>5, <1>8 DEF ProgressOrdered
<1> QED
  BY <1>6, <1>7, <1>9, <1>10

(* Sending adds one event to one channel. *)
LEMMA SendEffect ==
  ASSUME EventTypes, NEW p \in Publishers, send_event(p)
  PROVE  /\ Holding(p) /\ Numbered(p) /\ publisher'[p] = IdlePublisher
         /\ UNCHANGED <<sequence, faults>>
         /\ \A k \in Jobs : \A i \in DOMAIN sent'[k] :
              \/ i \in DOMAIN sent[k] /\ sent'[k][i] = sent[k][i]
              \/ /\ k = publisher[p].job
                 /\ sent'[k][i].kind = publisher[p].kind
                 /\ sent'[k][i].envelope = publisher[p].envelope
<1> DEFINE j == publisher[p].job
           event == [kind |-> publisher[p].kind, envelope |-> publisher[p].envelope]
<1>1. Holding(p) /\ Numbered(p) /\ UNCHANGED <<sequence, faults>>
  BY DEF send_event, Publishing, Holding, Numbered, storeVars
<1>2. j \in Jobs /\ event \in Event
  BY <1>1, HeldTypes DEF Event
<1>3. publisher'[p] = IdlePublisher
  BY DEF send_event, EventTypes
<1>4. sent' = [sent EXCEPT ![j] = Append(sent[j], event)] /\ sent \in [Jobs -> Seq(Event)]
  BY DEF send_event, EventTypes
<1>5. ASSUME NEW k \in Jobs, NEW i \in DOMAIN sent'[k]
      PROVE  \/ i \in DOMAIN sent[k] /\ sent'[k][i] = sent[k][i]
             \/ k = j /\ sent'[k][i] = event
  <2>1. CASE k # j
    BY <1>4, <2>1
  <2>2. CASE k = j
    <3> DEFINE q == sent[j]
    <3>1. q \in Seq(Event) /\ sent'[k] = Append(q, event)
      BY <1>2, <1>4, <2>2
    <3> HIDE DEF event, q
    <3>2. i \in 1..(Len(q) + 1) /\ Len(q) \in Nat
      BY <1>2, <1>5, <3>1
    <3>3. CASE i = Len(q) + 1
      BY <1>2, <2>2, <3>1, <3>3
    <3>4. CASE i # Len(q) + 1
      <4>1. i \in DOMAIN q /\ Append(q, event)[i] = q[i]
        BY <1>2, <3>1, <3>2, <3>4
      <4> QED
        BY <2>2, <3>1, <4>1 DEF q
    <3> QED
      BY <3>3, <3>4
  <2> QED
    BY <2>1, <2>2
<1> QED
  BY <1>1, <1>3, <1>5

(* What the runner sends is ordered after the progress sent before. *)
LEMMA SendPublications ==
  ASSUME CoreTypes, EventInvariant, PublicationInvariant, NEW p \in Publishers,
         send_event(p)
  PROVE  PublicationInvariant'
<1> USE DEF PublicationInvariant
<1> DEFINE j == publisher[p].job
           kind == publisher[p].kind
           env == publisher[p].envelope
<1>0. EventTypes
  BY DEF EventInvariant
<1>1. /\ \A q \in Publishers : q # p => publisher'[q] = publisher[q]
      /\ Busy(p) /\ j \in Jobs /\ kind \in EventKinds /\ job' = job
  BY <1>0, OthersHold DEF Publication
<1>2. /\ Holding(p) /\ Numbered(p) /\ publisher'[p].pc = "idle" /\ sequence' = sequence
      /\ \A k \in Jobs : \A i \in DOMAIN sent'[k] :
           \/ i \in DOMAIN sent[k] /\ sent'[k][i] = sent[k][i]
           \/ k = j /\ sent'[k][i].kind = kind /\ sent'[k][i].envelope = env
  BY <1>0, SendEffect DEF IdlePublisher
<1>3. ~Ends(kind) => p \in Jobs /\ j = p
  BY <1>1 DEF OwnPublisher, Publishers
<1>4. \A q \in Publishers : Busy(q)' => q # p /\ Busy(q) /\ publisher'[q] = publisher[q]
  BY <1>1, <1>2 DEF Busy
<1>5. \A q \in Publishers : Holding(q)' => q # p /\ Holding(q) /\ publisher'[q] = publisher[q]
  BY <1>1, <1>2 DEF Holding
<1>6. \A k \in Jobs : k \in Publishers
  BY DEF Publishers
<1>7. OwnPublisher'
  BY <1>4 DEF OwnPublisher, Publishers
<1>8. EnvelopesReached'
  <2>1. ASSUME NEW q \in Publishers, Holding(q)'
        PROVE  /\ Shows(publisher[q].kind, publisher[q].envelope, publisher[q].job)'
               /\ Numbered(q)' => publisher'[q].envelope.sequence <= sequence'[publisher'[q].job]
    BY <1>1, <1>2, <1>5, <2>1 DEF EnvelopesReached, Shows, Numbered
  <2>2. ASSUME NEW k \in Jobs, NEW i \in DOMAIN sent'[k]
        PROVE  /\ Shows(sent[k][i].kind, sent[k][i].envelope, k)'
               /\ sent'[k][i].envelope.sequence <= sequence'[k]
    <3>1. Shows(kind, env, j) /\ env.sequence <= sequence[j]
      BY <1>2 DEF EnvelopesReached
    <3> QED
      BY <1>1, <1>2, <2>2, <3>1 DEF EnvelopesReached, Shows
  <2> QED
    BY <2>1, <2>2 DEF EnvelopesReached
<1>9. HeldIsRecord'
  BY <1>1, <1>5, <1>6 DEF HeldIsRecord
<1>10. ProgressOrdered'
  <2> SUFFICES ASSUME NEW k \in Jobs
               PROVE  /\ \A i, m \in DOMAIN sent'[k] :
                           (/\ ~Ends(sent'[k][i].kind) /\ ~Ends(sent'[k][m].kind)
                            /\ sent'[k][i].envelope.sequence < sent'[k][m].envelope.sequence) =>
                             NotBehind(sent'[k][i].envelope.state, sent'[k][m].envelope.state)
                      /\ Holding(k)' /\ ~Ends(publisher'[k].kind) =>
                           \A i \in DOMAIN sent'[k] : ~Ends(sent'[k][i].kind) =>
                             /\ NotBehind(sent'[k][i].envelope.state, publisher'[k].envelope.state)
                             /\ Numbered(k)' =>
                                  sent'[k][i].envelope.sequence < publisher'[k].envelope.sequence
    BY DEF ProgressOrdered
  <2>1. ASSUME NEW i \in DOMAIN sent'[k], NEW m \in DOMAIN sent'[k],
               ~Ends(sent'[k][i].kind), ~Ends(sent'[k][m].kind),
               sent'[k][i].envelope.sequence < sent'[k][m].envelope.sequence
        PROVE  NotBehind(sent'[k][i].envelope.state, sent'[k][m].envelope.state)
    <3>1. CASE /\ i \in DOMAIN sent[k] /\ sent'[k][i] = sent[k][i]
               /\ m \in DOMAIN sent[k] /\ sent'[k][m] = sent[k][m]
      BY <2>1, <3>1 DEF ProgressOrdered
    <3>2. ASSUME k = j, ~Ends(kind), NEW e \in DOMAIN sent[k], ~Ends(sent[k][e].kind)
          PROVE  /\ NotBehind(sent[k][e].envelope.state, env.state)
                 /\ sent[k][e].envelope.sequence < env.sequence
                 /\ ~(env.sequence < sent[k][e].envelope.sequence)
      <4>1. /\ NotBehind(sent[k][e].envelope.state, env.state)
            /\ sent[k][e].envelope.sequence < env.sequence
        BY <1>2, <1>3, <3>2 DEF ProgressOrdered
      <4>2. sent[k][e].envelope.sequence \in Nat /\ env.sequence \in Nat
        BY <1>0, <1>2, <3>2, SentTypes, HeldTypes
      <4> QED
        BY <4>1, <4>2
    <3>3. env.sequence \in Nat
      BY <1>0, <1>2, HeldTypes
    <3>4. ~(env.sequence < env.sequence)
      BY <3>3
    <3> QED
      BY <1>2, <2>1, <3>1, <3>2, <3>4
  <2>2. ASSUME Holding(k)', ~Ends(publisher'[k].kind), NEW i \in DOMAIN sent'[k],
               ~Ends(sent'[k][i].kind)
        PROVE  /\ NotBehind(sent'[k][i].envelope.state, publisher'[k].envelope.state)
               /\ Numbered(k)' =>
                    sent'[k][i].envelope.sequence < publisher'[k].envelope.sequence
    <3>1. k # p /\ Holding(k) /\ publisher'[k] = publisher[k]
      BY <1>5, <1>6, <2>2
    <3>2. i \in DOMAIN sent[k] /\ sent'[k][i] = sent[k][i]
      BY <1>2, <1>3, <2>2, <3>1
    <3> QED
      BY <2>2, <3>1, <3>2 DEF ProgressOrdered, Numbered
  <2> QED
    BY <2>1, <2>2
<1> QED
  BY <1>7, <1>8, <1>9, <1>10

(* Publications stay ordered, whatever the processes do. *)
LEMMA NextPublications ==
  ASSUME RunnerInvariant, RunnerInvariant', EventInvariant, PublicationInvariant, [Next]_vars
  PROVE  PublicationInvariant'
<1>1. CoreTypes /\ EventTypes
  BY DEF RunnerInvariant, EventInvariant
<1>2. CASE StoreStep
  BY <1>1, <1>2, StorePublications
<1>3. ASSUME NEW p \in Publishers, Publication(p)
      PROVE  PublicationInvariant'
  BY <1>1, <1>3, ReadPublications, BumpPublications, RecordPublications, SendPublications
     DEF Publication
<1> QED
  BY <1>1, <1>2, <1>3, StepKinds

-----------------------------------------------------------------------------
(* What a step may do to the things a stream reads: numbers grow, the      *)
(* runner holds what it held or the record it has just read, and progress  *)
(* comes on the channel from the runner's hands.                           *)
FeedStep ==
  /\ \A j \in Jobs : /\ sequence[j] \in Nat /\ sequence'[j] \in Nat
                     /\ sequence[j] <= sequence'[j]
  /\ faults' = 0 => faults = 0
  /\ \A j \in Jobs : Holding(j)' /\ ~Ends(publisher'[j].kind) =>
       \/ /\ Holding(j) /\ ~Ends(publisher[j].kind)
          /\ publisher'[j].envelope.state = publisher[j].envelope.state
          /\ Numbered(j) => /\ Numbered(j)'
                            /\ publisher'[j].envelope.sequence = publisher[j].envelope.sequence
       \/ publisher'[j].pc = "bump" /\ publisher'[j].envelope.state = job[j]
  /\ \A j \in Jobs : \A i \in DOMAIN sent'[j] : ~Ends(sent'[j][i].kind) =>
       \/ i \in DOMAIN sent[j] /\ sent'[j][i] = sent[j][i]
       \/ /\ Holding(j) /\ Numbered(j) /\ ~Ends(publisher[j].kind)
          /\ sent'[j][i].envelope = publisher[j].envelope

(* A step that does not publish leaves the channel and its numbers alone. *)
LEMMA StoreFeeds ==
  ASSUME EventTypes, StoreStep
  PROVE  FeedStep
<1>1. /\ sequence' = sequence /\ sent' = sent /\ sequence \in [Jobs -> Nat]
      /\ faults' \in {faults, faults + 1} /\ faults \in Nat
  BY BoundAssumption DEF StoreStep, EventTypes
<1>2. \A p \in Publishers : publisher'[p] = publisher[p] \/ publisher'[p].pc = "read"
  BY DEF StoreStep, EventTypes
<1>3. \A j \in Jobs : publisher'[j] = publisher[j] \/ publisher'[j].pc = "read"
  BY <1>2 DEF Publishers
<1>4. faults' = 0 => faults = 0
  BY <1>1
<1>5. \A j \in Jobs : Holding(j)' => publisher'[j] = publisher[j] /\ Holding(j)
  BY <1>3 DEF Holding
<1> QED
  BY <1>1, <1>4, <1>5 DEF FeedStep, Numbered

(* A publication moves one envelope one step towards the channel. *)
LEMMA PublicationFeeds ==
  ASSUME CoreTypes, EventInvariant, OwnPublisher, NEW p \in Publishers, Publication(p)
  PROVE  FeedStep
<1>0. EventTypes
  BY DEF EventInvariant
<1> DEFINE j == publisher[p].job
           kind == publisher[p].kind
           env == publisher[p].envelope
<1>1. /\ \A q \in Publishers : q # p => publisher'[q] = publisher[q]
      /\ Busy(p) /\ j \in Jobs /\ kind \in EventKinds
  BY <1>0, OthersHold
<1>2. \A k \in Jobs : k \in Publishers /\ (k = p => j = k)
  BY <1>1 DEF Publishers, OwnPublisher
<1>3. /\ \A k \in Jobs : /\ sequence[k] \in Nat /\ sequence'[k] \in Nat
                         /\ sequence[k] <= sequence'[k]
  <2>1. sequence \in [Jobs -> Nat]
    BY <1>0 DEF EventTypes
  <2>2. sequence' = sequence \/ sequence' = [sequence EXCEPT ![j] = sequence[j] + 1]
    BY DEF Publication, read_persisted, bump_sequence, record_event_sequence, send_event
  <2> QED
    BY <1>1, <2>1, <2>2
<1>4. faults' = 0 => faults = 0
  <2>1. faults' = faults \/ \E fails : MayFail(fails)
    BY DEF Publication, read_persisted, bump_sequence, record_event_sequence, send_event,
           storeVars
  <2>2. faults \in Nat
    BY <1>0, BoundAssumption DEF EventTypes
  <2> QED
    BY <2>1, <2>2 DEF MayFail
<1>5. ASSUME NEW k \in Jobs, Holding(k)', ~Ends(publisher'[k].kind)
      PROVE  \/ /\ Holding(k) /\ ~Ends(publisher[k].kind)
                /\ publisher'[k].envelope.state = publisher[k].envelope.state
                /\ Numbered(k) =>
                     /\ Numbered(k)'
                     /\ publisher'[k].envelope.sequence = publisher[k].envelope.sequence
             \/ publisher'[k].pc = "bump" /\ publisher'[k].envelope.state = job[k]
  <2>1. CASE k # p
    BY <1>1, <1>2, <1>5, <2>1 DEF Holding, Numbered
  <2>2. CASE k = p /\ read_persisted(p)
    BY <1>2, <1>5, <2>2, ReadEffect DEF Holding, IdlePublisher
  <2>3. CASE k = p /\ bump_sequence(p)
    <3>1. publisher[p].pc = "bump" /\ Holding(p) /\ ~Numbered(p)
      BY <2>3 DEF bump_sequence, Publishing, Holding, Numbered
    <3>2. env \in Envelope
      BY <1>0, <3>1, HeldTypes
    <3>3. publisher'[p] = [pc |-> "record", job |-> j, kind |-> kind,
                           envelope |-> [env EXCEPT !.sequence = sequence[j] + 1]]
      BY <1>0, <2>3 DEF bump_sequence, EventTypes
    <3>4. publisher'[p].envelope.state = env.state /\ publisher'[p].kind = kind
      BY <3>2, <3>3 DEF Envelope
    <3> QED
      BY <1>5, <2>3, <3>1, <3>4
  <2>4. CASE k = p /\ record_event_sequence(p)
    <3>1. Holding(p) /\ Numbered(p)
      BY <2>4 DEF record_event_sequence, Publishing, Holding, Numbered
    <3>2. publisher'[p] = [publisher[p] EXCEPT !.pc = "send"]
      BY <1>0, <2>4 DEF record_event_sequence, EventTypes
    <3>3. publisher'[p].pc = "send" /\ publisher'[p].envelope = env /\ publisher'[p].kind = kind
      BY <1>0, <3>1, <3>2, HeldTypes
    <3> QED
      BY <1>5, <2>4, <3>1, <3>3 DEF Numbered
  <2>5. CASE k = p /\ send_event(p)
    BY <1>0, <1>5, <2>5, SendEffect DEF Holding, IdlePublisher
  <2> QED
    BY <2>1, <2>2, <2>3, <2>4, <2>5 DEF Publication
<1>6. ASSUME NEW k \in Jobs, NEW i \in DOMAIN sent'[k], ~Ends(sent'[k][i].kind)
      PROVE  \/ i \in DOMAIN sent[k] /\ sent'[k][i] = sent[k][i]
             \/ /\ Holding(k) /\ Numbered(k) /\ ~Ends(publisher[k].kind)
                /\ sent'[k][i].envelope = publisher[k].envelope
  <2>1. CASE send_event(p)
    <3>1. CASE k = j /\ sent'[k][i].kind = kind /\ sent'[k][i].envelope = env
      <4>1. p \in Jobs /\ p = k
        BY <1>1, <1>6, <3>1 DEF OwnPublisher, Publishers
      <4> QED
        BY <1>0, <1>6, <2>1, <3>1, <4>1, SendEffect
    <3> QED
      BY <1>0, <1>6, <2>1, <3>1, SendEffect
  <2>2. CASE ~send_event(p)
    <3>1. sent' = sent
      BY <2>2 DEF Publication, read_persisted, bump_sequence, record_event_sequence
    <3> QED
      BY <1>6, <3>1
  <2> QED
    BY <2>1, <2>2
<1> QED
  BY <1>3, <1>4, <1>5, <1>6 DEF FeedStep

(* Every step of the runner module feeds the streams in order. *)
LEMMA NextFeeds ==
  ASSUME RunnerInvariant, EventInvariant, PublicationInvariant, [Next]_vars
  PROVE  FeedStep
<1>1. CoreTypes /\ EventTypes /\ OwnPublisher
  BY DEF RunnerInvariant, EventInvariant, PublicationInvariant
<1> QED
  BY <1>1, StepKinds, StoreFeeds, PublicationFeeds

-----------------------------------------------------------------------------
(* The fields of an open request and of what it has delivered. *)
LEMMA StreamFacts ==
  ASSUME StreamTypes, NEW x \in Streams
  PROVE  /\ stream[x].pc # "idle" =>
              /\ stream[x] \in StreamRecord /\ stream[x].job \in Jobs
              /\ stream[x].read.state \in JobRecord \cup {NoState}
         /\ Delivered(x) =>
              /\ last[x].envelope \in Envelope
              /\ last[x].envelope.sequence \in Nat /\ last[x].envelope.state \in JobRecord
<1>1. stream[x] \in {NoStream} \cup StreamRecord
  BY DEF StreamTypes
<1>2. stream[x].pc # "idle" => stream[x] \in StreamRecord
  BY <1>1 DEF NoStream
<1>3. \A r \in StreamRecord : r.job \in Jobs /\ r.read.state \in JobRecord \cup {NoState}
  BY DEF StreamRecord
<1>4. Delivered(x) => last[x].envelope \in Envelope
  BY DEF StreamTypes, Delivered
<1> QED
  BY <1>2, <1>3, <1>4 DEF Envelope

(* A record behind another is behind what that one is behind. *)
LEMMA BehindTransitive ==
  ASSUME NEW r \in JobRecord, NEW s \in JobRecord, NEW t \in JobRecord,
         NotBehind(r, s), NotBehind(s, t)
  PROVE  NotBehind(r, t)
BY StageAssumption, ProgressAssumption DEF NotBehind, JobRecord

(* What a stream has shown stays behind what it is going to show. *)
LEMMA FeedKeepsView ==
  ASSUME RunnerInvariant, RunnerInvariant', [Next]_vars, FeedStep, StreamTypes,
         UNCHANGED streamVars, NEW x \in Streams, NEW j \in Jobs, stream[x].job = j,
         Open(x), Delivered(x), ViewHeld(x)
  PROVE  ViewHeld(x)'
<1> DEFINE shown == last[x].envelope
<1>1. stream' = stream /\ last' = last
  BY DEF streamVars
<1>2. shown.sequence \in Nat /\ shown.state \in JobRecord
  BY StreamFacts DEF Open
<1>3. /\ shown.sequence = stream[x].cursor /\ shown.sequence <= sequence[j]
      /\ is_active(shown.state.status) /\ job[j] \in JobRecord /\ NotBehind(shown.state, job[j])
      /\ StreamAt(x, "after") => NotBehind(shown.state, stream[x].read.state)
  BY DEF ViewHeld
<1>4. shown.sequence <= sequence'[j]
  BY <1>2, <1>3 DEF FeedStep
<1>5. job'[j] \in JobRecord /\ NotBehind(shown.state, job'[j])
  <2>1. job'[j] \in JobRecord /\ NotBehind(job[j], job'[j])
    BY <1>2, <1>3, RecordReaches DEF Reaches
  <2> QED
    BY <1>2, <1>3, <2>1, BehindTransitive
<1>6. ASSUME NEW i \in DOMAIN sent'[j], ~Ends(sent'[j][i].kind),
             shown.sequence < sent'[j][i].envelope.sequence
      PROVE  NotBehind(shown.state, sent'[j][i].envelope.state)
  BY <1>2, <1>6 DEF FeedStep, ViewHeld
<1>7. ASSUME Holding(j)', ~Ends(publisher'[j].kind),
             Numbered(j)' => shown.sequence < publisher'[j].envelope.sequence
      PROVE  NotBehind(shown.state, publisher'[j].envelope.state)
  <2>1. CASE publisher'[j].envelope.state = job[j]
    BY <1>3, <2>1
  <2>2. CASE /\ Holding(j) /\ ~Ends(publisher[j].kind)
             /\ publisher'[j].envelope.state = publisher[j].envelope.state
             /\ Numbered(j) => /\ Numbered(j)'
                               /\ publisher'[j].envelope.sequence = publisher[j].envelope.sequence
    <3>1. Numbered(j) => shown.sequence < publisher[j].envelope.sequence
      BY <1>7, <2>2
    <3> QED
      BY <2>2, <3>1 DEF ViewHeld
  <2> QED
    BY <1>2, <1>7, <2>1, <2>2 DEF FeedStep
<1> QED
  BY <1>1, <1>3, <1>4, <1>5, <1>6, <1>7 DEF ViewHeld, StreamAt

(* A snapshot that was read stays one of the job. *)
LEMMA FeedKeepsRead ==
  ASSUME RunnerInvariant, RunnerInvariant', [Next]_vars, FeedStep, StreamTypes,
         UNCHANGED streamVars, NEW x \in Streams, NEW j \in Jobs, stream[x].job = j,
         StreamAt(x, "after"), ReadHeld(x), stream[x].read.state \in JobRecord
  PROVE  ReadHeld(x)'
<1> DEFINE read == stream[x].read
<1>1. stream' = stream
  BY DEF streamVars
<1>2. job[j] \in JobRecord /\ Reaches(read.state, job[j])
  BY DEF ReadHeld
<1>3. job'[j] \in JobRecord /\ Reaches(read.state, job'[j])
  BY <1>1, <1>2, RecordReaches, ReachesTransitive
<1>4. ASSUME publisher'[j].pc = "bump", ~Ends(publisher'[j].kind), is_active(read.state.status)
      PROVE  NotBehind(read.state, publisher'[j].envelope.state)
  <2>1. Holding(j)' /\ ~Numbered(j)'
    BY <1>4 DEF Holding, Numbered
  <2>2. CASE publisher'[j].envelope.state = job[j]
    BY <1>2, <2>2 DEF Reaches
  <2>3. CASE /\ Holding(j) /\ ~Ends(publisher[j].kind)
             /\ publisher'[j].envelope.state = publisher[j].envelope.state
             /\ Numbered(j) => Numbered(j)'
    <3>1. publisher[j].pc = "bump"
      BY <2>1, <2>3 DEF Holding, Numbered
    <3> QED
      BY <1>4, <2>3, <3>1 DEF ReadHeld
  <2> QED
    BY <1>1, <1>4, <2>1, <2>2, <2>3 DEF FeedStep
<1> QED
  BY <1>1, <1>3, <1>4 DEF ReadHeld

(* Whatever the runner module does, the streams stay held. *)
LEMMA FeedKeepsStreams ==
  ASSUME RunnerInvariant, RunnerInvariant', [Next]_vars, FeedStep, StreamInvariant,
         UNCHANGED streamVars
  PROVE  StreamInvariant'
<1>1. StreamTypes /\ stream' = stream /\ last' = last
  BY DEF StreamInvariant, streamVars
<1>2. StreamTypes'
  BY <1>1 DEF StreamTypes
<1>3. faults' = 0 => faults = 0
  BY DEF FeedStep
<1>4. ASSUME NEW x \in Streams
      PROVE  StreamHeld(x)'
  <2>1. StreamHeld(x)
    BY DEF StreamInvariant
  <2>2. (Open(x) /\ Delivered(x) => ViewHeld(x))'
    BY <1>1, <2>1, StreamFacts, FeedKeepsView DEF StreamHeld, Open, Delivered
  <2>3. (StreamAt(x, "after") => ReadHeld(x))'
    BY <1>1, <2>1, StreamFacts, FeedKeepsRead DEF StreamHeld, ReadIsValid, StreamAt
  <2>4. (/\ stream[x].pc \in {"after", "revision"} => ReadIsValid(x)
         /\ stream[x].pc \in {"idle", "stored", "revision"} => ~Delivered(x)
         /\ StreamAt(x, "live") => Delivered(x)
         /\ faults = 0 => ~StreamAt(x, "aborted"))'
    BY <1>1, <1>3, <2>1 DEF StreamHeld, ReadIsValid, Delivered, StreamAt
  <2> QED
    BY <2>2, <2>3, <2>4 DEF StreamHeld
<1> QED
  BY <1>2, <1>4 DEF StreamInvariant

-----------------------------------------------------------------------------
(* A stream reads the store and the activity of its job; a read may fail. *)
OnlyReads ==
  /\ UNCHANGED <<job, result, error, revision, telemetry, admission, permits, registry, token,
                 sequence, sent, submitter, runner, canceller, publisher, worker, updates,
                 reported, snapshot, outcome>>
  /\ faults' \in 0..MaxFaults
  /\ faults' = 0 => faults = 0

(* The steps of job_events are reads. *)
LEMMA ServeReads ==
  ASSUME EventTypes, NEW x \in Streams, Serve(x) \/ \E j \in Jobs : subscribe(x, j)
  PROVE  OnlyReads
<1>1. ASSUME UNCHANGED runnerVars
      PROVE  OnlyReads
  BY <1>1 DEF runnerVars, vars, OnlyReads, EventTypes
<1>2. CASE read_job(x) \/ read_revision(x)
  <2>1. \E fails \in BOOLEAN : MayFail(fails)
    BY <1>2 DEF read_job, read_revision
  <2>2. faults' \in 0..MaxFaults /\ (faults' = 0 => faults = 0)
    BY <2>1, LoggedFaults DEF EventTypes
  <2> QED
    BY <1>2, <2>2 DEF read_job, read_revision, OnlyReads
<1> QED
  BY <1>1, <1>2 DEF Serve, read_before, read_after, receive, lagged, channel_closed, subscribe

(* The runner and its publications are as they were. *)
LEMMA ReadsKeepRunner ==
  ASSUME RunnerInvariant, EventInvariant, PublicationInvariant, OnlyReads
  PROVE  RunnerInvariant' /\ EventInvariant' /\ PublicationInvariant'
<1>1. RunnerInvariant'
  BY Frame DEF OnlyReads
<1>2. EventInvariant'
  BY EventFrame DEF OnlyReads, eventVars
<1>3. PublicationInvariant'
  BY DEF OnlyReads, PublicationInvariant, OwnPublisher, EnvelopesReached, HeldIsRecord,
         ProgressOrdered, Busy, Holding, Numbered, Shows
<1> QED
  BY <1>1, <1>2, <1>3

(* One stream moves, the others are left alone. *)
LEMMA OneStream ==
  ASSUME StreamInvariant, OnlyReads, NEW x \in Streams, StreamTypes', StreamHeld(x)',
         \A y \in Streams : y # x => stream'[y] = stream[y] /\ last'[y] = last[y]
  PROVE  StreamInvariant'
<1> SUFFICES ASSUME NEW y \in Streams, y # x
             PROVE  StreamHeld(y)'
  BY DEF StreamInvariant
<1>1. StreamHeld(y) /\ stream'[y] = stream[y] /\ last'[y] = last[y]
  BY DEF StreamInvariant
<1>2. ViewHeld(y) => ViewHeld(y)'
  BY <1>1 DEF OnlyReads, ViewHeld, StreamAt, Holding, Numbered
<1>3. ReadHeld(y) => ReadHeld(y)'
  BY <1>1 DEF OnlyReads, ReadHeld
<1>4. ReadIsValid(y) => ReadIsValid(y)'
  BY <1>1 DEF OnlyReads, ReadIsValid
<1> QED
  BY <1>1, <1>2, <1>3, <1>4 DEF OnlyReads, StreamHeld, StreamAt, Open, Delivered

(* A view that is not replaced stays held, unless it is compared with a    *)
(* snapshot just read.                                                     *)
LEMMA SameView ==
  ASSUME OnlyReads, NEW x \in Streams, ViewHeld(x), last'[x] = last[x],
         stream'[x].job = stream[x].job, stream'[x].cursor = stream[x].cursor,
         stream'[x].pc = "after" =>
           NotBehind(last[x].envelope.state, stream'[x].read.state)
  PROVE  ViewHeld(x)'
BY DEF OnlyReads, ViewHeld, StreamAt, Holding, Numbered

(* An event is yielded and remembered, or the assertion ends the stream. *)
LEMMA YieldEffect ==
  ASSUME StreamTypes, NEW x \in Streams, stream[x] \in StreamRecord,
         NEW kind \in EventKinds \cup {"snapshot"}, NEW e \in Envelope,
         NEW following \in {"live", "closed"}, Yield(x, kind, e, following)
  PROVE  /\ StreamTypes'
         /\ \A y \in Streams : y # x => stream'[y] = stream[y] /\ last'[y] = last[y]
         /\ stream'[x].job = stream[x].job /\ stream'[x].cursor = e.sequence
         /\ IF is_valid_for_event(kind, e)
            THEN /\ stream'[x].pc = following /\ last'[x].kind = kind
                 /\ last'[x].envelope = e
            ELSE stream'[x].pc = "aborted" /\ last'[x] = last[x]
<1> DEFINE valid == is_valid_for_event(kind, e)
           pc == IF valid THEN following ELSE "aborted"
           r == stream[x]
           next == IF kind = "snapshot" THEN r.next ELSE r.next + 1
           new == [r EXCEPT !.pc = pc, !.next = next, !.cursor = e.sequence]
           event == IF valid THEN [kind |-> kind, envelope |-> e] ELSE last[x]
<1>1. stream' = [stream EXCEPT ![x] = new]
  BY DEF Yield
<1>2. last' = [last EXCEPT ![x] = event]
  BY DEF Yield
<1>3. pc \in {"live", "closed", "aborted"} /\ next \in Nat \ {0} /\ e.sequence \in Nat
  BY DEF StreamRecord, Envelope
<1> HIDE DEF valid
<1>4. /\ new \in StreamRecord /\ new.pc = pc /\ new.job = r.job /\ new.cursor = e.sequence
  <2> HIDE DEF pc, next
  <2> QED
    BY <1>3 DEF StreamRecord
<1> HIDE DEF new
<1>5. stream'[x] = new /\ last'[x] = event
  BY <1>1, <1>2 DEF StreamTypes
<1>6. \A y \in Streams : y # x => stream'[y] = stream[y] /\ last'[y] = last[y]
  BY <1>1, <1>2 DEF StreamTypes
<1>7. StreamTypes'
  BY <1>1, <1>2, <1>4 DEF StreamTypes
<1> QED
  BY <1>4, <1>5, <1>6, <1>7 DEF valid

(* What a stream reads of its job is a record with its payload. *)
LEMMA StoredTypes ==
  ASSUME CoreTypes, NEW j \in Jobs
  PROVE  Stored(j, 0) \in [sequence : Nat, state : JobRecord \cup {NoState},
                           result : {"none", "plain", "full"}, error : BOOLEAN]
BY DEF CoreTypes, Stored

(* A new stream has shown nothing. *)
LEMMA subscribe_Step ==
  ASSUME CoreTypes, EventTypes, StreamInvariant, OnlyReads, NEW x \in Streams, NEW j \in Jobs,
         subscribe(x, j)
  PROVE  StreamInvariant'
<1> DEFINE new == [pc     |-> IF j \in registry THEN "before" ELSE "stored",
                   job    |-> j,
                   live   |-> j \in registry,
                   next   |-> Len(sent[j]) + 1,
                   before |-> 0,
                   read   |-> Stored(j, 0),
                   cursor |-> 0]
<1>1. StreamTypes /\ StreamHeld(x)
  BY DEF StreamInvariant
<1>2. stream' = [stream EXCEPT ![x] = new] /\ last' = last /\ StreamAt(x, "idle")
  BY DEF subscribe
<1>3. Len(sent[j]) + 1 \in Nat \ {0}
  BY DEF EventTypes
<1>4. new \in StreamRecord
  BY <1>3, StoredTypes DEF StreamRecord
<1>5. new.pc \in {"before", "stored"}
  OBVIOUS
<1> HIDE DEF new
<1>6. StreamTypes'
  BY <1>1, <1>2, <1>4 DEF StreamTypes
<1>7. stream'[x] = new /\ \A y \in Streams : y # x => stream'[y] = stream[y]
  BY <1>1, <1>2 DEF StreamTypes
<1>8. ~Delivered(x)'
  BY <1>1, <1>2 DEF StreamHeld, StreamAt, Delivered
<1>9. StreamHeld(x)'
  BY <1>5, <1>7, <1>8 DEF StreamHeld, StreamAt
<1> QED
  BY <1>2, <1>6, <1>7, <1>9, OneStream

(* The number read before the job changes no view. *)
LEMMA read_before_Step ==
  ASSUME EventTypes, StreamInvariant, OnlyReads, NEW x \in Streams, read_before(x)
  PROVE  StreamInvariant'
<1>1. StreamTypes /\ StreamHeld(x)
  BY DEF StreamInvariant
<1>2. stream[x].pc = "before" /\ stream[x] \in StreamRecord /\ stream[x].job \in Jobs
  BY <1>1, StreamFacts DEF read_before, StreamAt
<1> DEFINE n == sequence[stream[x].job]
           new == [stream[x] EXCEPT !.pc = "read", !.before = n]
<1>3. stream' = [stream EXCEPT ![x] = new] /\ last' = last
  BY DEF read_before
<1>4. n \in Nat
  BY <1>2 DEF EventTypes
<1> HIDE DEF n
<1>5. /\ new \in StreamRecord /\ new.pc = "read" /\ new.job = stream[x].job
      /\ new.cursor = stream[x].cursor
  BY <1>2, <1>4 DEF StreamRecord
<1> HIDE DEF new
<1>6. StreamTypes'
  BY <1>1, <1>3, <1>5 DEF StreamTypes
<1>7. stream'[x] = new /\ \A y \in Streams : y # x => stream'[y] = stream[y]
  BY <1>1, <1>3 DEF StreamTypes
<1>8. Delivered(x) => ViewHeld(x)'
  BY <1>1, <1>2, <1>3, <1>5, <1>7, SameView DEF StreamHeld, Open
<1>9. StreamHeld(x)'
  BY <1>3, <1>5, <1>7, <1>8 DEF StreamHeld, StreamAt, Delivered
<1> QED
  BY <1>3, <1>6, <1>7, <1>9, OneStream

(* The record that is read is the job's, with its payload. *)
LEMMA read_job_Step ==
  ASSUME RunnerInvariant, EventInvariant, PublicationInvariant, StreamInvariant, OnlyReads,
         NEW x \in Streams, read_job(x)
  PROVE  StreamInvariant'
<1>0. CoreTypes /\ EventTypes /\ PayloadsMatch /\ HeldIsRecord /\ OwnPublisher
  BY DEF RunnerInvariant, EventInvariant, PublicationInvariant
<1>1. StreamTypes /\ StreamHeld(x)
  BY DEF StreamInvariant
<1>2. /\ stream[x].pc \in {"read", "stored"} /\ stream[x] \in StreamRecord
      /\ stream[x].job \in Jobs
  BY <1>1, StreamFacts DEF read_job
<1> DEFINE following == IF stream[x].pc = "read" THEN "after" ELSE "revision"
<1>3. PICK j \in Jobs : j = stream[x].job
  BY <1>2
<1>4. PICK pc : /\ pc \in {"refused", following}
                /\ pc # "refused" => job[j] # NoState
                /\ stream' = [stream EXCEPT ![x] = [stream[x] EXCEPT !.pc = pc,
                                                                     !.read = Stored(j, 0)]]
  <2>1. PICK fails \in BOOLEAN :
          stream' = [stream EXCEPT
            ![x].pc = IF fails \/ job[j] = NoState THEN "refused" ELSE following,
            ![x].read = Stored(j, 0)]
    BY <1>3 DEF read_job
  <2> DEFINE new_pc == IF fails \/ job[j] = NoState THEN "refused" ELSE following
  <2>2. new_pc \in {"refused", following} /\ (new_pc # "refused" => job[j] # NoState)
    OBVIOUS
  <2>3. stream' = [stream EXCEPT ![x] = [stream[x] EXCEPT !.pc = new_pc, !.read = Stored(j, 0)]]
    BY <2>1
  <2> HIDE DEF new_pc, following
  <2> QED
    BY <2>2, <2>3
<1> DEFINE new == [stream[x] EXCEPT !.pc = pc, !.read = Stored(j, 0)]
<1>5. last' = last
  BY DEF read_job
<1>6. /\ new \in StreamRecord /\ new.pc = pc /\ new.job = j /\ new.read = Stored(j, 0)
      /\ new.cursor = stream[x].cursor
  <2>1. pc \in {"refused", "after", "revision"}
    BY <1>4
  <2> QED
    BY <1>0, <1>2, <1>3, <2>1, StoredTypes DEF StreamRecord
<1> HIDE DEF new
<1>7. StreamTypes'
  BY <1>1, <1>4, <1>5, <1>6 DEF StreamTypes, new
<1>8. stream'[x] = new /\ \A y \in Streams : y # x => stream'[y] = stream[y]
  BY <1>1, <1>4 DEF StreamTypes, new
<1>9. job' = job /\ publisher' = publisher /\ Stored(j, 0).state = job[j]
  BY DEF OnlyReads, Stored
<1>10. pc # "refused" => job[j] \in JobRecord
  BY <1>0, <1>4 DEF CoreTypes
<1>11. pc # "refused" => ReadIsValid(x)'
  <2>1. faults = 0 => PayloadIsValid(Stored(j, 0))
    BY <1>0 DEF PayloadsMatch, PayloadIsValid, Stored
  <2> QED
    BY <1>6, <1>8, <1>9, <1>10, <2>1 DEF ReadIsValid, OnlyReads
<1>12. pc = "after" => ReadHeld(x)'
  <2> SUFFICES ASSUME pc = "after"
               PROVE  ReadHeld(x)'
    OBVIOUS
  <2>1. job[j] \in JobRecord /\ Reaches(job[j], job[j]) /\ NotBehind(job[j], job[j])
    BY <1>10, ReachesItself
  <2>2. ASSUME publisher[j].pc = "bump", ~Ends(publisher[j].kind), is_active(job[j].status)
        PROVE  NotBehind(job[j], publisher[j].envelope.state)
    <3>1. job[j] = publisher[j].envelope.state
      BY <1>0, <2>2 DEF HeldIsRecord, Holding
    <3> QED
      BY <2>1, <3>1
  <2> QED
    BY <1>6, <1>8, <1>9, <2>1, <2>2 DEF ReadHeld
<1>13. pc = "after" /\ Delivered(x) => ViewHeld(x)'
  <2> SUFFICES ASSUME pc = "after", Delivered(x)
               PROVE  ViewHeld(x)'
    OBVIOUS
  <2>1. ViewHeld(x)
    BY <1>1, <1>2, <1>4 DEF StreamHeld, Open
  <2>2. NotBehind(last[x].envelope.state, job[j])
    BY <1>3, <2>1 DEF ViewHeld
  <2> QED
    BY <1>3, <1>5, <1>6, <1>8, <1>9, <2>1, <2>2, SameView
<1>14. pc = "revision" => ~Delivered(x)
  BY <1>1, <1>2, <1>4 DEF StreamHeld
<1>15. StreamHeld(x)'
  BY <1>4, <1>5, <1>6, <1>8, <1>11, <1>12, <1>13, <1>14 DEF StreamHeld, StreamAt, Delivered, Open
<1> QED
  BY <1>5, <1>7, <1>8, <1>15, OneStream

(* The snapshot is delivered if no event was numbered while it was read:   *)
(* every number above its own belongs to a publication that has not been   *)
(* numbered yet.                                                           *)
LEMMA SnapshotView ==
  ASSUME EventTypes, PublicationInvariant, OnlyReads, NEW x \in Streams, NEW j \in Jobs,
         stream[x].job = j, ReadHeld(x), is_active(stream[x].read.state.status),
         stream'[x].job = j, stream'[x].pc = "live", stream'[x].cursor = sequence[j],
         last'[x].envelope.sequence = sequence[j],
         last'[x].envelope.state = stream[x].read.state
  PROVE  ViewHeld(x)'
<1> USE DEF PublicationInvariant
<1> DEFINE read == stream[x].read
<1>1. sent' = sent /\ sequence' = sequence /\ job' = job /\ publisher' = publisher
  BY DEF OnlyReads
<1>2. sequence[j] \in Nat /\ sequence[j] <= sequence[j]
  BY DEF EventTypes
<1>3. job[j] \in JobRecord /\ NotBehind(read.state, job[j])
  BY DEF ReadHeld, Reaches
<1>4. \A i \in DOMAIN sent[j] : ~(sequence[j] < sent[j][i].envelope.sequence)
  BY <1>2, SentTypes DEF EnvelopesReached
<1>5. ASSUME Holding(j), ~Ends(publisher[j].kind),
             Numbered(j) => sequence[j] < publisher[j].envelope.sequence
      PROVE  NotBehind(read.state, publisher[j].envelope.state)
  <2>1. j \in Publishers
    BY DEF Publishers
  <2>2. publisher[j].job = j /\ publisher[j].envelope.sequence \in Nat
    BY <1>5, <2>1, HeldTypes DEF OwnPublisher
  <2>3. Numbered(j) => publisher[j].envelope.sequence <= sequence[j]
    BY <1>5, <2>1, <2>2 DEF EnvelopesReached
  <2>4. ~Numbered(j)
    BY <1>2, <1>5, <2>2, <2>3
  <2>5. publisher[j].pc = "bump"
    BY <1>5, <2>4 DEF Holding, Numbered
  <2> QED
    BY <1>5, <2>5 DEF ReadHeld
<1> QED
  BY <1>1, <1>2, <1>3, <1>4, <1>5 DEF ViewHeld, StreamAt, Holding, Numbered

(* The snapshot is delivered, or read again if the number has moved. *)
LEMMA read_after_Step ==
  ASSUME RunnerInvariant, EventInvariant, PublicationInvariant, StreamInvariant, OnlyReads,
         NEW x \in Streams, read_after(x)
  PROVE  StreamInvariant'
<1>0. EventTypes
  BY DEF EventInvariant
<1>1. StreamTypes /\ StreamHeld(x)
  BY DEF StreamInvariant
<1>2. /\ stream[x].pc = "after" /\ stream[x] \in StreamRecord /\ stream[x].job \in Jobs
      /\ StreamAt(x, "after")
  BY <1>1, StreamFacts DEF read_after, StreamAt
<1>3. PICK j \in Jobs : j = stream[x].job
  BY <1>2
<1> DEFINE read == stream[x].read
           n == sequence[j]
           e == [read EXCEPT !.sequence = n]
           following == IF is_active(read.state.status) THEN "live" ELSE "closed"
<1>4. ReadHeld(x) /\ ReadIsValid(x)
  BY <1>1, <1>2 DEF StreamHeld, StreamAt
<1>5. CASE n = stream[x].before /\ Yield(x, "snapshot", e, following)
  <2>1. n \in Nat /\ read.state \in JobRecord
    BY <1>0, <1>4 DEF EventTypes, ReadIsValid
  <2>2. read \in [sequence : Nat, state : JobRecord \cup {NoState},
                  result : {"none", "plain", "full"}, error : BOOLEAN]
    BY <1>2 DEF StreamRecord
  <2>3. /\ e \in Envelope /\ e.state = read.state /\ e.sequence = n
        /\ e.result = read.result /\ e.error = read.error
    BY <2>1, <2>2 DEF Envelope
  <2>4. faults = 0 => is_valid_for_event("snapshot", e)
    BY <1>4, <2>3 DEF ReadIsValid, PayloadIsValid, is_valid_for_event
  <2>5. following \in {"live", "closed"} /\ (following = "live" => is_active(read.state.status))
    OBVIOUS
  <2> HIDE DEF e, n, following
  <2>6. /\ StreamTypes'
        /\ \A y \in Streams : y # x => stream'[y] = stream[y] /\ last'[y] = last[y]
        /\ stream'[x].job = stream[x].job /\ stream'[x].cursor = e.sequence
        /\ IF is_valid_for_event("snapshot", e)
           THEN /\ stream'[x].pc = following /\ last'[x].kind = "snapshot"
                /\ last'[x].envelope = e
           ELSE stream'[x].pc = "aborted" /\ last'[x] = last[x]
    BY <1>1, <1>2, <1>5, <2>3, <2>5, YieldEffect
  <2>7. faults' = 0 => faults = 0
    BY DEF OnlyReads
  <2>8. CASE is_valid_for_event("snapshot", e)
    <3>1. stream'[x].pc = "live" => ViewHeld(x)'
      BY <1>0, <1>3, <1>4, <2>3, <2>5, <2>6, <2>8, SnapshotView DEF n
    <3>2. Delivered(x)'
      BY <2>6, <2>8 DEF Delivered, NoEvent
    <3>3. StreamHeld(x)'
      BY <2>5, <2>6, <2>8, <3>1, <3>2 DEF StreamHeld, StreamAt, Open
    <3> QED
      BY <2>6, <3>3, OneStream
  <2>9. CASE ~is_valid_for_event("snapshot", e)
    <3>1. StreamHeld(x)'
      BY <2>4, <2>6, <2>7, <2>9 DEF StreamHeld, StreamAt, Open
    <3> QED
      BY <2>6, <3>1, OneStream
  <2> QED
    BY <2>8, <2>9
<1>6. CASE stream' = [stream EXCEPT ![x].pc = "before"] /\ last' = last
  <2> DEFINE new == [stream[x] EXCEPT !.pc = "before"]
  <2>1. stream' = [stream EXCEPT ![x] = new]
    BY <1>6
  <2>2. /\ new \in StreamRecord /\ new.pc = "before" /\ new.job = stream[x].job
        /\ new.cursor = stream[x].cursor
    BY <1>2 DEF StreamRecord
  <2> HIDE DEF new
  <2>3. StreamTypes'
    BY <1>1, <1>6, <2>1, <2>2 DEF StreamTypes
  <2>4. stream'[x] = new /\ \A y \in Streams : y # x => stream'[y] = stream[y]
    BY <1>1, <2>1 DEF StreamTypes
  <2>5. Delivered(x) => ViewHeld(x)'
    BY <1>1, <1>2, <1>6, <2>2, <2>4, SameView DEF StreamHeld, Open
  <2>6. StreamHeld(x)'
    BY <1>6, <2>2, <2>4, <2>5 DEF StreamHeld, StreamAt, Delivered
  <2> QED
    BY <1>6, <2>3, <2>4, <2>6, OneStream
<1> QED
  BY <1>3, <1>5, <1>6 DEF read_after

(* Without a subscription one snapshot is delivered and the stream ends. *)
LEMMA read_revision_Step ==
  ASSUME EventInvariant, StreamInvariant, OnlyReads, NEW x \in Streams, read_revision(x)
  PROVE  StreamInvariant'
<1>0. EventTypes
  BY DEF EventInvariant
<1>1. StreamTypes /\ StreamHeld(x)
  BY DEF StreamInvariant
<1>2. stream[x].pc = "revision" /\ stream[x] \in StreamRecord /\ stream[x].job \in Jobs
  BY <1>1, StreamFacts DEF read_revision, StreamAt
<1> DEFINE read == stream[x].read
           n == revision[stream[x].job]
           e == [read EXCEPT !.sequence = n]
<1>3. CASE stream' = [stream EXCEPT ![x].pc = "refused"] /\ last' = last
  <2> DEFINE new == [stream[x] EXCEPT !.pc = "refused"]
  <2>1. stream' = [stream EXCEPT ![x] = new]
    BY <1>3
  <2>2. new \in StreamRecord /\ new.pc = "refused"
    BY <1>2 DEF StreamRecord
  <2> HIDE DEF new
  <2>3. StreamTypes'
    BY <1>1, <1>3, <2>1, <2>2 DEF StreamTypes
  <2>4. stream'[x] = new /\ \A y \in Streams : y # x => stream'[y] = stream[y]
    BY <1>1, <2>1 DEF StreamTypes
  <2>5. StreamHeld(x)'
    BY <2>2, <2>4 DEF StreamHeld, StreamAt, Open
  <2> QED
    BY <1>3, <2>3, <2>4, <2>5, OneStream
<1>4. CASE Yield(x, "snapshot", e, "closed")
  <2>1. ReadIsValid(x)
    BY <1>1, <1>2 DEF StreamHeld
  <2>2. n \in Nat /\ read.state \in JobRecord
    BY <1>0, <1>2, <2>1 DEF EventTypes, ReadIsValid
  <2>3. read \in [sequence : Nat, state : JobRecord \cup {NoState},
                  result : {"none", "plain", "full"}, error : BOOLEAN]
    BY <1>2 DEF StreamRecord
  <2>4. /\ e \in Envelope /\ e.state = read.state /\ e.result = read.result
        /\ e.error = read.error
    BY <2>2, <2>3 DEF Envelope
  <2>5. faults = 0 => is_valid_for_event("snapshot", e)
    BY <2>1, <2>4 DEF ReadIsValid, PayloadIsValid, is_valid_for_event
  <2> HIDE DEF e, n
  <2>6. /\ StreamTypes'
        /\ \A y \in Streams : y # x => stream'[y] = stream[y] /\ last'[y] = last[y]
        /\ IF is_valid_for_event("snapshot", e)
           THEN stream'[x].pc = "closed"
           ELSE stream'[x].pc = "aborted"
    BY <1>1, <1>2, <1>4, <2>4, YieldEffect
  <2>7. faults' = 0 => faults = 0
    BY DEF OnlyReads
  <2>8. StreamHeld(x)'
    BY <2>5, <2>6, <2>7 DEF StreamHeld, StreamAt, Open
  <2> QED
    BY <2>6, <2>8, OneStream
<1> QED
  BY <1>3, <1>4 DEF read_revision

(* The event a live stream takes from the channel. *)
LEMMA ReceivedEvent ==
  ASSUME EventTypes, StreamTypes, NEW x \in Streams, NEW j \in Jobs, stream[x].job = j,
         stream[x] \in StreamRecord, 0 < Unread(x)
  PROVE  stream[x].next \in DOMAIN sent[j]
<1>1. sent[j] \in Seq(Event) /\ Len(sent[j]) \in Nat
  BY DEF EventTypes
<1>2. stream[x].next \in Nat \ {0}
  BY DEF StreamRecord
<1>3. stream[x].next \in 1..Len(sent[j])
  BY <1>1, <1>2 DEF Unread
<1> QED
  BY <1>1, <1>3

(* Progress taken from the channel is followed by later progress only. *)
LEMMA ProgressView ==
  ASSUME EventTypes, PublicationInvariant, OnlyReads, NEW x \in Streams, NEW j \in Jobs,
         NEW i \in DOMAIN sent[j], ~Ends(sent[j][i].kind),
         stream'[x].job = j, stream'[x].pc = "live",
         stream'[x].cursor = sent[j][i].envelope.sequence,
         last'[x].envelope = sent[j][i].envelope
  PROVE  ViewHeld(x)'
<1> USE DEF PublicationInvariant
<1> DEFINE e == sent[j][i].envelope
<1>1. sent' = sent /\ sequence' = sequence /\ job' = job /\ publisher' = publisher
  BY DEF OnlyReads
<1>2. e.sequence <= sequence[j] /\ Shows(sent[j][i].kind, e, j)
  BY DEF EnvelopesReached
<1>3. is_active(e.state.status) /\ job[j] \in JobRecord /\ NotBehind(e.state, job[j])
  BY <1>2 DEF Shows, Reaches
<1>4. ASSUME NEW k \in DOMAIN sent[j], ~Ends(sent[j][k].kind),
             e.sequence < sent[j][k].envelope.sequence
      PROVE  NotBehind(e.state, sent[j][k].envelope.state)
  BY <1>4 DEF ProgressOrdered
<1>5. Holding(j) /\ ~Ends(publisher[j].kind) => NotBehind(e.state, publisher[j].envelope.state)
  BY DEF ProgressOrdered
<1> QED
  BY <1>1, <1>2, <1>3, <1>4, <1>5 DEF ViewHeld, StreamAt, Holding, Numbered

(* A live stream skips what its snapshot covers and delivers the rest. *)
LEMMA receive_Step ==
  ASSUME RunnerInvariant, EventInvariant, PublicationInvariant, StreamInvariant, OnlyReads,
         NEW x \in Streams, receive(x)
  PROVE  StreamInvariant'
<1>0. EventTypes /\ EnvelopesValid
  BY DEF EventInvariant
<1>1. StreamTypes /\ StreamHeld(x)
  BY DEF StreamInvariant
<1>2. stream[x].pc = "live" /\ stream[x] \in StreamRecord /\ stream[x].job \in Jobs
  BY <1>1, StreamFacts DEF receive, StreamAt
<1>3. PICK j \in Jobs : j = stream[x].job
  BY <1>2
<1>4. PICK i \in DOMAIN sent[j] : i = stream[x].next
  BY <1>0, <1>1, <1>2, <1>3, ReceivedEvent DEF receive
<1> DEFINE event == sent[j][i]
           following == IF event.kind = "progress" THEN "live" ELSE "closed"
<1>5. CASE Yield(x, event.kind, event.envelope, following)
  <2>1. event.kind \in EventKinds /\ event.envelope \in Envelope
    BY <1>0, SentTypes
  <2>2. faults = 0 => is_valid_for_event(event.kind, event.envelope)
    BY <1>0 DEF EnvelopesValid
  <2>3. following \in {"live", "closed"} /\ (following = "live" => ~Ends(event.kind))
    BY DEF Ends
  <2> HIDE DEF event, following
  <2>4. /\ StreamTypes'
        /\ \A y \in Streams : y # x => stream'[y] = stream[y] /\ last'[y] = last[y]
        /\ stream'[x].job = stream[x].job /\ stream'[x].cursor = event.envelope.sequence
        /\ IF is_valid_for_event(event.kind, event.envelope)
           THEN /\ stream'[x].pc = following /\ last'[x].kind = event.kind
                /\ last'[x].envelope = event.envelope
           ELSE stream'[x].pc = "aborted" /\ last'[x] = last[x]
    BY <1>1, <1>2, <1>5, <2>1, <2>3, YieldEffect
  <2>5. faults' = 0 => faults = 0
    BY DEF OnlyReads
  <2>6. CASE is_valid_for_event(event.kind, event.envelope)
    <3>1. stream'[x].pc = "live" => ViewHeld(x)'
      BY <1>0, <1>3, <2>3, <2>4, <2>6, ProgressView DEF event
    <3>2. Delivered(x)'
      BY <2>1, <2>4, <2>6 DEF Delivered, NoEvent, EventKinds
    <3>3. StreamHeld(x)'
      BY <2>3, <2>4, <2>6, <3>1, <3>2 DEF StreamHeld, StreamAt, Open
    <3> QED
      BY <2>4, <3>3, OneStream
  <2>7. CASE ~is_valid_for_event(event.kind, event.envelope)
    <3>1. StreamHeld(x)'
      BY <2>2, <2>4, <2>5, <2>7 DEF StreamHeld, StreamAt, Open
    <3> QED
      BY <2>4, <3>1, OneStream
  <2> QED
    BY <2>6, <2>7
<1>6. CASE stream' = [stream EXCEPT ![x].next = stream[x].next + 1] /\ last' = last
  <2> DEFINE new == [stream[x] EXCEPT !.next = stream[x].next + 1]
  <2>1. stream' = [stream EXCEPT ![x] = new]
    BY <1>6
  <2>2. /\ new \in StreamRecord /\ new.pc = "live" /\ new.job = stream[x].job
        /\ new.cursor = stream[x].cursor
    BY <1>2 DEF StreamRecord
  <2> HIDE DEF new
  <2>3. StreamTypes'
    BY <1>1, <1>6, <2>1, <2>2 DEF StreamTypes
  <2>4. stream'[x] = new /\ \A y \in Streams : y # x => stream'[y] = stream[y]
    BY <1>1, <2>1 DEF StreamTypes
  <2>5. Delivered(x) /\ ViewHeld(x)'
    BY <1>1, <1>2, <1>6, <2>2, <2>4, SameView DEF StreamHeld, StreamAt, Open
  <2>6. StreamHeld(x)'
    BY <1>6, <2>2, <2>4, <2>5 DEF StreamHeld, StreamAt, Delivered
  <2> QED
    BY <1>6, <2>3, <2>4, <2>6, OneStream
<1> QED
  BY <1>3, <1>4, <1>5, <1>6 DEF receive

(* A lagging stream goes on at the oldest event the channel retains, and a *)
(* stream of a closed channel ends.                                        *)
LEMMA lagged_Step ==
  ASSUME EventTypes, StreamInvariant, OnlyReads, NEW x \in Streams,
         lagged(x) \/ channel_closed(x)
  PROVE  StreamInvariant'
<1>1. StreamTypes /\ StreamHeld(x)
  BY DEF StreamInvariant
<1>2. stream[x].pc = "live" /\ stream[x] \in StreamRecord /\ stream[x].job \in Jobs
  BY <1>1, StreamFacts DEF lagged, channel_closed, StreamAt
<1>3. last' = last
  BY DEF lagged, channel_closed
<1>4. PICK pc \in {"before", "closed"}, n \in Nat \ {0} :
        stream' = [stream EXCEPT ![x] = [stream[x] EXCEPT !.pc = pc, !.next = n]]
  <2>1. Len(sent[stream[x].job]) \in Nat /\ stream[x].next \in Nat \ {0}
    BY <1>2 DEF EventTypes, StreamRecord
  <2>2. CASE lagged(x)
    <3> DEFINE n == Len(sent[stream[x].job]) + 1 - Capacity
    <3>1. Len(sent[stream[x].job]) + 1 - stream[x].next > Capacity
      BY <2>2 DEF lagged, Unread
    <3>2. n \in Nat \ {0}
      <4>1. ASSUME NEW l \in Nat, NEW k \in Nat \ {0}, l + 1 - k > Capacity
            PROVE  l + 1 - Capacity \in Nat \ {0}
        BY <4>1, CapacityAssumption
      <4> QED
        BY <2>1, <3>1, <4>1
    <3>3. stream' = [stream EXCEPT ![x] = [stream[x] EXCEPT !.pc = "before", !.next = n]]
      BY <2>2 DEF lagged
    <3> QED
      BY <3>2, <3>3
  <2>3. CASE channel_closed(x)
    <3> DEFINE n == stream[x].next
    <3>1. [stream[x] EXCEPT !.pc = "closed"] = [stream[x] EXCEPT !.pc = "closed", !.next = n]
      BY <1>2 DEF StreamRecord
    <3>2. stream' = [stream EXCEPT ![x] = [stream[x] EXCEPT !.pc = "closed"]]
      BY <2>3 DEF channel_closed
    <3> QED
      BY <2>1, <3>1, <3>2
  <2> QED
    BY <2>2, <2>3
<1> DEFINE new == [stream[x] EXCEPT !.pc = pc, !.next = n]
<1>5. /\ new \in StreamRecord /\ new.pc = pc /\ new.job = stream[x].job
      /\ new.cursor = stream[x].cursor
  BY <1>2, <1>4 DEF StreamRecord
<1> HIDE DEF new
<1>6. StreamTypes'
  BY <1>1, <1>3, <1>4, <1>5 DEF StreamTypes, new
<1>7. stream'[x] = new /\ \A y \in Streams : y # x => stream'[y] = stream[y]
  BY <1>1, <1>4 DEF StreamTypes, new
<1>8. Delivered(x) /\ ViewHeld(x)'
  BY <1>1, <1>2, <1>3, <1>5, <1>7, SameView DEF StreamHeld, StreamAt, Open
<1>9. StreamHeld(x)'
  BY <1>3, <1>5, <1>7, <1>8 DEF StreamHeld, StreamAt, Delivered
<1> QED
  BY <1>3, <1>6, <1>7, <1>9, OneStream

-----------------------------------------------------------------------------
EventsInvariant ==
  RunnerInvariant /\ EventInvariant /\ PublicationInvariant /\ StreamInvariant

(* Before the first request there is nothing to agree on. *)
LEMMA InitStreams == EventsInit => EventsInvariant
<1> SUFFICES ASSUME EventsInit
             PROVE  EventsInvariant
  OBVIOUS
<1>1. RunnerInvariant /\ EventInvariant
  BY InitInvariant, InitEvents DEF EventsInit
<1>2. PublicationInvariant
  BY DEF EventsInit, Init, PublicationInvariant, OwnPublisher, EnvelopesReached, HeldIsRecord,
         ProgressOrdered, Holding, Busy, IdlePublisher, Publishers
<1>3. StreamInvariant
  BY DEF EventsInit, StreamInvariant, StreamTypes, StreamHeld, StreamAt, Open, Delivered, NoStream
<1> QED
  BY <1>1, <1>2, <1>3 DEF EventsInvariant

(* The invariant is kept by every step of the runner and of the streams. *)
LEMMA NextStreams == EventsInvariant /\ [EventsNext]_eventsVars => EventsInvariant'
<1> SUFFICES ASSUME EventsInvariant, [EventsNext]_eventsVars
             PROVE  EventsInvariant'
  OBVIOUS
<1> USE DEF EventsInvariant
<1>1. CoreTypes /\ EventTypes
  BY DEF RunnerInvariant, EventInvariant
<1>2. ASSUME [Next]_vars, UNCHANGED streamVars
      PROVE  EventsInvariant'
  <2>1. RunnerInvariant'
    BY <1>2, NextInvariant
  <2>2. EventInvariant'
    BY <1>2, <2>1, NextEvents
  <2>3. PublicationInvariant'
    BY <1>2, <2>1, NextPublications
  <2>4. StreamInvariant'
    BY <1>2, <2>1, NextFeeds, FeedKeepsStreams
  <2> QED
    BY <2>1, <2>2, <2>3, <2>4
<1>3. ASSUME NEW x \in Streams, Serve(x) \/ \E j \in Jobs : subscribe(x, j)
      PROVE  EventsInvariant'
  <2>1. OnlyReads
    BY <1>1, <1>3, ServeReads
  <2>2. RunnerInvariant' /\ EventInvariant' /\ PublicationInvariant'
    BY <2>1, ReadsKeepRunner
  <2>3. StreamInvariant'
    BY <1>1, <1>3, <2>1, subscribe_Step, read_before_Step, read_job_Step, read_after_Step,
       read_revision_Step, receive_Step, lagged_Step DEF Serve
  <2> QED
    BY <2>2, <2>3
<1>4. CASE UNCHANGED eventsVars
  BY <1>2, <1>4 DEF eventsVars, streamVars, vars
<1> QED
  BY <1>2, <1>3, <1>4 DEF EventsNext

(* What a stream has shown is never ahead of what it may still show:       *)
(* records, publications on their way, the channel and the streams agree   *)
(* at every moment (job_events, publish_persisted).                        *)
THEOREM StreamsAreFed == EventsSpec => []EventsInvariant
BY InitStreams, NextStreams, PTL DEF EventsSpec

(* What is delivered next is later than what was delivered last. *)
LEMMA DeliveredForward ==
  ASSUME EventsInvariant, NEW x \in Streams, Serve(x), Delivered(x), last'[x] # last[x]
  PROVE  LET old == last[x].envelope
             new == last'[x].envelope
         IN /\ is_active(old.state.status) /\ NotBehind(old.state, new.state)
            /\ \/ old.sequence < new.sequence
               \/ last'[x].kind = "snapshot" /\ old.sequence = new.sequence
<1> USE DEF EventsInvariant
<1>0. EventTypes /\ StreamTypes /\ StreamHeld(x) /\ EnvelopesReached
  BY DEF EventInvariant, StreamInvariant, PublicationInvariant
<1> DEFINE old == last[x].envelope
<1>1. old.sequence \in Nat /\ old.state \in JobRecord
  BY <1>0, StreamFacts
<1>2. CASE read_after(x)
  <2>1. stream[x].pc = "after" /\ stream[x] \in StreamRecord /\ stream[x].job \in Jobs
    BY <1>0, <1>2, StreamFacts DEF read_after, StreamAt
  <2> DEFINE read == stream[x].read
             n == sequence[stream[x].job]
             e == [read EXCEPT !.sequence = n]
  <2>2. PICK following \in {"live", "closed"} : Yield(x, "snapshot", e, following)
    BY <1>2 DEF read_after
  <2>3. ViewHeld(x) /\ ReadIsValid(x)
    BY <1>0, <2>1 DEF StreamHeld, Open
  <2>4. n \in Nat /\ read.state \in JobRecord
    BY <1>0, <2>1, <2>3 DEF EventTypes, ReadIsValid
  <2>5. read \in [sequence : Nat, state : JobRecord \cup {NoState},
                  result : {"none", "plain", "full"}, error : BOOLEAN]
    BY <2>1 DEF StreamRecord
  <2>6. e \in Envelope /\ e.state = read.state /\ e.sequence = n
    BY <2>4, <2>5 DEF Envelope
  <2>7. is_active(old.state.status) /\ NotBehind(old.state, read.state) /\ old.sequence <= n
    BY <2>1, <2>3 DEF ViewHeld, StreamAt
  <2> HIDE DEF e, n, read
  <2>8. last'[x].kind = "snapshot" /\ last'[x].envelope = e
    BY <1>0, <2>1, <2>2, <2>6, YieldEffect
  <2>9. old.sequence < n \/ old.sequence = n
    BY <1>1, <2>4, <2>7
  <2> QED
    BY <2>6, <2>7, <2>8, <2>9
<1>3. CASE receive(x)
  <2>1. stream[x].pc = "live" /\ stream[x] \in StreamRecord /\ stream[x].job \in Jobs
    BY <1>0, <1>3, StreamFacts DEF receive, StreamAt
  <2>2. PICK j \in Jobs : j = stream[x].job
    BY <2>1
  <2>3. PICK i \in DOMAIN sent[j] : i = stream[x].next
    BY <1>0, <1>3, <2>1, <2>2, ReceivedEvent DEF receive
  <2> DEFINE event == sent[j][i]
             e == event.envelope
  <2>4. /\ stream[x].cursor < e.sequence
        /\ \E following \in {"live", "closed"} : Yield(x, event.kind, e, following)
    BY <1>3, <2>2, <2>3 DEF receive
  <2>5. event.kind \in EventKinds /\ e \in Envelope
    BY <1>0, SentTypes
  <2>6. last'[x].envelope = e
    <3> HIDE DEF event, e
    <3> QED
      BY <1>0, <2>1, <2>4, <2>5, YieldEffect
  <2>7. ViewHeld(x)
    BY <1>0, <2>1 DEF StreamHeld, Open
  <2>8. /\ is_active(old.state.status) /\ old.sequence = stream[x].cursor
        /\ NotBehind(old.state, job[j])
    BY <2>2, <2>7 DEF ViewHeld
  <2>9. NotBehind(old.state, e.state)
    <3>1. CASE Ends(event.kind)
      <4>1. job[j] = e.state
        BY <1>0, <3>1 DEF EnvelopesReached, Shows, Reaches
      <4> QED
        BY <2>8, <4>1
    <3>2. CASE ~Ends(event.kind)
      BY <2>2, <2>4, <2>7, <2>8, <3>2 DEF ViewHeld
    <3> QED
      BY <3>1, <3>2
  <2> QED
    BY <2>4, <2>6, <2>8, <2>9
<1>4. CASE read_revision(x)
  BY <1>0, <1>4 DEF read_revision, StreamHeld, StreamAt
<1>5. CASE read_before(x) \/ read_job(x) \/ lagged(x) \/ channel_closed(x)
  BY <1>5 DEF read_before, read_job, lagged, channel_closed
<1> QED
  BY <1>2, <1>3, <1>4, <1>5 DEF Serve

(* A client never sees its job go back: not by events buffered while a     *)
(* snapshot is read, not by publications that overtake each other, not by  *)
(* lag and recovery, and nothing follows an end (job_events).              *)
THEOREM ViewsAdvance == EventsSpec => ViewNeverGoesBack
<1>1. EventsInvariant /\ [EventsNext]_eventsVars =>
        [\A x \in Streams : (Delivered(x) /\ last'[x] # last[x]) =>
           LET old == last[x].envelope
               new == last'[x].envelope
           IN /\ is_active(old.state.status)
              /\ old.state.stage <= new.state.stage
              /\ old.state.progress <= new.state.progress
              /\ \/ old.sequence < new.sequence
                 \/ last'[x].kind = "snapshot" /\ old.sequence = new.sequence]_last
  <2> SUFFICES ASSUME EventsInvariant, [EventsNext]_eventsVars, NEW x \in Streams,
                      Delivered(x), last'[x] # last[x]
               PROVE  LET old == last[x].envelope
                          new == last'[x].envelope
                      IN /\ is_active(old.state.status)
                         /\ old.state.stage <= new.state.stage
                         /\ old.state.progress <= new.state.progress
                         /\ \/ old.sequence < new.sequence
                            \/ last'[x].kind = "snapshot" /\ old.sequence = new.sequence
    OBVIOUS
  <2>1. last' # last
    OBVIOUS
  <2>2. PICK y \in Streams : Serve(y) \/ \E j \in Jobs : subscribe(y, j)
    BY <2>1 DEF EventsNext, eventsVars, streamVars
  <2>3. Serve(y)
    BY <2>1, <2>2 DEF subscribe
  <2>4. \A z \in Streams : z # y => last'[z] = last[z]
    <3>1. last \in [Streams -> {NoEvent} \cup
                      [kind : EventKinds \cup {"snapshot"}, envelope : Envelope]]
      BY DEF EventsInvariant, StreamInvariant, StreamTypes
    <3> QED
      BY <2>3, <3>1 DEF Serve, read_before, read_job, read_after, read_revision, receive,
                        lagged, channel_closed, Yield
  <2> QED
    BY <2>3, <2>4, DeliveredForward DEF NotBehind
<1> QED
  BY <1>1, StreamsAreFed, PTL DEF EventsSpec, ViewNeverGoesBack

(* While the store works no stream is ended by the assertion in sse_event, *)
(* although records are read again after the event they are read for: the  *)
(* safety part of StreamsEnd.                                              *)
THEOREM AssertionHolds ==
  EventsSpec => [](faults = 0 => \A x \in Streams : ~StreamAt(x, "aborted"))
<1>1. EventsInvariant => (faults = 0 => \A x \in Streams : ~StreamAt(x, "aborted"))
  BY DEF EventsInvariant, StreamInvariant, StreamHeld
<1> QED
  BY <1>1, StreamsAreFed, PTL
=============================================================================
