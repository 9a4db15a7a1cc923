------------------------------ MODULE JobState ------------------------------
(***************************************************************************)
(* The persisted record of one optimization job (src/storage.rs, JobState) *)
(* and the pure transformations the job store applies to it.  Timestamps,  *)
(* the job id and the last message are left out: no transition reads them. *)
(* Stages are numbered 1..MaxStage in the order of ProgressStage; stage 0  *)
(* is the None of a job that has not reported yet.                         *)
(***************************************************************************)
EXTENDS Integers

CONSTANTS
  Jobs,         \* job ids a client may submit
  MaxStage,     \* the last ProgressStage (12 in the code)
  MaxProgress   \* the percentage of a finished job (100 in the code)

ASSUME StageAssumption == MaxStage \in Nat \ {0}
ASSUME ProgressAssumption == MaxProgress \in Nat \ {0}

Status == {"pending", "running", "completed", "failed", "cancelled"}

is_active(status) == status \in {"pending", "running"}

is_terminal(status) == status \in {"completed", "failed", "cancelled"}

JobRecord == [status : Status, stage : 0..MaxStage, progress : 0..MaxProgress]

(* What is read where state.json does not exist. *)
NoState == [status |-> "absent", stage |-> 0, progress |-> 0]

PendingState == [status |-> "pending", stage |-> 0, progress |-> 0]

MarkedRunning(st) == [st EXCEPT !.status = "running"]

Larger(a, b) == IF a < b THEN b ELSE a

Smaller(a, b) == IF a < b THEN a ELSE b

(* Seeded fault: the stage is not compared. *)
WithProgress_any_stage(st, stage, progress) ==
  [status   |-> "running",
   stage    |-> stage,
   progress |-> Larger(st.progress, Smaller(progress, MaxProgress))]

(* A report of an earlier stage leaves the record as it is; otherwise the  *)
(* stage is taken over and the percentage, clamped, never falls.           *)
WithProgress(st, stage, progress) ==
  IF stage < st.stage
  THEN st
  ELSE [status   |-> "running",
        stage    |-> stage,
        progress |-> Larger(st.progress, Smaller(progress, MaxProgress))]

(* The terminal record: only completion moves the percentage. *)
Committed(st, status) ==
  [status   |-> status,
   stage    |-> st.stage,
   progress |-> IF status = "completed" THEN MaxProgress ELSE st.progress]

(* What accompanies a terminal status. *)
PayloadOf(status) ==
  CASE status = "completed" -> {"result"}
    [] status = "failed"    -> {"error"}
    [] OTHER                -> {}
=============================================================================
