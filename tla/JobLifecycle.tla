---------------------------- MODULE JobLifecycle ----------------------------
(***************************************************************************)
(* What the job store promises its readers, one atomic step per change:    *)
(* a job is created pending, may start, reports progress that never        *)
(* falls, and takes exactly one terminal status, and the payload of that   *)
(* status is there with it.  Nothing here knows about files or locks; a    *)
(* crash or a failed store operation is only counted, because it is the    *)
(* one thing that may leave a payload with a job it does not belong to.    *)
(* The promise is the one of docs/api.md ("whichever of result, failure,   *)
(* or cancellation is persisted first wins") and of                        *)
(* docs/architecture/request-lifecycle.md ("persists exactly one of        *)
(* completed, failed, or cancelled").                                      *)
(***************************************************************************)
EXTENDS JobState

VARIABLES
  job,      \* job[j]: the record a reader finds, NoState before creation
  payload,  \* payload[j]: what a reader finds with it, of "result" and "error"
  failures  \* how often the process stopped or a store operation failed

lifecycleVars == <<job, payload, failures>>

LifecycleInit ==
  /\ job = [j \in Jobs |-> NoState]
  /\ payload = [j \in Jobs |-> {}]
  /\ failures = 0

Create(j) ==
  /\ job[j] = NoState
  /\ job' = [job EXCEPT ![j] = PendingState]
  /\ UNCHANGED payload

(* Starting and reporting: an active job stays active and moves forward. *)
Advance(j) ==
  /\ is_active(job[j].status)
  /\ \E stage \in job[j].stage..MaxStage,
        progress \in job[j].progress..MaxProgress :
       job' = [job EXCEPT ![j] = [status   |-> "running",
                                  stage    |-> stage,
                                  progress |-> progress]]
  /\ UNCHANGED payload

Deliver(j, p) == payload' = [payload EXCEPT ![j] = @ \cup {p}]

Complete(j) ==
  /\ job[j].status = "running"
  /\ job' = [job EXCEPT ![j] = [status   |-> "completed",
                                stage    |-> job[j].stage,
                                progress |-> MaxProgress]]
  /\ Deliver(j, "result")

Fail(j) ==
  /\ is_active(job[j].status)
  /\ job' = [job EXCEPT ![j].status = "failed"]
  /\ Deliver(j, "error")

Cancel(j) ==
  /\ is_active(job[j].status)
  /\ job' = [job EXCEPT ![j].status = "cancelled"]
  /\ UNCHANGED payload

(* An end is interrupted between its payload and its record: the payload   *)
(* stays with a job that is still active and may end another way.          *)
LeaveBehind(j) ==
  /\ failures < failures'
  /\ is_active(job[j].status)
  /\ \E p \in {"result", "error"} : Deliver(j, p)
  /\ UNCHANGED job

(* A failure no reader notices. *)
FailUnseen ==
  /\ failures < failures'
  /\ UNCHANGED <<job, payload>>

(* A step may take effect although the operation reports a failure. *)
LifecycleNext ==
  /\ failures <= failures'
  /\ \/ FailUnseen
     \/ \E j \in Jobs :
          \/ Create(j) \/ Advance(j)
          \/ Complete(j) \/ Fail(j) \/ Cancel(j)
          \/ LeaveBehind(j)

LifecycleSpec == LifecycleInit /\ [][LifecycleNext]_lifecycleVars

(* What a reader may rely on: an end comes with its payload, and until a   *)
(* first failure a job has no other payload than that of its end           *)
(* (docs/api.md: `completed` has a result and null error, `failed` an      *)
(* error and null result, `cancelled` neither).                            *)
PayloadAsPromised ==
  \A j \in Jobs :
    /\ PayloadOf(job[j].status) \subseteq payload[j]
    /\ failures = 0 => payload[j] = PayloadOf(job[j].status)
=============================================================================
