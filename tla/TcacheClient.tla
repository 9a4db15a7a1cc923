---------------------------- MODULE TcacheClient -----------------------------
(***************************************************************************)
(* One travel time from the tcache service                                 *)
(* (src/providers/tcache/job.rs, client.rs, travel_time.rs): a route job   *)
(* is created, polled until it ends or a deadline passes, its result is    *)
(* fetched, and a job the client gives up on is cancelled remotely.        *)
(*                                                                         *)
(* The service is external: it works on the job at its own pace, and every *)
(* exchange with it can be late, lost on the way there or on the way back. *)
(* Time is a counter that the client's exchanges and sleeps advance.       *)
(***************************************************************************)
EXTENDS Integers

CONSTANTS
  RequestTimeout,    \* TCACHE_REQUEST_TIMEOUT_MS, in ticks
  PollInterval,      \* TCACHE_POLL_INTERVAL_MS
  CancelTimeout,     \* what a cancel request may take
  Durations,         \* the values of durationSeconds; a negative one is invalid
  MaxMinutes         \* u32::MAX

ASSUME TcacheAssumption ==
  /\ RequestTimeout \in Nat \ {0} /\ PollInterval \in Nat \ {0} /\ CancelTimeout \in Nat
  /\ Durations \subseteq Int /\ MaxMinutes \in Nat

VARIABLES
  now,           \* the clock
  deadline,      \* of the call in progress
  call,          \* the position of the call
  verdict,       \* why the call gives the job up
  remote,        \* the service's job
  undelivered,   \* an exchange about the job failed without the client's fault
  stop,          \* the token of the matrix build
  answer         \* what the call returned

tcacheVars == <<now, deadline, call, verdict, remote, undelivered, stop, answer>>

Active == {"queued", "running"}
RemoteFailures == {"no_route", "not_configured", "failed", "cancelled"}

NoAnswer == [kind |-> "none"]
Minutes(m) == [kind |-> "minutes", minutes |-> m]
Refusal(kind) == [kind |-> kind]

TcacheInit ==
  /\ now = 0 /\ deadline = 0
  /\ call = "idle" /\ verdict = "none"
  /\ remote = "none" /\ undelivered = FALSE
  /\ stop = FALSE /\ answer = NoAnswer

-----------------------------------------------------------------------------
(* The service. *)

remote_runs ==
  /\ remote = "queued"
  /\ remote' = "running"
  /\ UNCHANGED <<now, deadline, call, verdict, undelivered, stop, answer>>

remote_ends ==
  /\ remote \in Active
  /\ remote' \in {"completed"} \union RemoteFailures
  /\ UNCHANGED <<now, deadline, call, verdict, undelivered, stop, answer>>

-----------------------------------------------------------------------------
(* The client. *)

Goes(step) == call' = step /\ UNCHANGED <<verdict, answer>>

Returns(a) == call' = "ended" /\ answer' = a /\ UNCHANGED verdict

GivesUp(why) == call' = "give_up" /\ verdict' = why /\ UNCHANGED answer

(* An exchange takes at most what remains of the deadline. *)
Takes(d) == d \in 0 .. (deadline - now) /\ now' = now + d

Failure(d) == Refusal(IF now + d >= deadline THEN "timeout" ELSE "error")

(* travel_time_inner up to the request; the caller may bring a deadline. *)
begin_call(caller_deadline) ==
  /\ call = "idle"
  /\ deadline' = IF now + RequestTimeout <= caller_deadline
                 THEN now + RequestTimeout ELSE caller_deadline
  /\ remote' = "none"
  /\ undelivered' = FALSE
  /\ UNCHANGED <<now, stop>>
  /\ IF stop THEN Returns(Refusal("cancelled")) ELSE Goes("create")

(* Past the deadline nothing is sent.  The job may exist although no       *)
(* usable id came back.                                                    *)
create_job ==
  /\ call = "create"
  /\ UNCHANGED <<deadline, stop>>
  /\ \E d \in 0 .. RequestTimeout :
       /\ Takes(d)
       /\ \/ /\ now < deadline
             /\ remote' = "queued" /\ UNCHANGED undelivered
             /\ Goes("loop")
          \/ /\ remote' \in {"none", "queued"} /\ undelivered' = TRUE
             /\ now < deadline \/ remote' = "none"
             /\ Returns(Failure(d))
          \/ /\ now < deadline
             /\ UNCHANGED <<remote, undelivered>>
             /\ Returns(Refusal("not_configured"))

(* Seeded fault: the deadline is not looked at between two polls. *)
check_call_endless ==
  /\ call = "loop"
  /\ UNCHANGED <<now, deadline, remote, undelivered, stop>>
  /\ IF stop THEN GivesUp("cancelled") ELSE Goes("poll")

(* The head of the polling loop. *)
check_call ==
  /\ call = "loop"
  /\ UNCHANGED <<now, deadline, remote, undelivered, stop>>
  /\ IF stop THEN GivesUp("cancelled")
     ELSE IF now >= deadline THEN GivesUp("timeout")
     ELSE Goes("poll")

(* Seeded fault: a poll that times out does not cancel the job. *)
poll_job_lenient ==
  /\ call = "poll"
  /\ UNCHANGED <<deadline, remote, stop>>
  /\ \E d \in 0 .. RequestTimeout :
       /\ Takes(d)
       /\ \/ /\ UNCHANGED undelivered
             /\ CASE remote = "completed"      -> Goes("result")
                  [] remote \in Active         -> Goes("sleep")
                  [] remote \in RemoteFailures -> Returns(Refusal(remote))
          \/ Returns(Refusal("error")) /\ undelivered' = TRUE
          \/ now + d >= deadline /\ Returns(Refusal("timeout")) /\ UNCHANGED undelivered

(* A failed poll is given up as timed out when the deadline has passed;    *)
(* otherwise, and for a status it does not know, the client returns the    *)
(* error and leaves the job to the service.                                *)
poll_job ==
  /\ call = "poll"
  /\ UNCHANGED <<deadline, remote, stop>>
  /\ \E d \in 0 .. RequestTimeout :
       /\ Takes(d)
       /\ \/ /\ UNCHANGED undelivered
             /\ CASE remote = "completed"      -> Goes("result")
                  [] remote \in Active         -> Goes("sleep")
                  [] remote \in RemoteFailures -> Returns(Refusal(remote))
          \/ Returns(Refusal("error")) /\ undelivered' = TRUE
          \/ now + d >= deadline /\ GivesUp("timeout") /\ UNCHANGED undelivered

sleep_call ==
  /\ call = "sleep"
  /\ now' = IF now + PollInterval <= deadline THEN now + PollInterval ELSE deadline
  /\ Goes("loop")
  /\ UNCHANGED <<deadline, remote, undelivered, stop>>

(* Whole minutes, rounded up. *)
extract_travel_time(seconds) ==
  LET minutes == (seconds + 59) \div 60
  IN  IF seconds < 0 \/ minutes > MaxMinutes THEN Refusal("error") ELSE Minutes(minutes)

(* The envelope may belong to another job, not be completed or lack a      *)
(* duration.                                                               *)
fetch_result ==
  /\ call = "result"
  /\ UNCHANGED <<deadline, remote, undelivered, stop>>
  /\ IF stop THEN GivesUp("cancelled") /\ UNCHANGED now
     ELSE \E d \in 0 .. RequestTimeout :
            /\ Takes(d)
            /\ \/ \E seconds \in Durations : Returns(extract_travel_time(seconds))
               \/ Returns(Refusal("error"))
               \/ now + d >= deadline /\ GivesUp("timeout")

(* cancel: one attempt, whose outcome nobody looks at. *)
cancel_remote ==
  /\ call = "give_up"
  /\ \E d \in 0 .. CancelTimeout, delivered \in BOOLEAN :
       /\ now' = now + d
       /\ remote' = IF delivered /\ remote \in Active THEN "cancelled" ELSE remote
       /\ undelivered' = (undelivered \/ ~ delivered)
  /\ Returns(Refusal(verdict))
  /\ UNCHANGED <<deadline, stop>>

Client ==
  create_job \/ check_call \/ poll_job \/ sleep_call \/ fetch_result \/ cancel_remote

Service == remote_runs \/ remote_ends
=============================================================================
