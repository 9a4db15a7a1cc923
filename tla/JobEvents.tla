----------------------------- MODULE JobEvents ------------------------------
(***************************************************************************)
(* The SSE endpoint GET /integration/jobs/{job_id}/events                  *)
(* (src/http/handlers/events.rs, job_events) on top of JobRunner: each     *)
(* stream subscribes to the activity's broadcast channel, reads a stable   *)
(* snapshot, forwards newer events, and takes a new snapshot when the      *)
(* channel has overwritten events it had not read.  The broadcast channel  *)
(* is tokio's, modelled by the log of everything sent and a read position. *)
(***************************************************************************)
EXTENDS JobRunner

CONSTANTS
  Streams,    \* open SSE requests
  Capacity    \* events the broadcast channel retains (128 in the code)

ASSUME CapacityAssumption == Capacity \in Nat \ {0}

VARIABLES
  stream,     \* where each SSE request stands
  last        \* the event it delivered last, NoEvent before the snapshot

streamVars == <<stream, last>>
runnerVars == vars
eventsVars == <<vars, stream, last>>

NoEvent == [kind |-> "none"]

(* job, whether it holds a subscription, the next position to receive, the *)
(* sequence read before the snapshot, the record read, the cursor.         *)
NoStream == [pc |-> "idle"]

EventsInit ==
  /\ Init
  /\ stream = [x \in Streams |-> NoStream]
  /\ last = [x \in Streams |-> NoEvent]

Stored(j, n) ==
  [sequence |-> n, state |-> job[j], result |-> result[j], error |-> error[j]]

StreamAt(x, pc) == stream[x].pc = pc

(* JobRunner::subscribe, before the source of truth is read. *)
subscribe(x, j) ==
  /\ StreamAt(x, "idle")
  /\ stream' = [stream EXCEPT ![x] =
       [pc     |-> IF j \in registry THEN "before" ELSE "stored",
        job    |-> j,
        live   |-> j \in registry,
        next   |-> Len(sent[j]) + 1,
        before |-> 0,
        read   |-> Stored(j, 0),
        cursor |-> 0]]
  /\ UNCHANGED <<runnerVars, last>>

(* The stable read: sequence, job, sequence again until both agree. *)
read_before(x) ==
  /\ StreamAt(x, "before")
  /\ stream' = [stream EXCEPT ![x].pc = "read",
                              ![x].before = sequence[stream[x].job]]
  /\ UNCHANGED <<runnerVars, last>>

(* Without a subscription the job is read once and the stored revision     *)
(* after it.  A missing job or a failed read ends the request, or the      *)
(* stream if it is a recovery from lag.                                    *)
read_job(x) ==
  /\ stream[x].pc \in {"read", "stored"}
  /\ \E fails \in BOOLEAN :
       LET j == stream[x].job
           following == IF stream[x].pc = "read" THEN "after" ELSE "revision"
       IN /\ MayFail(fails)
          /\ stream' = [stream EXCEPT
               ![x].pc = IF fails \/ job[j] = NoState THEN "refused" ELSE following,
               ![x].read = Stored(j, 0)]
  /\ UNCHANGED <<job, result, error, revision, telemetry, admission, permits,
                 registry, token, sequence, sent, submitter, runner, canceller,
                 publisher, worker, updates, reported, snapshot, outcome, last>>

(* yield sse_event(kind, envelope), whose assertion may end the stream. *)
Yield(x, kind, envelope, following) ==
  /\ stream' = [stream EXCEPT
       ![x].pc = IF is_valid_for_event(kind, envelope) THEN following ELSE "aborted",
       ![x].next = IF kind = "snapshot" THEN @ ELSE @ + 1,
       ![x].cursor = envelope.sequence]
  /\ last' = [last EXCEPT ![x] =
       IF is_valid_for_event(kind, envelope)
       THEN [kind |-> kind, envelope |-> envelope] ELSE @]

(* Seeded fault: the sequence is not read again after the job. *)
read_after_unstable(x) ==
  /\ StreamAt(x, "after")
  /\ Yield(x, "snapshot", [stream[x].read EXCEPT !.sequence = stream[x].before],
           IF is_active(stream[x].read.state.status) THEN "live" ELSE "closed")
  /\ UNCHANGED runnerVars

read_after(x) ==
  /\ StreamAt(x, "after")
  /\ LET n == sequence[stream[x].job] IN
     \/ /\ n = stream[x].before
        /\ Yield(x, "snapshot", [stream[x].read EXCEPT !.sequence = n],
                 IF is_active(stream[x].read.state.status) THEN "live" ELSE "closed")
     \/ /\ n # stream[x].before
        /\ stream' = [stream EXCEPT ![x].pc = "before"]
        /\ UNCHANGED last
  /\ UNCHANGED runnerVars

(* current_event_sequence: the stream ends after the stored snapshot, or   *)
(* the request with a storage error.                                       *)
read_revision(x) ==
  /\ StreamAt(x, "revision")
  /\ \E fails \in BOOLEAN :
       /\ MayFail(fails)
       /\ IF fails
          THEN stream' = [stream EXCEPT ![x].pc = "refused"] /\ UNCHANGED last
          ELSE Yield(x, "snapshot",
                     [stream[x].read EXCEPT !.sequence = revision[stream[x].job]],
                     "closed")
  /\ UNCHANGED <<job, result, error, revision, telemetry, admission, permits,
                 registry, token, sequence, sent, submitter, runner, canceller,
                 publisher, worker, updates, reported, snapshot, outcome>>

Unread(x) == Len(sent[stream[x].job]) + 1 - stream[x].next

receive(x) ==
  /\ StreamAt(x, "live")
  /\ 0 < Unread(x) /\ Unread(x) <= Capacity
  /\ LET event == sent[stream[x].job][stream[x].next] IN
     \/ /\ event.envelope.sequence <= stream[x].cursor
        /\ stream' = [stream EXCEPT ![x].next = @ + 1]
        /\ UNCHANGED last
     \/ /\ event.envelope.sequence > stream[x].cursor
        /\ Yield(x, event.kind, event.envelope,
                 IF event.kind = "progress" THEN "live" ELSE "closed")
  /\ UNCHANGED runnerVars

(* RecvError::Lagged: continue at the oldest retained event after a new    *)
(* stable snapshot.                                                        *)
lagged(x) ==
  /\ StreamAt(x, "live")
  /\ Unread(x) > Capacity
  /\ stream' = [stream EXCEPT ![x].pc = "before",
                              ![x].next = Len(sent[stream[x].job]) + 1 - Capacity]
  /\ UNCHANGED <<runnerVars, last>>

(* Seeded fault: the subscription itself keeps the sender alive. *)
SenderDropped_never(j) == FALSE

(* The last clone of the activity is gone: the registry's and those of the *)
(* cancel handlers that found it there.                                    *)
SenderDropped(j) ==
  /\ j \notin registry
  /\ \A c \in Cancellers :
       ~(canceller[c].pc \in {"found", "signal"}
           /\ canceller[c].job = j /\ canceller[c].active)

channel_closed(x) ==
  /\ StreamAt(x, "live")
  /\ Unread(x) = 0 /\ SenderDropped(stream[x].job)
  /\ stream' = [stream EXCEPT ![x].pc = "closed"]
  /\ UNCHANGED <<runnerVars, last>>

-----------------------------------------------------------------------------
Serve(x) ==
  \/ read_before(x) \/ read_job(x) \/ read_after(x) \/ read_revision(x)
  \/ receive(x) \/ lagged(x) \/ channel_closed(x)

EventsNext ==
  \/ Next /\ UNCHANGED streamVars
  \/ \E x \in Streams : Serve(x) \/ \E j \in Jobs : subscribe(x, j)

EventsSpec == EventsInit /\ [][EventsNext]_eventsVars

(* The fairness of JobRunner, and streams that are being served. *)
EventsFairSpec ==
  /\ EventsSpec
  /\ Fairness
  /\ \A x \in Streams : WF_eventsVars(Serve(x))

-----------------------------------------------------------------------------
Delivered(x) == last[x] # NoEvent

(* A stream never shows an older view after a newer one: stage and         *)
(* progress do not fall and nothing follows a terminal state, although     *)
(* events are buffered while the snapshot is read.  The ids of one stream  *)
(* increase across overtaken publications and lag; only a recovery         *)
(* snapshot may repeat the id it recovers to.                              *)
ViewNeverGoesBack ==
  [][\A x \in Streams : (Delivered(x) /\ last'[x] # last[x]) =>
       LET old == last[x].envelope
           new == last'[x].envelope
       IN /\ is_active(old.state.status)
          /\ old.state.stage <= new.state.stage
          /\ old.state.progress <= new.state.progress
          /\ \/ old.sequence < new.sequence
             \/ last'[x].kind = "snapshot" /\ old.sequence = new.sequence]_last

(* Every opened stream is eventually finished: the stable read does not    *)
(* spin for ever and a live stream sees an event or the closed channel.    *)
(* While the store works it is never finished by the assertion in          *)
(* sse_event: what publish_persisted read again was filtered before it.    *)
StreamsEnd ==
  /\ \A x \in Streams :
       (stream[x].pc # "idle") ~> (stream[x].pc \in {"closed", "refused", "aborted"})
  /\ [](faults = 0 => \A x \in Streams : ~StreamAt(x, "aborted"))

(* docs/api.md: the stream sends a snapshot, progress, "and one            *)
(* `completed`, `failed`, or `cancelled` terminal event": when the end of  *)
(* a job has been sent on the channel, no subscribed stream closes without *)
(* having delivered it.                                                    *)
AnnouncedEndIsDelivered ==
  faults = 0 =>
    \A x \in Streams :
      (StreamAt(x, "closed") /\ stream[x].live /\ TerminalEvents(stream[x].job) # {}) =>
        is_terminal(last[x].envelope.state.status)
=============================================================================
