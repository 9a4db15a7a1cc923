---------------------------- MODULE SolverEvents -----------------------------
(***************************************************************************)
(* The solver telemetry of one job: the runner appends the events of the   *)
(* trace to solver-telemetry.jsonl (src/jobs.rs, src/storage.rs), an SSE   *)
(* request follows the file page by page                                   *)
(* (src/http/handlers/events.rs, solver_events), and a polling client      *)
(* pages through it with a cursor (src/http/handlers/jobs.rs,              *)
(* solver_telemetry).  An event is its sequence number.                    *)
(***************************************************************************)
EXTENDS JsonLines, FiniteSets, FiniteSetsExt, SequencesExt

CONSTANTS
  Trace,      \* the events of the solve, in the order they are reported
  PageLimit,  \* `limit' of both requests, after the clamp
  Afters,     \* values of `after' the requests start from
  MaxFaults   \* bound on failed appends, failed reads and crashes

ASSUME SolverEventsAssumption ==
  /\ Trace \in Seq(Nat \ {0})
  /\ \A i, j \in DOMAIN Trace : i < j => Trace[i] < Trace[j]
  /\ PageLimit \in Nat \ {0}
  /\ Afters \subseteq Nat
  /\ MaxFaults \in Nat

VARIABLES
  up,       \* the server process runs
  runner,   \* "consuming" the updates of the worker, or "done"
  next,     \* the update it receives next
  log,      \* solver-telemetry.jsonl
  kept,     \* events whose append returned Ok
  faults,   \* failed appends, failed reads and crashes so far
  status,   \* the persisted status of the job
  stream,   \* the SSE request
  poller    \* the polling client

vars == <<up, runner, next, log, kept, faults, status, stream, poller>>

Terminal == {"completed", "failed", "cancelled"}

(* Readers do not touch the file: one of either kind is enough. *)
Init ==
  /\ up = TRUE
  /\ runner = "consuming"
  /\ next = 1
  /\ log = EmptyFile
  /\ kept = {}
  /\ faults = 0
  /\ status = "running"
  /\ \E a \in Afters, streams \in BOOLEAN :
       /\ stream = [pc |-> IF streams THEN "page" ELSE "absent", cursor |-> a, from |-> a,
                    got |-> <<>>, short |-> FALSE, seen |-> 0]
       /\ poller = [pc |-> IF streams THEN "absent" ELSE "job", after |-> a, from |-> a,
                    got |-> <<>>, summary |-> FALSE, terminal |-> FALSE, done |-> FALSE]

-----------------------------------------------------------------------------
(* The runner: consume_updates and the terminal write after it. *)

Consuming == up /\ runner = "consuming"

append_solver_event ==
  /\ Consuming
  /\ next <= Len(Trace)
  /\ log' = AppendLine(log, Trace[next])
  /\ kept' = kept \union {Trace[next]}
  /\ next' = next + 1
  /\ UNCHANGED <<up, runner, faults, status, stream, poller>>

(* The error is logged and the next update is received. *)
append_fails ==
  /\ Consuming
  /\ next <= Len(Trace)
  /\ faults < MaxFaults
  /\ log' \in InterruptedAppends(log, Trace[next])
  /\ next' = next + 1
  /\ faults' = faults + 1
  /\ UNCHANGED <<up, runner, kept, status, stream, poller>>

(* The channel is empty and closed: the outcome is saved unless the job was *)
(* cancelled in the meantime.  A worker that fails before or in the solve   *)
(* reports no trace at all.                                                *)
persist_execution ==
  /\ Consuming
  /\ next \in {1, Len(Trace) + 1}
  /\ runner' = "done"
  /\ \/ status # "running" /\ status' = status
     \/ status = "running" /\ status' = "failed"
     \/ status = "running" /\ next > Len(Trace) /\ status' = "completed"
  /\ UNCHANGED <<up, next, log, kept, faults, stream, poller>>

(* A progress update of a cancelled job is refused: the rest is dropped. *)
stop_consuming ==
  /\ Consuming
  /\ status = "cancelled"
  /\ runner' = "done"
  /\ UNCHANGED <<up, next, log, kept, faults, status, stream, poller>>

(* The cancel endpoint; the runner goes on consuming until it notices. *)
cancel_job ==
  /\ up
  /\ status = "running"
  /\ status' = "cancelled"
  /\ UNCHANGED <<up, runner, next, log, kept, faults, stream, poller>>

(* The process dies, possibly in the middle of an append; open requests die *)
(* with it.                                                                *)
Crash ==
  /\ up
  /\ faults < MaxFaults
  /\ faults' = faults + 1
  /\ up' = FALSE
  /\ runner' = "done"
  /\ log' \in (IF runner = "consuming" /\ next <= Len(Trace)
               THEN InterruptedAppends(log, Trace[next]) ELSE {log})
  /\ stream' = [stream EXCEPT !.pc = IF @ \in {"page", "check"} THEN "broken" ELSE @]
  /\ poller' = [poller EXCEPT !.pc = IF @ = "events" THEN "job" ELSE @]
  /\ UNCHANGED <<next, kept, status>>

(* recover_interrupted: nobody runs an interrupted job again. *)
Restart ==
  /\ ~up
  /\ up' = TRUE
  /\ status' = IF status = "running" THEN "failed" ELSE status
  /\ UNCHANGED <<runner, next, log, kept, faults, stream, poller>>

-----------------------------------------------------------------------------
(* Reading. *)

Truncated(events, limit) == SubSeq(events, 1, IF Len(events) < limit THEN Len(events) ELSE limit)

(* The positions in S, from the first to the last. *)
InOrder(S) ==
  [k \in 1..Cardinality(S) |-> CHOOSE i \in S : Cardinality({j \in S : j <= i}) = k]

(* At most `limit' events after the cursor, in the order of the file. *)
list_solver_events(after, limit) ==
  LET newer == InOrder({i \in ReadableLines(log) : EntryAt(log, i) > after})
  IN  Truncated([k \in DOMAIN newer |-> EntryAt(log, newer[k])], limit)

(* The same of the trace in the stored result. *)
stored_events(after, limit) ==
  LET newer == InOrder({i \in DOMAIN Trace : Trace[i] > after})
  IN  Truncated([k \in DOMAIN newer |-> Trace[newer[k]]], limit)

(* One page of the SSE request: the cursor is the maximum of what it sent. *)
stream_page ==
  /\ up
  /\ stream.pc = "page"
  /\ LET page == list_solver_events(stream.cursor, PageLimit) IN
     stream' = [stream EXCEPT
       !.pc = "check",
       !.cursor = Max({@} \union ToSet(page)),
       !.got = @ \o page,
       !.short = Len(page) < PageLimit,
       !.seen = Len(log.lines)]
  /\ UNCHANGED <<up, runner, next, log, kept, faults, status, poller>>

(* Seeded fault: a job that is still running ends the stream too. *)
stream_check_running ==
  /\ up
  /\ stream.pc = "check"
  /\ stream' = [stream EXCEPT !.pc = "ended"]
  /\ UNCHANGED <<up, runner, next, log, kept, faults, status, poller>>

(* Seeded fault: a cancelled job is not recognized as terminal. *)
stream_check_ignores_cancelled ==
  /\ up
  /\ stream.pc = "check"
  /\ stream' = [stream EXCEPT !.pc = IF status \in {"completed", "failed"} THEN "ended" ELSE "page"]
  /\ UNCHANGED <<up, runner, next, log, kept, faults, status, poller>>

(* The page is out; only now the status is read. *)
stream_check ==
  /\ up
  /\ stream.pc = "check"
  /\ stream' = [stream EXCEPT !.pc = IF status \in Terminal THEN "ended" ELSE "page"]
  /\ UNCHANGED <<up, runner, next, log, kept, faults, status, poller>>

(* A read error ends the stream. *)
stream_read_fails ==
  /\ up
  /\ stream.pc = "page"
  /\ faults < MaxFaults
  /\ faults' = faults + 1
  /\ stream' = [stream EXCEPT !.pc = "broken"]
  /\ UNCHANGED <<up, runner, next, log, kept, status, poller>>

(* A job that cannot be read counts as terminal. *)
stream_status_fails ==
  /\ up
  /\ stream.pc = "check"
  /\ faults < MaxFaults
  /\ faults' = faults + 1
  /\ stream' = [stream EXCEPT !.pc = "broken"]
  /\ UNCHANGED <<up, runner, next, log, kept, status, poller>>

(* solver_telemetry reads the job first: the stored result, if there is one, *)
(* carries the whole trace.                                                *)
poll_job ==
  /\ up
  /\ poller.pc = "job"
  /\ poller' = [poller EXCEPT !.pc = "events",
                              !.summary = (status = "completed"),
                              !.terminal = (status \in Terminal)]
  /\ UNCHANGED <<up, runner, next, log, kept, faults, status, stream>>

(* Seeded fault: next_after is taken before the page is truncated. *)
TelemetryPageUntruncated(after, summary) ==
  LET events == list_solver_events(after, PageLimit + 1)
  IN  [events |-> Truncated(events, PageLimit),
       next_after |-> IF events = <<>> THEN after ELSE Last(events),
       has_more |-> Len(events) > PageLimit]

(* One more event than the limit tells whether there are more; when the file *)
(* has none after the cursor, the stored trace answers.                    *)
TelemetryPage(after, summary) ==
  LET filed == list_solver_events(after, PageLimit + 1)
      events == IF filed = <<>> /\ summary THEN stored_events(after, PageLimit + 1) ELSE filed
      page == Truncated(events, PageLimit)
  IN  [events |-> page,
       next_after |-> IF page = <<>> THEN after ELSE Last(page),
       has_more |-> Len(events) > PageLimit]

(* The page is answered; the client asks again with next_after until there *)
(* is no more and the job it read was terminal.                            *)
poll_events ==
  /\ up
  /\ poller.pc = "events"
  /\ LET page == TelemetryPage(poller.after, poller.summary) IN
     poller' = [poller EXCEPT
       !.pc = IF ~page.has_more /\ poller.terminal THEN "idle" ELSE "job",
       !.after = page.next_after,
       !.got = @ \o page.events,
       !.done = ~page.has_more /\ poller.terminal]
  /\ UNCHANGED <<up, runner, next, log, kept, faults, status, stream>>

Terminated ==
  /\ up /\ runner = "done" /\ stream.pc \notin {"page", "check"} /\ poller.pc \notin {"job", "events"}
  /\ UNCHANGED vars

Next ==
  \/ append_solver_event \/ append_fails \/ persist_execution \/ stop_consuming
  \/ cancel_job \/ Crash \/ Restart
  \/ stream_page \/ stream_check \/ stream_read_fails \/ stream_status_fails
  \/ poll_job \/ poll_events
  \/ Terminated

Spec == Init /\ [][Next]_vars

(* The runner task and the requests are polled again; the supervisor starts *)
(* the server again; nothing makes anybody cancel or a disk fail.           *)
Fairness ==
  /\ WF_vars(append_solver_event)
  /\ WF_vars(persist_execution)
  /\ WF_vars(Restart)
  /\ WF_vars(stream_page) /\ WF_vars(stream_check)
  /\ WF_vars(poll_job) /\ WF_vars(poll_events)

FairSpec == Spec /\ Fairness

-----------------------------------------------------------------------------
Readable == {EntryAt(log, i) : i \in ReadableLines(log)}

(* Neither reader ever gets an event twice or out of order, and behind its *)
(* cursor it has every event the file still shows, although the file grows, *)
(* lines are damaged and pages are cut by the limit (list_solver_events,   *)
(* the cursors of solver_events and solver_telemetry).  A client that was  *)
(* told that there is no more of a completed job has everything readable.  *)
(* And little is unreadable: an append that fails or is cut short by a     *)
(* crash costs, besides its own event, at most one event appended after    *)
(* it, the one that continues its line.                                    *)
TelemetryIsComplete ==
  LET Complete(got, from, upto) ==
        /\ \A i \in 1..(Len(got) - 1) : got[i] < got[i + 1]
        /\ \A e \in Readable : from < e /\ e <= upto => e \in ToSet(got)
  IN  /\ Complete(stream.got, stream.from, stream.cursor)
      /\ Complete(poller.got, poller.from, poller.after)
      /\ poller.done /\ poller.summary
           => \A e \in Readable : e > poller.from => e \in ToSet(poller.got)
      /\ Cardinality(kept \ Readable) <= faults

(* Unless a read fails, the SSE stream closes only for a job that is       *)
(* terminal, and then it has delivered all that its last page could show   *)
(* unless that page was full: what it misses was beyond the limit or was   *)
(* appended between the page and the look at the status (solver_events).   *)
EndedStreamIsHonest ==
  stream.pc = "ended" =>
    /\ status \in Terminal
    /\ stream.short /\ stream.seen = Len(log.lines)
         => \A e \in Readable : e > stream.from => e \in ToSet(stream.got)

(* Every stream closes and every polling client is told that there is no   *)
(* more, whatever the end of the job, crash and restart included.          *)
FollowersFinish ==
  /\ <>(stream.pc \notin {"page", "check"})
  /\ <>(poller.pc \notin {"job", "events"})
=============================================================================
