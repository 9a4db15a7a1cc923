---------------------------- MODULE MCSolverEvents ----------------------------
EXTENDS SolverEvents

(* Sequence numbers have gaps where the collector dropped an event. *)
MCTrace == <<1, 2, 4, 5>>
=============================================================================
