------------------------ MODULE MCSolverOrchestrator ------------------------
EXTENDS SolverOrchestrator

CONSTANTS e1, b1, b2, s1, o1

(* Two baseline strategies, one of them a native solver that may prove its *)
(* route optimal and that one configuration makes too wide for the manager. *)
MCBaselines == <<b1, b2>>
MCAnnealings == <<s1>>

One == [cpu |-> 1, threads |-> 1, processes |-> 0, memory |-> 0]
TooWide == [cpu |-> 3, threads |-> 3, processes |-> 0, memory |-> 0]
MCRequests == {One, TooWide}

MCRequestsOf == [e \in Executions |-> IF e = b2 THEN {One, TooWide} ELSE {One}]

Plain(score) == Route(score, "none", FALSE, FALSE)

MCReturns ==
  (e1 :> {Plain(1), Failure("no_feasible_route")}) @@
  (b1 :> {Plain(2), Failure("panic")}) @@
  (b2 :> {Route(2, "optimal", FALSE, FALSE)}) @@
  (s1 :> {Plain(1), Route(NoScore, "none", FALSE, TRUE), Failure("cancelled")})
=============================================================================
