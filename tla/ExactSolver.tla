----------------------------- MODULE ExactSolver -----------------------------
(***************************************************************************)
(* The search of the exact solver at one start time                        *)
(* (src/solver/exact/): a dynamic program over <<visited set, last         *)
(* location>> cells, each of which keeps a Pareto frontier of partial      *)
(* routes.  A mask is the set of its locations and a predecessor chain is  *)
(* the route it spells.                                                    *)
(***************************************************************************)
EXTENDS RouteProblem

(* Seeded fault: the earlier state always wins. *)
dominates_by_time(a, b) == a.time <= b.time

(* frontier_cost packs <<travel, wait>> into a u64, wait in the lower      *)
(* half; wait and delay are under a day each and never carry.              *)
dominates(a, b) ==
  /\ a.time <= b.time
  /\ \/ a.travel < b.travel
     \/ a.travel = b.travel /\ a.wait + (b.time - a.time) <= b.wait

(* Extends a partial route by one visit, or gives it up. *)
transition(p, s, next) ==
  LET from    == Last(s.route)
      arrival == s.time + p.travel[from][next]
      finish  == Finish(p, next, arrival)
  IN  IF p.travel[from][next] = None \/ ~ InTime(p, next, finish) THEN {}
      ELSE {[time |-> finish, travel |-> s.travel + p.travel[from][next],
             wait |-> s.wait + (ServiceStart(p, next, arrival) - arrival),
             route |-> Append(s.route, next)]}

(* What a cell keeps of the states that were offered to it: none that      *)
(* another one dominates, and of equal ones the first.  Equal ones come    *)
(* from different locations, which are gone through in ascending order.    *)
Frontier(offered) ==
  LET before(s) == s.route[Len(s.route) - 1]
      minimal   == {s \in offered : \A t \in offered : dominates(t, s) => dominates(s, t)}
  IN  {s \in minimal : \A t \in minimal : dominates(t, s) => before(s) <= before(t)}

partial(p) == p.visit_policy = "BEST_EFFORT_ON_FAILURE"

(* The destination is entered last, once everything required was visited. *)
TerminalMask(p, mask) ==
  /\ partial(p) \/ mask = Locations(p)
  /\ p.required \subseteq mask

Cells(p) == (SUBSET Locations(p)) \X Locations(p)

(* Whether the search enters the cell at all, but for the first one. *)
Enterable(p, c) ==
  /\ c[2] \in c[1] /\ 0 \in c[1] /\ c[2] # 0
  /\ c[2] = End(p) => TerminalMask(p, c[1])

(* All that is offered to a cell extends the states of one smaller mask,   *)
(* from[l] being those that end in l.                                      *)
Offered(p, c, from) ==
  IF Enterable(p, c)
  THEN UNION {transition(p, s, c[2]) : s \in UNION {from[l] : l \in Locations(p) \ {End(p)}}}
  ELSE {}

(* The states of the cells. *)
Frontiers(p, start) ==
  LET initial == initial_service(p, start)
      cell[c \in Cells(p)] ==
        IF c = <<{0}, 0>>
        THEN {[time |-> initial.departure, travel |-> 0, wait |-> initial.wait, route |-> <<0>>]}
        ELSE Frontier(Offered(p, c, [l \in Locations(p) |-> cell[<<c[1] \ {c[2]}, l>>]]))
  IN  cell

(* The bits of a mask: of equally good routes the one with the smallest    *)
(* mask is found first.                                                    *)
MaskNumber(mask) == SumFunctionOnSet([i \in mask |-> 2^i], mask)

(* The best complete route that starts at the given minute. *)
search_at_start(p, start) ==
  LET cell       == Frontiers(p, start)
      terminals  == UNION {cell[<<mask, End(p)>>] :
                             mask \in {m \in SUBSET Locations(p) : End(p) \in m /\ TerminalMask(p, m)}}
      metrics(s) == Metrics(p, ToSet(s.route), start, s.time, s.travel, s.wait)
      best       == {s \in terminals : \A t \in terminals : ~ Better(p, metrics(t), metrics(s))}
      found      == CHOOSE s \in best : \A t \in best : MaskNumber(ToSet(s.route)) <= MaskNumber(ToSet(t.route))
  IN  IF initial_service(p, start).departure = None \/ terminals = {} THEN NoFeasibleRoute
      ELSE [ok |-> TRUE, route |-> found.route, metrics |-> metrics(found)]

(* The earliest finish in a cell, given those of the smaller mask. *)
EarliestIn(p, c, from) ==
  LET times == {transition_time(p, l, c[2], from[l]) :
                  l \in {x \in Locations(p) : from[x] # None}} \ {None}
  IN  IF /\ c[2] \in c[1] /\ 0 \in c[1] /\ c[2] # 0
         /\ c[2] = End(p) => c[1] = Locations(p)
         /\ times # {}
      THEN Min(times) ELSE None

(* Whether every location can be visited from this start time on: one      *)
(* earliest finish per cell is enough.                                     *)
is_feasible_at_start(p, start) ==
  LET initial == initial_service(p, start)
      earliest[c \in Cells(p)] ==
        IF c = <<{0}, 0>> THEN initial.departure
        ELSE EarliestIn(p, c, [l \in Locations(p) |-> earliest[<<c[1] \ {c[2]}, l>>]])
  IN  /\ initial.departure # None
      /\ p.n = 1 \/ earliest[<<Locations(p), End(p)>>] # None
=============================================================================
