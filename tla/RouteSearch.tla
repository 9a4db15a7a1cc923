----------------------------- MODULE RouteSearch -----------------------------
(***************************************************************************)
(* One call of a route solver on one problem, with a cancellation token    *)
(* that another thread may set at any time: the exact solver               *)
(* (src/solver/exact/bit_dp.rs), the clustered solver                      *)
(* (src/solver/heuristic/clustered/) and simulated annealing               *)
(* (src/solver/heuristic/annealing/) from any of its initial routes.       *)
(* A step reaches from one read of the token to the next.                  *)
(***************************************************************************)
EXTENDS ClusteredSolver

CONSTANTS
  Problems,          \* the problems a call may be given
  ExactMaxLocations, \* EXACT_MAX_LOCATIONS
  IterationLimit     \* iteration_limit of the annealing search

ASSUME RouteSearchAssumption ==
  /\ IterationLimit \in Nat \ {0}
  /\ ExactMaxLocations \in Nat
  /\ \A p \in Problems : IsProblem(p)

VARIABLES
  problem,      \* the problem
  solver,       \* "exact", "clustered" or "annealing"
  start,        \* the initial route strategy of the annealing search
  order,        \* the cluster order strategy
  cancelled,    \* the token
  pc,           \* the next step of the call
  low, high,    \* the exact solver's bounds of the latest start
  target,       \* the coverage it must not give up
  clusters,     \* the clusters in visit order
  position,     \* the cluster or boundary it is at
  slot,         \* the time the clustered route has reached
  route,        \* the route under construction, or the current one
  held,         \* what evaluating that route gave
  energy,       \* its energy
  best,         \* the best feasible route so far: a Found record or None
  initial,      \* what the initial route of the annealing search evaluates to
  iterations,   \* annealing iterations done
  interrupted,  \* the loop stopped because of the token
  result        \* the answer, once pc is "done"

callVars == <<problem, solver, start, order>>
exactVars == <<low, high, target>>
clusterVars == <<clusters, position, slot>>
routeVars == <<route, held>>
annealVars == <<energy, best, initial, iterations, interrupted>>
vars == <<callVars, cancelled, pc, exactVars, clusterVars, routeVars, annealVars, result>>

Starts == {"clustered", "default", "mst", "greedy", "christofides", "random"}

Found(r, m) == [ok |-> TRUE, route |-> r, metrics |-> m]

Nothing == Error("none yet")

Init ==
  /\ problem \in Problems
  /\ \/ solver = "exact" /\ start = "none" /\ order = "greedy_bridge"
     \/ solver = "clustered" /\ start = "none" /\ order \in {"greedy_bridge", "mst_double_tree"}
     \/ solver = "annealing" /\ start \in Starts /\ order = "greedy_bridge"
  /\ cancelled = FALSE
  /\ pc = CASE solver = "exact"     -> "exact"
            [] solver = "clustered" -> "clustered"
            [] solver = "annealing" -> "generate"
  /\ low = 0 /\ high = 0 /\ target = <<0, 0>>
  /\ clusters = <<>> /\ position = 0 /\ slot = 0
  /\ route = <<>> /\ held = Nothing
  /\ energy = 0 /\ best = Nothing /\ initial = Nothing /\ iterations = 0 /\ interrupted = FALSE
  /\ result = Nothing

At(step) == pc = step

Goto(step) == pc' = step /\ UNCHANGED <<callVars, cancelled, result>>

Answer(outcome) ==
  /\ pc' = "done"
  /\ result' = outcome
  /\ UNCHANGED <<callVars, cancelled>>

cancel ==
  /\ pc # "done" /\ ~ cancelled
  /\ cancelled' = TRUE
  /\ UNCHANGED <<callVars, pc, exactVars, clusterVars, routeVars, annealVars, result>>

-----------------------------------------------------------------------------
(* The exact solver: solve_detailed *)

OnlyExact == UNCHANGED <<clusterVars, routeVars, annealVars>>

(* A search reads the token once it knows that the start location can be   *)
(* served; without a service there is no route.                            *)
SearchSees(t) == cancelled /\ initial_service(problem, t).departure # None

exact_begin ==
  /\ At("exact")
  /\ low' = problem.start_time
  /\ high' = MinutesPerDay - 1
  /\ UNCHANGED target
  /\ OnlyExact
  /\ IF cancelled THEN Answer(Cancelled)
     ELSE IF problem.n > ExactMaxLocations THEN Answer(Error("UnsupportedLocationCount"))
     ELSE Goto(IF problem.start_policy # "LATEST" THEN "exact_search"
               ELSE IF partial(problem) THEN "exact_target" ELSE "exact_feasible")

(* Best effort, latest start: the coverage of the earliest start is kept. *)
exact_target ==
  /\ At("exact_target")
  /\ UNCHANGED <<low, high>>
  /\ OnlyExact
  /\ LET found == search_at_start(problem, low)
     IN  IF SearchSees(low) THEN Answer(Cancelled) /\ UNCHANGED target
         ELSE IF ~ found.ok THEN Answer(NoFeasibleRoute) /\ UNCHANGED target
         ELSE Goto("exact_probe") /\ target' = found.metrics.coverage

exact_feasible ==
  /\ At("exact_feasible")
  /\ UNCHANGED exactVars
  /\ OnlyExact
  /\ IF SearchSees(low) THEN Answer(Cancelled)
     ELSE IF ~ is_feasible_at_start(problem, low) THEN Answer(NoFeasibleRoute)
     ELSE Goto("exact_probe")

Preserves(t) ==
  IF partial(problem)
  THEN LET found == search_at_start(problem, t)
       IN  found.ok /\ CoverageAtLeast(found.metrics.coverage, target)
  ELSE is_feasible_at_start(problem, t)

(* Seeded fault: the middle is rounded down. *)
Middle_down == low + (high - low) \div 2

(* The start that the bisection tries next, rounded up. *)
Middle == low + ((high - low) + 1) \div 2

(* One round of the bisection for the latest start. *)
exact_probe ==
  /\ At("exact_probe")
  /\ low < high
  /\ UNCHANGED target
  /\ OnlyExact
  /\ IF SearchSees(Middle) THEN Answer(Cancelled) /\ UNCHANGED <<low, high>>
     ELSE IF Preserves(Middle) THEN Goto(pc) /\ low' = Middle /\ UNCHANGED high
     ELSE Goto(pc) /\ high' = Middle - 1 /\ UNCHANGED low

exact_probed ==
  /\ At("exact_probe")
  /\ low >= high
  /\ UNCHANGED exactVars
  /\ OnlyExact
  /\ Goto("exact_search")

exact_search ==
  /\ At("exact_search")
  /\ UNCHANGED exactVars
  /\ OnlyExact
  /\ Answer(IF SearchSees(low) THEN Cancelled ELSE search_at_start(problem, low))

-----------------------------------------------------------------------------
(* The clustered solver.  On its own it answers the call; as an initial    *)
(* route strategy it hands its route, or its failure, to the annealing     *)
(* search.                                                                 *)

Unclustered == UNCHANGED <<exactVars, annealVars>>

Fail(outcome) ==
  IF solver = "annealing" /\ start = "default" /\ outcome # Cancelled THEN Goto("generate_mst")
  ELSE Answer(outcome)

Deliver(found) == IF solver = "annealing" THEN Goto("initial") ELSE Answer(found)

clustered_begin ==
  /\ At("clustered")
  /\ Unclustered
  /\ LET service == initial_service(problem, problem.start_time)
         failure == IF cancelled THEN Cancelled
                    ELSE IF problem.n > 1 /\ order = "mst_double_tree" /\ MstOrderFails(problem)
                    THEN NoFeasibleRoute
                    ELSE IF problem.n > 1 /\ service.departure = None THEN NoFeasibleRoute
                    ELSE Nothing
     IN  IF failure # Nothing
         THEN Fail(failure) /\ UNCHANGED <<clusterVars, routeVars>>
         ELSE /\ clusters' = IF problem.n = 1 THEN <<>> ELSE OrderedClusters(problem, order)
              /\ position' = 1
              /\ slot' = service.departure
              /\ route' = <<0>>
              /\ UNCHANGED held
              /\ Goto("cluster")

Next_members(k) == IF k = Len(clusters) THEN {End(problem)} ELSE ToSet(clusters[k + 1])

(* The members are appended in the order of the subproblem; the traversal  *)
(* of the real route may still be late at one of them.                     *)
solve_one_cluster ==
  /\ At("cluster")
  /\ position <= Len(clusters)
  /\ Unclustered
  /\ UNCHANGED <<clusters, held>>
  /\ LET solved == solve_cluster(problem, Last(route), slot, clusters[position],
                                 Next_members(position))
         legs   == <<Last(route)>> \o solved.route
         times[k \in 1 .. Len(legs)] ==
           IF k = 1 THEN slot
           ELSE IF times[k - 1] = None THEN None
           ELSE transition_time(problem, legs[k - 1], legs[k], times[k - 1])
     IN  IF cancelled THEN Fail(Cancelled) /\ UNCHANGED <<position, slot, route>>
         ELSE IF ~ solved.ok \/ times[Len(legs)] = None
         THEN Fail(NoFeasibleRoute) /\ UNCHANGED <<position, slot, route>>
         ELSE /\ position' = position + 1
              /\ slot' = times[Len(legs)]
              /\ route' = route \o solved.route
              /\ Goto("cluster")

(* The merged route, evaluated as a whole. *)
merge_clusters ==
  /\ At("cluster")
  /\ position > Len(clusters)
  /\ Unclustered
  /\ UNCHANGED <<clusters, slot>>
  /\ LET merged    == IF problem.n = 1 THEN route ELSE Append(route, End(problem))
         evaluated == evaluate_solution(problem, merged)
     IN  /\ route' = merged
         /\ IF cancelled THEN Fail(Cancelled) /\ UNCHANGED <<position, held>>
            ELSE IF ~ evaluated.ok THEN Fail(evaluated) /\ UNCHANGED <<position, held>>
            ELSE Goto("improve") /\ position' = 1 /\ held' = evaluated

(* The index of the last member of the k-th cluster in the route. *)
Boundary(k) == 1 + MapThenSumSet(LAMBDA c : Len(clusters[c]), 1 .. k)

(* BoundarySwapLocalImprovement: swap the two sides of a boundary. *)
improve_boundary ==
  /\ At("improve")
  /\ position < Len(clusters)
  /\ Unclustered
  /\ UNCHANGED <<clusters, slot>>
  /\ LET swapped   == Swap(route, Boundary(position), Boundary(position) + 1)
         evaluated == evaluate_solution(problem, swapped)
     IN  IF cancelled THEN Fail(Cancelled) /\ UNCHANGED <<position, routeVars>>
         ELSE /\ Goto("improve")
              /\ position' = position + 1
              /\ IF evaluated.ok /\ Better(problem, evaluated, held)
                 THEN route' = swapped /\ held' = evaluated
                 ELSE UNCHANGED routeVars

verify_clustered ==
  /\ At("improve")
  /\ position >= Len(clusters)
  /\ Unclustered
  /\ UNCHANGED <<clusterVars, routeVars>>
  /\ IF cancelled THEN Fail(Cancelled)
     ELSE LET evaluated == evaluate_solution(problem, route)
          IN  IF evaluated.ok THEN Deliver(Found(route, evaluated)) ELSE Fail(evaluated)

-----------------------------------------------------------------------------
(* Simulated annealing: the initial route *)

Unsearched == UNCHANGED <<exactVars, clusterVars, held, annealVars>>

Generated(strategy) ==
  CASE strategy = "mst"          -> {mst_double_tree(problem)}
    [] strategy = "greedy"       -> {greedy(problem)}
    [] strategy = "christofides" -> {christofides(problem)}
    [] strategy = "random"       -> random(problem)

generate ==
  /\ At("generate")
  /\ Unsearched
  /\ IF cancelled THEN Answer(Cancelled) /\ UNCHANGED route
     ELSE IF start \in {"clustered", "default"} THEN Goto("clustered") /\ UNCHANGED route
     ELSE \E g \in Generated(start) :
            IF g.ok THEN Goto("initial") /\ route' = g.route
            ELSE Answer(g) /\ UNCHANGED route

(* ClusteredMstGreedyInitialRoute: a strategy that fails hands over to the *)
(* next; the greedy one never fails.                                       *)
generate_mst ==
  /\ At("generate_mst")
  /\ Unsearched
  /\ IF cancelled THEN Answer(Cancelled) /\ UNCHANGED route
     ELSE LET g == mst_double_tree(problem)
          IN  IF g.ok THEN Goto("initial") /\ route' = g.route
              ELSE Goto("generate_greedy") /\ UNCHANGED route

generate_greedy ==
  /\ At("generate_greedy")
  /\ Unsearched
  /\ IF cancelled THEN Answer(Cancelled) /\ UNCHANGED route
     ELSE Goto("initial") /\ route' = greedy(problem).route

(* What the nested evaluation returns; the token may be set between the    *)
(* read of the penalised evaluation and its own.                           *)
Evaluations(r) ==
  {[metrics |-> evaluate_solution(problem, r), cancelled |-> FALSE],
   [metrics |-> Cancelled, cancelled |-> TRUE]}

FoundBy(r, e) == IF e.metrics.ok THEN Found(r, e.metrics) ELSE Nothing

(* A structurally invalid route is replaced by a random one. *)
evaluate_initial ==
  /\ At("initial")
  /\ UNCHANGED <<exactVars, clusterVars, iterations, interrupted>>
  /\ IF cancelled
     THEN Answer(Cancelled) /\ UNCHANGED <<routeVars, energy, best, initial>>
     ELSE \E r \in IF is_structurally_valid_initial_solution(problem, route) THEN {route}
                   ELSE {g.route : g \in random(problem)} :
            \E n \in Evaluations(r) :
              LET e == evaluate_solution_with_penalties(problem, r, n.metrics)
              IN  /\ cancelled' = n.cancelled
                  /\ pc' = "loop"
                  /\ UNCHANGED <<callVars, result>>
                  /\ route' = r
                  /\ held' = e.metrics
                  /\ energy' = e.energy
                  /\ best' = FoundBy(r, e)
                  /\ initial' = FoundBy(r, e)

-----------------------------------------------------------------------------
(* Simulated annealing: the search *)

Interior(r) == 2 .. (Len(r) - 1)

(* MixedNeighborhoodStrategy.neighbor: swap, relocate or reverse. *)
Reordered(r) ==
  LET places == {x \in Interior(r) \X Interior(r) : x[1] # x[2]}
      Between(x) == (x[1] .. x[2]) \union (x[2] .. x[1])
  IN  IF Len(r) < 4 THEN {}
      ELSE {Swap(r, x[1], x[2]) : x \in places}
             \union {InsertAt(RemoveAt(r, x[1]), x[2], r[x[1]]) : x \in places}
             \union {[k \in DOMAIN r |-> IF k \in Between(x) THEN r[x[1] + x[2] - k] ELSE r[k]] :
                       x \in places}

(* neighbor_for_problem: with optional locations also insert, remove and   *)
(* replace one.                                                            *)
Neighbours(p, r) ==
  LET unvisited == (Intermediate(p) \ p.required) \ ToSet(r)
      removable == {k \in Interior(r) : r[k] \notin p.required}
  IN  IF p.visit_policy = "ALL_REQUIRED" THEN Reordered(r)
      ELSE Reordered(r)
             \union {InsertAt(r, k, i) : k \in 2 .. Len(r), i \in unvisited}
             \union {RemoveAt(r, k) : k \in removable}
             \union {ReplaceAt(r, k, i) : k \in removable, i \in unvisited}

InLoop == At("loop") /\ ~ cancelled /\ iterations < IterationLimit

(* A better or equal candidate is accepted, a worse one possibly.  The     *)
(* best route only depends on whether the candidate was found feasible.    *)
consider_candidate(r, e) ==
  /\ best' = IF e.metrics.ok /\ (best.ok => Better(problem, e.metrics, best.metrics))
             THEN Found(r, e.metrics) ELSE best
  /\ \/ route' = r /\ held' = e.metrics /\ energy' = e.energy
     \/ e.energy > energy /\ UNCHANGED <<routeVars, energy>>

anneal ==
  /\ InLoop
  /\ UNCHANGED <<callVars, pc, result, exactVars, clusterVars, initial, interrupted>>
  /\ iterations' = iterations + 1
  /\ \E r \in Neighbours(problem, route) : \E n \in Evaluations(r) :
       /\ cancelled' = n.cancelled
       /\ consider_candidate(r, evaluate_solution_with_penalties(problem, r, n.metrics))

(* The iteration limit, the time limit, the minimum temperature or the     *)
(* lack of a neighbour ends the loop; so does the token.                   *)
leave_loop ==
  /\ At("loop")
  /\ UNCHANGED <<exactVars, clusterVars, routeVars, energy, best, initial, iterations>>
  /\ \/ interrupted' = FALSE
     \/ cancelled /\ iterations < IterationLimit /\ interrupted' = TRUE
  /\ Goto("finish")

(* Seeded fault: the best route is evaluated again in every case. *)
finish_verifies ==
  /\ At("finish")
  /\ UNCHANGED <<exactVars, clusterVars, routeVars, annealVars>>
  /\ IF ~ best.ok THEN Answer(NoFeasibleRoute) ELSE Goto("verify")

finish ==
  /\ At("finish")
  /\ UNCHANGED <<exactVars, clusterVars, routeVars, annealVars>>
  /\ IF ~ best.ok THEN Answer(NoFeasibleRoute)
     ELSE IF interrupted \/ cancelled THEN Answer(best)
     ELSE Goto("verify")

verify ==
  /\ At("verify")
  /\ UNCHANGED <<exactVars, clusterVars, routeVars, annealVars>>
  /\ Answer(IF cancelled THEN Cancelled
            ELSE LET m == evaluate_solution(problem, best.route)
                 IN  IF m.ok THEN Found(best.route, m) ELSE m)

-----------------------------------------------------------------------------
Step ==
  \/ exact_begin \/ exact_target \/ exact_feasible \/ exact_probe \/ exact_probed \/ exact_search
  \/ clustered_begin \/ solve_one_cluster \/ merge_clusters \/ improve_boundary
  \/ verify_clustered
  \/ generate \/ generate_mst \/ generate_greedy \/ evaluate_initial
  \/ anneal \/ leave_loop \/ finish \/ verify

Finished == pc = "done" /\ UNCHANGED vars

Next == cancel \/ Step \/ Finished

Spec == Init /\ [][Next]_vars

(* A round of the bisection that may leave its bounds as they are. *)
Idle == At("exact_probe") /\ low < high /\ Middle = low

(* The solver's thread runs until it answers.  A step that changes         *)
(* something is enabled until then, but in an idle round, so this is weak  *)
(* fairness of Step, spelled without an ENABLED that would run the         *)
(* searches once more in every state.                                      *)
FairSpec == Spec /\ ([]<>(pc = "done" \/ Idle) \/ []<><<Step>>_vars)
-----------------------------------------------------------------------------
(* Reference definitions the solvers are checked against. *)

ValidOrders(p) ==
  IF p.n = 1 THEN {<<0>>}
  ELSE {<<0>> \o r \o <<End(p)>> :
          r \in UNION {SetToSeqs(S) : S \in {T \in SUBSET Intermediate(p) :
                          /\ p.required \subseteq T \union {0, End(p)}
                          /\ p.visit_policy = "ALL_REQUIRED" => T = Intermediate(p)}}}

StartTimes(p) ==
  IF p.start_policy = "LATEST" THEN p.start_time .. (MinutesPerDay - 1) ELSE {p.start_time}

(* Everything that can be done: every order at every start time. *)
Possible(p) ==
  {m \in {simulate_solution(p, r, t) : r \in ValidOrders(p), t \in StartTimes(p)} : m.ok}

Weight(edges) == FoldLeft(LAMBDA sum, e : sum + e[3], 0, edges)

Connected(n, pairs) ==
  LET reach[k \in 0 .. n] ==
        IF k = 0 THEN {0}
        ELSE reach[k - 1] \union {j \in 0 .. (n - 1) : \E i \in reach[k - 1] : {i, j} \in pairs}
  IN  reach[n] = 0 .. (n - 1)

Pairs(S) == {e \in SUBSET S : Cardinality(e) = 2}

SpanningTrees(n) ==
  {T \in SUBSET Pairs(0 .. (n - 1)) : Cardinality(T) = n - 1 /\ Connected(n, T)}

PerfectMatchings(odd) ==
  {M \in SUBSET Pairs(odd) : \A v \in odd : Cardinality({e \in M : v \in e}) = 1}

PairWeight(p, pairs) ==
  MapThenSumSet(LAMBDA e : symmetric_distance(p, Min(e), Max(e)), pairs)

-----------------------------------------------------------------------------
(* Properties *)

(* Every route a solver answers with is accepted by the schedule at the    *)
(* start time selected for it, and the schedule's finish, travel and       *)
(* waiting times are those of the metrics the solver compared: the         *)
(* evaluation of src/solver.rs, the transitions of the exact search and    *)
(* src/schedule.rs are three separate implementations of one clock.  A     *)
(* latest start cannot be moved back by a single minute.                   *)
AnswerIsTheSchedule ==
  pc = "done" /\ result.ok =>
    LET m    == result.metrics
        plan == calculate_schedule_from(problem, result.route, selected_start_time(problem, m))
    IN  /\ plan.ok
        /\ plan.finish = m.finish /\ plan.travel = m.travel /\ plan.wait = m.wait
        /\ problem.start_policy = "LATEST" =>
             \A t \in (m.start + 1) .. (MinutesPerDay - 1) :
               LET later == simulate_solution(problem, result.route, t)
               IN  ~ later.ok

(* The exact solver finds a route whenever there is one, and nothing that  *)
(* can be done is better: neither the pruning of a cell by its frontier    *)
(* nor the bisection over start times (which rests on feasibility, and on  *)
(* the coverage of optional locations, never growing with the start time)  *)
(* loses the optimum.                                                      *)
ExactIsOptimal ==
  pc = "done" /\ solver = "exact" /\ result # Cancelled /\ problem.n <= ExactMaxLocations =>
    IF result.ok
    THEN /\ result.metrics \in Possible(problem)
         /\ \A m \in Possible(problem) : ~ Better(problem, m, result.metrics)
    ELSE Possible(problem) = {}

(* The annealing search agrees with the objective: a route it holds is     *)
(* free of penalties exactly when it can be driven, its order is one the   *)
(* problem allows, and neither the initial route nor any route it accepted *)
(* is better than the best it reports.  A nested evaluation that the token *)
(* interrupts is exempt.                                                   *)
BestIsKept ==
  pc \in {"loop", "finish", "verify"} /\ ~ cancelled =>
    LET m == evaluate_solution(problem, route)
    IN  /\ validate_visit_order(problem, route)
        /\ ConstraintFree(PenalisedRoute(problem, route)) <=> m.ok
        /\ m.ok => best.ok /\ ~ Better(problem, m, best.metrics)
        /\ initial.ok => best.ok /\ ~ Better(problem, initial.metrics, best.metrics)

(* A search that was interrupted in its loop still answers with the best   *)
(* route it found: it is "Cancelled" only when the token was set before    *)
(* the first evaluation or after the loop had ended on its own, and        *)
(* without a route only when it never evaluated a feasible one.            *)
InterruptedKeepsItsBest ==
  pc = "done" /\ solver = "annealing" =>
    /\ interrupted => result = IF best.ok THEN best ELSE NoFeasibleRoute
    /\ result.ok /\ initial.ok => ~ Better(problem, initial.metrics, result.metrics)
    /\ best.ok => result.ok \/ result = Cancelled

(* Nothing better than the answer is dropped, neither by the loop nor by   *)
(* its interruption (AnnealingSolver::solve).                              *)
NothingBetterIsDropped == BestIsKept /\ InterruptedKeepsItsBest

(* The trees and tours behind the initial routes: Prim's tree weighs what  *)
(* the lightest spanning tree weighs, the matching what the lightest       *)
(* perfect matching of its odd vertices does, the Eulerian tour uses each  *)
(* edge once and returns, and the route every strategy hands to the search *)
(* visits every location once between the fixed endpoints.                 *)
InitialRoutesAreTours ==
  /\ pc = "generate" /\ ~ cancelled /\ start = "christofides" /\ AllReachable(problem) =>
       LET tree     == minimum_spanning_tree(problem.n, Distances(problem))
           odd      == odd_degree_vertices(problem.n, tree)
           matching == bit_dp_matching(odd, Distances(problem))
           edges    == EulerianEdges(problem)
           tour     == eulerian_multigraph_tour(edges)
       IN  /\ \A T \in SpanningTrees(problem.n) : Weight(tree) <= PairWeight(problem, T)
           /\ \A M \in PerfectMatchings(odd) : Weight(matching) <= PairWeight(problem, M)
           /\ UNION {{e[1], e[2]} : e \in ToSet(matching)} = odd
           /\ Len(tour) = Len(edges) + 1 /\ Head(tour) = 0 /\ Last(tour) = 0
           /\ \A k \in 1 .. Len(edges) :
                \E e \in ToSet(edges) : {e[1], e[2]} = {tour[k], tour[k + 1]}
  /\ pc = "initial" =>
       /\ ToSet(route) = Locations(problem) /\ Len(route) = problem.n
       /\ Head(route) = 0 /\ Last(route) = End(problem)

(* Every call answers: the bisection never stays at the same two bounds,   *)
(* every cluster is solved and the annealing loop ends.                    *)
SearchEnds == <>(pc = "done")
=============================================================================
