--------------------------- MODULE ClusteredSolver ---------------------------
(***************************************************************************)
(* The parts of the clustered solver (src/solver/heuristic/clustered/):    *)
(* locations are gathered into clusters, the clusters are put in order and *)
(* each is solved exactly between the location before it and the nearest   *)
(* location of the cluster after it.  RouteSearch runs the steps.          *)
(***************************************************************************)
EXTENDS ExactSolver, InitialRoutes

CONSTANT MaxClusterSize   \* max_cluster_size, at most EXACT_MAX_LOCATIONS - 2

ASSUME MaxClusterSizeAssumption == MaxClusterSize \in Nat \ {0}

(* TravelTimeClusterStrategy: the smallest location left opens a cluster,  *)
(* the nearest one follows while there is room.                            *)
cluster(p) ==
  LET add(cs, k) ==
        LET left == Intermediate(p) \ UNION {ToSet(cs[c]) : c \in DOMAIN cs}
            near == MinByKey(left, LAMBDA i : <<OrMax(p.travel[Last(Last(cs))][i]), i>>)
        IN  IF cs = <<>> \/ Len(Last(cs)) = MaxClusterSize
            THEN Append(cs, <<Min(left)>>)
            ELSE Append(Front(cs), Append(Last(cs), near))
  IN  FoldLeft(add, <<>>, [k \in Intermediate(p) |-> k])

(* GreedyClusterOrderStrategy: the cluster with the shortest bridge next.  *)
GreedyOrder(p, cs) ==
  LET bridge(from, c) == Min({OrMax(p.travel[i][j]) : i \in from, j \in ToSet(cs[c])})
      next(o, k) ==
        LET from == IF o = <<>> THEN {0} ELSE ToSet(cs[Last(o)])
        IN  Append(o, MinByKey(DOMAIN cs \ ToSet(o), LAMBDA c : <<bridge(from, c), c>>))
  IN  FoldLeft(next, <<>>, [k \in DOMAIN cs |-> k])

(* MstClusterOrderStrategy: the clusters in the order a doubled tree over  *)
(* them and the start meets them.                                          *)
MstOrder(p, cs) ==
  LET members(c) == IF c = 0 THEN {0} ELSE ToSet(cs[c])
      n          == Len(cs) + 1
      d          == [a, b \in 0 .. Len(cs) |->
                      Min({symmetric_distance(p, i, j) : i \in members(a), j \in members(b)})]
      tour       == doubled_tree_euler_tour(n, minimum_spanning_tree(n, d))
  IN  SelectSeq(shortcut_euler_tour(tour), LAMBDA c : c # 0)

(* The clusters in visit order.  The tree strategy needs every arc between *)
(* two of its nodes.                                                       *)
OrderedClusters(p, strategy) ==
  LET cs    == cluster(p)
      order == IF strategy = "greedy_bridge" THEN GreedyOrder(p, cs) ELSE MstOrder(p, cs)
  IN  [k \in DOMAIN order |-> cs[order[k]]]

MstOrderFails(p) ==
  \E i, j \in Locations(p) \ {End(p)} :
    /\ ~ \E c \in DOMAIN cluster(p) : {i, j} \subseteq ToSet(cluster(p)[c])
    /\ p.travel[i][j] = None

(* solve_cluster: the previous location becomes an anchor that is already  *)
(* serviced, a dummy exit stands for the nearest of the next locations.    *)
Subproblem(p, previous, time, members, next) ==
  LET n       == Len(members) + 2
      exit    == n - 1
      real(i) == IF i = 0 THEN previous ELSE members[i]
      bridges(i) == {p.travel[real(i)][j] : j \in next} \ {None}
      arc(i, j) == CASE i = j    -> 0
                     [] i = exit -> None
                     [] j = exit -> IF bridges(i) = {} THEN None ELSE Min(bridges(i))
                     [] OTHER    -> p.travel[real(i)][real(j)]
      inner(i) == i \notin {0, exit}
      Nodes   == 0 .. exit
  IN  [n            |-> n,
       travel       |-> [i \in Nodes |-> [j \in Nodes |-> arc(i, j)]],
       open         |-> [i \in Nodes |-> IF inner(i) THEN p.open[members[i]] ELSE 0],
       close        |-> [i \in Nodes |-> IF inner(i) THEN p.close[members[i]] ELSE MinutesPerDay - 1],
       stay         |-> [i \in Nodes |-> IF inner(i) THEN p.stay[members[i]] ELSE 0],
       priority     |-> [i \in Nodes |-> IF inner(i) THEN p.priority[members[i]] ELSE 1],
       required     |-> {i \in Nodes : inner(i) => members[i] \in p.required},
       start_time   |-> time,
       start_policy |-> "FIXED",
       visit_policy |-> "ALL_REQUIRED"]

(* The members in the order the exact solver visits them. *)
solve_cluster(p, previous, time, members, next) ==
  LET found == search_at_start(Subproblem(p, previous, time, members, next), time)
  IN  IF ~ found.ok THEN found
      ELSE Routed([k \in 1 .. Len(members) |-> members[found.route[k + 1]]])

Swap(r, i, j) == [r EXCEPT ![i] = r[j], ![j] = r[i]]
=============================================================================
