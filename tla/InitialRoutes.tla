---------------------------- MODULE InitialRoutes ----------------------------
(***************************************************************************)
(* The generators of initial routes (src/solver/initial/): nearest         *)
(* neighbour, doubled minimum spanning tree, Christofides and a random     *)
(* order.  They ignore opening hours: a route only has to visit everything *)
(* between the fixed endpoints.                                            *)
(*                                                                         *)
(* An edge is <<from, to, distance>>; nodes are numbered from 0.           *)
(***************************************************************************)
EXTENDS RouteProblem

(* unwrap_or(u32::MAX): unreachable sorts after every travel time. *)
OrMax(minutes) == IF minutes = None THEN 2^30 ELSE minutes

(* min_by_key over distinct keys. *)
LexLess(a, b) ==
  \E i \in DOMAIN a : a[i] < b[i] /\ \A j \in 1 .. (i - 1) : a[j] = b[j]

MinByKey(S, key(_)) == CHOOSE x \in S : \A y \in S \ {x} : LexLess(key(x), key(y))

SortByKey(S, key(_)) == SetToSortSeq(S, LAMBDA x, y : LexLess(key(x), key(y)))

Intermediate(p) == 1 .. (End(p) - 1)

Routed(route) == [ok |-> TRUE, route |-> route]

(* Greedy: the nearest location next, then the one that closes first. *)
greedy(p) ==
  LET nearest(r, k) ==
        Append(r, MinByKey(Intermediate(p) \ ToSet(r),
                           LAMBDA i : <<OrMax(p.travel[Last(r)][i]), p.close[i], i>>))
      visited == FoldLeft(nearest, <<0>>, [k \in Intermediate(p) |-> k])
  IN  Routed(IF p.n = 1 THEN <<0>> ELSE Append(visited, End(p)))

(* Random: the intermediate locations in any order. *)
random(p) ==
  {Routed(IF p.n = 1 THEN <<0>> ELSE <<0>> \o r \o <<End(p)>>) : r \in SetToSeqs(Intermediate(p))}

-----------------------------------------------------------------------------
(* Minimum spanning trees *)

(* AverageSymmetricDistance *)
symmetric_distance(p, i, j) == (p.travel[i][j] + p.travel[j][i]) \div 2

Distances(p) == [i, j \in Locations(p) |-> symmetric_distance(p, i, j)]

(* directed_pair fails on a missing arc, and the tree asks for every pair. *)
AllReachable(p) == \A i, j \in Locations(p) : p.travel[i][j] # None

(* Prim's algorithm: the nearest node joins the tree and takes over the    *)
(* nodes it is closer to, or as close with a smaller index.                *)
minimum_spanning_tree(n, d) ==
  LET join(t, k) ==
        LET next == MinByKey((0 .. (n - 1)) \ t.included, LAMBDA v : <<t.best[v], v>>)
            closer(v) == \/ d[next, v] < t.best[v]
                         \/ d[next, v] = t.best[v] /\ next < t.parent[v]
            taken == {v \in (0 .. (n - 1)) \ (t.included \union {next}) : closer(v)}
        IN  [included |-> t.included \union {next},
             best     |-> [v \in DOMAIN t.best |-> IF v \in taken THEN d[next, v] ELSE t.best[v]],
             parent   |-> [v \in DOMAIN t.parent |-> IF v \in taken THEN next ELSE t.parent[v]],
             edges    |-> Append(t.edges, <<t.parent[next], next, t.best[next]>>)]
      root == [included |-> {0}, best |-> [v \in 1 .. (n - 1) |-> d[0, v]],
               parent |-> [v \in 1 .. (n - 1) |-> 0], edges |-> <<>>]
  IN  FoldLeft(join, root, [k \in 1 .. (n - 1) |-> k]).edges

(* The neighbours of a node as <<distance, node, edge>>, nearest first. *)
Adjacency(edges, v) ==
  SortByKey({<<edges[e][3], edges[e][2], e>> : e \in {k \in DOMAIN edges : edges[k][1] = v}}
              \union {<<edges[e][3], edges[e][1], e>> : e \in {k \in DOMAIN edges : edges[k][2] = v}},
            LAMBDA a : a)

(* The walk around a tree, every edge in both directions. *)
doubled_tree_euler_tour(n, edges) ==
  LET walk[v \in 0 .. (n - 1), from \in {None} \union (0 .. (n - 1))] ==
        LET children == SelectSeq(Adjacency(edges, v), LAMBDA a : a[2] # from)
        IN  FoldLeft(LAMBDA tour, a : tour \o walk[a[2], v] \o <<v>>, <<v>>, children)
  IN  walk[0, None]

(* Seeded fault: only immediate repetitions are cut short. *)
shortcut_euler_tour_adjacent(tour) ==
  FoldLeft(LAMBDA r, v : IF r # <<>> /\ Last(r) = v THEN r ELSE Append(r, v), <<>>, tour)

(* The nodes of a tour in the order they are first met. *)
shortcut_euler_tour(tour) ==
  FoldLeft(LAMBDA r, v : IF v \in ToSet(r) THEN r ELSE Append(r, v), <<>>, tour)

move_fixed_destination_to_end(p, r) ==
  IF p.n = 1 THEN r ELSE Append(SelectSeq(r, LAMBDA i : i # End(p)), End(p))

mst_double_tree(p) ==
  LET edges == minimum_spanning_tree(p.n, Distances(p))
      tour  == doubled_tree_euler_tour(p.n, edges)
  IN  IF ~ AllReachable(p) THEN NoFeasibleRoute
      ELSE Routed(move_fixed_destination_to_end(p, shortcut_euler_tour(tour)))

-----------------------------------------------------------------------------
(* Christofides *)

Degree(edges, v) == Len(Adjacency(edges, v))

odd_degree_vertices(n, edges) == {v \in 0 .. (n - 1) : Degree(edges, v) % 2 = 1}

(* The dynamic program over matched sets: the lowest unmatched vertex is   *)
(* matched next, and a set keeps the first of its cheapest predecessors.   *)
bit_dp_matching(odd, d) ==
  LET number(S) == MapThenSumSet(LAMBDA v : 2^v, S)
      dp[S \in SUBSET odd] ==
        LET steps == {s \in (SUBSET S) \X S :
                        /\ odd \ s[1] # {}
                        /\ LET lowest == Min(odd \ s[1])
                           IN  /\ lowest < s[2] /\ s[2] \in odd \ s[1]
                               /\ S = s[1] \union {lowest, s[2]}}
            from(s)  == dp[s[1]]
            pair(s)  == <<Min(odd \ s[1]), s[2], d[Min(odd \ s[1]), s[2]]>>
            live     == {s \in steps : from(s).cost # None}
            first    == MinByKey(live, LAMBDA s : <<from(s).cost + pair(s)[3], number(s[1])>>)
        IN  IF S = {} THEN [cost |-> 0, edges |-> <<>>]
            ELSE IF live = {} THEN [cost |-> None, edges |-> <<>>]
            ELSE [cost  |-> from(first).cost + pair(first)[3],
                  edges |-> Append(from(first).edges, pair(first))]
  IN  dp[odd].edges

(* Hierholzer: follow the first unused edge, step back when there is none. *)
eulerian_multigraph_tour(edges) ==
  LET step(s, k) ==
        LET v      == Last(s.stack)
            unused == SelectSeq(Adjacency(edges, v), LAMBDA a : a[3] \notin s.used)
        IN  IF unused # <<>>
            THEN [s EXCEPT !.stack = Append(@, Head(unused)[2]), !.used = @ \union {Head(unused)[3]}]
            ELSE [s EXCEPT !.stack = Front(@), !.tour = Append(@, v)]
      walked == FoldLeft(step, [stack |-> <<0>>, used |-> {}, tour |-> <<>>],
                         [k \in 1 .. (2 * Len(edges) + 1) |-> k])
  IN  Reverse(walked.tour)

EulerianEdges(p) ==
  LET tree == minimum_spanning_tree(p.n, Distances(p))
  IN  tree \o bit_dp_matching(odd_degree_vertices(p.n, tree), Distances(p))

christofides(p) ==
  IF ~ AllReachable(p) THEN NoFeasibleRoute
  ELSE Routed(move_fixed_destination_to_end(
                p, shortcut_euler_tour(eulerian_multigraph_tour(EulerianEdges(p)))))
=============================================================================
