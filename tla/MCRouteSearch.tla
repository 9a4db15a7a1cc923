---------------------------- MODULE MCRouteSearch ----------------------------
EXTENDS RouteSearch

X == None

Row(ts) == [j \in 0 .. (Len(ts) - 1) |-> ts[j + 1]]

Matrix(rows) == [i \in 0 .. (Len(rows) - 1) |-> Row(rows[i + 1])]

(* Asymmetric, with ties and zero arcs; one-way streets; a star around 1.  *)
Four ==
  {Matrix(<<<<0, 1, 2, 1>>, <<2, 0, 1, 2>>, <<1, 1, 0, 1>>, <<3, 0, 2, 0>>>>),
   Matrix(<<<<0, 1, 1, X>>, <<X, 0, 3, 1>>, <<2, 1, 0, X>>, <<X, X, X, 0>>>>),
   Matrix(<<<<0, 1, 4, 4>>, <<1, 0, 1, 1>>, <<4, 1, 0, 4>>, <<4, 1, 4, 0>>>>)}

Five ==
  {Matrix(<<<<0, 2, 1, 3, 1>>, <<1, 0, 1, 2, 2>>, <<2, 1, 0, 1, 3>>, <<1, 1, 2, 0, 1>>,
            <<2, 2, 3, 1, 0>>>>),
   Matrix(<<<<0, 2, 1, 4, 4>>, <<1, 0, 2, 2, 4>>, <<1, 1, 0, 1, 4>>, <<1, 1, 1, 0, 1>>,
            <<1, 1, 1, 1, 0>>>>),
   Matrix([i \in 1 .. 5 |-> [j \in 1 .. 5 |-> IF i = j THEN 0 ELSE 1]])}

Hours(n, open, close, stay) ==
  [open  |-> [i \in 0 .. (n - 1) |-> open[i + 1]],
   close |-> [i \in 0 .. (n - 1) |-> close[i + 1]],
   stay  |-> [i \in 0 .. (n - 1) |-> stay[i + 1]]]

(* Open all day; late openings that make a route wait; a first stop that   *)
(* closes early; a start and a destination with short hours.               *)
FourHours ==
  {Hours(4, <<0, 0, 0, 0>>, <<9, 9, 9, 9>>, <<0, 1, 1, 0>>),
   Hours(4, <<0, 4, 0, 0>>, <<9, 7, 9, 8>>, <<1, 1, 1, 0>>),
   Hours(4, <<2, 0, 5, 0>>, <<5, 5, 9, 9>>, <<1, 0, 1, 1>>),
   Hours(4, <<0, 0, 0, 6>>, <<3, 4, 4, 8>>, <<1, 1, 1, 1>>)}

FiveHours ==
  {Hours(5, <<0, 3, 0, 0, 0>>, <<4, 9, 6, 9, 9>>, <<0, 1, 1, 0, 0>>),
   Hours(5, <<0, 0, 5, 0, 0>>, <<9, 9, 8, 3, 9>>, <<0, 1, 1, 1, 0>>),
   Hours(5, <<0, 0, 3, 0, 8>>, <<9, 9, 9, 9, 9>>, <<0, 0, 0, 0, 0>>)}

Problem(n, travel, hours, start_time, start_policy, required) ==
  [n |-> n, travel |-> travel, open |-> hours.open, close |-> hours.close,
   stay |-> hours.stay, priority |-> [i \in 0 .. (n - 1) |-> 1 + (i % 2)],
   required |-> required, start_time |-> start_time, start_policy |-> start_policy,
   visit_policy |-> IF required = 0 .. (n - 1) THEN "ALL_REQUIRED" ELSE "BEST_EFFORT_ON_FAILURE"]

MCProblems ==
  {Problem(4, m, h, 1, s, required) :
     m \in Four, h \in FourHours, s \in {"EARLIEST", "LATEST"},
     required \in {0 .. 3, {0, 3}, {0, 2, 3}}}
  \union {Problem(5, m, h, 0, s, required) :
            m \in Five, h \in FiveHours, s \in {"FIXED", "LATEST"}, required \in {0 .. 4}}
  \union {Problem(5, m, h, 0, "LATEST", {0, 2, 4}) : m \in Five, h \in FiveHours}
  \union {Problem(1, Matrix(<<<<0>>>>), Hours(1, <<3>>, <<c>>, <<1>>), 0, s, {0}) :
            c \in {3, 8}, s \in {"FIXED", "LATEST"}}
  \union {Problem(6, [i \in 0 .. 5 |-> [j \in 0 .. 5 |-> IF i = j THEN 0 ELSE IF i < j THEN 1 ELSE X]],
                  Hours(6, <<0, 0, 0, 0, 0, 0>>, <<9, 9, 9, 9, 9, 9>>, <<0, 0, 0, 0, 0, 0>>),
                  0, "FIXED", 0 .. 5)}
=============================================================================
