----------------------- MODULE MCOptimizationPipeline ------------------------
EXTENDS OptimizationPipeline

X == None

Per(ts) == [j \in 0 .. (Len(ts) - 1) |-> ts[j + 1]]

Matrix(ts) == [i \in 0 .. (Len(ts) - 1) |-> Per(ts[i + 1])]

Two == Matrix(<<<<0, 10>>, <<10, 0>>>>)

Three == Matrix(<<<<0, 2, 4>>, <<2, 0, 2>>, <<4, 2, 0>>>>)

Four == Matrix(<<<<0, 2, 6, 4>>, <<2, 0, 2, 4>>, <<6, 4, 0, 2>>, <<4, 4, 2, 0>>>>)

OneWay == Matrix(<<<<0, 2, 2, X>>, <<X, 0, 6, 2>>, <<4, 2, 0, X>>, <<X, X, X, 0>>>>)

-----------------------------------------------------------------------------
(* Requests *)

(* hours: a triple <<open, close, stay>> per location. *)
Location(k, hours) ==
  [id |-> <<"a", "b", "c", "d", "e">>[k], texts |-> TRUE, place_id |-> TRUE,
   coordinates |-> "complete", open |-> hours[1], close |-> hours[2], stay |-> hours[3],
   required |-> Nothing, priority |-> None]

Request(travel, hours, start_time, start_policy) ==
  [job_id |-> TRUE, country_code |-> NoCountry, travel_date |-> Nothing, time_zone |-> Nothing,
   local |-> "single", min_job_duration_ms |-> 0, shuffle |-> FALSE,
   locations |-> [k \in 1 .. Len(hours) |-> Location(k, hours[k])],
   start_time |-> start_time, start_policy |-> start_policy, visit_policy |-> Nothing,
   travel_mode |-> Nothing, route_provider |-> Nothing, use_euclidean_matrix |-> FALSE,
   supplied |-> {}, travel |-> travel]

(* Tight at the destination, so that later times can break it. *)
Tight(policy) == Request(Three, <<<<0, 18, 0>>, <<0, 18, 2>>, <<0, 12, 2>>>>, 2, policy)

Dated(r) == [r EXCEPT !.travel_date = "valid", !.time_zone = "Asia/Tokyo"]

Supplied(r, form) == [r EXCEPT !.supplied = {form}]

(* Hours of four locations: a second stop that closes early, a late        *)
(* opening, a stay that is too long, a destination that closes early, and  *)
(* a whole that is too long for the day.                                   *)
FourHours ==
  {<<<<0, 18, 0>>, <<0, 4, 2>>, <<0, 18, 2>>, <<0, 18, 0>>>>,
   <<<<0, 18, 0>>, <<8, 14, 2>>, <<0, 18, 2>>, <<0, 16, 0>>>>,
   <<<<0, 18, 0>>, <<0, 18, 0>>, <<10, 12, 6>>, <<0, 18, 0>>>>,
   <<<<0, 18, 0>>, <<8, 18, 2>>, <<0, 18, 2>>, <<0, 12, 2>>>>,
   <<<<0, 18, 0>>, <<0, 18, 6>>, <<0, 18, 6>>, <<0, 8, 0>>>>,
   <<<<0, 18, 0>>, <<0, 18, 2>>, <<0, 18, 2>>, <<0, 18, 0>>>>}

(* The client lets the second stop go. *)
Optional(r) ==
  [r EXCEPT !.visit_policy = "BEST_EFFORT_ON_FAILURE", !.locations[3].required = "true"]

Fours ==
  LET all == {Supplied(Request(m, h, t, s), "sparse") :
                m \in {Four, OneWay}, h \in FourHours, t \in {0, 4}, s \in {"FIXED", "LATEST"}}
  IN  all \union {Optional(r) : r \in all} \union {[r EXCEPT !.shuffle = TRUE] : r \in all}

Small == Request(Two, <<<<0, 18, 0>>, <<0, 8, 0>>>>, 2, "EARLIEST")

(* One step past every limit of the validation. *)
Invalid ==
  LET r == Tight("FIXED")
      m == Supplied(r, "dense")
  IN  {[r EXCEPT !.job_id = FALSE], [r EXCEPT !.country_code = Written("XX")],
       [r EXCEPT !.travel_date = "valid"], [r EXCEPT !.time_zone = "Asia/Seoul"],
       [Dated(r) EXCEPT !.travel_date = "invalid"], [Dated(r) EXCEPT !.time_zone = "invalid"],
       [Dated(r) EXCEPT !.country_code = Written("KR")], [Dated(r) EXCEPT !.local = "ambiguous"],
       [r EXCEPT !.min_job_duration_ms = MAX_DEBUG_JOB_DURATION_MS + 1],
       [r EXCEPT !.locations = <<@[1]>>], [r EXCEPT !.locations = @ \o @],
       [r EXCEPT !.start_time = None], [m EXCEPT !.supplied = {"dense", "sparse"}],
       [m EXCEPT !.use_euclidean_matrix = TRUE], [m EXCEPT !.travel = Two],
       [m EXCEPT !.travel[1][1] = 2], [m EXCEPT !.travel[1][1] = X],
       [m EXCEPT !.travel = [@ EXCEPT ![1] = Two[1]]],
       [r EXCEPT !.locations[2].id = Nothing], [r EXCEPT !.locations[2].id = "a"],
       [r EXCEPT !.locations[2].texts = FALSE], [r EXCEPT !.locations[2].place_id = FALSE],
       [r EXCEPT !.locations[2].coordinates = "incomplete"],
       [r EXCEPT !.use_euclidean_matrix = TRUE, !.locations[2].coordinates = "none"],
       [r EXCEPT !.locations[2].open = 1], [r EXCEPT !.locations[2].close = 17],
       [r EXCEPT !.locations[2].stay = 1], [r EXCEPT !.locations[2].open = 20],
       [r EXCEPT !.locations[2].priority = 0], [r EXCEPT !.locations[2].required = "false"],
       [Optional(r) EXCEPT !.locations[1].required = "false"]}

-----------------------------------------------------------------------------
(* Configurations *)

Default ==
  [mode |-> "auto", policy |-> NoPolicy, legacy |-> Nothing, override_enabled |-> TRUE,
   registry |-> default_registry, default_euclidean_matrix |-> FALSE]

Policy(countries, mode_defaults, default_provider) ==
  [countries |-> countries, mode_defaults |-> mode_defaults, default_provider |-> default_provider]

(* A rule that the legacy setting must leave alone, a country with only a  *)
(* default, a default per mode and no global one; a policy that says       *)
(* nothing; one with two spellings of a country, and one that names an     *)
(* unknown provider.                                                       *)
Policies ==
  LET jp(modes, default) == [modes |-> modes, default_provider |-> default]
      padded == [code |-> "JP", padded |-> TRUE]
  IN  {Policy(padded :> jp("TRANSIT" :> "navitime", "kakao-mobility"), "WALKING" :> "google",
              Nothing),
       Policy(<<>>, <<>>, Nothing),
       Policy(Written("JP") :> jp("TRANSIT" :> "otp", Nothing) @@ padded :> NoCountryPolicy, <<>>,
              "google"),
       Policy(<<>>, <<>>, "unknown")}

Configurations ==
  {Default, [Default EXCEPT !.override_enabled = FALSE], [Default EXCEPT !.mode = "ekispert"],
   [Default EXCEPT !.mode = "unknown"], [Default EXCEPT !.legacy = "otp"],
   [Default EXCEPT !.legacy = "kakao-mobility"],
   [Default EXCEPT !.registry = set_availability(@, "google", FALSE)],
   [Default EXCEPT !.default_euclidean_matrix = TRUE]}
  \union {[Default EXCEPT !.policy = p, !.legacy = l] : p \in Policies, l \in {Nothing, "otp"}}

Routed ==
  {[Small EXCEPT !.country_code = c, !.travel_mode = m, !.route_provider = o] :
     c \in {NoCountry, Written("JP"), [code |-> "KR", padded |-> TRUE]},
     m \in {Nothing, "DRIVING", "WALKING"}, o \in {Nothing, "kakao-maps"}}

-----------------------------------------------------------------------------
(* Refused, none, a minute, a second more than five, and more than fits. *)
MCDurations == {-1, 0, 60, 301, 999}

(* The last has a stop that makes the route wait and a destination that    *)
(* closes before it can be reached.                                        *)
MCCases ==
  {<<Default, r>> : r \in
     Fours \union Invalid \union {Dated(Tight(s)) : s \in {"FIXED", "LATEST"}}
     \union {[Dated(Tight("FIXED")) EXCEPT !.use_euclidean_matrix = TRUE],
             [Tight(Nothing) EXCEPT !.locations[3].close = 6],
             [Tight(Nothing) EXCEPT !.start_time = None, !.use_euclidean_matrix = TRUE,
                                    !.travel[0][1] = 0],
             [Supplied(Tight("LATEST"), "dense") EXCEPT !.locations[2].priority = 100],
             Supplied(Request(Three, <<<<0, 18, 0>>, <<14, 18, 0>>, <<0, 14, 0>>>>, 10, "FIXED"),
                      "sparse")}}
  \union {<<c, r>> : c \in Configurations, r \in Routed}
  \union {<<[Default EXCEPT !.default_euclidean_matrix = TRUE], Supplied(Tight("FIXED"), form)>> :
            form \in {"dense", "sparse"}}
=============================================================================
