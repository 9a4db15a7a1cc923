-------------------------- MODULE RequestValidation --------------------------
(***************************************************************************)
(* The request of a client and what becomes of it (src/api.rs): process    *)
(* defaults, validation, the problem that is solved and the response.      *)
(*                                                                         *)
(* A request r has r.locations, a sequence of                              *)
(*   [id, texts, place_id, coordinates, open, close, stay, required,       *)
(*    priority]                                                            *)
(* where texts says that the strings are short enough and place_id that it *)
(* is not blank; an absent `required' is Nothing, an absent number None.   *)
(* r.supplied is the set of forms in which it holds a matrix, and r.travel *)
(* that matrix; without one it is the times the provider will give, or the *)
(* minutes between the coordinates when the straight line is asked for.    *)
(***************************************************************************)
EXTENDS RouteProblem, ProviderSelection

CONSTANTS
  MAX_LOCATIONS,                    \* 500 in the code
  INPUT_TIME_GRANULARITY_MINUTES    \* 10 in the code

ASSUME RequestAssumption ==
  MAX_LOCATIONS \in Nat /\ INPUT_TIME_GRANULARITY_MINUTES \in Nat \ {0}

MAX_DEBUG_JOB_DURATION_MS == 60000

apply_request_defaults(conf, r) ==
  IF conf.default_euclidean_matrix /\ r.supplied = {}
  THEN [r EXCEPT !.use_euclidean_matrix = TRUE] ELSE r

-----------------------------------------------------------------------------
(* TryFrom<OptimizeRouteRequest> for OptimizationProblem: what it accepts. *)

(* The zone of a country that has one; the code is not trimmed here. *)
CountryZone(country) ==
  CASE country = [code |-> "KR", padded |-> FALSE] -> "Asia/Seoul"
    [] country = [code |-> "JP", padded |-> FALSE] -> "Asia/Tokyo"
    [] OTHER -> Nothing

(* requested_routing_departure; r.local is what the zone makes of the      *)
(* local departure time.                                                   *)
DepartureAccepted(r) ==
  \/ r.travel_date = Nothing /\ r.time_zone = Nothing
  \/ /\ r.travel_date \notin {Nothing, "invalid"}
     /\ r.time_zone \notin {Nothing, "invalid"}
     /\ CountryZone(r.country_code) \in {Nothing, r.time_zone}
     /\ r.local = "single"

(* Seeded fault: coordinates and a matrix are not recognised as a conflict. *)
MatrixAccepted_lenient(r) ==
  LET all == 0 .. (Len(r.locations) - 1)
  IN  /\ r.supplied # {"dense", "sparse"}
      /\ r.supplied # {} =>
           /\ DOMAIN r.travel = all
           /\ \A i \in all : DOMAIN r.travel[i] = all /\ r.travel[i][i] = 0

MatrixAccepted(r) ==
  LET all == 0 .. (Len(r.locations) - 1)
  IN  /\ r.supplied # {"dense", "sparse"}
      /\ r.use_euclidean_matrix => r.supplied = {}
      /\ r.supplied # {} =>
           /\ DOMAIN r.travel = all
           /\ \A i \in all : DOMAIN r.travel[i] = all /\ r.travel[i][i] = 0

(* Seeded fault: a straight line without coordinates is let pass. *)
CoordinatesAccepted_either(r, l) == l.coordinates \in {"complete", "none"}

CoordinatesAccepted(r, l) ==
  l.coordinates = "complete" \/ (l.coordinates = "none" /\ ~ r.use_euclidean_matrix)

LocationAccepted(r, k) ==
  LET l == r.locations[k]
      endpoint == k \in {1, Len(r.locations)}
      aligned(t) == t % INPUT_TIME_GRANULARITY_MINUTES = 0
  IN  /\ l.id # Nothing /\ l.texts
      /\ r.supplied = {} /\ ~ r.use_euclidean_matrix => l.place_id
      /\ CoordinatesAccepted(r, l)
      /\ \A j \in 1 .. (k - 1) : r.locations[j].id # l.id
      /\ aligned(l.open) /\ aligned(l.close) /\ aligned(l.stay)
      /\ l.required = "false" => ~ endpoint /\ r.visit_policy = "BEST_EFFORT_ON_FAILURE"
      /\ l.priority = None \/ l.priority \in 1 .. 100
      /\ l.open <= l.close

(* Seeded fault: a country is taken as it is written. *)
CountryAccepted_any(r) == TRUE

CountryAccepted(r) ==
  r.country_code = NoCountry \/ normalize_country_code(r.country_code) # InvalidCountry

RequestAccepted(r) ==
  /\ r.job_id
  /\ CountryAccepted(r)
  /\ DepartureAccepted(r)
  /\ r.min_job_duration_ms <= MAX_DEBUG_JOB_DURATION_MS
  /\ Len(r.locations) \in 2 .. MAX_LOCATIONS
  /\ r.start_policy = "FIXED" => r.start_time # None
  /\ MatrixAccepted(r)
  /\ \A k \in DOMAIN r.locations : LocationAccepted(r, k)

OrDefault(value, default) == IF value = Nothing THEN default ELSE value

(* The straight-line estimate: square, and at least a minute apart. *)
travel_time_rows(r) ==
  LET all == 0 .. (Len(r.locations) - 1)
  IN  [i \in all |-> [j \in all |-> IF i = j THEN 0 ELSE Later(1, r.travel[i][j])]]

(* The problem of an accepted request, with the times it is solved with. *)
try_from(r) ==
  LET n == Len(r.locations)
      visit_policy == OrDefault(r.visit_policy, "ALL_REQUIRED")
      field(f(_)) == [i \in 0 .. (n - 1) |-> f(r.locations[i + 1])]
  IN  [n |-> n, travel |-> IF r.use_euclidean_matrix THEN travel_time_rows(r) ELSE r.travel,
       open |-> field(LAMBDA l : l.open), close |-> field(LAMBDA l : l.close),
       stay |-> field(LAMBDA l : l.stay),
       priority |-> field(LAMBDA l : IF l.priority = None THEN 1 ELSE l.priority),
       required |-> {i \in 0 .. (n - 1) :
                       \/ visit_policy = "ALL_REQUIRED" \/ i \in {0, n - 1}
                       \/ r.locations[i + 1].required = "true"},
       start_time |-> IF r.start_time = None THEN 0 ELSE r.start_time,
       start_policy |-> OrDefault(r.start_policy, "LATEST"), visit_policy |-> visit_policy]

context_of(r) ==
  [country |-> r.country_code, mode |-> OrDefault(r.travel_mode, "TRANSIT"),
   override |-> r.route_provider]

(* Where the matrix comes from; nowhere means from the provider. *)
LocalSources(r) == r.supplied \union (IF r.use_euclidean_matrix THEN {"euclidean"} ELSE {})

-----------------------------------------------------------------------------
(* The response.  A selection that is not ok stands for none. *)

from_plan(p, plan, order, start) ==
  [route |-> order, schedule |-> plan, selected_start_time |-> start,
   skipped_locations |-> IF p.visit_policy = "ALL_REQUIRED" THEN {}
                         ELSE (Locations(p) \ p.required) \ ToSet(order)]

set_provider_metadata(response, selection, r) ==
  LET metadata ==
        IF ~ selection.ok THEN [provider |-> Nothing]
        ELSE [provider |-> selection.provider, source |-> selection.source,
              country |-> IF r.country_code = NoCountry THEN Nothing
                          ELSE normalize_country_code(r.country_code),
              mode |-> context_of(r).mode]
  IN  [x \in DOMAIN response \union DOMAIN metadata |->
         IF x \in DOMAIN response THEN response[x] ELSE metadata[x]]
=============================================================================
