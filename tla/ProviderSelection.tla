-------------------------- MODULE ProviderSelection --------------------------
(***************************************************************************)
(* Which route provider serves a request (src/routing/provider_selection/):*)
(* the policy and the registry, the selector that is built from the        *)
(* configuration when the server starts, its choice for a request, and the *)
(* diagnostics it publishes.                                               *)
(*                                                                         *)
(* A country code as it is written is [code, padded]: the letters in upper *)
(* case, and whether blanks surround them; NoCountry is an absent one.  An *)
(* absent provider, mode or normalized country is Nothing.                 *)
(***************************************************************************)
EXTENDS Naturals, Sequences, FiniteSets, Functions

Nothing == "nothing"

NoCountry == <<>>

NoPolicy == <<>>

Modes == {"TRANSIT", "DRIVING", "WALKING", "BICYCLING"}

(* The countries the policies and requests of an instance name. *)
ISO_COUNTRY_CODES == {"JP", "KR", "FR"}

InvalidCountry == "invalid"

(* Blanks and case do not matter. *)
normalize_country_code(raw) ==
  IF raw.code \in ISO_COUNTRY_CODES THEN raw.code ELSE InvalidCountry

-----------------------------------------------------------------------------
(* Policy and registry *)

NoCountryPolicy == [modes |-> <<>>, default_provider |-> Nothing]

Written(code) == [code |-> code, padded |-> FALSE]

built_in ==
  [countries        |->
     [c \in {Written("JP"), Written("KR")} |->
        [modes |-> [m \in Modes |->
           IF c.code = "JP" THEN IF m = "TRANSIT" THEN "ekispert" ELSE "google"
           ELSE IF m = "DRIVING" THEN "kakao-mobility" ELSE "kakao-maps"],
         default_provider |-> Nothing]],
   mode_defaults    |-> <<>>,
   default_provider |-> "google"]

(* What the type of a policy guarantees. *)
AssignsModes(assigned) ==
  DOMAIN assigned \subseteq Modes /\ \A m \in DOMAIN assigned : assigned[m] # Nothing

IsPolicy(policy) ==
  /\ DOMAIN policy = {"countries", "mode_defaults", "default_provider"}
  /\ \A c \in DOMAIN policy.countries :
       /\ DOMAIN policy.countries[c] = {"modes", "default_provider"}
       /\ AssignsModes(policy.countries[c].modes)
  /\ AssignsModes(policy.mode_defaults)

Registration(capabilities) == [available |-> TRUE, capabilities |-> capabilities]

default_registry ==
  [p \in {"google", "kakao-mobility", "kakao-maps", "ekispert", "navitime", "otp"} |->
     Registration(CASE p = "kakao-mobility"        -> {"DRIVING"}
                    [] p = "kakao-maps"            -> Modes \ {"DRIVING"}
                    [] p \in {"ekispert", "otp"}   -> {"TRANSIT"}
                    [] OTHER                       -> Modes)]

set_availability(registry, provider, available) ==
  IF provider \in DOMAIN registry THEN [registry EXCEPT ![provider].available = available]
  ELSE registry

(* Why the registry refuses a provider, "ok" if it does not. *)
validate_selection(registry, provider, mode) ==
  IF provider \notin DOMAIN registry \/ ~ registry[provider].available
  THEN "ProviderNotConfigured"
  ELSE IF mode \notin registry[provider].capabilities THEN "UnsupportedProviderCapability"
  ELSE "ok"

(* Two spellings of one country are an error. *)
Normalizable(policy) ==
  /\ \A c \in DOMAIN policy.countries : normalize_country_code(c) # InvalidCountry
  /\ \A c, d \in DOMAIN policy.countries :
       c # d => normalize_country_code(c) # normalize_country_code(d)

normalize(policy) ==
  [policy EXCEPT !.countries =
     [k \in {normalize_country_code(c) : c \in DOMAIN @} |->
        @[CHOOSE c \in DOMAIN @ : normalize_country_code(c) = k]]]

Named(policy) ==
  ((UNION {Range(c.modes) \union {c.default_provider} : c \in Range(policy.countries)})
     \union Range(policy.mode_defaults) \union {policy.default_provider}) \ {Nothing}

validate_policy_registry(policy, registry) == Named(policy) \subseteq DOMAIN registry

-----------------------------------------------------------------------------
(* The selector, from ROUTE_PROVIDER, ROUTE_PROVIDER_POLICY_JSON and       *)
(* JAPAN_TRANSIT_PROVIDER: "auto" or a provider, a policy or NoPolicy, a   *)
(* provider or Nothing.                                                    *)

LegacyCountry == "JP"

LegacyMode == "TRANSIT"

(* BTreeMap::insert *)
Inserted(map, key, value) ==
  [k \in DOMAIN map \union {key} |-> IF k = key THEN value ELSE map[k]]

with_legacy(policy, provider) ==
  LET c    == policy.countries
      here == IF LegacyCountry \in DOMAIN c THEN c[LegacyCountry] ELSE NoCountryPolicy
  IN  [policy EXCEPT !.countries =
         Inserted(c, LegacyCountry, [here EXCEPT !.modes = Inserted(@, LegacyMode, provider)])]

ConfigurationError == [ok |-> FALSE]

Selector(conf, policy, legacy) ==
  IF /\ validate_policy_registry(policy, conf.registry)
     /\ conf.mode = "auto" \/ conf.mode \in DOMAIN conf.registry
  THEN [ok |-> TRUE, mode |-> conf.mode, policy |-> policy,
        override_enabled |-> conf.override_enabled, registry |-> conf.registry,
        legacy_routes |-> legacy]
  ELSE ConfigurationError

(* Seeded fault: the legacy setting replaces what a custom policy says. *)
from_config_sources_legacy_first(conf) ==
  LET raw == IF conf.policy = NoPolicy THEN built_in ELSE conf.policy
      own == normalize(raw)
  IN  IF ~ Normalizable(raw) THEN ConfigurationError
      ELSE IF conf.legacy = Nothing THEN Selector(conf, own, {})
      ELSE Selector(conf, with_legacy(own, conf.legacy), {<<LegacyCountry, LegacyMode>>})

from_config_sources(conf) ==
  LET raw == IF conf.policy = NoPolicy THEN built_in ELSE conf.policy
      own == normalize(raw)
      explicitly_configured ==
        /\ conf.policy # NoPolicy
        /\ LegacyCountry \in DOMAIN own.countries
        /\ LegacyMode \in DOMAIN own.countries[LegacyCountry].modes
  IN  IF ~ Normalizable(raw) THEN ConfigurationError
      ELSE IF conf.legacy = Nothing \/ explicitly_configured THEN Selector(conf, own, {})
      ELSE Selector(conf, with_legacy(own, conf.legacy), {<<LegacyCountry, LegacyMode>>})

-----------------------------------------------------------------------------
(* The choice.  A context is [country, mode, override], the country as     *)
(* written.                                                                *)

finish(selector, context, provider, source) ==
  LET verdict == validate_selection(selector.registry, provider, context.mode)
  IN  IF verdict = "ok" THEN [ok |-> TRUE, provider |-> provider, source |-> source]
      ELSE [ok |-> FALSE, error |-> verdict]

(* The entry of the policy for a mode in a normalized country or Nothing,  *)
(* as <<provider, source>>; most specific first.                           *)
PolicyEntry(selector, country, mode) ==
  LET policy == selector.policy
      here   == IF country \in DOMAIN policy.countries THEN policy.countries[country]
                ELSE NoCountryPolicy
  IN  IF mode \in DOMAIN here.modes
      THEN <<here.modes[mode],
             IF <<country, mode>> \in selector.legacy_routes THEN "Legacy" ELSE "CountryMode">>
      ELSE IF here.default_provider # Nothing THEN <<here.default_provider, "CountryDefault">>
      ELSE IF mode \in DOMAIN policy.mode_defaults
      THEN <<policy.mode_defaults[mode], "ModeDefault">>
      ELSE <<policy.default_provider, "GlobalDefault">>

resolve(selector, context) ==
  LET country == IF context.country = NoCountry THEN Nothing
                 ELSE normalize_country_code(context.country)
      entry   == PolicyEntry(selector, country, context.mode)
  IN  IF selector.mode # "auto" THEN finish(selector, context, selector.mode, "GlobalForce")
      ELSE IF context.override # Nothing
      THEN IF selector.override_enabled
           THEN finish(selector, context, context.override, "RequestOverride")
           ELSE [ok |-> FALSE, error |-> "ProviderOverrideDisabled"]
      ELSE IF country = InvalidCountry \/ entry[1] = Nothing
      THEN [ok |-> FALSE, error |-> "ProviderResolution"]
      ELSE finish(selector, context, entry[1], entry[2])

-----------------------------------------------------------------------------
(* Diagnostics: what each entry of the policy says of itself.              *)

route_diagnostic(selector, country, mode, provider) ==
  LET registry == selector.registry
  IN  [country |-> country, mode |-> mode, provider |-> provider,
       available |-> /\ provider \in DOMAIN registry /\ registry[provider].available
                     /\ mode = Nothing \/ mode \in registry[provider].capabilities]

diagnostics(selector) ==
  LET policy == selector.policy
      D(c, m, p) == route_diagnostic(selector, c, m, p)
  IN  {d \in
         (UNION {{D(c, m, policy.countries[c].modes[m]) : m \in DOMAIN policy.countries[c].modes}
                   \union {D(c, Nothing, policy.countries[c].default_provider)} :
                 c \in DOMAIN policy.countries})
         \union {D(Nothing, m, policy.mode_defaults[m]) : m \in DOMAIN policy.mode_defaults}
         \union {D(Nothing, Nothing, policy.default_provider)} : d.provider # Nothing}
=============================================================================
