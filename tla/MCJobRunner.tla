---------------------------- MODULE MCJobRunner -----------------------------
EXTENDS JobRunner

(* Workers report telemetry and the full result besides their stages. *)
MCOtherUpdates == {Telemetry, ResultSnapshot}
=============================================================================
