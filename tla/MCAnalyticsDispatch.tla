------------------------ MODULE MCAnalyticsDispatch -------------------------
(* Small instances of AnalyticsDispatch for TLC. *)
EXTENDS AnalyticsDispatch

CONSTANTS k1

\* Two posts with the same key, and one without.
Keys == <<k1, k1, NoKey>>
Times == <<2, 1, 2>>
=============================================================================
