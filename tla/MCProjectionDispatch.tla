------------------------ MODULE MCProjectionDispatch ------------------------
(* Small instances of ProjectionDispatch for TLC. *)
EXTENDS ProjectionAttempts

CONSTANTS s1

\* Two results for one subject.
Both == <<s1, s1>>
Times == <<1, 2>>
=============================================================================
