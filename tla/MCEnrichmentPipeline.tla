------------------------ MODULE MCEnrichmentPipeline ------------------------
(* Small instances of EnrichmentPipeline for TLC. *)
EXTENDS EnrichmentPipeline

CONSTANTS s1

\* Every run is for the same job and user.
OneSubject == [r \in Run |-> s1]
=============================================================================
