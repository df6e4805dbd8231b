-------------------------- MODULE MCEnrichmentRuns --------------------------
(* Small instances of EnrichmentRuns for TLC. *)
EXTENDS EnrichmentRuns, TLC

CONSTANTS s1

\* Every run is for the same job and user.
OneSubject == [r \in Run |-> s1]

\* Tokens and results are only compared for equality.
Symmetry == Permutations(Token) \cup Permutations(Result)
=============================================================================
