---------------------------- MODULE LatestRunWins ----------------------------
(***************************************************************************)
(* What Enrichment Core promises about the runs of a subject, whatever the *)
(* order in which requests, workers, completions and the cleanup timer     *)
(* reach it:                                                               *)
(*   - a subject has at most one open run, and opening one closes the      *)
(*     others;                                                             *)
(*   - work starts on an open run, or on a closed one that a claim had     *)
(*     seen open, and then only if no other run of the subject is open;    *)
(*   - only a run being worked on is published, and once;                  *)
(*   - a closed run stays closed but for such a claim.                     *)
(***************************************************************************)
CONSTANTS Run, Subject, SubjectOf

VARIABLES
    phase,     \* "none", then "waiting" / "working" while open, then "closed"
    racing,    \* runs that some claim saw open and has not yet acted on
    published  \* runs whose result is handed to the Jobs domain

vars == <<phase, racing, published>>

Open == {r \in Run : phase[r] \in {"waiting", "working"}}
Rivals(r) == {s \in Open \ {r} : SubjectOf[s] = SubjectOf[r]}

Init ==
    /\ phase = [r \in Run |-> "none"]
    /\ racing = {}
    /\ published = {}

OpenRun(r) ==
    /\ phase[r] = "none"
    /\ phase' = [s \in Run |-> IF s = r THEN "waiting"
                               ELSE IF s \in Rivals(r) THEN "closed"
                               ELSE phase[s]]
    /\ UNCHANGED <<racing, published>>

BeginClaim(r) ==
    /\ phase[r] = "waiting"
    /\ racing' = racing \cup {r}
    /\ UNCHANGED <<phase, published>>

\* Several claims on one run may be racing, so acting on one need not be the
\* last of them.
Claim(r) ==
    /\ r \in racing
    /\ Rivals(r) = {}
    /\ phase' = [phase EXCEPT ![r] = "working"]
    /\ racing' \in {racing, racing \ {r}}
    /\ UNCHANGED published

DropClaim(r) ==
    /\ racing' = racing \ {r}
    /\ UNCHANGED <<phase, published>>

GiveBack(r) ==
    /\ phase[r] = "working"
    /\ phase' = [phase EXCEPT ![r] = "waiting"]
    /\ UNCHANGED <<racing, published>>

Finish(r) ==
    /\ phase[r] = "working"
    /\ phase' = [phase EXCEPT ![r] = "closed"]
    /\ published' \in {published, published \cup {r}}
    /\ UNCHANGED racing

Close(S) ==
    /\ S \subseteq Open
    /\ phase' = [r \in Run |-> IF r \in S THEN "closed" ELSE phase[r]]
    /\ UNCHANGED <<racing, published>>

Next ==
    \/ \E r \in Run :
         OpenRun(r) \/ BeginClaim(r) \/ Claim(r) \/ DropClaim(r)
         \/ GiveBack(r) \/ Finish(r)
    \/ \E S \in SUBSET Run : Close(S)

Spec == Init /\ [][Next]_vars
=============================================================================
