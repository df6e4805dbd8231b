---------------------------- MODULE LeaseHolder ----------------------------
(***************************************************************************)
(* What Enrichment Core may rely on from the holder of a lease: under each *)
(* lease it reports at most once, either an answer (a result or a terminal *)
(* error), after which it is finished, or that it gives the run back.      *)
(* After that it works on the run only under a new lease.  It may fall     *)
(* silent at any time.                                                     *)
(***************************************************************************)
EXTENDS Naturals

VARIABLES lease,    \* the latest lease, a number
          state     \* what has been made of it

Init == lease = 1 /\ state = "held"

Answer == state = "held" /\ state' = "answered" /\ UNCHANGED lease

GiveBack == state = "held" /\ state' = "returned" /\ UNCHANGED lease

Renew == state = "returned" /\ state' = "held" /\ lease' = lease + 1

FallSilent ==
    /\ state \in {"held", "returned"}
    /\ state' = "silent"
    /\ UNCHANGED lease

Next == Answer \/ GiveBack \/ Renew \/ FallSilent

Spec == Init /\ [][Next]_<<lease, state>>
=============================================================================
