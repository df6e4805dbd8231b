------------------------------ MODULE Workload ------------------------------
(***************************************************************************)
(* A bound of the models of the Jobs and Users domains: which requests     *)
(* their clients make, how many of them, and with which links.  A behaviour*)
(* has one workload from its beginning to its end; stock is the links of   *)
(* the offerings that are there already, to their status, and linked says  *)
(* whether an account is linked to a chat already.                         *)
(***************************************************************************)
EXTENDS Naturals

CONSTANT Workloads    \* a set of [kinds, links, requests, stock, to, linked]

ASSUME WorkloadAssumption == \A w \in Workloads : w.requests \in Nat

VARIABLES workload, made    \* made: the requests that have been taken

load == <<workload, made>>

LoadInit == workload \in Workloads /\ made = 0

\* A client makes one more request.
Take(kind) ==
    /\ kind \in workload.kinds
    /\ made < workload.requests
    /\ made' = made + 1
    /\ UNCHANGED workload
=============================================================================
