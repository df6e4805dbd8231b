--------------------------- MODULE EnrichmentRuns ---------------------------
(***************************************************************************)
(* The run store of Enrichment Core: dbo.EnrichmentRuns and the rows that  *)
(* a completion adds to dbo.EnrichmentProjectionDispatch, with every       *)
(* transaction that writes them:                                           *)
(*   - create_run_db, write_input_snapshot and mark_queued, called by      *)
(*     POST /enrichment/runs;                                              *)
(*   - try_lease_run, called by the Gateway for a worker.  It SELECTs and  *)
(*     then UPDATEs without a lock or a guard on what it read, so the      *)
(*     model splits it in two steps;                                       *)
(*   - complete_run_transactionally, whose row lock makes it one step, but *)
(*     whose timestamp is taken before the lock;                           *)
(*   - the daily cleanup timer.                                            *)
(*                                                                         *)
(* A Token is one Gateway lease request: compute_lease draws a new uuid    *)
(* for each, and the Gateway forwards a completion only for the token it   *)
(* finds in the run's row, so a Token also identifies the single           *)
(* completion that may follow.  A refused lease changes nothing and gives  *)
(* its token back.                                                         *)
(*                                                                         *)
(* Abstractions.  Texts, the CV version and the audit columns are left     *)
(* out.  A deadline (QueuedAt + TTL, LeaseUntil, LeaseUntil + grace,       *)
(* RequestedAt + limit) is an age that DeadlinePasses advances, and the    *)
(* write that sets the column resets.  Timestamps that are compared with   *)
(* one another (RequestedAt, calculatedAt) are readings of one clock that  *)
(* may stand still between two readings, so ties happen.                   *)
(***************************************************************************)
EXTENDS Naturals

CONSTANTS
    Run,          \* run ids; a fresh one per create, ordered as uuids are
    Subject,      \* (EnricherType, SubjectKey) pairs
    SubjectOf,    \* the subject each run is created for
    Projected,    \* the subjects whose enricher type is compatibility.v1
    Token,        \* lease tokens
    Result,       \* what a worker may answer
    NoRun, NoToken, NoResult,
    PendingFail,  \* whether ENRICHERS_CLEANUP_PENDING_FAIL_MINUTES is > 0
    MaxTime       \* bound on the clock

ASSUME RunAssumption == Run \subseteq Nat /\ NoRun \notin Run
ASSUME SubjectAssumption ==
    SubjectOf \in [Run -> Subject] /\ Projected \subseteq Subject
ASSUME TokenAssumption == NoToken \notin Token
ASSUME ResultAssumption ==
    NoResult \notin Result /\ Result \cap {"Failed", "Unavailable"} = {}
ASSUME BoundAssumption == MaxTime \in Nat /\ PendingFail \in BOOLEAN

VARIABLES
    clock,        \* the time now; 0 is before every reading
    status,       \* Status, or "Absent" / "Creating" before the row is visible
    requestedAt,  \* RequestedAt
    age,          \* how far the run is past the deadline of its status
    leaseToken,   \* LeaseToken
    snapshot,     \* whether InputSnapshotBlobPath is set
    result,       \* ResultJson
    projAt,       \* calculatedAt in the run's dispatch row, 0 without a row
    projResult,   \* the result in the run's dispatch row
    txn,          \* what Core is doing, or has done, for a token
    txnRun,       \* the run that token is for
    txnAt,        \* `now` of the completion sent under that token
    txnVerdict    \* what that completion says

runVars == <<status, requestedAt, age, leaseToken, snapshot, result>>
projVars == <<projAt, projResult>>
txnVars == <<txn, txnRun, txnAt, txnVerdict>>
vars == <<clock, runVars, projVars, txnVars>>

Active == {"Pending", "Queued", "Leased"}
Terminal == {"Succeeded", "Failed", "Superseded", "Expired"}
Invisible == {"Absent", "Creating"}
Verdict == Result \cup {"Failed", "Unavailable"}

TypeOK ==
    /\ clock \in Nat \ {0}
    /\ status \in [Run -> Active \cup Terminal \cup Invisible]
    /\ requestedAt \in [Run -> Nat]
    /\ age \in [Run -> {"fresh", "lapsed", "overdue"}]
    /\ leaseToken \in [Run -> Token \cup {NoToken}]
    /\ snapshot \in [Run -> BOOLEAN]
    /\ result \in [Run -> Result \cup {NoResult}]
    /\ projAt \in [Run -> Nat]
    /\ projResult \in [Run -> Result \cup {NoResult}]
    /\ txn \in [Token -> {"unused", "reading", "granted", "completing", "done"}]
    /\ txnRun \in [Token -> Run \cup {NoRun}]
    /\ txnAt \in [Token -> Nat]
    /\ txnVerdict \in [Token -> Verdict]

Init ==
    /\ clock = 1
    /\ status = [r \in Run |-> "Absent"]
    /\ requestedAt = [r \in Run |-> 0]
    /\ age = [r \in Run |-> "fresh"]
    /\ leaseToken = [r \in Run |-> NoToken]
    /\ snapshot = [r \in Run |-> FALSE]
    /\ result = [r \in Run |-> NoResult]
    /\ projAt = [r \in Run |-> 0]
    /\ projResult = [r \in Run |-> NoResult]
    /\ txn = [t \in Token |-> "unused"]
    /\ txnRun = [t \in Token |-> NoRun]
    /\ txnAt = [t \in Token |-> 0]
    /\ txnVerdict = [t \in Token |-> "Failed"]

-----------------------------------------------------------------------------
(* Queries.                                                                *)

\* The visible rows.
Rows == {r \in Run : status[r] \notin Invisible}

SameSubject(r, s) == SubjectOf[r] = SubjectOf[s]

\* ORDER BY RequestedAt DESC, RunId DESC.
Newer(s, r) ==
    \/ requestedAt[s] > requestedAt[r]
    \/ requestedAt[s] = requestedAt[r] /\ s > r

\* The completion's get_latest_run_id answers r.
IsLatest(r) == \A s \in Rows : SameSubject(r, s) => ~Newer(s, r)

\* try_lease_run orders by RequestedAt alone, so on a tie either row may win.
MayBeLatest(r) ==
    \A s \in Rows : SameSubject(r, s) => requestedAt[s] <= requestedAt[r]

\* Mutant: Pending runs are left out of the filter of the unique index and of
\* the statement that supersedes.
OtherActiveNotPending(r) ==
    {s \in Run \ {r} : SameSubject(r, s) /\ status[s] \in Active \ {"Pending"}}

\* What UX_EnrichmentRuns_Active forbids r to become active beside.
OtherActive(r) ==
    {s \in Run \ {r} : SameSubject(r, s) /\ status[s] \in Active}

-----------------------------------------------------------------------------
(* POST /enrichment/runs.                                                  *)

\* create_run_db draws the id and reads `now` before it opens its transaction.
CreateBegin(r) ==
    /\ status[r] = "Absent"
    /\ status' = [status EXCEPT ![r] = "Creating"]
    /\ requestedAt' = [requestedAt EXCEPT ![r] = clock]
    /\ UNCHANGED <<clock, age, leaseToken, snapshot, result, projVars, txnVars>>

\* Supersede the subject's active runs and insert the Pending row, atomically.
CreateCommit(r) ==
    /\ status[r] = "Creating"
    /\ status' = [s \in Run |->
                    IF s = r THEN "Pending"
                    ELSE IF s \in OtherActive(r) THEN "Superseded"
                    ELSE status[s]]
    /\ age' = [age EXCEPT ![r] = "fresh"]
    /\ UNCHANGED <<clock, requestedAt, leaseToken, snapshot, result, projVars,
                   txnVars>>

\* The transaction fails (a lost connection, a concurrent create of the same
\* subject hitting the unique index) and leaves no trace.
CreateRollback(r) ==
    /\ status[r] = "Creating"
    /\ status' = [status EXCEPT ![r] = "Absent"]
    /\ requestedAt' = [requestedAt EXCEPT ![r] = 0]
    /\ UNCHANGED <<clock, age, leaseToken, snapshot, result, projVars, txnVars>>

\* write_input_snapshot: the path is stored whatever the run's status.
WriteSnapshot(r) ==
    /\ r \in Rows
    /\ ~snapshot[r]
    /\ snapshot' = [snapshot EXCEPT ![r] = TRUE]
    /\ UNCHANGED <<clock, status, requestedAt, age, leaseToken, result,
                   projVars, txnVars>>

\* mark_queued: without effect when a worker was faster than the route.  The
\* unused route POST .../queued (mark_queued_by_gateway) does the same.
MarkQueued(r) ==
    /\ status[r] = "Pending"
    /\ status' = [status EXCEPT ![r] = "Queued"]
    /\ age' = [age EXCEPT ![r] = "fresh"]
    /\ UNCHANGED <<clock, requestedAt, leaseToken, snapshot, result, projVars,
                   txnVars>>

-----------------------------------------------------------------------------
(* try_lease_run.                                                          *)

\* Mutant: the status is not checked.
LeasableInAnyStatus(r) == r \in Rows /\ MayBeLatest(r)

\* The SELECTs and the checks on what they return.  A Leased row is refused
\* even after LeaseUntil: the column is datetime2 since migration 19, so it
\* comes back without a time zone, comparing it with `now` raises, and the
\* except branch answers ALREADY_LEASED.
Leasable(r) ==
    /\ r \in Rows
    /\ MayBeLatest(r)
    /\ status[r] \in {"Pending", "Queued"}

LeaseRead(t, r) ==
    /\ txn[t] = "unused"
    /\ Leasable(r)
    /\ txn' = [txn EXCEPT ![t] = "reading"]
    /\ txnRun' = [txnRun EXCEPT ![t] = r]
    /\ UNCHANGED <<clock, runVars, projVars, txnAt, txnVerdict>>

\* The UPDATE names the run only: it overwrites whatever status the row has
\* reached since the SELECT, unless the unique index refuses.
LeaseWrite(t) ==
    /\ txn[t] = "reading"
    /\ OtherActive(txnRun[t]) = {}
    /\ status' = [status EXCEPT ![txnRun[t]] = "Leased"]
    /\ leaseToken' = [leaseToken EXCEPT ![txnRun[t]] = t]
    /\ age' = [age EXCEPT ![txnRun[t]] = "fresh"]
    /\ txn' = [txn EXCEPT ![t] = "granted"]
    /\ UNCHANGED <<clock, requestedAt, snapshot, result, projVars, txnRun, txnAt,
                   txnVerdict>>

\* The unique index or the connection makes the UPDATE fail.
LeaseRollback(t) ==
    /\ txn[t] = "reading"
    /\ txn' = [txn EXCEPT ![t] = "unused"]
    /\ txnRun' = [txnRun EXCEPT ![t] = NoRun]
    /\ UNCHANGED <<clock, runVars, projVars, txnAt, txnVerdict>>

-----------------------------------------------------------------------------
(* POST /enrichment/runs/{runId}/complete.                                 *)

\* The Gateway has forwarded the answer of the worker that was granted t, and
\* complete_run_transactionally reads `now`.
CompleteBegin(t, v) ==
    /\ txn[t] = "granted"
    /\ txn' = [txn EXCEPT ![t] = "completing"]
    /\ txnAt' = [txnAt EXCEPT ![t] = clock]
    /\ txnVerdict' = [txnVerdict EXCEPT ![t] = v]
    /\ UNCHANGED <<clock, runVars, projVars, txnRun>>

\* already_terminal, or the ValueError (409) of a run that waits for a lease:
\* nothing is written.
CompleteIgnored(t) ==
    /\ txn[t] = "completing"
    /\ \/ status[txnRun[t]] \in Terminal
       \/ status[txnRun[t]] \in {"Pending", "Queued"} /\ IsLatest(txnRun[t])
    /\ txn' = [txn EXCEPT ![t] = "done"]
    /\ UNCHANGED <<clock, runVars, projVars, txnRun, txnAt, txnVerdict>>

\* stale_ignored: an active run that is no longer the latest is closed.
CompleteStale(t) ==
    /\ txn[t] = "completing"
    /\ status[txnRun[t]] \in Active
    /\ ~IsLatest(txnRun[t])
    /\ status' = [status EXCEPT ![txnRun[t]] = "Superseded"]
    /\ txn' = [txn EXCEPT ![t] = "done"]
    /\ UNCHANGED <<clock, requestedAt, age, leaseToken, snapshot, result,
                   projVars, txnRun, txnAt, txnVerdict>>

\* Mutant: the requeue forgets to clear the token.
CompleteRequeueKeepsToken(t) ==
    /\ txn[t] = "completing"
    /\ txnVerdict[t] = "Unavailable"
    /\ status[txnRun[t]] = "Leased"
    /\ IsLatest(txnRun[t])
    /\ status' = [status EXCEPT ![txnRun[t]] = "Queued"]
    /\ age' = [age EXCEPT ![txnRun[t]] = "fresh"]
    /\ result' = [result EXCEPT ![txnRun[t]] = NoResult]
    /\ txn' = [txn EXCEPT ![t] = "done"]
    /\ UNCHANGED <<clock, requestedAt, leaseToken, snapshot, projVars, txnRun,
                   txnAt, txnVerdict>>

\* Mutant: the requeue clears the token and leaves the status alone.
CompleteRequeueKeepsStatus(t) ==
    /\ txn[t] = "completing"
    /\ txnVerdict[t] = "Unavailable"
    /\ status[txnRun[t]] = "Leased"
    /\ IsLatest(txnRun[t])
    /\ leaseToken' = [leaseToken EXCEPT ![txnRun[t]] = NoToken]
    /\ txn' = [txn EXCEPT ![t] = "done"]
    /\ UNCHANGED <<clock, status, requestedAt, age, snapshot, result, projVars,
                   txnRun, txnAt, txnVerdict>>

\* requeued: INFERENCE_UNAVAILABLE gives the run back to the queue.
CompleteRequeue(t) ==
    /\ txn[t] = "completing"
    /\ txnVerdict[t] = "Unavailable"
    /\ status[txnRun[t]] = "Leased"
    /\ IsLatest(txnRun[t])
    /\ status' = [status EXCEPT ![txnRun[t]] = "Queued"]
    /\ age' = [age EXCEPT ![txnRun[t]] = "fresh"]
    /\ leaseToken' = [leaseToken EXCEPT ![txnRun[t]] = NoToken]
    /\ result' = [result EXCEPT ![txnRun[t]] = NoResult]
    /\ txn' = [txn EXCEPT ![t] = "done"]
    /\ UNCHANGED <<clock, requestedAt, snapshot, projVars, txnRun, txnAt,
                   txnVerdict>>

\* Mutant: the error is stored as a result.
CompleteFailedWithResult(t) ==
    /\ txn[t] = "completing"
    /\ txnVerdict[t] = "Failed"
    /\ status[txnRun[t]] = "Leased"
    /\ IsLatest(txnRun[t])
    /\ status' = [status EXCEPT ![txnRun[t]] = "Failed"]
    /\ leaseToken' = [leaseToken EXCEPT ![txnRun[t]] = NoToken]
    /\ result' = [result EXCEPT ![txnRun[t]] = txnVerdict[t]]
    /\ txn' = [txn EXCEPT ![t] = "done"]
    /\ UNCHANGED <<clock, requestedAt, age, snapshot, projVars, txnRun, txnAt,
                   txnVerdict>>

\* completed with Failed.
CompleteFailed(t) ==
    /\ txn[t] = "completing"
    /\ txnVerdict[t] = "Failed"
    /\ status[txnRun[t]] = "Leased"
    /\ IsLatest(txnRun[t])
    /\ status' = [status EXCEPT ![txnRun[t]] = "Failed"]
    /\ leaseToken' = [leaseToken EXCEPT ![txnRun[t]] = NoToken]
    /\ result' = [result EXCEPT ![txnRun[t]] = NoResult]
    /\ txn' = [txn EXCEPT ![t] = "done"]
    /\ UNCHANGED <<clock, requestedAt, age, snapshot, projVars, txnRun, txnAt,
                   txnVerdict>>

\* Mutant: a subject gets a single dispatch row.
NeedsRowOncePerSubject(r) ==
    SubjectOf[r] \in Projected /\ \A s \in Run : SameSubject(r, s) => projAt[s] = 0

\* Mutant: the row is written again when the run completes again.
NeedsRowAlways(r) == SubjectOf[r] \in Projected

\* build_projection_dispatches makes a row for compatibility.v1, and the INSERT
\* is skipped when the run has its row already.
NeedsRow(r) == SubjectOf[r] \in Projected /\ projAt[r] = 0

Succeed(t) ==
    LET r == txnRun[t]
    IN  /\ txn[t] = "completing"
        /\ txnVerdict[t] \in Result
        /\ status[r] = "Leased"
        /\ status' = [status EXCEPT ![r] = "Succeeded"]
        /\ leaseToken' = [leaseToken EXCEPT ![r] = NoToken]
        /\ result' = [result EXCEPT ![r] = txnVerdict[t]]
        /\ projAt' = [projAt EXCEPT ![r] = IF NeedsRow(r) THEN txnAt[t] ELSE @]
        /\ projResult' =
             [projResult EXCEPT ![r] = IF NeedsRow(r) THEN txnVerdict[t] ELSE @]
        /\ txn' = [txn EXCEPT ![t] = "done"]
        /\ UNCHANGED <<clock, requestedAt, age, snapshot, txnRun, txnAt,
                       txnVerdict>>

\* Mutant: the completion does not ask whether the run is the latest.
CompleteSucceededForAnyRun(t) == Succeed(t)

\* completed with Succeeded: the dispatch row is inserted in the same
\* transaction.
CompleteSucceeded(t) == Succeed(t) /\ IsLatest(txnRun[t])

\* The transaction is rolled back: the answer is lost.
CompleteRollback(t) ==
    /\ txn[t] = "completing"
    /\ txn' = [txn EXCEPT ![t] = "done"]
    /\ UNCHANGED <<clock, runVars, projVars, txnRun, txnAt, txnVerdict>>

-----------------------------------------------------------------------------
(* Time and the cleanup timer.                                             *)

\* A deadline of run r passes: LeaseUntil and then its grace period for a
\* lease, the TTL of the status for a run that waits.
DeadlinePasses(r) ==
    /\ status[r] \in Active
    /\ age[r] # "overdue"
    /\ age' = [age EXCEPT ![r] =
                 IF status[r] = "Leased" /\ @ = "fresh" THEN "lapsed" ELSE "overdue"]
    /\ UNCHANGED <<clock, status, requestedAt, leaseToken, snapshot, result,
                   projVars, txnVars>>

Overdue(stat) == {r \in Run : status[r] = stat /\ age[r] = "overdue"}

\* Mutant: leases are never expired.
CleanupSparesLeases ==
    LET expired == Overdue("Queued")
        failed == IF PendingFail THEN Overdue("Pending") ELSE {}
    IN  /\ expired \cup failed # {}
        /\ status' = [r \in Run |-> IF r \in expired THEN "Expired"
                                    ELSE IF r \in failed THEN "Failed"
                                    ELSE status[r]]
        /\ UNCHANGED <<clock, requestedAt, age, leaseToken, snapshot, result,
                       projVars, txnVars>>

\* cleanup_runs.main: three updates in one transaction under an applock.
Cleanup ==
    LET expired == Overdue("Queued") \cup Overdue("Leased")
        failed == IF PendingFail THEN Overdue("Pending") ELSE {}
    IN  /\ expired \cup failed # {}
        /\ status' = [r \in Run |-> IF r \in expired THEN "Expired"
                                    ELSE IF r \in failed THEN "Failed"
                                    ELSE status[r]]
        /\ UNCHANGED <<clock, requestedAt, age, leaseToken, snapshot, result,
                       projVars, txnVars>>

Tick ==
    /\ clock < MaxTime
    /\ clock' = clock + 1
    /\ UNCHANGED <<runVars, projVars, txnVars>>

-----------------------------------------------------------------------------
Next ==
    \/ \E r \in Run :
         \/ CreateBegin(r) \/ CreateCommit(r) \/ CreateRollback(r)
         \/ WriteSnapshot(r) \/ MarkQueued(r) \/ DeadlinePasses(r)
    \/ \E t \in Token, r \in Run : LeaseRead(t, r)
    \/ \E t \in Token : LeaseWrite(t) \/ LeaseRollback(t)
    \/ \E t \in Token, v \in Verdict : CompleteBegin(t, v)
    \/ \E t \in Token :
         \/ CompleteIgnored(t) \/ CompleteStale(t) \/ CompleteRequeue(t)
         \/ CompleteFailed(t) \/ CompleteSucceeded(t) \/ CompleteRollback(t)
    \/ Cleanup
    \/ Tick

Spec == Init /\ [][Next]_vars

-----------------------------------------------------------------------------
(* Properties.                                                             *)

\* At most one run of a subject is Pending, Queued or Leased.  create_run_db
\* supersedes the others, and the unguarded UPDATE of try_lease_run, which can
\* bring a closed run back, is stopped only by the unique index.
OneActivePerSubject ==
    \A r, s \in Run :
        /\ status[r] \in Active
        /\ status[s] \in Active
        /\ SameSubject(r, s)
        => r = s

\* A Leased run carries the token of a lease that was granted for it, and a run
\* that waits carries none: the Gateway authorises a completion by comparing
\* tokens alone, so a token left behind by a requeue would let a worker answer
\* a run it has given back.
TokenNamesHolder ==
    \A r \in Run :
        /\ status[r] = "Leased" =>
             /\ leaseToken[r] \in Token
             /\ txnRun[leaseToken[r]] = r
             /\ txn[leaseToken[r]] \in {"granted", "completing", "done"}
        /\ status[r] \in {"Pending", "Queued"} => leaseToken[r] = NoToken

\* The runs that will be shown as scores are ordered by calculatedAt as they
\* are by request, although each completion reads its clock before it locks
\* anything.  Jobs keeps the newest calculatedAt, so without this a result of
\* an older run could replace the answer to the latest request.
ProjectionOrder ==
    \A r, s \in Run :
        /\ projAt[r] # 0
        /\ projAt[s] # 0
        /\ SameSubject(r, s)
        /\ Newer(s, r)
        => projAt[r] <= projAt[s]

\* No success is lost for the Jobs domain: a Succeeded run of a projected
\* subject has its dispatch row, with a result in it and a calculation time
\* that is not before the request, and other subjects have none.
SuccessIsProjected ==
    \A r \in Run :
        /\ status[r] = "Succeeded" /\ SubjectOf[r] \in Projected => projAt[r] # 0
        /\ projAt[r] # 0 =>
             /\ SubjectOf[r] \in Projected
             /\ projResult[r] \in Result
             /\ requestedAt[r] <= projAt[r]

\* What was handed to the dispatcher for a run is never changed afterwards, not
\* even when a late lease brings the run back and it completes once more.
ProjectionIsFinal ==
    [][\A r \in Run : projAt[r] # 0 =>
            projAt'[r] = projAt[r] /\ projResult'[r] = projResult[r]]_vars

\* What LatestRunWins sees of the store.
Phase ==
    [r \in Run |->
        CASE status[r] \in Invisible -> "none"
          [] status[r] \in {"Pending", "Queued"} -> "waiting"
          [] status[r] = "Leased" -> "working"
          [] OTHER -> "closed"]
Racing == {r \in Run : \E t \in Token : txn[t] = "reading" /\ txnRun[t] = r}
Published == {r \in Run : projAt[r] # 0}

Promise == INSTANCE LatestRunWins
    WITH phase <- Phase, racing <- Racing, published <- Published

\* The store keeps the promise of LatestRunWins: every transaction of Core is
\* one of its steps or invisible to it.  In particular a closed run comes back
\* only through a lease whose SELECT had seen it open.
KeepsPromise == Promise!Spec

-----------------------------------------------------------------------------
(* The inductive invariant behind the safety properties.                   *)

\* Nothing is known of a row before it is visible.
InvisibleIsBlank ==
    \A r \in Run : status[r] \in Invisible => leaseToken[r] = NoToken /\ projAt[r] = 0

\* Core works only on runs it has read.
TxnOnVisibleRun ==
    \A t \in Token : txn[t] # "unused" => txnRun[t] \in Rows

\* No timestamp lies in the future.
PastTimes ==
    \A r \in Run : requestedAt[r] <= clock /\ projAt[r] <= clock

\* The clock a completion has read is not behind its own request, nor behind
\* any projection of an older run of the subject: that run could be published
\* only before the newer row became visible.
CompletionReadsLate ==
    \A t \in Token : txn[t] = "completing" =>
        /\ txnAt[t] # 0
        /\ txnAt[t] <= clock
        /\ requestedAt[txnRun[t]] <= txnAt[t]
        /\ \A r \in Run :
             /\ projAt[r] # 0
             /\ SameSubject(r, txnRun[t])
             /\ Newer(txnRun[t], r)
             => projAt[r] <= txnAt[t]

Inv ==
    /\ TypeOK
    /\ InvisibleIsBlank
    /\ TxnOnVisibleRun
    /\ PastTimes
    /\ CompletionReadsLate
    /\ OneActivePerSubject
    /\ TokenNamesHolder
    /\ ProjectionOrder
    /\ SuccessIsProjected

=============================================================================
