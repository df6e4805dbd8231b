------------------------- MODULE ProjectionDispatch -------------------------
(***************************************************************************)
(* How the result of a run becomes the score the user sees: the            *)
(* dispatch_projections timer of Enrichment Core and the bulk-upsert route *)
(* of the Jobs domain, with dbo.EnrichmentProjectionDispatch on one side   *)
(* and dbo.CompatibilityScores on the other.                               *)
(*                                                                         *)
(* A timer pass selects the due rows under an applock, gives the lock back *)
(* and then, row by row, posts to Jobs and records the outcome in a        *)
(* transaction of its own.  It uses the AttemptCount it has selected, and  *)
(* none of its updates looks at the row again, so a second pass, or a      *)
(* request the pass has given up on after 60 seconds, interferes.          *)
(*                                                                         *)
(* Rows of a subject are inserted in the order of their calculatedAt: that *)
(* is ProjectionOrder of EnrichmentRuns together with the row lock under   *)
(* which a completion is published.                                        *)
(*                                                                         *)
(* Abstractions.  A payload has one item, as build_projection_dispatches   *)
(* makes it, and names the row it comes from.  The due rows are a sequence *)
(* in the order of NextAttemptAt.  Every row targets jobs, as the only     *)
(* rows that Core inserts do.                                              *)
(***************************************************************************)
EXTENDS Naturals, SequencesExt

CONSTANTS
    Row,           \* dispatch rows, numbered as they are inserted
    Subject,       \* (job, user) pairs
    SubjectOf,     \* the subject of each row
    CalculatedAt,  \* calculatedAt in each row's payload
    Pass,          \* timer passes that may run at the same time
    Request,       \* requests that Jobs may work on at the same time
    NoRow, NoRequest,
    BatchSize,     \* ENRICHERS_PROJECTION_DISPATCH_BATCH_SIZE
    MaxAttempts,   \* ENRICHERS_PROJECTION_DISPATCH_MAX_ATTEMPTS
    Faults,        \* the faults that may happen
    MaxFaults      \* bound on their number

\* "jobs":    Jobs fails or cannot be reached, and nothing is written;
\* "reject":  Jobs refuses the payload for good;
\* "timeout": the answer does not come within 60 seconds;
\* "mark":    the outcome cannot be recorded, which ends the pass;
\* "crash":   the host of a pass goes down.
AllFaults == {"jobs", "reject", "timeout", "mark", "crash"}

ASSUME RowAssumption == Row \subseteq Nat /\ NoRow \notin Row
ASSUME SubjectAssumption == SubjectOf \in [Row -> Subject]
ASSUME TimeAssumption ==
    /\ CalculatedAt \in [Row -> Nat]
    /\ \A r, s \in Row : r < s /\ SubjectOf[r] = SubjectOf[s] =>
         CalculatedAt[r] <= CalculatedAt[s]
ASSUME RequestAssumption == NoRequest \notin Request
ASSUME LimitAssumption ==
    /\ BatchSize \in Nat \ {0} /\ MaxAttempts \in Nat \ {0} /\ MaxFaults \in Nat
    /\ Faults \subseteq AllFaults

VARIABLES
    status,    \* Status, or "Absent" before the row is inserted
    attempts,  \* AttemptCount
    due,       \* the rows that are due, by NextAttemptAt
    pass,      \* what a pass is about to do
    batch,     \* the rows it has selected and not finished, with AttemptCount
    sent,      \* the request it waits for
    outcome,   \* what _deliver_one has returned for the first row of the batch
    request,   \* progress of a request in Jobs
    payload,   \* the row in it
    found,     \* the row whose score Jobs has found, NoRow for none
    shown,     \* the row whose score Jobs stores for a subject
    faults,    \* number of faults so far
    disturbed  \* whether passes have overlapped or a request was given up

rowVars == <<status, attempts, due>>
passVars == <<pass, batch, sent, outcome>>
requestVars == <<request, payload, found>>
vars == <<rowVars, passVars, requestVars, shown, faults, disturbed>>

Open == {"Pending", "Failed"}
Closed == {"Delivered", "DeadLetter"}

TypeOK ==
    /\ status \in [Row -> {"Absent"} \cup Open \cup Closed]
    /\ attempts \in [Row -> Nat]
    /\ due \in Seq(Row)
    /\ pass \in [Pass -> {"idle", "posting", "waiting", "marking"}]
    /\ batch \in [Pass -> Seq([row : Row, seen : Nat])]
    /\ sent \in [Pass -> Request \cup {NoRequest}]
    /\ outcome \in [Pass -> {"none", "delivered", "retry", "deadletter"}]
    /\ request \in [Request -> {"free", "received", "read", "ok", "error", "refused"}]
    /\ payload \in [Request -> Row \cup {NoRow}]
    /\ found \in [Request -> Row \cup {NoRow}]
    /\ shown \in [Subject -> Row \cup {NoRow}]
    /\ faults \in 0..MaxFaults
    /\ disturbed \in BOOLEAN

Init ==
    /\ status = [r \in Row |-> "Absent"]
    /\ attempts = [r \in Row |-> 0]
    /\ due = <<>>
    /\ pass = [p \in Pass |-> "idle"]
    /\ batch = [p \in Pass |-> <<>>]
    /\ sent = [p \in Pass |-> NoRequest]
    /\ outcome = [p \in Pass |-> "none"]
    /\ request = [q \in Request |-> "free"]
    /\ payload = [q \in Request |-> NoRow]
    /\ found = [q \in Request |-> NoRow]
    /\ shown = [s \in Subject |-> NoRow]
    /\ faults = 0
    /\ disturbed = FALSE

Fault(kind) == kind \in Faults /\ faults < MaxFaults /\ faults' = faults + 1

-----------------------------------------------------------------------------
(* Core: the rows.                                                         *)

InDue(r) == \E i \in DOMAIN due : due[i] = r

\* insert_projection_dispatches, in the transaction that completes the run.
Insert(r) ==
    /\ status[r] = "Absent"
    /\ \A s \in Row : s < r /\ SubjectOf[s] = SubjectOf[r] => status[s] # "Absent"
    /\ status' = [status EXCEPT ![r] = "Pending"]
    /\ due' = Append(due, r)
    /\ UNCHANGED <<attempts, passVars, requestVars, shown, faults, disturbed>>

\* Mutant: failed rows are not selected.
BecomesDuePendingOnly(r) ==
    /\ status[r] = "Pending"
    /\ ~InDue(r)
    /\ due' = Append(due, r)
    /\ UNCHANGED <<status, attempts, passVars, requestVars, shown, faults, disturbed>>

\* NextAttemptAt of a failed row passes.
BecomesDue(r) ==
    /\ status[r] = "Failed"
    /\ ~InDue(r)
    /\ due' = Append(due, r)
    /\ UNCHANGED <<status, attempts, passVars, requestVars, shown, faults, disturbed>>

-----------------------------------------------------------------------------
(* Core: a timer pass.                                                     *)

\* _select_due_dispatches, under the applock.
BeginPass(p) ==
    /\ pass[p] = "idle"
    /\ due # <<>>
    /\ LET n == IF Len(due) < BatchSize THEN Len(due) ELSE BatchSize
       IN  batch' = [batch EXCEPT ![p] =
                       [i \in 1..n |-> [row |-> due[i], seen |-> attempts[due[i]]]]]
    /\ pass' = [pass EXCEPT ![p] = "posting"]
    /\ disturbed' = (disturbed \/ \E o \in Pass : pass[o] # "idle")
    /\ UNCHANGED <<rowVars, sent, outcome, requestVars, shown, faults>>

Free == {q \in Request : request[q] = "free"}

\* _post_jobs_projection.  Requests differ in name only, so any free one will do.
Post(p) ==
    /\ pass[p] = "posting"
    /\ Free # {}
    /\ LET q == CHOOSE q \in Free : TRUE
       IN  /\ request' = [request EXCEPT ![q] = "received"]
           /\ payload' = [payload EXCEPT ![q] = Head(batch[p]).row]
           /\ sent' = [sent EXCEPT ![p] = q]
    /\ pass' = [pass EXCEPT ![p] = "waiting"]
    /\ UNCHANGED <<rowVars, batch, outcome, found, shown, faults, disturbed>>

\* Mutant: one attempt too many.
AfterFailureLate(p) ==
    IF Head(batch[p]).seen >= MaxAttempts THEN "deadletter" ELSE "retry"

\* A transient failure is retried unless the selected AttemptCount says that
\* this was the last attempt.
AfterFailure(p) ==
    IF Head(batch[p]).seen + 1 >= MaxAttempts THEN "deadletter" ELSE "retry"

\* A request is forgotten once it is finished and no pass waits for it.
Discard(q) ==
    /\ request' = [request EXCEPT ![q] = "free"]
    /\ payload' = [payload EXCEPT ![q] = NoRow]
    /\ found' = [found EXCEPT ![q] = NoRow]

Forget(q) ==
    IF request[q] \in {"ok", "error", "refused"} THEN Discard(q) ELSE UNCHANGED requestVars

AfterAnswer(p) ==
    CASE request[sent[p]] = "ok" -> "delivered"
      [] request[sent[p]] = "error" -> AfterFailure(p)
      [] request[sent[p]] = "refused" -> "deadletter"

\* The rest of _deliver_one, on an answer.
Answered(p) ==
    /\ pass[p] = "waiting"
    /\ request[sent[p]] \in {"ok", "error", "refused"}
    /\ outcome' = [outcome EXCEPT ![p] = AfterAnswer(p)]
    /\ pass' = [pass EXCEPT ![p] = "marking"]
    /\ sent' = [sent EXCEPT ![p] = NoRequest]
    /\ Forget(sent[p])
    /\ UNCHANGED <<rowVars, batch, shown, faults, disturbed>>

\* requests raises Timeout; Jobs goes on with the request.
TimesOut(p) ==
    /\ pass[p] = "waiting"
    /\ Fault("timeout")
    /\ outcome' = [outcome EXCEPT ![p] = AfterFailure(p)]
    /\ pass' = [pass EXCEPT ![p] = "marking"]
    /\ sent' = [sent EXCEPT ![p] = NoRequest]
    /\ Forget(sent[p])
    /\ disturbed' = TRUE
    /\ UNCHANGED <<rowVars, batch, shown>>

\* Mutant: a status the table does not know.
StatusForRetry == [delivered |-> "Delivered", retry |-> "Retry", deadletter |-> "DeadLetter"]

StatusFor == [delivered |-> "Delivered", retry |-> "Failed", deadletter |-> "DeadLetter"]

\* _mark_delivered, _mark_retryable_failure or _mark_deadletter: the update names
\* the row only, and a failed row gets a NextAttemptAt in the future.
Mark(p) ==
    LET r == Head(batch[p]).row
    IN  /\ pass[p] = "marking"
        /\ status' = [status EXCEPT ![r] = StatusFor[outcome[p]]]
        /\ attempts' = [attempts EXCEPT ![r] = @ + 1]
        /\ due' = RemoveFirst(due, r)
        /\ batch' = [batch EXCEPT ![p] = Tail(@)]
        /\ pass' = [pass EXCEPT ![p] = IF Len(batch[p]) = 1 THEN "idle" ELSE "posting"]
        /\ outcome' = [outcome EXCEPT ![p] = "none"]
        /\ UNCHANGED <<sent, requestVars, shown, faults, disturbed>>

\* A pass ends before it has recorded the outcome of the row at hand.
Abandon(p) ==
    /\ pass' = [pass EXCEPT ![p] = "idle"]
    /\ batch' = [batch EXCEPT ![p] = <<>>]
    /\ sent' = [sent EXCEPT ![p] = NoRequest]
    /\ outcome' = [outcome EXCEPT ![p] = "none"]

\* The update fails: the exception ends the pass, the row stays as it is.
MarkFails(p) ==
    /\ pass[p] = "marking"
    /\ Fault("mark")
    /\ Abandon(p)
    /\ UNCHANGED <<rowVars, requestVars, shown, disturbed>>

PassDies(p) ==
    /\ pass[p] # "idle"
    /\ Fault("crash")
    /\ Abandon(p)
    /\ IF pass[p] = "waiting"
       THEN Forget(sent[p]) /\ disturbed' = TRUE
       ELSE UNCHANGED <<requestVars, disturbed>>
    /\ UNCHANGED <<rowVars, shown>>

-----------------------------------------------------------------------------
(* Jobs: POST /internal/jobs/compatibility-projections:bulk-upsert.        *)

\* The request ends; nobody reads the answer to one that was given up.
Finish(q, answer) ==
    IF \E p \in Pass : sent[p] = q
    THEN /\ request' = [request EXCEPT ![q] = answer]
         /\ found' = [found EXCEPT ![q] = NoRow]
         /\ UNCHANGED payload
    ELSE Discard(q)

JobsReads(q) ==
    /\ request[q] = "received"
    /\ found' = [found EXCEPT ![q] = shown[SubjectOf[payload[q]]]]
    /\ request' = [request EXCEPT ![q] = "read"]
    /\ UNCHANGED <<rowVars, passVars, payload, shown, faults, disturbed>>

\* Mutants: no check for stale writes, and the comparison turned round.
FoundNewerUnchecked(q) == FALSE
FoundNewerReversed(q) ==
    found[q] # NoRow /\ CalculatedAt[found[q]] < CalculatedAt[payload[q]]

\* The score found is newer than the payload.
FoundNewer(q) ==
    found[q] # NoRow /\ CalculatedAt[found[q]] > CalculatedAt[payload[q]]

\* IgnoredStale.
JobsIgnores(q) ==
    /\ request[q] = "read"
    /\ FoundNewer(q)
    /\ Finish(q, "ok")
    /\ UNCHANGED <<rowVars, passVars, shown, faults, disturbed>>

\* Updated, whatever the score is by now, or Inserted.
JobsStores(q) ==
    LET s == SubjectOf[payload[q]]
    IN  /\ request[q] = "read"
        /\ ~FoundNewer(q)
        /\ found[q] = NoRow => shown[s] = NoRow
        /\ shown' = [shown EXCEPT ![s] = payload[q]]
        /\ Finish(q, "ok")
        /\ UNCHANGED <<rowVars, passVars, faults, disturbed>>

\* UX_Compatibility_Job_User refuses a second INSERT: 500.
JobsCollides(q) ==
    /\ request[q] = "read"
    /\ found[q] = NoRow
    /\ shown[SubjectOf[payload[q]]] # NoRow
    /\ Finish(q, "error")
    /\ UNCHANGED <<rowVars, passVars, shown, faults, disturbed>>

JobsFails(q) ==
    /\ request[q] \in {"received", "read"}
    /\ \/ Fault("jobs") /\ Finish(q, "error")
       \/ Fault("reject") /\ Finish(q, "refused")
    /\ UNCHANGED <<rowVars, passVars, shown, disturbed>>

-----------------------------------------------------------------------------
PassStep(p) == Post(p) \/ Answered(p) \/ Mark(p)
JobsStep(q) == JobsReads(q) \/ JobsIgnores(q) \/ JobsStores(q) \/ JobsCollides(q)

Next ==
    \/ \E r \in Row : Insert(r) \/ BecomesDue(r)
    \/ \E p \in Pass :
         \/ BeginPass(p) \/ PassStep(p)
         \/ TimesOut(p) \/ MarkFails(p) \/ PassDies(p)
    \/ \E q \in Request : JobsStep(q) \/ JobsFails(q)

Spec == Init /\ [][Next]_vars

\* The timer fires again and again, a started pass and a started request go on,
\* and time passes.  Completions and faults are not fair.
Fairness ==
    /\ \A r \in Row : WF_vars(BecomesDue(r))
    /\ \A p \in Pass : WF_vars(BeginPass(p)) /\ WF_vars(PassStep(p))
    /\ \A q \in Request : WF_vars(JobsStep(q))

FairSpec == Spec /\ Fairness

-----------------------------------------------------------------------------
(* Properties.                                                             *)

\* The score that is shown never gives way to one calculated earlier: what the
\* check for a newer CalculatedAt in the upsert route is for.
Regresses(s) ==
    /\ shown[s] # NoRow
    /\ CalculatedAt[shown'[s]] < CalculatedAt[shown[s]]

ScoreNeverRegresses == [][\A s \in Subject : ~Regresses(s)]_vars

\* It is kept as long as a single pass runs and waits for its answers, however
\* Jobs fails, rows are retried out of order and outcomes go unrecorded.
QuietScoreNeverRegresses ==
    [][~disturbed' => \A s \in Subject : ~Regresses(s)]_vars

\* A row marked Delivered is the one the user sees, or was overtaken by a result
\* calculated no earlier.
QuietDeliveredIsShown ==
    ~disturbed => \A r \in Row : status[r] = "Delivered" =>
        /\ shown[SubjectOf[r]] # NoRow
        /\ CalculatedAt[shown[SubjectOf[r]]] >= CalculatedAt[r]

\* Every row is delivered or given up in the end, and stays so, although passes
\* overlap, give up on requests and die.
EveryRowSettles ==
    \A r \in Row : status[r] = "Pending" ~> [](status[r] \in Closed)

=============================================================================
