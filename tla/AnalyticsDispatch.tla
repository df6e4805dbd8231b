------------------------- MODULE AnalyticsDispatch --------------------------
(***************************************************************************)
(* The Analytics service: the route that ingests events and the dispatcher *)
(* that exports them to Mixpanel, with dbo.AnalyticsEvents and             *)
(* dbo.AnalyticsDispatch.                                                  *)
(*                                                                         *)
(* Cloud Scheduler calls the dispatcher every minute and repeats a failed  *)
(* call, an operator may call it too, and the service runs eight threads:  *)
(* passes overlap.  A pass selects due rows, marks them as sending, sends  *)
(* them in one request and records one outcome for all of them, each in a  *)
(* transaction of its own.  Only the update to sending looks at the status *)
(* of a row.                                                               *)
(*                                                                         *)
(* Abstractions.  Every post has an identifier of its own, which is also   *)
(* the EventId and the DispatchId it would create.  AttemptCount only      *)
(* lengthens the delay of a retry and is left out: a row waits or is due.  *)
(* Mixpanel is the set of events it has stored; it drops repetitions by    *)
(* $insert_id, which is the EventId.  Posts are valid, and the export is   *)
(* enabled.                                                                *)
(***************************************************************************)
EXTENDS Naturals, FiniteSets

CONSTANTS
    Post,        \* POST /analytics/events requests
    KeyOf,       \* producerEventId, with the source domain, of each post
    OccurredAt,  \* occurredAtUtc of each post
    Mappable,    \* posts that map_event_to_mixpanel accepts
    Pass,        \* dispatcher calls that may run at the same time
    NoKey, NoEvent,
    BatchSize,   \* MIXPANEL_BATCH_SIZE
    Faults,      \* the faults that may happen
    MaxFaults    \* bound on their number

\* "ingest": a post fails before it commits;
\* "retry":  no answer in 20 seconds, no connection, or a status to be retried;
\* "refuse": a 4xx other than 401, 403 and 429;
\* "error":  the import raises another exception, which ends the pass;
\* "mark":   a transaction of the pass fails, which ends it;
\* "crash":  the instance of a pass goes down.
AllFaults == {"ingest", "retry", "refuse", "error", "mark", "crash"}

ASSUME PostAssumption == NoEvent \notin Post /\ OccurredAt \in [Post -> Nat]
ASSUME LimitAssumption ==
    /\ BatchSize \in Nat \ {0} /\ MaxFaults \in Nat
    /\ Faults \subseteq AllFaults

VARIABLES
    post,       \* progress of each post
    answer,     \* the eventId it was answered
    status,     \* Status of the dispatch row, or "absent"
    waiting,    \* rows whose NextAttemptAtUtc is in the future
    pass,       \* what a pass is about to do
    batch,      \* the rows it works on
    outcome,    \* what it has to record
    imported,   \* events that Mixpanel has stored
    faults,     \* number of faults so far
    abandoned,  \* rows that a pass has left in sending
    disturbed   \* whether passes have overlapped

ingestVars == <<post, answer>>
rowVars == <<status, waiting>>
passVars == <<pass, batch, outcome>>
ghosts == <<abandoned, disturbed>>
vars == <<ingestVars, rowVars, passVars, imported, faults, ghosts>>

Open == {"pending", "retry"}
Closed == {"sent", "dead"}

TypeOK ==
    /\ post \in [Post -> {"new", "inserting", "refused", "answered", "failed"}]
    /\ answer \in [Post -> Post \cup {NoEvent}]
    /\ status \in [Post -> {"absent", "sending"} \cup Open \cup Closed]
    /\ waiting \subseteq Post
    /\ pass \in [Pass -> {"idle", "mapping", "importing", "recording"}]
    /\ batch \in [Pass -> SUBSET Post]
    /\ outcome \in [Pass -> {"none", "ok", "retry", "refused"}]
    /\ imported \subseteq Post
    /\ faults \in 0..MaxFaults
    /\ abandoned \subseteq Post
    /\ disturbed \in BOOLEAN

Init ==
    /\ post = [e \in Post |-> "new"]
    /\ answer = [e \in Post |-> NoEvent]
    /\ status = [e \in Post |-> "absent"]
    /\ waiting = {}
    /\ pass = [p \in Pass |-> "idle"]
    /\ batch = [p \in Pass |-> {}]
    /\ outcome = [p \in Pass |-> "none"]
    /\ imported = {}
    /\ faults = 0
    /\ abandoned = {}
    /\ disturbed = FALSE

Fault(kind) == kind \in Faults /\ faults < MaxFaults /\ faults' = faults + 1

-----------------------------------------------------------------------------
(* Ingest: insert_event_with_dispatch.                                     *)

\* The events stored for the key of a post.
Existing(e) ==
    {x \in Post : KeyOf[e] # NoKey /\ KeyOf[x] = KeyOf[e] /\ status[x] # "absent"}

Answer(e, x) ==
    /\ post' = [post EXCEPT ![e] = "answered"]
    /\ answer' = [answer EXCEPT ![e] = x]

\* The first look: a known key is answered with the event stored for it.
Find(e) ==
    /\ post[e] = "new"
    /\ \/ \E x \in Existing(e) : Answer(e, x)
       \/ /\ Existing(e) = {}
          /\ post' = [post EXCEPT ![e] = "inserting"]
          /\ UNCHANGED answer
    /\ UNCHANGED <<rowVars, passVars, imported, faults, ghosts>>

\* Mutant: the index on (SourceDomain, ProducerEventId) is not unique.
KeyIsFreeNoIndex(e) == TRUE

\* UX_AnalyticsEvents_SourceDomain_ProducerEventId lets the event in.
KeyIsFree(e) == Existing(e) = {}

\* The event and its dispatch row, in one transaction.
Insert(e) ==
    /\ post[e] = "inserting"
    /\ KeyIsFree(e)
    /\ status' = [status EXCEPT ![e] = "pending"]
    /\ Answer(e, e)
    /\ UNCHANGED <<waiting, passVars, imported, faults, ghosts>>

\* IntegrityError: a post with the same key was faster.
InsertRefused(e) ==
    /\ post[e] = "inserting"
    /\ ~KeyIsFree(e)
    /\ post' = [post EXCEPT ![e] = "refused"]
    /\ UNCHANGED <<answer, rowVars, passVars, imported, faults, ghosts>>

\* The second look, on a connection of its own.
FindAgain(e) ==
    /\ post[e] = "refused"
    /\ \E x \in Existing(e) : Answer(e, x)
    /\ UNCHANGED <<rowVars, passVars, imported, faults, ghosts>>

\* Producers do not repeat a post that has failed.
PostFails(e) ==
    /\ post[e] \in {"new", "inserting", "refused"}
    /\ Fault("ingest")
    /\ post' = [post EXCEPT ![e] = "failed"]
    /\ UNCHANGED <<answer, rowVars, passVars, imported, ghosts>>

-----------------------------------------------------------------------------
(* Export: run_dispatch_once.                                              *)

\* Mutants: a retry is never selected again, and the status is not looked at.
DuePendingOnly == {e \in Post : status[e] = "pending"} \ waiting
DueAnyStatus == {e \in Post : status[e] # "absent"} \ waiting

Due == {e \in Post : status[e] \in Open} \ waiting

\* A batch is a full one or all there is, and the oldest events come first.
Oldest(rows) ==
    /\ rows # {} /\ rows \subseteq Due
    /\ Cardinality(rows) <= BatchSize
    /\ Cardinality(rows) = BatchSize \/ rows = Due
    /\ \A e \in rows, x \in Due \ rows : OccurredAt[e] <= OccurredAt[x]

\* fetch_due_dispatch_rows.
Fetch(p) ==
    /\ pass[p] = "idle"
    /\ \E rows \in SUBSET Due :
         /\ Oldest(rows)
         /\ batch' = [batch EXCEPT ![p] = rows]
    /\ pass' = [pass EXCEPT ![p] = "mapping"]
    /\ disturbed' = (disturbed \/ \E o \in Pass : pass[o] # "idle")
    /\ UNCHANGED <<ingestVars, rowVars, outcome, imported, faults, abandoned>>

EndPass(p) ==
    /\ pass' = [pass EXCEPT ![p] = "idle"]
    /\ batch' = [batch EXCEPT ![p] = {}]
    /\ outcome' = [outcome EXCEPT ![p] = "none"]

\* A row that cannot be mapped is marked dead at once; the last one ends the
\* pass if nothing is left to send.
MarkUnmappable(p) ==
    /\ pass[p] = "mapping"
    /\ \E e \in batch[p] \ Mappable :
         /\ status' = [status EXCEPT ![e] = "dead"]
         /\ IF batch[p] = {e}
            THEN EndPass(p)
            ELSE batch' = [batch EXCEPT ![p] = @ \ {e}] /\ UNCHANGED <<pass, outcome>>
    /\ UNCHANGED <<ingestVars, waiting, imported, faults, ghosts>>

\* mark_dispatch_sending: rows another pass has taken on stay as they are, yet
\* they are sent all the same.
MarkSending(p) ==
    /\ pass[p] = "mapping"
    /\ batch[p] \subseteq Mappable
    /\ status' = [e \in Post |->
         IF e \in batch[p] /\ status[e] \in Open THEN "sending" ELSE status[e]]
    /\ pass' = [pass EXCEPT ![p] = "importing"]
    /\ UNCHANGED <<ingestVars, waiting, batch, outcome, imported, faults, ghosts>>

\* The answer to import_events.  A success stands for all rows of the batch, because the
\* import is asked for with strict=1 (the default of MIXPANEL_STRICT); one that is to be
\* retried may have been stored nevertheless.
Import(p) ==
    /\ pass[p] = "importing"
    /\ \/ /\ imported' = imported \cup batch[p]
          /\ outcome' = [outcome EXCEPT ![p] = "ok"]
          /\ UNCHANGED faults
       \/ /\ Fault("retry")
          /\ imported' \in {imported, imported \cup batch[p]}
          /\ outcome' = [outcome EXCEPT ![p] = "retry"]
       \/ /\ Fault("refuse")
          /\ outcome' = [outcome EXCEPT ![p] = "refused"]
          /\ UNCHANGED imported
    /\ pass' = [pass EXCEPT ![p] = "recording"]
    /\ UNCHANGED <<ingestVars, rowVars, batch, ghosts>>

\* Mutants: any answer counts as success, a retry does not set the status, or
\* sets one that the table does not know.
StatusForAnyAnswer == [ok |-> "sent", retry |-> "sent", refused |-> "dead"]
StatusForNoReset == [ok |-> "sent", retry |-> "sending", refused |-> "dead"]
StatusForUnknown == [ok |-> "sent", retry |-> "failed", refused |-> "dead"]

StatusFor == [ok |-> "sent", retry |-> "retry", refused |-> "dead"]

\* mark_dispatch_sent, mark_dispatch_retry or mark_dispatch_dead, whatever the
\* status of the rows is by now.
Record(p) ==
    /\ pass[p] = "recording"
    /\ status' = [e \in Post |->
         IF e \in batch[p] THEN StatusFor[outcome[p]] ELSE status[e]]
    /\ waiting' = IF outcome[p] = "retry" THEN waiting \cup batch[p] ELSE waiting
    /\ abandoned' = abandoned \ batch[p]
    /\ EndPass(p)
    /\ UNCHANGED <<ingestVars, imported, faults, disturbed>>

\* The call fails with 500, or the instance dies: the rows stay as they are.
PassFails(p) ==
    /\ \/ pass[p] = "importing" /\ Fault("error")
       \/ pass[p] \in {"mapping", "recording"} /\ Fault("mark")
       \/ pass[p] # "idle" /\ Fault("crash")
    /\ abandoned' = abandoned \cup {e \in batch[p] : status[e] = "sending"}
    /\ EndPass(p)
    /\ UNCHANGED <<ingestVars, rowVars, imported, disturbed>>

\* NextAttemptAtUtc passes.
BecomesDue(e) ==
    /\ e \in waiting
    /\ waiting' = waiting \ {e}
    /\ UNCHANGED <<ingestVars, status, passVars, imported, faults, ghosts>>

-----------------------------------------------------------------------------
Ingest(e) == Find(e) \/ Insert(e) \/ InsertRefused(e) \/ FindAgain(e)
PassStep(p) == MarkUnmappable(p) \/ MarkSending(p) \/ Import(p) \/ Record(p)

Next ==
    \/ \E e \in Post : Ingest(e) \/ PostFails(e) \/ BecomesDue(e)
    \/ \E p \in Pass : Fetch(p) \/ PassStep(p) \/ PassFails(p)

Spec == Init /\ [][Next]_vars

\* The scheduler calls again and again, a pass that has started goes on, and
\* time passes.  Posts and faults are not fair.
Fairness ==
    /\ \A e \in Post : WF_vars(BecomesDue(e))
    /\ \A p \in Pass : WF_vars(Fetch(p)) /\ WF_vars(PassStep(p))

FairSpec == Spec /\ Fairness

-----------------------------------------------------------------------------
(* Properties.                                                             *)

\* Posts with the same producerEventId are answered with the same event, and it
\* exists: what find, insert, refused insert and second find come to when several
\* posts go through them at the same time.
SameKeySameEvent ==
    \A d, e \in Post :
        /\ post[d] = "answered" /\ post[e] = "answered"
        /\ d = e \/ (KeyOf[d] = KeyOf[e] /\ KeyOf[d] # NoKey)
        => answer[d] = answer[e] /\ status[answer[d]] # "absent"

\* A row marked sent is stored in Mixpanel, also when several passes have sent it
\* and some of their requests have failed.
SentWasImported == \A e \in Post : status[e] = "sent" => e \in imported

\* A row in sending is in the hands of a pass that has still to record an outcome
\* for it, unless a pass has abandoned it: nothing but the end of a pass in
\* mid-flight leaves a row in a status the dispatcher does not select.
SendingIsHeld ==
    \A e \in Post : status[e] = "sending" =>
        \/ e \in abandoned
        \/ \E p \in Pass : e \in batch[p] /\ pass[p] \in {"importing", "recording"}

\* As long as passes do not overlap, a row that was sent or is dead stays so,
\* however imports fail and passes end.
QuietClosedIsFinal ==
    [][~disturbed' => \A e \in Post : status[e] \in Closed => status'[e] = status[e]]_vars

\* Every event is sent or given up in the end, and stays so, although passes
\* overlap, unless a pass has abandoned its row.
EveryEventSettles ==
    \A e \in Post : status[e] = "pending" ~>
        (e \in abandoned \/ [](status[e] \in Closed))

\* What the documentation of the export flow says: dispatch rows become sent,
\* retry or dead.
RowsBecomeSentRetryOrDead ==
    \A e \in Post : status[e] = "pending" ~> status[e] \in {"sent", "retry", "dead"}

=============================================================================
