------------------------- MODULE EnrichmentPipeline -------------------------
(***************************************************************************)
(* The life of an enrichment request across the services that carry it:    *)
(*   - POST /enrichment/runs in Enrichment Core, one step per remote call; *)
(*   - the Gateway's dispatch, lease and complete handlers;                *)
(*   - the Service Bus queue, with locks that lapse and redelivery;        *)
(*   - the compatibility workers, with crashes, inference outages and the  *)
(*     outage recovery loop;                                               *)
(*   - Enrichment Core's run store, whose transactions are the actions of  *)
(*     EnrichmentRuns.                                                     *)
(*                                                                         *)
(* A worker waits for one Gateway call at a time.  The call goes on when   *)
(* the worker gives up on it, so late effects of an abandoned call happen. *)
(* The Gateway's own get_run / get_latest_id checks before a lease are not *)
(* a step: Core repeats them, and a run that is not the latest never       *)
(* becomes the latest again, so they refuse nothing that Core would grant. *)
(*                                                                         *)
(* External: the Service Bus (a message is ready, locked by one receiver,  *)
(* completed, or dead-lettered after MaxDelivery deliveries) and the       *)
(* inference service (answers, or is unavailable at most MaxOutages times).*)
(***************************************************************************)
EXTENDS EnrichmentRuns

CONSTANTS
    Worker, NoWorker,
    MaxDelivery,  \* MaxDeliveryCount of the queue
    MaxOutages,   \* bound on inference outages
    Faults        \* the faults that may happen

\* "overlap":  a POST starts while another one for its subject is being stored,
\*             or within the resolution of the clock after it;
\* "create":   the run cannot be stored;
\* "snapshot": an input of the snapshot cannot be fetched or stored;
\* "dispatch": the dispatch call fails and nothing was enqueued;
\* "reply":    an HTTP call takes effect and its caller sees an error;
\* "crash":    a worker dies, or gives up on a call;
\* "release":  Core fails while a run is returned to the queue;
\* "lock":     a message lock lapses while its receiver is alive;
\* "deadline": a lease or a TTL runs out.
AllFaults == {"overlap", "create", "snapshot", "dispatch", "reply", "crash", "release",
              "lock", "deadline"}

ASSUME PipelineAssumption ==
    /\ NoWorker \notin Worker
    /\ MaxDelivery \in Nat \ {0}
    /\ MaxOutages \in Nat
    /\ Faults \subseteq AllFaults

VARIABLES
    route,       \* progress of the POST /enrichment/runs that creates a run
    msg,         \* the run's Service Bus message
    holder,      \* the worker that holds the message's lock
    deliveries,  \* its delivery count
    pc,          \* what a worker does
    job,         \* the run it does it for
    token,       \* the lease token of its current or last Gateway call
    call,        \* progress of the Gateway call made under a token
    callRun,     \* the runId in that call
    answer,      \* the verdict in that call, once it is a completion
    outages      \* number of outages so far

sbVars == <<msg, holder, deliveries>>
workerVars == <<pc, job, token>>
callVars == <<call, callRun, answer>>
pipeVars == <<vars, route, sbVars, workerVars, callVars, outages>>

WaitingPc == {"leasing", "reacquiring", "reporting", "releasing"}

PipeInit ==
    /\ Init
    /\ route = [r \in Run |-> "none"]
    /\ msg = [r \in Run |-> "none"]
    /\ holder = [r \in Run |-> NoWorker]
    /\ deliveries = [r \in Run |-> 0]
    /\ pc = [w \in Worker |-> "idle"]
    /\ job = [w \in Worker |-> NoRun]
    /\ token = [w \in Worker |-> NoToken]
    /\ call = [t \in Token |-> "none"]
    /\ callRun = [t \in Token |-> NoRun]
    /\ answer = [t \in Token |-> "Failed"]
    /\ outages = 0

-----------------------------------------------------------------------------
(* POST /enrichment/runs.  Every failure after the create leaves the run as *)
(* it is and answers the client: the route never retries.                   *)

RouteTo(r, stage) == route' = [route EXCEPT ![r] = stage]
RouteOnly == UNCHANGED <<workerVars, callVars, outages>>

Overlaps(r) ==
    \E s \in Run \ {r} :
        /\ SameSubject(r, s)
        /\ status[s] = "Creating" \/ requestedAt[s] = clock

PostBegin(r) ==
    /\ route[r] = "none"
    /\ "overlap" \in Faults \/ ~Overlaps(r)
    /\ CreateBegin(r)
    /\ RouteTo(r, "creating")
    /\ RouteOnly /\ UNCHANGED sbVars

PostCreated(r) ==
    /\ route[r] = "creating"
    /\ CreateCommit(r)
    /\ RouteTo(r, "created")
    /\ RouteOnly /\ UNCHANGED sbVars

PostCreateFails(r) ==
    /\ "create" \in Faults
    /\ route[r] = "creating"
    /\ CreateRollback(r)
    /\ RouteTo(r, "ended")
    /\ RouteOnly /\ UNCHANGED sbVars

PostSnapshot(r) ==
    /\ route[r] = "created"
    /\ WriteSnapshot(r)
    /\ RouteTo(r, "snapshotted")
    /\ RouteOnly /\ UNCHANGED sbVars

\* Mutant: the route goes on without a snapshot.
PostWithoutSnapshot(r) ==
    /\ "snapshot" \in Faults
    /\ route[r] = "created"
    /\ RouteTo(r, "snapshotted")
    /\ RouteOnly /\ UNCHANGED <<vars, sbVars>>

PostSnapshotFails(r) ==
    /\ "snapshot" \in Faults
    /\ route[r] = "created"
    /\ RouteTo(r, "ended")
    /\ RouteOnly /\ UNCHANGED <<vars, sbVars>>

\* The Gateway sends the message.  When its answer is lost, or comes after the
\* 10 seconds the route waits, the route believes that the dispatch failed.
PostDispatch(r) ==
    /\ route[r] = "snapshotted"
    /\ msg' = [msg EXCEPT ![r] = "ready"]
    /\ \/ RouteTo(r, "dispatched")
       \/ "reply" \in Faults /\ RouteTo(r, "ended")
    /\ RouteOnly /\ UNCHANGED <<vars, holder, deliveries>>

PostDispatchFails(r) ==
    /\ "dispatch" \in Faults
    /\ route[r] = "snapshotted"
    /\ RouteTo(r, "ended")
    /\ RouteOnly /\ UNCHANGED <<vars, sbVars>>

PostMarkQueued(r) ==
    /\ route[r] = "dispatched"
    /\ IF status[r] = "Pending" THEN MarkQueued(r) ELSE UNCHANGED vars
    /\ RouteTo(r, "ended")
    /\ RouteOnly /\ UNCHANGED sbVars

PostMarkQueuedFails(r) ==
    /\ "reply" \in Faults
    /\ route[r] = "dispatched"
    /\ RouteTo(r, "ended")
    /\ RouteOnly /\ UNCHANGED <<vars, sbVars>>

-----------------------------------------------------------------------------
(* What the worker does with the answer to the call it waits for.          *)

Awaiting(t) == {w \in Worker : token[w] = t /\ pc[w] \in WaitingPc}

\* The workers in W go on to next[pc]; "idle" is the outer except branch of the
\* main loop, which forgets the message without settling it.
GoOn(W, next) ==
    /\ pc' = [w \in Worker |-> IF w \in W THEN next[pc[w]] ELSE pc[w]]
    /\ job' = [w \in Worker |-> IF w \in W /\ pc'[w] = "idle" THEN NoRun ELSE job[w]]
    /\ token' = [w \in Worker |-> IF w \in W /\ pc'[w] = "idle" THEN NoToken ELSE token[w]]

OnGranted == [leasing |-> "inferring", reacquiring |-> "inferring"]
\* A 409 settles the message on the first lease, and is an error on a later one.
OnConflict == [leasing |-> "settling", reacquiring |-> "idle"]
\* Mutant: the message is completed when the run is given back.
OnAcceptedSettles == [reporting |-> "settling", releasing |-> "settling"]
OnAccepted == [reporting |-> "settling", releasing |-> "cooling"]
OnError == [p \in WaitingPc |-> "idle"]

CallOnly == UNCHANGED <<route, sbVars, outages>>
EndCall(t) == call' = [call EXCEPT ![t] = "none"] /\ UNCHANGED <<callRun, answer>>

-----------------------------------------------------------------------------
(* The worker's main loop.                                                 *)

\* gw.lease: POST /work/lease under a token the Gateway is about to draw.
SendLease(w, r, t) ==
    /\ call[t] = "none"
    /\ txn[t] = "unused"
    /\ call' = [call EXCEPT ![t] = "lease"]
    /\ callRun' = [callRun EXCEPT ![t] = r]
    /\ token' = [token EXCEPT ![w] = t]
    /\ UNCHANGED answer

Receive(w, r) ==
    /\ pc[w] = "idle"
    /\ msg[r] = "ready"
    /\ msg' = [msg EXCEPT ![r] = "locked"]
    /\ holder' = [holder EXCEPT ![r] = w]
    /\ deliveries' = [deliveries EXCEPT ![r] = @ + 1]
    /\ pc' = [pc EXCEPT ![w] = "leasing"]
    /\ job' = [job EXCEPT ![w] = r]
    /\ \E t \in Token : SendLease(w, r, t)
    /\ UNCHANGED <<vars, route, outages>>

\* gw.complete / gw.complete_error: POST /work/complete.
SendComplete(w, v) ==
    /\ call' = [call EXCEPT ![token[w]] = "complete"]
    /\ answer' = [answer EXCEPT ![token[w]] = v]
    /\ UNCHANGED <<callRun, job, token>>

\* Inference ends with a score, or with an error that no retry can cure.
Infer(w) ==
    /\ pc[w] = "inferring"
    /\ pc' = [pc EXCEPT ![w] = "reporting"]
    /\ \E v \in Result \cup {"Failed"} : SendComplete(w, v)
    /\ CallOnly /\ UNCHANGED vars

\* The retries are used up: run_with_outage_recovery releases the run first.
Outage(w) ==
    /\ pc[w] = "inferring"
    /\ outages < MaxOutages
    /\ outages' = outages + 1
    /\ pc' = [pc EXCEPT ![w] = "releasing"]
    /\ SendComplete(w, "Unavailable")
    /\ UNCHANGED <<vars, route, sbVars>>

\* The health probe succeeds after a cooldown.
Reacquire(w) ==
    /\ pc[w] = "cooling"
    /\ pc' = [pc EXCEPT ![w] = "reacquiring"]
    /\ \E t \in Token : SendLease(w, job[w], t)
    /\ UNCHANGED <<vars, job, route, sbVars, outages>>

\* receiver.complete_message fails when the lock was lost.
Settle(w) ==
    /\ pc[w] = "settling"
    /\ msg' = [msg EXCEPT ![job[w]] = IF holder[job[w]] = w THEN "done" ELSE @]
    /\ holder' = [holder EXCEPT ![job[w]] = IF @ = w THEN NoWorker ELSE @]
    /\ pc' = [pc EXCEPT ![w] = "idle"]
    /\ job' = [job EXCEPT ![w] = NoRun]
    /\ token' = [token EXCEPT ![w] = NoToken]
    /\ UNCHANGED <<vars, route, deliveries, callVars, outages>>

\* A crash, a timeout of the call it waits for, or any other exception.
WorkerFails(w) ==
    /\ "crash" \in Faults
    /\ pc[w] # "idle"
    /\ pc' = [pc EXCEPT ![w] = "idle"]
    /\ job' = [job EXCEPT ![w] = NoRun]
    /\ token' = [token EXCEPT ![w] = NoToken]
    /\ UNCHANGED <<vars, route, sbVars, callVars, outages>>

\* The lock of a message nobody renews runs out.
LockLapses(r) ==
    /\ msg[r] = "locked"
    /\ "lock" \in Faults \/ job[holder[r]] # r
    /\ msg' = [msg EXCEPT ![r] = IF deliveries[r] < MaxDelivery THEN "ready" ELSE "dead"]
    /\ holder' = [holder EXCEPT ![r] = NoWorker]
    /\ UNCHANGED <<vars, route, deliveries, workerVars, callVars, outages>>

-----------------------------------------------------------------------------
(* POST /work/lease in the Gateway.                                        *)

\* Core's latest-id route orders by RequestedAt alone: on a tie it may answer
\* another run, or this one.
Ties(r) == \E s \in Rows \ {r} : SameSubject(r, s) /\ requestedAt[s] = requestedAt[r]

\* NOT_LATEST, INVALID_STATUS or ALREADY_LEASED: 409.
LeaseRefused(t) ==
    /\ call[t] = "lease"
    /\ txn[t] = "unused"
    /\ ~Leasable(callRun[t]) \/ Ties(callRun[t])
    /\ GoOn(Awaiting(t), OnConflict)
    /\ EndCall(t)
    /\ CallOnly /\ UNCHANGED vars

LeaseReads(t) ==
    /\ call[t] = "lease"
    /\ LeaseRead(t, callRun[t])
    /\ CallOnly /\ UNCHANGED <<workerVars, callVars>>

LeaseWrites(t) ==
    /\ call[t] = "lease"
    /\ LeaseWrite(t)
    /\ call' = [call EXCEPT ![t] = "input"]
    /\ CallOnly /\ UNCHANGED <<workerVars, callRun, answer>>

\* The unique index refuses the write: Core answers 500, the Gateway 502.
LeaseFails(t) ==
    /\ call[t] = "lease"
    /\ OtherActive(callRun[t]) # {}
    /\ LeaseRollback(t)
    /\ GoOn(Awaiting(t), OnError)
    /\ EndCall(t)
    /\ CallOnly

\* The lease stands even when get_input then finds no snapshot (409).
InputReturned(t) ==
    /\ call[t] = "input"
    /\ GoOn(Awaiting(t), IF snapshot[callRun[t]] THEN OnGranted ELSE OnConflict)
    /\ EndCall(t)
    /\ CallOnly /\ UNCHANGED vars

-----------------------------------------------------------------------------
(* POST /work/complete in the Gateway.                                     *)

\* The checks of handle_work_complete on the run it has read, and on its own
\* question for the latest run.
Accepts(t) ==
    LET r == callRun[t]
    IN  leaseToken[r] = t /\ age[r] = "fresh" /\ MayBeLatest(r)

\* LEASE_MISMATCH, LEASE_EXPIRED or NOT_LATEST.
CompletionRefused(t) ==
    /\ call[t] = "complete"
    /\ ~Accepts(t) \/ Ties(callRun[t])
    /\ GoOn(Awaiting(t), OnError)
    /\ EndCall(t)
    /\ CallOnly /\ UNCHANGED vars

CompletionForwarded(t) ==
    /\ call[t] = "complete"
    /\ Accepts(t)
    /\ CompleteBegin(t, answer[t])
    /\ call' = [call EXCEPT ![t] = "forwarded"]
    /\ CallOnly /\ UNCHANGED <<workerVars, callRun, answer>>

\* Core answers 204 to every outcome but the completion of a waiting run (409).
CompletionReturned(t) ==
    /\ call[t] = "forwarded"
    /\ \/ CompleteIgnored(t) \/ CompleteStale(t) \/ CompleteRequeue(t)
       \/ CompleteFailed(t) \/ CompleteSucceeded(t)
    /\ GoOn(Awaiting(t), IF status[callRun[t]] \in {"Pending", "Queued"} /\ IsLatest(callRun[t])
                         THEN OnError ELSE OnAccepted)
    /\ EndCall(t)
    /\ CallOnly

\* Core's transaction fails (500), and so does the call.
CompletionFails(t) ==
    /\ call[t] = "forwarded"
    /\ \/ "crash" \in Faults
       \/ "release" \in Faults /\ answer[t] = "Unavailable"
    /\ CompleteRollback(t)
    /\ GoOn(Awaiting(t), OnError)
    /\ EndCall(t)
    /\ CallOnly

-----------------------------------------------------------------------------
(* Core's timer.                                                           *)

PipeDeadline(r) ==
    /\ "deadline" \in Faults
    /\ DeadlinePasses(r)
    /\ CallOnly /\ UNCHANGED <<workerVars, callVars>>

PipeCleanup == Cleanup /\ CallOnly /\ UNCHANGED <<workerVars, callVars>>

PipeTick == Tick /\ CallOnly /\ UNCHANGED <<workerVars, callVars>>

-----------------------------------------------------------------------------
RouteStep(r) ==
    \/ PostCreated(r) \/ PostCreateFails(r)
    \/ PostSnapshot(r) \/ PostSnapshotFails(r)
    \/ PostDispatch(r) \/ PostDispatchFails(r)
    \/ PostMarkQueued(r) \/ PostMarkQueuedFails(r)

WorkerStep(w) == Infer(w) \/ Outage(w) \/ Reacquire(w) \/ Settle(w)

GatewayStep(t) ==
    \/ LeaseRefused(t) \/ LeaseReads(t) \/ LeaseWrites(t) \/ LeaseFails(t)
    \/ InputReturned(t)
    \/ CompletionRefused(t) \/ CompletionForwarded(t) \/ CompletionReturned(t)
    \/ CompletionFails(t)

PipeNext ==
    \/ \E r \in Run : PostBegin(r) \/ RouteStep(r) \/ LockLapses(r) \/ PipeDeadline(r)
    \/ \E w \in Worker, r \in Run : Receive(w, r)
    \/ \E w \in Worker : WorkerStep(w) \/ WorkerFails(w)
    \/ \E t \in Token : GatewayStep(t)
    \/ PipeCleanup
    \/ PipeTick

PipeSpec == PipeInit /\ [][PipeNext]_pipeVars

\* A handler or worker that has started a step goes on, the broker hands a
\* ready message to an idle worker and lets an unattended lock lapse, an outage
\* ends, deadlines pass and the timer fires.  Requests and faults are not fair.
Fairness ==
    /\ \A r \in Run : WF_pipeVars(RouteStep(r))
    /\ \A r \in Run : WF_pipeVars(LockLapses(r)) /\ WF_pipeVars(PipeDeadline(r))
    /\ \A r \in Run : WF_pipeVars(\E w \in Worker : Receive(w, r))
    /\ \A w \in Worker : WF_pipeVars(WorkerStep(w))
    /\ \A t \in Token : WF_pipeVars(GatewayStep(t))
    /\ WF_pipeVars(PipeCleanup)

FairPipeSpec == PipeSpec /\ Fairness

-----------------------------------------------------------------------------
(* Properties.                                                             *)

\* A worker that is granted a lease finds its input: the message that leads it
\* to the run was sent after the snapshot was stored, in every interleaving.
LeaseFindsInput ==
    \A t \in Token : call[t] = "input" => snapshot[callRun[t]]

\* A message is settled only when its run is over or a newer request has taken
\* its place: as long as the answer is wanted, redelivery can still reach the run.
SettledWorkIsOver ==
    \A r \in Run : msg[r] = "done" => status[r] \in Terminal \/ ~IsLatest(r)

\* Without faults a request that reaches the queue is answered, or gives way to
\* a newer one, whatever the order of the route, the workers and the outages.
Answered ==
    \A r \in Run : msg[r] = "ready" ~> status[r] \in {"Succeeded", "Failed"} \/ ~IsLatest(r)

\* Whatever fails, a run that was Queued or Leased is eventually closed: by an
\* answer, by a newer request, or by the cleanup timer.
QueuedRunEnds ==
    \A r \in Run : status[r] \in {"Queued", "Leased"} ~> status[r] \in Terminal

\* A run whose route gave up before or during the dispatch does not stay
\* Pending for ever.
PendingIsPickedUp ==
    \A r \in Run : (route[r] = "ended" /\ status[r] = "Pending") ~> status[r] # "Pending"

=============================================================================
