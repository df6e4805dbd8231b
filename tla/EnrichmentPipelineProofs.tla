----------------------- MODULE EnrichmentPipelineProofs -----------------------
(***************************************************************************)
(* Proofs about EnrichmentPipeline, for any requests, workers, tokens,     *)
(* queue limits and any set of faults.                                     *)
(*                                                                         *)
(* The first result is that the pipeline implements the run store, which   *)
(* makes the theorems of EnrichmentRunsProofs theorems of the pipeline.    *)
(* The second, that a lease finds its input, holds whatever fails.  The    *)
(* third, that settled work is over, holds under Steady, a condition on    *)
(* the constant Faults.                                                    *)
(***************************************************************************)
EXTENDS EnrichmentPipeline, EnrichmentRunsProofs

\* Where a worker holds a token for a call it has made or is entitled to make.
BusyPc == WaitingPc \cup {"inferring"}

\* What Core has for a token from the moment it has granted a lease under it.
Granted == {"granted", "completing", "done"}

\* The values of pc.
PcValues == WaitingPc \cup {"idle", "inferring", "settling", "cooling"}

\* The variables of the pipeline stay in their ranges.
PipeTypeOK ==
    /\ route \in [Run -> {"none", "creating", "created", "snapshotted", "dispatched", "ended"}]
    /\ msg \in [Run -> {"none", "ready", "locked", "done", "dead"}]
    /\ holder \in [Run -> Worker \cup {NoWorker}]
    /\ deliveries \in [Run -> Nat]
    /\ pc \in [Worker -> PcValues]
    /\ job \in [Worker -> Run \cup {NoRun}]
    /\ token \in [Worker -> Token \cup {NoToken}]
    /\ call \in [Token -> {"none", "lease", "input", "complete", "forwarded"}]
    /\ callRun \in [Token -> Run \cup {NoRun}]
    /\ answer \in [Token -> Verdict]
    /\ outages \in 0..MaxOutages

\* A worker's call is about its run, is at the stage the worker waits for, and no other
\* worker shares its token: a token is drawn again only while it stands for nothing.
CallOfWorker ==
    /\ \A w \in Worker :
          /\ pc[w] \in BusyPc => token[w] \in Token /\ callRun[token[w]] = job[w]
          /\ pc[w] \in {"leasing", "reacquiring"} => call[token[w]] \in {"lease", "input"}
          /\ pc[w] = "inferring" => call[token[w]] = "none" /\ txn[token[w]] \in Granted
          /\ pc[w] \in {"reporting", "releasing"} => call[token[w]] \in {"complete", "forwarded"}
    /\ \A v, w \in Worker :
          pc[v] \in BusyPc /\ pc[w] \in BusyPc /\ token[v] = token[w] => v = w
    /\ \A t \in Token : call[t] \in {"input", "complete", "forwarded"} => txn[t] \in Granted

\* Whoever has to do with a run has come to it after its snapshot was stored.
SnapshotFirst ==
    /\ \A r \in Run : route[r] \in {"snapshotted", "dispatched"} \/ msg[r] # "none"
                         => snapshot[r] = TRUE
    /\ \A w \in Worker : pc[w] # "idle" => job[w] \in Run /\ snapshot[job[w]] = TRUE
    /\ \A t \in Token : call[t] # "none" => callRun[t] \in Run /\ snapshot[callRun[t]] = TRUE

-----------------------------------------------------------------------------
(* The pipeline implements the run store.                                  *)

\* The pipeline starts with an empty store.
LEMMA StoreInit == PipeInit => Init
BY DEF PipeInit

\* Every step of the pipeline is a transaction of the store, or does not touch it.
LEMMA StoreStep ==
  ASSUME PipeTypeOK, [PipeNext]_pipeVars
  PROVE  [Next]_vars
<1>1. ASSUME UNCHANGED pipeVars PROVE UNCHANGED vars
  BY <1>1 DEF pipeVars
<1>2. ASSUME NEW r \in Run, PostBegin(r) \/ RouteStep(r) PROVE [Next]_vars
  BY <1>2 DEF PostBegin, RouteStep, PostCreated, PostCreateFails, PostSnapshot,
              PostSnapshotFails, PostDispatch, PostDispatchFails, PostMarkQueued,
              PostMarkQueuedFails, Next
<1>3. ASSUME NEW r \in Run, LockLapses(r) PROVE UNCHANGED vars
  BY <1>3 DEF LockLapses
<1>4. ASSUME NEW r \in Run, PipeDeadline(r) PROVE Next
  BY <1>4 DEF PipeDeadline, Next
<1>5. ASSUME NEW w \in Worker, NEW r \in Run, Receive(w, r) PROVE UNCHANGED vars
  BY <1>5 DEF Receive
<1>6. ASSUME NEW w \in Worker, WorkerStep(w) \/ WorkerFails(w) PROVE UNCHANGED vars
  BY <1>6 DEF WorkerStep, Infer, Outage, Reacquire, Settle, WorkerFails
<1>7. ASSUME NEW t \in Token, LeaseRefused(t) \/ InputReturned(t) \/ CompletionRefused(t)
      PROVE  UNCHANGED vars
  BY <1>7 DEF LeaseRefused, InputReturned, CompletionRefused
<1>8. ASSUME NEW t \in Token, LeaseReads(t) PROVE Next
  <2>1. LeaseRead(t, callRun[t]) /\ callRun[t] \in Run
    BY <1>8 DEF LeaseReads, LeaseRead, Leasable, Rows
  <2>. QED BY <2>1 DEF Next
<1>9. ASSUME NEW t \in Token, LeaseWrites(t) \/ LeaseFails(t) PROVE Next
  BY <1>9 DEF LeaseWrites, LeaseFails, Next
<1>10. ASSUME NEW t \in Token, CompletionForwarded(t) PROVE Next
  <2>1. CompleteBegin(t, answer[t]) /\ answer[t] \in Verdict
    BY <1>10 DEF CompletionForwarded, PipeTypeOK
  <2>. QED BY <2>1 DEF Next
<1>11. ASSUME NEW t \in Token, CompletionReturned(t) \/ CompletionFails(t) PROVE Next
  BY <1>11 DEF CompletionReturned, CompletionFails, Next
<1>12. ASSUME PipeCleanup \/ PipeTick PROVE Next
  BY <1>12 DEF PipeCleanup, PipeTick, Next
<1>. QED BY <1>1, <1>2, <1>3, <1>4, <1>5, <1>6, <1>7, <1>8, <1>9, <1>10, <1>11, <1>12
         DEF PipeNext, GatewayStep

-----------------------------------------------------------------------------
(* Calls and their workers.                                                *)

\* Where a worker goes from the pc in which it awaits an answer.
LEMMA Continuations ==
  /\ \A p \in {"leasing", "reacquiring"} :
        OnGranted[p] = "inferring" /\ OnConflict[p] \in {"settling", "idle"}
  /\ \A p \in {"reporting", "releasing"} : OnAccepted[p] \in {"settling", "cooling"}
  /\ \A p \in WaitingPc : OnError[p] = "idle"
BY DEF OnGranted, OnConflict, OnAccepted, OnError, WaitingPc

\* What becomes of the workers whose call has ended.
LEMMA GoOnEffect ==
  ASSUME PipeTypeOK, NEW W \in SUBSET Worker, NEW next, GoOn(W, next),
         \A w \in W : next[pc[w]] \in PcValues
  PROVE  /\ pc' \in [Worker -> PcValues]
         /\ job' \in [Worker -> Run \cup {NoRun}]
         /\ token' \in [Worker -> Token \cup {NoToken}]
         /\ \A w \in W : /\ pc'[w] = next[pc[w]]
                         /\ pc'[w] # "idle" => job'[w] = job[w] /\ token'[w] = token[w]
         /\ \A w \in Worker \ W : pc'[w] = pc[w] /\ job'[w] = job[w] /\ token'[w] = token[w]
BY DEF GoOn, PipeTypeOK

\* The workers that await a call do so at the stage the call is at.
LEMMA AwaitingPc ==
  ASSUME PipeTypeOK, CallOfWorker, NEW t \in Token, NEW w \in Awaiting(t)
  PROVE  /\ w \in Worker
         /\ call[t] \in {"lease", "input"} => pc[w] \in {"leasing", "reacquiring"}
         /\ call[t] \in {"complete", "forwarded"} => pc[w] \in {"reporting", "releasing"}
         /\ pc[w] \in WaitingPc
BY DEF Awaiting, CallOfWorker, WaitingPc, BusyPc

\* The initial values are in the ranges of the variables.
LEMMA PipeTypeInit == PipeInit => PipeTypeOK
BY PipelineAssumption DEF PipeInit, PipeTypeOK, PcValues, Verdict

\* The end of a call: who awaited it has gone on, or the call is as it was.
LEMMA CallEnds ==
  ASSUME TypeOK, PipeTypeOK, CallOfWorker, NEW t \in Token, call[t] # "none", NEW next,
         GoOn(Awaiting(t), next), EndCall(t), CallOnly,
         \A w \in Awaiting(t) : next[pc[w]] \in {"idle", "settling", "cooling", "inferring"},
         \A w \in Awaiting(t) : next[pc[w]] = "inferring" => txn'[t] \in Granted,
         \A u \in Token : u # t => txn'[u] = txn[u]
  PROVE  PipeTypeOK' /\ CallOfWorker'
<1>. DEFINE W == Awaiting(t)
<1>1. W \in SUBSET Worker /\ \A w \in W : next[pc[w]] \in PcValues
  BY DEF Awaiting, PcValues
<1>2. /\ pc' \in [Worker -> PcValues]
      /\ job' \in [Worker -> Run \cup {NoRun}]
      /\ token' \in [Worker -> Token \cup {NoToken}]
      /\ \A w \in W : /\ pc'[w] = next[pc[w]]
                      /\ pc'[w] # "idle" => job'[w] = job[w] /\ token'[w] = token[w]
      /\ \A w \in Worker \ W : pc'[w] = pc[w] /\ job'[w] = job[w] /\ token'[w] = token[w]
  BY <1>1, GoOnEffect
<1>3. /\ call' \in [Token -> {"none", "lease", "input", "complete", "forwarded"}]
      /\ callRun' = callRun /\ answer' = answer
      /\ call'[t] = "none" /\ \A u \in Token : u # t => call'[u] = call[u]
  BY DEF EndCall, PipeTypeOK
<1>4. PipeTypeOK'
  BY <1>2, <1>3 DEF PipeTypeOK, CallOnly, sbVars
<1>5. \A w \in W : pc'[w] \in {"idle", "settling", "cooling", "inferring"} /\ token[w] = t
                   /\ pc[w] \in BusyPc
  BY <1>2 DEF Awaiting, BusyPc
<1>6. \A w \in Worker \ W : pc[w] \in BusyPc => token[w] # t
  <2>1. ASSUME NEW w \in Worker \ W, pc[w] \in BusyPc, token[w] = t PROVE FALSE
    <3>1. pc[w] = "inferring"
      BY <2>1 DEF Awaiting, BusyPc
    <3>. QED BY <2>1, <3>1 DEF CallOfWorker
  <2>. QED BY <2>1
<1>. HIDE DEF W
<1>7. ASSUME NEW w \in Worker
      PROVE  /\ pc'[w] \in BusyPc => token'[w] \in Token /\ callRun'[token'[w]] = job'[w]
             /\ pc'[w] \in {"leasing", "reacquiring"} => call'[token'[w]] \in {"lease", "input"}
             /\ pc'[w] = "inferring" => call'[token'[w]] = "none" /\ txn'[token'[w]] \in Granted
             /\ pc'[w] \in {"reporting", "releasing"} =>
                   call'[token'[w]] \in {"complete", "forwarded"}
  <2>1. CASE w \in W
    <3>1. pc'[w] \in BusyPc => pc'[w] = "inferring"
      BY <1>5, <2>1 DEF BusyPc, WaitingPc
    <3>2. pc'[w] = "inferring" => token'[w] = t /\ job'[w] = job[w] /\ txn'[t] \in Granted
      BY <1>2, <1>5, <2>1 DEF W
    <3>3. token[w] = t /\ callRun[t] = job[w]
      BY <1>5, <2>1 DEF CallOfWorker
    <3>4. pc'[w] \notin WaitingPc
      BY <1>5, <2>1 DEF WaitingPc
    <3>. QED BY <1>3, <3>1, <3>2, <3>3, <3>4 DEF WaitingPc
  <2>2. CASE w \notin W
    <3>1. pc'[w] = pc[w] /\ job'[w] = job[w] /\ token'[w] = token[w]
      BY <1>2, <2>2
    <3>2. pc[w] \in BusyPc => token[w] # t /\ token[w] \in Token
      BY <1>6, <2>2 DEF CallOfWorker
    <3>. QED BY <1>3, <3>1, <3>2 DEF CallOfWorker, BusyPc, WaitingPc
  <2>. QED BY <2>1, <2>2
<1>8. ASSUME NEW v \in Worker, NEW w \in Worker, pc'[v] \in BusyPc, pc'[w] \in BusyPc,
             token'[v] = token'[w]
      PROVE  v = w
  <2>1. \A x \in {v, w} : pc[x] \in BusyPc /\ token'[x] = token[x]
    <3>1. ASSUME NEW x \in {v, w} PROVE pc[x] \in BusyPc /\ token'[x] = token[x]
      <4>1. pc'[x] \in BusyPc /\ x \in Worker
        BY <1>8
      <4>2. pc'[x] # "idle"
        BY <4>1 DEF BusyPc, WaitingPc
      <4>. QED BY <1>2, <1>5, <4>1, <4>2
    <3>. QED BY <3>1
  <2>. QED BY <1>8, <2>1 DEF CallOfWorker
<1>9. \A u \in Token : call'[u] \in {"input", "complete", "forwarded"} =>
         txn'[u] \in Granted
  BY <1>3 DEF CallOfWorker
<1>. QED BY <1>4, <1>7, <1>8, <1>9 DEF CallOfWorker


\* A worker's own step: it takes up a call under a free token, ends its call or changes
\* nothing about it, and no other worker, and no other token, is involved.
LEMMA SendLeaseKeeps ==
  ASSUME PipeTypeOK, CallOfWorker, NEW w \in Worker, NEW r \in Run \cup {NoRun}, NEW t \in Token,
         SendLease(w, r, t), NEW p \in {"leasing", "reacquiring"},
         pc' = [pc EXCEPT ![w] = p], UNCHANGED txn,
         job' \in [Worker -> Run \cup {NoRun}], job'[w] = r,
         \A v \in Worker : v # w => job'[v] = job[v]
  PROVE  /\ pc' \in [Worker -> PcValues]
         /\ token' \in [Worker -> Token \cup {NoToken}]
         /\ call' \in [Token -> {"none", "lease", "input", "complete", "forwarded"}]
         /\ callRun' \in [Token -> Run \cup {NoRun}]
         /\ CallOfWorker'
<1>1. /\ pc' \in [Worker -> PcValues]
      /\ pc'[w] = p /\ \A v \in Worker : v # w => pc'[v] = pc[v]
  BY DEF PipeTypeOK, PcValues, WaitingPc
<1>2. /\ token' \in [Worker -> Token \cup {NoToken}]
      /\ token'[w] = t /\ \A v \in Worker : v # w => token'[v] = token[v]
  BY DEF PipeTypeOK, SendLease
<1>3. /\ call' \in [Token -> {"none", "lease", "input", "complete", "forwarded"}]
      /\ callRun' \in [Token -> Run \cup {NoRun}]
      /\ call'[t] = "lease" /\ callRun'[t] = r
      /\ \A u \in Token : u # t => call'[u] = call[u] /\ callRun'[u] = callRun[u]
  BY DEF PipeTypeOK, SendLease
<1>4. \A v \in Worker : pc[v] \in BusyPc => token[v] # t
  BY DEF CallOfWorker, SendLease, BusyPc, WaitingPc, Granted
<1>5. ASSUME NEW v \in Worker
      PROVE  /\ pc'[v] \in BusyPc => token'[v] \in Token /\ callRun'[token'[v]] = job'[v]
             /\ pc'[v] \in {"leasing", "reacquiring"} => call'[token'[v]] \in {"lease", "input"}
             /\ pc'[v] = "inferring" => call'[token'[v]] = "none" /\ txn'[token'[v]] \in Granted
             /\ pc'[v] \in {"reporting", "releasing"} =>
                   call'[token'[v]] \in {"complete", "forwarded"}
  <2>1. CASE v = w
    BY <1>1, <1>2, <1>3, <2>1
  <2>2. CASE v # w
    <3>1. pc'[v] = pc[v] /\ job'[v] = job[v] /\ token'[v] = token[v]
      BY <1>1, <1>2, <2>2
    <3>2. pc[v] \in BusyPc => token[v] # t /\ token[v] \in Token
      BY <1>4 DEF CallOfWorker
    <3>. QED BY <1>3, <3>1, <3>2 DEF CallOfWorker, BusyPc, WaitingPc
  <2>. QED BY <2>1, <2>2
<1>6. ASSUME NEW u \in Worker, NEW v \in Worker, pc'[u] \in BusyPc, pc'[v] \in BusyPc,
             token'[u] = token'[v]
      PROVE  u = v
  BY <1>1, <1>2, <1>4, <1>6 DEF CallOfWorker
<1>7. \A u \in Token : call'[u] \in {"input", "complete", "forwarded"} => txn'[u] \in Granted
  BY <1>3 DEF CallOfWorker
<1>. QED BY <1>1, <1>2, <1>3, <1>5, <1>6, <1>7 DEF CallOfWorker

\* The worker reports: the call is made under the token of its lease.
LEMMA SendCompleteKeeps ==
  ASSUME PipeTypeOK, CallOfWorker, NEW w \in Worker, pc[w] = "inferring",
         NEW v \in Verdict, SendComplete(w, v), NEW p \in {"reporting", "releasing"},
         pc' = [pc EXCEPT ![w] = p], UNCHANGED txn
  PROVE  /\ pc' \in [Worker -> PcValues]
         /\ job' = job /\ token' = token /\ callRun' = callRun
         /\ call' \in [Token -> {"none", "lease", "input", "complete", "forwarded"}]
         /\ answer' \in [Token -> Verdict]
         /\ CallOfWorker'
<1>1. /\ pc' \in [Worker -> PcValues]
      /\ pc'[w] = p /\ \A x \in Worker : x # w => pc'[x] = pc[x]
  BY DEF PipeTypeOK, PcValues, WaitingPc
<1>2. /\ token[w] \in Token /\ call[token[w]] = "none" /\ txn[token[w]] \in Granted
      /\ callRun[token[w]] = job[w]
  BY DEF CallOfWorker, BusyPc
<1>3. /\ call' \in [Token -> {"none", "lease", "input", "complete", "forwarded"}]
      /\ answer' \in [Token -> Verdict]
      /\ job' = job /\ token' = token /\ callRun' = callRun
      /\ call'[token[w]] = "complete"
      /\ \A u \in Token : u # token[w] => call'[u] = call[u]
  BY <1>2 DEF PipeTypeOK, SendComplete
<1>4. \A x \in Worker : x # w /\ pc[x] \in BusyPc => token[x] # token[w] /\ token[x] \in Token
  BY DEF CallOfWorker, BusyPc
<1>5. ASSUME NEW x \in Worker
      PROVE  /\ pc'[x] \in BusyPc => token'[x] \in Token /\ callRun'[token'[x]] = job'[x]
             /\ pc'[x] \in {"leasing", "reacquiring"} => call'[token'[x]] \in {"lease", "input"}
             /\ pc'[x] = "inferring" => call'[token'[x]] = "none" /\ txn'[token'[x]] \in Granted
             /\ pc'[x] \in {"reporting", "releasing"} =>
                   call'[token'[x]] \in {"complete", "forwarded"}
  <2>1. CASE x = w
    BY <1>1, <1>2, <1>3, <2>1
  <2>2. CASE x # w
    BY <1>1, <1>3, <1>4, <2>2 DEF CallOfWorker, BusyPc, WaitingPc
  <2>. QED BY <2>1, <2>2
<1>6. ASSUME NEW x \in Worker, NEW y \in Worker, pc'[x] \in BusyPc, pc'[y] \in BusyPc,
             token'[x] = token'[y]
      PROVE  x = y
  <2>1. pc[x] \in BusyPc /\ pc[y] \in BusyPc
    BY <1>1, <1>6 DEF BusyPc
  <2>. QED BY <1>3, <1>6, <2>1 DEF CallOfWorker
<1>7. \A u \in Token : call'[u] \in {"input", "complete", "forwarded"} => txn'[u] \in Granted
  BY <1>2, <1>3 DEF CallOfWorker
<1>. QED BY <1>1, <1>3, <1>5, <1>6, <1>7 DEF CallOfWorker

\* A worker that stops waiting, for whatever reason, leaves the others as they were.
LEMMA WorkerLeaves ==
  ASSUME PipeTypeOK, CallOfWorker, NEW w \in Worker,
         pc' = [pc EXCEPT ![w] = "idle"], job' = [job EXCEPT ![w] = NoRun],
         token' = [token EXCEPT ![w] = NoToken], UNCHANGED <<callVars, txn>>
  PROVE  /\ pc' \in [Worker -> PcValues]
         /\ job' \in [Worker -> Run \cup {NoRun}]
         /\ token' \in [Worker -> Token \cup {NoToken}]
         /\ CallOfWorker'
<1>1. /\ pc' \in [Worker -> PcValues]
      /\ job' \in [Worker -> Run \cup {NoRun}]
      /\ token' \in [Worker -> Token \cup {NoToken}]
      /\ pc'[w] = "idle"
      /\ \A v \in Worker : v # w => pc'[v] = pc[v] /\ job'[v] = job[v] /\ token'[v] = token[v]
  BY DEF PipeTypeOK, PcValues
<1>2. call' = call /\ callRun' = callRun /\ txn' = txn
  BY DEF callVars
<1>3. pc'[w] \notin BusyPc
  BY <1>1 DEF BusyPc, WaitingPc
<1>. QED BY <1>1, <1>2, <1>3 DEF CallOfWorker, BusyPc, WaitingPc


\* Core's part of a step that does not answer a call.
LEMMA CallsStand ==
  ASSUME CallOfWorker, UNCHANGED <<workerVars, callVars>>,
         \A t \in Token : txn[t] \in Granted => txn'[t] \in Granted
  PROVE  CallOfWorker'
<1>1. pc' = pc /\ job' = job /\ token' = token /\ call' = call /\ callRun' = callRun
  BY DEF workerVars, callVars
<1>2. \A w \in Worker : pc[w] \in BusyPc => token[w] \in Token
  BY DEF CallOfWorker
<1>3. \A w \in Worker : pc[w] = "inferring" => txn'[token[w]] \in Granted
  BY <1>2 DEF CallOfWorker, BusyPc
<1>. QED BY <1>1, <1>3 DEF CallOfWorker

\* A call ends with an answer to the workers that await it, which leaves none of them
\* waiting; they infer when the input was returned.
LEMMA EndOfCall ==
  ASSUME PipeTypeOK, CallOfWorker, NEW t \in Token,
         \/ LeaseRefused(t) \/ LeaseFails(t) \/ InputReturned(t)
         \/ CompletionRefused(t) \/ CompletionReturned(t) \/ CompletionFails(t)
  PROVE  \E next :
           /\ GoOn(Awaiting(t), next) /\ EndCall(t) /\ CallOnly /\ call[t] # "none"
           /\ \A w \in Awaiting(t) :
                 /\ next[pc[w]] \in {"idle", "settling", "cooling", "inferring"}
                 /\ next[pc[w]] = "inferring" => call[t] = "input"
<1>1. PICK next :
         /\ GoOn(Awaiting(t), next) /\ EndCall(t) /\ CallOnly
         /\ \/ call[t] \in {"lease", "input"} /\ next \in {OnConflict, OnError}
            \/ call[t] = "input" /\ next = OnGranted
            \/ call[t] \in {"complete", "forwarded"} /\ next \in {OnError, OnAccepted}
  BY DEF LeaseRefused, LeaseFails, InputReturned, CompletionRefused,
         CompletionReturned, CompletionFails
<1>2. ASSUME NEW w \in Awaiting(t)
      PROVE  /\ next[pc[w]] \in {"idle", "settling", "cooling", "inferring"}
             /\ next[pc[w]] = "inferring" => call[t] = "input"
  <2>1. /\ call[t] \in {"lease", "input"} => pc[w] \in {"leasing", "reacquiring"}
        /\ call[t] \in {"complete", "forwarded"} => pc[w] \in {"reporting", "releasing"}
        /\ pc[w] \in WaitingPc
    BY <1>2, AwaitingPc
  <2>2. CASE call[t] \in {"lease", "input"} /\ next \in {OnConflict, OnError}
    BY <2>1, <2>2, Continuations
  <2>3. CASE call[t] = "input" /\ next = OnGranted
    BY <2>1, <2>3, Continuations
  <2>4. CASE call[t] \in {"complete", "forwarded"} /\ next \in {OnError, OnAccepted}
    BY <2>1, <2>4, Continuations
  <2>. QED BY <1>1, <2>2, <2>3, <2>4
<1>. QED BY <1>1, <1>2

\* The stages of the route and of the message, and the calls and their workers.
LEMMA PipeTypeStep ==
  ASSUME TypeOK, TypeOK', PipeTypeOK, CallOfWorker, [PipeNext]_pipeVars
  PROVE  PipeTypeOK' /\ CallOfWorker'
<1>1. ASSUME UNCHANGED pipeVars PROVE PipeTypeOK' /\ CallOfWorker'
  BY <1>1 DEF pipeVars, vars, txnVars, sbVars, workerVars, callVars, PipeTypeOK, CallOfWorker
<1>2. ASSUME NEW r \in Run, PostBegin(r) \/ RouteStep(r) PROVE PipeTypeOK' /\ CallOfWorker'
  <2>1. /\ RouteOnly /\ UNCHANGED <<holder, deliveries, txn>>
        /\ msg' = msg \/ msg' = [msg EXCEPT ![r] = "ready"]
        /\ \E stage \in {"creating", "created", "snapshotted", "dispatched", "ended"} :
              route' = [route EXCEPT ![r] = stage]
    BY <1>2 DEF PostBegin, RouteStep, PostCreated, PostCreateFails, PostSnapshot,
                PostSnapshotFails, PostDispatch, PostDispatchFails, PostMarkQueued,
                PostMarkQueuedFails, RouteTo, sbVars, vars, txnVars, CreateBegin, CreateCommit,
                CreateRollback, WriteSnapshot, MarkQueued
  <2>2. PipeTypeOK'
    BY <2>1 DEF PipeTypeOK, RouteOnly, workerVars, callVars
  <2>3. CallOfWorker'
    BY <2>1, CallsStand DEF RouteOnly
  <2>. QED BY <2>2, <2>3
<1>3. ASSUME NEW r \in Run, LockLapses(r) PROVE PipeTypeOK' /\ CallOfWorker'
  <2>1. PipeTypeOK'
    BY <1>3 DEF LockLapses, PipeTypeOK, workerVars, callVars
  <2>2. UNCHANGED <<workerVars, callVars, txn>>
    BY <1>3 DEF LockLapses, vars, txnVars
  <2>. QED BY <2>1, <2>2, CallsStand
<1>4. ASSUME (\E r \in Run : PipeDeadline(r)) \/ PipeCleanup \/ PipeTick
      PROVE  PipeTypeOK' /\ CallOfWorker'
  <2>1. CallOnly /\ UNCHANGED <<workerVars, callVars, txn>>
    BY <1>4 DEF PipeDeadline, PipeCleanup, PipeTick, DeadlinePasses, Cleanup, Tick, txnVars
  <2>2. PipeTypeOK'
    BY <2>1 DEF PipeTypeOK, CallOnly, sbVars, workerVars, callVars
  <2>. QED BY <2>1, <2>2, CallsStand
<1>5. ASSUME NEW w \in Worker, NEW r \in Run, Receive(w, r) PROVE PipeTypeOK' /\ CallOfWorker'
  <2>1. PICK t \in Token : SendLease(w, r, t)
    BY <1>5 DEF Receive
  <2>2. /\ pc' = [pc EXCEPT ![w] = "leasing"] /\ job' = [job EXCEPT ![w] = r]
        /\ UNCHANGED <<txn, answer, route, outages>>
    BY <1>5, <2>1 DEF Receive, SendLease, vars, txnVars
  <2>3. /\ job' \in [Worker -> Run \cup {NoRun}] /\ job'[w] = r
        /\ \A v \in Worker : v # w => job'[v] = job[v]
    BY <2>2 DEF PipeTypeOK
  <2>4. /\ pc' \in [Worker -> PcValues]
        /\ token' \in [Worker -> Token \cup {NoToken}]
        /\ call' \in [Token -> {"none", "lease", "input", "complete", "forwarded"}]
        /\ callRun' \in [Token -> Run \cup {NoRun}]
        /\ CallOfWorker'
    BY <2>1, <2>2, <2>3, SendLeaseKeeps
  <2>5. /\ msg' \in [Run -> {"none", "ready", "locked", "done", "dead"}]
        /\ holder' \in [Run -> Worker \cup {NoWorker}]
        /\ deliveries' \in [Run -> Nat]
    BY <1>5 DEF Receive, PipeTypeOK
  <2>. QED BY <2>2, <2>3, <2>4, <2>5 DEF PipeTypeOK
<1>6. ASSUME NEW w \in Worker, Reacquire(w) PROVE PipeTypeOK' /\ CallOfWorker'
  <2>1. PICK t \in Token : SendLease(w, job[w], t)
    BY <1>6 DEF Reacquire
  <2>2. /\ pc' = [pc EXCEPT ![w] = "reacquiring"]
        /\ UNCHANGED <<txn, answer, job, route, outages, sbVars>>
    BY <1>6, <2>1 DEF Reacquire, SendLease, vars, txnVars
  <2>3. job' \in [Worker -> Run \cup {NoRun}]
    BY <2>2 DEF PipeTypeOK
  <2>4. /\ pc' \in [Worker -> PcValues]
        /\ token' \in [Worker -> Token \cup {NoToken}]
        /\ call' \in [Token -> {"none", "lease", "input", "complete", "forwarded"}]
        /\ callRun' \in [Token -> Run \cup {NoRun}]
        /\ CallOfWorker'
    <3>1. job[w] \in Run \cup {NoRun}
      BY DEF PipeTypeOK
    <3>. QED BY <2>1, <2>2, <2>3, <3>1, SendLeaseKeeps
  <2>. QED BY <2>2, <2>3, <2>4 DEF PipeTypeOK, sbVars
<1>7. ASSUME NEW w \in Worker, Infer(w) \/ Outage(w) PROVE PipeTypeOK' /\ CallOfWorker'
  <2>1. PICK v \in Verdict : SendComplete(w, v)
    BY <1>7 DEF Infer, Outage, Verdict
  <2>2. /\ pc[w] = "inferring" /\ UNCHANGED <<route, sbVars, txn>>
        /\ pc' = [pc EXCEPT ![w] = "reporting"] \/ pc' = [pc EXCEPT ![w] = "releasing"]
        /\ outages' = outages \/ (outages < MaxOutages /\ outages' = outages + 1)
    <3>1. CASE Infer(w)
      BY <3>1 DEF Infer, CallOnly, vars, txnVars
    <3>2. CASE Outage(w)
      BY <3>2 DEF Outage, vars, txnVars
    <3>. QED BY <1>7, <3>1, <3>2
  <2>3. outages' \in 0..MaxOutages
    BY <2>2, PipelineAssumption DEF PipeTypeOK
  <2>4. /\ pc' \in [Worker -> PcValues]
        /\ job' = job /\ token' = token /\ callRun' = callRun
        /\ call' \in [Token -> {"none", "lease", "input", "complete", "forwarded"}]
        /\ answer' \in [Token -> Verdict]
        /\ CallOfWorker'
    BY <2>1, <2>2, SendCompleteKeeps
  <2>. QED BY <2>2, <2>3, <2>4 DEF PipeTypeOK, sbVars
<1>8. ASSUME NEW w \in Worker, Settle(w) \/ WorkerFails(w) PROVE PipeTypeOK' /\ CallOfWorker'
  <2>1. /\ pc' = [pc EXCEPT ![w] = "idle"] /\ job' = [job EXCEPT ![w] = NoRun]
        /\ token' = [token EXCEPT ![w] = NoToken]
        /\ UNCHANGED <<callVars, txn, route, deliveries, outages>>
    BY <1>8 DEF Settle, WorkerFails, sbVars, vars, txnVars
  <2>2. /\ msg' \in [Run -> {"none", "ready", "locked", "done", "dead"}]
        /\ holder' \in [Run -> Worker \cup {NoWorker}]
    BY <1>8 DEF Settle, WorkerFails, PipeTypeOK, sbVars
  <2>3. /\ pc' \in [Worker -> PcValues]
        /\ job' \in [Worker -> Run \cup {NoRun}]
        /\ token' \in [Worker -> Token \cup {NoToken}]
        /\ CallOfWorker'
    BY <2>1, WorkerLeaves
  <2>. QED BY <2>1, <2>2, <2>3 DEF PipeTypeOK, callVars
<1>9. ASSUME NEW t \in Token, LeaseReads(t) \/ LeaseWrites(t) \/ CompletionForwarded(t)
      PROVE  PipeTypeOK' /\ CallOfWorker'
  <2>1. PICK stage \in {"lease", "input", "forwarded"} :
           /\ call' = [call EXCEPT ![t] = stage] /\ CallOnly
           /\ UNCHANGED <<workerVars, callRun, answer>>
           /\ stage \in {"lease", "input"} <=> call[t] = "lease"
           /\ stage = "forwarded" <=> call[t] = "complete"
    <3>1. CASE LeaseReads(t)
      <4>1. call' = [call EXCEPT ![t] = "lease"]
        BY <3>1 DEF LeaseReads, callVars, PipeTypeOK
      <4>. QED BY <3>1, <4>1 DEF LeaseReads, callVars
    <3>2. CASE LeaseWrites(t)
      BY <3>2 DEF LeaseWrites
    <3>3. CASE CompletionForwarded(t)
      BY <3>3 DEF CompletionForwarded
    <3>. QED BY <1>9, <3>1, <3>2, <3>3
  <2>2. /\ call' \in [Token -> {"none", "lease", "input", "complete", "forwarded"}]
        /\ call'[t] = stage
        /\ \A u \in Token : u # t => call'[u] = call[u]
    BY <2>1 DEF PipeTypeOK
  <2>3. PipeTypeOK'
    BY <2>1, <2>2 DEF PipeTypeOK, CallOnly, sbVars, workerVars
  <2>4. /\ \A u \in Token : txn[u] \in Granted => txn'[u] \in Granted
        /\ stage \in {"input", "forwarded"} => txn'[t] \in Granted
    <3>1. CASE LeaseReads(t)
      BY <2>2, <3>1 DEF LeaseReads, LeaseRead, Granted, TypeOK, callVars
    <3>2. CASE LeaseWrites(t)
      BY <2>2, <3>2 DEF LeaseWrites, LeaseWrite, Granted, TypeOK
    <3>3. CASE CompletionForwarded(t)
      BY <2>2, <3>3 DEF CompletionForwarded, CompleteBegin, Granted, TypeOK
    <3>. QED BY <1>9, <3>1, <3>2, <3>3
  <2>5. pc' = pc /\ job' = job /\ token' = token /\ callRun' = callRun
    BY <2>1 DEF workerVars
  <2>6. \A w \in Worker : pc[w] \in BusyPc => token[w] \in Token
    BY DEF CallOfWorker
  <2>7. ASSUME NEW w \in Worker
        PROVE  /\ pc[w] \in {"leasing", "reacquiring"} => call'[token[w]] \in {"lease", "input"}
               /\ pc[w] = "inferring" => call'[token[w]] = "none" /\ txn'[token[w]] \in Granted
               /\ pc[w] \in {"reporting", "releasing"} =>
                     call'[token[w]] \in {"complete", "forwarded"}
    <3>1. CASE token[w] = t
      BY <2>1, <2>2, <2>4, <3>1 DEF CallOfWorker
    <3>2. CASE token[w] # t
      BY <2>2, <2>4, <2>6, <3>2 DEF CallOfWorker, BusyPc, WaitingPc
    <3>. QED BY <3>1, <3>2
  <2>8. \A u \in Token : call'[u] \in {"input", "complete", "forwarded"} => txn'[u] \in Granted
    BY <2>1, <2>2, <2>4 DEF CallOfWorker
  <2>. QED BY <2>3, <2>5, <2>7, <2>8 DEF CallOfWorker
<1>10. ASSUME NEW t \in Token,
              \/ LeaseRefused(t) \/ LeaseFails(t) \/ InputReturned(t)
              \/ CompletionRefused(t) \/ CompletionReturned(t) \/ CompletionFails(t)
       PROVE  PipeTypeOK' /\ CallOfWorker'
  <2>1. PICK next :
           /\ GoOn(Awaiting(t), next) /\ EndCall(t) /\ CallOnly /\ call[t] # "none"
           /\ \A w \in Awaiting(t) :
                 /\ next[pc[w]] \in {"idle", "settling", "cooling", "inferring"}
                 /\ next[pc[w]] = "inferring" => call[t] = "input"
    BY <1>10, EndOfCall
  <2>2. /\ \A u \in Token : u # t => txn'[u] = txn[u]
        /\ call[t] = "input" => txn'[t] = txn[t]
    BY <1>10 DEF LeaseRefused, LeaseFails, InputReturned, CompletionRefused,
                 CompletionReturned, CompletionFails, LeaseRollback, CompleteIgnored,
                 CompleteStale, CompleteRequeue, CompleteFailed, CompleteSucceeded, Succeed,
                 CompleteRollback, vars, txnVars, TypeOK
  <2>3. \A w \in Awaiting(t) : next[pc[w]] = "inferring" => txn'[t] \in Granted
    BY <2>1, <2>2 DEF CallOfWorker
  <2>. QED BY <2>1, <2>2, <2>3, CallEnds
<1>. QED BY <1>1, <1>2, <1>3, <1>4, <1>5, <1>6, <1>7, <1>8, <1>9, <1>10
         DEF PipeNext, WorkerStep, GatewayStep

-----------------------------------------------------------------------------
(* The snapshot comes first.                                               *)

\* A stored snapshot stays.
LEMMA SnapshotStays ==
  ASSUME TypeOK, [Next]_vars
  PROVE  \A r \in Run : snapshot[r] = TRUE => snapshot'[r] = TRUE
BY DEF TypeOK, Next, vars, runVars, CreateBegin, CreateCommit, CreateRollback, WriteSnapshot,
       MarkQueued, DeadlinePasses, LeaseRead, LeaseWrite, LeaseRollback, CompleteBegin,
       CompleteIgnored, CompleteStale, CompleteRequeue, CompleteFailed, CompleteSucceeded,
       Succeed, CompleteRollback, Cleanup, Tick

\* Nobody has to do with a run at first.
LEMMA SnapshotInit == PipeInit => SnapshotFirst
BY DEF PipeInit, SnapshotFirst

\* The route stores the snapshot before it sends the message, the message leads the
\* worker to the run, and the worker makes the calls.
LEMMA SnapshotStep ==
  ASSUME TypeOK, PipeTypeOK, CallOfWorker, SnapshotFirst, [PipeNext]_pipeVars
  PROVE  SnapshotFirst'
<1>1. \A r \in Run : snapshot[r] = TRUE => snapshot'[r] = TRUE
  BY StoreStep, SnapshotStays
<1>. DEFINE Sent(r) == route[r] \in {"snapshotted", "dispatched"} \/ msg[r] # "none"
            Known(r) == r \in Run /\ snapshot[r] = TRUE
<1>2. ASSUME UNCHANGED <<route, sbVars>> PROVE \A r \in Run : Sent(r)' => Known(r)'
  BY <1>1, <1>2 DEF SnapshotFirst, sbVars
<1>3. ASSUME UNCHANGED workerVars PROVE \A w \in Worker : pc'[w] # "idle" => Known(job[w])'
  BY <1>1, <1>3 DEF SnapshotFirst, workerVars
<1>4. ASSUME UNCHANGED callVars PROVE \A t \in Token : call'[t] # "none" => Known(callRun[t])'
  BY <1>1, <1>4 DEF SnapshotFirst, callVars
<1>5. SnapshotFirst' <=> /\ \A r \in Run : Sent(r)' => Known(r)'
                         /\ \A w \in Worker : pc'[w] # "idle" => Known(job[w])'
                         /\ \A t \in Token : call'[t] # "none" => Known(callRun[t])'
  BY DEF SnapshotFirst
<1>6. CASE UNCHANGED pipeVars
  BY <1>2, <1>3, <1>4, <1>5, <1>6 DEF pipeVars
<1>7. ASSUME NEW r \in Run, PostBegin(r) \/ RouteStep(r) PROVE SnapshotFirst'
  <2>1. RouteOnly
    BY <1>7 DEF PostBegin, RouteStep, PostCreated, PostCreateFails, PostSnapshot,
                PostSnapshotFails, PostDispatch, PostDispatchFails, PostMarkQueued,
                PostMarkQueuedFails
  <2>2. \/ /\ msg' = msg
           /\ \E stage \in {"creating", "created", "ended"} : RouteTo(r, stage)
        \/ msg' = msg /\ RouteTo(r, "snapshotted") /\ snapshot'[r] = TRUE
        \/ /\ route[r] = "snapshotted" /\ msg' = [msg EXCEPT ![r] = "ready"]
           /\ \E stage \in {"dispatched", "ended"} : RouteTo(r, stage)
    <3>1. CASE PostSnapshot(r)
      BY <3>1 DEF PostSnapshot, WriteSnapshot, TypeOK, sbVars
    <3>2. CASE PostDispatch(r)
      BY <3>2 DEF PostDispatch
    <3>3. CASE PostBegin(r) \/ PostCreated(r) \/ PostCreateFails(r) \/ PostSnapshotFails(r)
               \/ PostDispatchFails(r) \/ PostMarkQueued(r) \/ PostMarkQueuedFails(r)
      BY <3>3 DEF PostBegin, PostCreated, PostCreateFails, PostSnapshotFails,
                  PostDispatchFails, PostMarkQueued, PostMarkQueuedFails, sbVars
    <3>. QED BY <1>7, <3>1, <3>2, <3>3 DEF RouteStep
  <2>3. \A s \in Run : Sent(s)' => Known(s)'
    <3>1. \A s \in Run : s # r => route'[s] = route[s] /\ msg'[s] = msg[s]
      BY <2>2 DEF RouteTo, PipeTypeOK
    <3>2. \A s \in Run : s # r /\ Sent(s)' => Known(s)'
      BY <1>1, <3>1 DEF SnapshotFirst
    <3>3. Sent(r)' => Known(r)'
      BY <1>1, <2>2 DEF RouteTo, PipeTypeOK, SnapshotFirst
    <3>. QED BY <3>2, <3>3
  <2>. QED BY <1>3, <1>4, <1>5, <2>1, <2>3 DEF RouteOnly
<1>8. ASSUME NEW r \in Run, LockLapses(r) PROVE SnapshotFirst'
  <2>1. msg[r] # "none" /\ UNCHANGED <<route, workerVars, callVars>>
        /\ \A s \in Run : msg'[s] # "none" => msg[s] # "none"
    BY <1>8 DEF LockLapses, PipeTypeOK
  <2>2. \A s \in Run : Sent(s)' => Known(s)'
    BY <1>1, <2>1 DEF SnapshotFirst
  <2>. QED BY <1>3, <1>4, <1>5, <2>1, <2>2
<1>9. ASSUME (\E r \in Run : PipeDeadline(r)) \/ PipeCleanup \/ PipeTick PROVE SnapshotFirst'
  BY <1>2, <1>3, <1>4, <1>5, <1>9 DEF PipeDeadline, PipeCleanup, PipeTick, CallOnly
<1>10. ASSUME NEW w \in Worker, NEW r \in Run \cup {NoRun}, NEW t \in Token, SendLease(w, r, t),
              Known(r)
       PROVE  \A u \in Token : call'[u] # "none" => Known(callRun[u])'
  BY <1>1, <1>10 DEF SendLease, SnapshotFirst, PipeTypeOK
<1>11. ASSUME NEW w \in Worker, NEW r \in Run, Receive(w, r) PROVE SnapshotFirst'
  <2>1. PICK t \in Token : SendLease(w, r, t)
    BY <1>11 DEF Receive
  <2>2. /\ msg[r] = "ready" /\ msg' = [msg EXCEPT ![r] = "locked"] /\ route' = route
        /\ pc' = [pc EXCEPT ![w] = "leasing"] /\ job' = [job EXCEPT ![w] = r]
    BY <1>11 DEF Receive
  <2>3. Known(r)
    BY <2>2 DEF SnapshotFirst
  <2>4. \A s \in Run : Sent(s)' => Known(s)'
    BY <1>1, <2>2, <2>3 DEF PipeTypeOK, SnapshotFirst
  <2>5. \A v \in Worker : pc'[v] # "idle" => Known(job[v])'
    BY <1>1, <2>2, <2>3 DEF PipeTypeOK, SnapshotFirst
  <2>6. \A u \in Token : call'[u] # "none" => Known(callRun[u])'
    BY <1>10, <2>1, <2>3
  <2>. QED BY <1>5, <2>4, <2>5, <2>6
<1>12. ASSUME NEW w \in Worker, Reacquire(w) PROVE SnapshotFirst'
  <2>1. PICK t \in Token : SendLease(w, job[w], t)
    BY <1>12 DEF Reacquire
  <2>2. /\ pc[w] = "cooling" /\ pc' = [pc EXCEPT ![w] = "reacquiring"] /\ job' = job
        /\ UNCHANGED <<route, sbVars>>
    BY <1>12 DEF Reacquire
  <2>3. Known(job[w])
    BY <2>2 DEF SnapshotFirst
  <2>4. \A v \in Worker : pc'[v] # "idle" => Known(job[v])'
    BY <1>1, <2>2, <2>3 DEF PipeTypeOK, SnapshotFirst
  <2>5. \A u \in Token : call'[u] # "none" => Known(callRun[u])'
    BY <1>10, <2>1, <2>3
  <2>. QED BY <1>2, <1>5, <2>2, <2>4, <2>5
<1>13. ASSUME NEW w \in Worker, Infer(w) \/ Outage(w) PROVE SnapshotFirst'
  <2>1. PICK v : SendComplete(w, v)
    BY <1>13 DEF Infer, Outage
  <2>2. /\ pc[w] = "inferring" /\ UNCHANGED <<route, sbVars>>
        /\ \E p \in PcValues : pc' = [pc EXCEPT ![w] = p]
    BY <1>13 DEF Infer, Outage, CallOnly, PcValues, WaitingPc
  <2>3. token[w] \in Token /\ callRun[token[w]] = job[w] /\ Known(job[w])
    BY <2>2 DEF CallOfWorker, BusyPc, SnapshotFirst
  <2>4. \A u \in Token : call'[u] # "none" => Known(callRun[u])'
    BY <1>1, <2>1, <2>3 DEF SendComplete, SnapshotFirst, PipeTypeOK
  <2>5. \A x \in Worker : pc'[x] # "idle" => Known(job[x])'
    BY <1>1, <2>1, <2>2, <2>3 DEF SendComplete, SnapshotFirst, PipeTypeOK
  <2>. QED BY <1>2, <1>5, <2>2, <2>4, <2>5
<1>14. ASSUME NEW w \in Worker, Settle(w) \/ WorkerFails(w) PROVE SnapshotFirst'
  <2>1. /\ pc[w] # "idle" /\ pc' = [pc EXCEPT ![w] = "idle"]
        /\ job' = [job EXCEPT ![w] = NoRun] /\ UNCHANGED <<callVars, route>>
        /\ \A s \in Run : msg'[s] # "none" => msg[s] # "none" \/ s = job[w]
    BY <1>14 DEF Settle, WorkerFails, PipeTypeOK, sbVars
  <2>2. \A s \in Run : Sent(s)' => Known(s)'
    BY <1>1, <2>1 DEF SnapshotFirst
  <2>3. \A x \in Worker : pc'[x] # "idle" => Known(job[x])'
    BY <1>1, <2>1 DEF SnapshotFirst, PipeTypeOK
  <2>. QED BY <1>4, <1>5, <2>1, <2>2, <2>3
<1>15. ASSUME NEW t \in Token, LeaseReads(t) \/ LeaseWrites(t) \/ CompletionForwarded(t)
       PROVE  SnapshotFirst'
  <2>1. /\ CallOnly /\ UNCHANGED <<workerVars, callRun>>
        /\ call[t] # "none" /\ \A u \in Token : u # t => call'[u] = call[u]
    BY <1>15 DEF LeaseReads, LeaseWrites, CompletionForwarded, callVars, PipeTypeOK
  <2>2. \A u \in Token : call'[u] # "none" => Known(callRun[u])'
    BY <1>1, <2>1 DEF SnapshotFirst
  <2>. QED BY <1>2, <1>3, <1>5, <2>1, <2>2 DEF CallOnly
<1>16. ASSUME NEW t \in Token,
              \/ LeaseRefused(t) \/ LeaseFails(t) \/ InputReturned(t)
              \/ CompletionRefused(t) \/ CompletionReturned(t) \/ CompletionFails(t)
       PROVE  SnapshotFirst'
  <2>1. PICK next : GoOn(Awaiting(t), next) /\ EndCall(t) /\ CallOnly
    BY <1>16 DEF LeaseRefused, LeaseFails, InputReturned, CompletionRefused,
                 CompletionReturned, CompletionFails
  <2>2. \A w \in Worker : pc'[w] # "idle" => job'[w] = job[w] /\ pc[w] # "idle"
    BY <2>1 DEF GoOn, Awaiting, WaitingPc
  <2>3. \A w \in Worker : pc'[w] # "idle" => Known(job[w])'
    BY <1>1, <2>2 DEF SnapshotFirst
  <2>4. \A u \in Token : call'[u] # "none" => Known(callRun[u])'
    BY <1>1, <2>1 DEF EndCall, SnapshotFirst, PipeTypeOK
  <2>. QED BY <1>2, <1>5, <2>1, <2>3, <2>4 DEF CallOnly
<1>. QED BY <1>6, <1>7, <1>8, <1>9, <1>11, <1>12, <1>13, <1>14, <1>15, <1>16
         DEF PipeNext, WorkerStep, GatewayStep

-----------------------------------------------------------------------------
(* Theorems.                                                               *)

\* Enrichment Core sees nothing of its clients but transactions of EnrichmentRuns: however
\* the route, the Gateway, the queue and the workers interleave and fail, the pipeline is a
\* behaviour of the run store.
THEOREM PipelineUsesStore == PipeSpec => Spec
<1>1. PipeInit => PipeTypeOK /\ CallOfWorker /\ TypeOK
  <2>1. PipeInit => CallOfWorker
    BY DEF PipeInit, CallOfWorker, BusyPc, WaitingPc
  <2>. QED BY <2>1, PipeTypeInit, StoreInit, InvInit DEF Inv
<1>2. PipeTypeOK /\ [PipeNext]_pipeVars => [Next]_vars
  BY StoreStep
<1>3. TypeOK /\ [Next]_vars => TypeOK'
  BY TypeStep
<1>4. TypeOK /\ TypeOK' /\ PipeTypeOK /\ CallOfWorker /\ [PipeNext]_pipeVars
        => PipeTypeOK' /\ CallOfWorker'
  BY PipeTypeStep
<1>. QED BY <1>1, <1>2, <1>3, <1>4, StoreInit, PTL DEF PipeSpec, Spec

\* Every variable of the pipeline stays in its range, and a worker's call is its own.
THEOREM PipeTypeCorrect == PipeSpec => [](PipeTypeOK /\ CallOfWorker)
<1>1. PipeInit => PipeTypeOK /\ CallOfWorker
  BY PipeTypeInit DEF PipeInit, CallOfWorker, BusyPc, WaitingPc
<1>2. TypeOK /\ TypeOK' /\ PipeTypeOK /\ CallOfWorker /\ [PipeNext]_pipeVars
        => PipeTypeOK' /\ CallOfWorker'
  BY PipeTypeStep
<1>. QED BY <1>1, <1>2, PipelineUsesStore, TypeCorrect, PTL DEF PipeSpec

\* A worker that is granted a lease finds its input: whatever else fails, the run it was
\* led to had its snapshot stored.
THEOREM LeasesFindInput == PipeSpec => []LeaseFindsInput
<1>1. TypeOK /\ PipeTypeOK /\ CallOfWorker /\ SnapshotFirst /\ [PipeNext]_pipeVars
        => SnapshotFirst'
  BY SnapshotStep
<1>2. SnapshotFirst => LeaseFindsInput
  BY DEF SnapshotFirst, LeaseFindsInput
<1>. QED BY <1>1, <1>2, SnapshotInit, PipelineUsesStore, TypeCorrect, PipeTypeCorrect, PTL
         DEF PipeSpec

-----------------------------------------------------------------------------
(* Settled work is over, as long as no worker is lost, no lock or lease     *)
(* lapses under one, a run can be given back, and requests for a subject    *)
(* come one after the other.  Requests may still fail at any step.          *)

\* The faults under which this is shown.
Steady == Faults \cap {"overlap", "crash", "release", "lock", "deadline"} = {}

\* Core's transactions under a token are those of the call made under it.
TxnIsCall ==
    \A t \in Token :
        /\ txn[t] # "unused" => callRun[t] = txnRun[t]
        /\ txn[t] = "reading" => call[t] = "lease"
        /\ txn[t] = "completing" => call[t] = "forwarded" /\ txnVerdict[t] = answer[t]

\* Nobody makes a call and leaves.
CallsAreAwaited ==
    \A t \in Token : call[t] # "none" =>
        \E w \in Worker : token[w] = t /\ pc[w] \in WaitingPc

\* A worker works on the message it holds.
MessageOfWorker ==
    \A w \in Worker : pc[w] # "idle" => msg[job[w]] = "locked" /\ holder[job[w]] = w

\* The message is sent once, at the end of the route, and only a stored run has a snapshot.
RouteFirst ==
    \A r \in Run :
        /\ route[r] \in {"none", "creating", "created", "snapshotted"} => msg[r] = "none"
        /\ snapshot[r] = TRUE => r \in Rows

\* Requests for a subject have times of their own, and no deadline has passed.
TimesDiffer ==
    \A r, s \in Run : r # s /\ SameSubject(r, s) /\ status[r] # "Absent" /\ status[s] # "Absent"
                        => requestedAt[r] # requestedAt[s]
AllFresh == \A r \in Run : age[r] = "fresh"

\* Only a worker that gives the run back says that inference is unavailable.
ReportsAnswer ==
    \A w \in Worker : pc[w] = "reporting" => answer[token[w]] # "Unavailable"

\* The worker has been granted the lease and has not answered yet.
HoldsLease(w) ==
    \/ pc[w] \in {"inferring", "reporting", "releasing"}
    \/ pc[w] \in {"leasing", "reacquiring"} /\ call[token[w]] = "input"

\* A leased run whose answer is wanted is in the hands of a worker with its token.
LeasedHasWorker ==
    \A r \in Run : status[r] = "Leased" /\ IsLatest(r) =>
        \E w \in Worker : HoldsLease(w) /\ job[w] = r /\ token[w] = leaseToken[r]

\* The answer is not wanted any more.
Over(r) == status[r] \in Terminal \/ ~IsLatest(r)

\* A message is settled, or about to be, only when its run is over.
SettledIsOver ==
    /\ \A r \in Run : msg[r] = "done" => Over(r)
    /\ \A w \in Worker : pc[w] = "settling" => Over(job[w])

\* Whatever fails, a transaction belongs to its call.
LEMMA TxnIsCallStep ==
  ASSUME TypeOK, PipeTypeOK, CallOfWorker, TxnIsCall, [PipeNext]_pipeVars
  PROVE  TxnIsCall'
<1>1. CASE UNCHANGED <<txnVars, callVars>>
  BY <1>1 DEF TxnIsCall, txnVars, callVars
<1>2. ASSUME NEW r \in Run, PostBegin(r) \/ RouteStep(r) PROVE UNCHANGED <<txnVars, callVars>>
  BY <1>2 DEF PostBegin, RouteStep, PostCreated, PostCreateFails, PostSnapshot,
              PostSnapshotFails, PostDispatch, PostDispatchFails, PostMarkQueued,
              PostMarkQueuedFails, RouteOnly, vars, CreateBegin, CreateCommit,
              CreateRollback, WriteSnapshot, MarkQueued
<1>3. ASSUME \/ \E r \in Run : LockLapses(r) \/ PipeDeadline(r)
             \/ \E w \in Worker : Settle(w) \/ WorkerFails(w)
             \/ PipeCleanup \/ PipeTick
      PROVE  UNCHANGED <<txnVars, callVars>>
  BY <1>3 DEF LockLapses, PipeDeadline, DeadlinePasses, Settle, WorkerFails, PipeCleanup,
              Cleanup, PipeTick, Tick, vars
<1>4. ASSUME NEW w \in Worker, NEW r, NEW t \in Token, SendLease(w, r, t), UNCHANGED txnVars
      PROVE  TxnIsCall'
  <2>1. \A u \in Token : u # t => call'[u] = call[u] /\ callRun'[u] = callRun[u]
    BY <1>4 DEF SendLease, PipeTypeOK
  <2>2. txn[t] = "unused" /\ UNCHANGED <<txn, txnRun, txnVerdict, answer>>
    BY <1>4 DEF SendLease, txnVars
  <2>. QED BY <2>1, <2>2 DEF TxnIsCall
<1>5. ASSUME (\E w \in Worker, r \in Run : Receive(w, r)) \/ (\E w \in Worker : Reacquire(w))
      PROVE  TxnIsCall'
  BY <1>4, <1>5 DEF Receive, Reacquire, vars
<1>6. ASSUME NEW w \in Worker, Infer(w) \/ Outage(w) PROVE TxnIsCall'
  <2>1. PICK v : SendComplete(w, v)
    BY <1>6 DEF Infer, Outage
  <2>2. pc[w] = "inferring" /\ UNCHANGED <<txn, txnRun, txnVerdict>>
    BY <1>6 DEF Infer, Outage, vars, txnVars
  <2>3. token[w] \in Token /\ call[token[w]] = "none"
    BY <2>2 DEF CallOfWorker, BusyPc
  <2>4. /\ callRun' = callRun
        /\ \A u \in Token : u # token[w] => call'[u] = call[u] /\ answer'[u] = answer[u]
    BY <2>1 DEF SendComplete, PipeTypeOK
  <2>. QED BY <2>2, <2>3, <2>4 DEF TxnIsCall
<1>7. ASSUME NEW t \in Token, LeaseReads(t) \/ LeaseWrites(t) \/ CompletionForwarded(t)
      PROVE  TxnIsCall'
  <2>1. UNCHANGED <<callRun, answer>> /\ \A u \in Token : u # t => /\ call'[u] = call[u]
                                                                /\ txn'[u] = txn[u]
                                                                /\ txnRun'[u] = txnRun[u]
                                                                /\ txnVerdict'[u] = txnVerdict[u]
    BY <1>7 DEF LeaseReads, LeaseRead, LeaseWrites, LeaseWrite, CompletionForwarded,
                CompleteBegin, callVars, PipeTypeOK, TypeOK
  <2>2. /\ txn'[t] # "unused" => callRun'[t] = txnRun'[t]
        /\ txn'[t] = "reading" => call'[t] = "lease"
        /\ txn'[t] = "completing" => call'[t] = "forwarded" /\ txnVerdict'[t] = answer'[t]
    <3>1. CASE LeaseReads(t)
      BY <3>1 DEF LeaseReads, LeaseRead, callVars, PipeTypeOK, TypeOK
    <3>2. CASE LeaseWrites(t)
      BY <3>2 DEF LeaseWrites, LeaseWrite, PipeTypeOK, TypeOK, TxnIsCall
    <3>3. CASE CompletionForwarded(t)
      BY <3>3 DEF CompletionForwarded, CompleteBegin, PipeTypeOK, TypeOK, TxnIsCall
    <3>. QED BY <1>7, <3>1, <3>2, <3>3
  <2>. QED BY <2>1, <2>2 DEF TxnIsCall
<1>8. ASSUME NEW t \in Token,
             \/ LeaseRefused(t) \/ LeaseFails(t) \/ InputReturned(t)
             \/ CompletionRefused(t) \/ CompletionReturned(t) \/ CompletionFails(t)
      PROVE  TxnIsCall'
  <2>1. EndCall(t)
    BY <1>8 DEF LeaseRefused, LeaseFails, InputReturned, CompletionRefused,
                CompletionReturned, CompletionFails
  <2>2. UNCHANGED <<callRun, answer>> /\ \A u \in Token : u # t => call'[u] = call[u]
    BY <2>1 DEF EndCall, PipeTypeOK
  <2>3. /\ \A u \in Token : u # t => /\ txn'[u] = txn[u] /\ txnRun'[u] = txnRun[u]
        /\ txnVerdict' = txnVerdict
        /\ \/ txn'[t] = "unused"
           \/ txn'[t] = "done" /\ txn[t] = "completing" /\ txnRun' = txnRun
           \/ /\ UNCHANGED <<txn, txnRun>>
              /\ (call[t] = "lease" /\ txn[t] = "unused") \/ call[t] \in {"input", "complete"}
    <3>1. CASE LeaseRefused(t) \/ InputReturned(t) \/ CompletionRefused(t)
      BY <3>1 DEF LeaseRefused, InputReturned, CompletionRefused, vars, txnVars
    <3>2. CASE LeaseFails(t)
      BY <3>2 DEF LeaseFails, LeaseRollback, TypeOK
    <3>3. CASE CompletionReturned(t) \/ CompletionFails(t)
      BY <3>3 DEF CompletionReturned, CompletionFails, CompleteIgnored, CompleteStale,
                  CompleteRequeue, CompleteFailed, CompleteSucceeded, Succeed,
                  CompleteRollback, TypeOK
    <3>. QED BY <1>8, <3>1, <3>2, <3>3
  <2>4. /\ txn'[t] # "unused" => txn[t] # "unused" /\ txnRun'[t] = txnRun[t]
        /\ txn'[t] # "reading" /\ txn'[t] # "completing"
    BY <2>3 DEF TxnIsCall
  <2>. QED BY <2>2, <2>3, <2>4 DEF TxnIsCall
<1>. QED BY <1>1, <1>2, <1>3, <1>5, <1>6, <1>7, <1>8
         DEF PipeNext, WorkerStep, GatewayStep, pipeVars, vars

\* The workers that do not await the call that ends stay where they are.
LEMMA OthersStay ==
  ASSUME NEW W, NEW next, GoOn(W, next)
  PROVE  /\ \A w \in Worker : w \notin W => pc'[w] = pc[w] /\ job'[w] = job[w]
                                            /\ token'[w] = token[w]
         /\ \A w \in Worker : w \in W => /\ pc'[w] = next[pc[w]]
                                         /\ pc'[w] # "idle" => /\ job'[w] = job[w]
                                                               /\ token'[w] = token[w]
BY DEF GoOn

CallEndsFor(t) ==
    /\ \E next : GoOn(Awaiting(t), next)
               /\ \A w \in Awaiting(t) :
                      next[pc[w]] \in {"idle", "settling", "cooling", "inferring"}
    /\ EndCall(t) /\ CallOnly

\* The ways a step can touch the calls and their workers.
LEMMA WorkerCases ==
  ASSUME PipeTypeOK, CallOfWorker, Steady, [PipeNext]_pipeVars
  PROVE  \/ UNCHANGED <<workerVars, callVars>>
         \/ \E w \in Worker, r \in Run \cup {NoRun}, t \in Token :
               /\ SendLease(w, r, t)
               /\ \/ r \in Run /\ Receive(w, r)
                  \/ r = job[w] /\ Reacquire(w)
         \/ \E w \in Worker : Infer(w) \/ Outage(w) \/ Settle(w)
         \/ \E t \in Token : LeaseReads(t) \/ LeaseWrites(t) \/ CompletionForwarded(t)
         \/ \E t \in Token : /\ CallEndsFor(t)
                             /\ LeaseRefused(t) \/ LeaseFails(t) \/ InputReturned(t)
                                  \/ CompletionRefused(t) \/ CompletionReturned(t)
<1>1. CASE UNCHANGED pipeVars
  BY <1>1 DEF pipeVars
<1>2. ASSUME NEW r \in Run, PostBegin(r) \/ RouteStep(r) PROVE UNCHANGED <<workerVars, callVars>>
  BY <1>2 DEF PostBegin, RouteStep, PostCreated, PostCreateFails, PostSnapshot,
              PostSnapshotFails, PostDispatch, PostDispatchFails, PostMarkQueued,
              PostMarkQueuedFails, RouteOnly
<1>3. ASSUME (\E r \in Run : LockLapses(r) \/ PipeDeadline(r)) \/ PipeCleanup \/ PipeTick
      PROVE  UNCHANGED <<workerVars, callVars>>
  BY <1>3 DEF LockLapses, PipeDeadline, PipeCleanup, PipeTick
<1>4. ASSUME NEW w \in Worker, NEW r \in Run, Receive(w, r)
      PROVE  \E t \in Token : SendLease(w, r, t)
  BY <1>4 DEF Receive
<1>5. ASSUME NEW w \in Worker, Reacquire(w)
      PROVE  job[w] \in Run \cup {NoRun} /\ \E t \in Token : SendLease(w, job[w], t)
  BY <1>5 DEF Reacquire, PipeTypeOK
<1>6. ASSUME NEW t \in Token,
             \/ LeaseRefused(t) \/ LeaseFails(t) \/ InputReturned(t)
             \/ CompletionRefused(t) \/ CompletionReturned(t)
      PROVE  CallEndsFor(t)
  BY <1>6, EndOfCall DEF CallEndsFor
<1>7. \/ UNCHANGED pipeVars \/ PipeCleanup \/ PipeTick
      \/ \E r \in Run : PostBegin(r) \/ RouteStep(r) \/ LockLapses(r) \/ PipeDeadline(r)
      \/ \E w \in Worker, r \in Run : Receive(w, r)
      \/ \E w \in Worker : Infer(w) \/ Outage(w) \/ Reacquire(w) \/ Settle(w)
      \/ \E t \in Token : LeaseReads(t) \/ LeaseWrites(t) \/ CompletionForwarded(t)
      \/ \E t \in Token : \/ LeaseRefused(t) \/ LeaseFails(t) \/ InputReturned(t)
                         \/ CompletionRefused(t) \/ CompletionReturned(t)
  <2>1. /\ \A w \in Worker : ~WorkerFails(w)
        /\ \A t \in Token : ~CompletionFails(t)
    BY DEF WorkerFails, CompletionFails, Steady
  <2>. QED BY <2>1 DEF PipeNext, WorkerStep, GatewayStep
<1>. QED BY <1>1, <1>2, <1>3, <1>4, <1>5, <1>6, <1>7

\* A worker waits until its call has ended, so no call is left alone.
LEMMA CallsAreAwaitedStep ==
  ASSUME PipeTypeOK, CallOfWorker, CallsAreAwaited, Steady, [PipeNext]_pipeVars
  PROVE  CallsAreAwaited'
<1>1. CASE UNCHANGED <<workerVars, callVars>>
  BY <1>1 DEF CallsAreAwaited, workerVars, callVars
<1>2. ASSUME NEW w \in Worker, NEW t \in Token, NEW r, SendLease(w, r, t),
             NEW p \in {"leasing", "reacquiring"}, pc[w] \in {"idle", "cooling"},
             pc' = [pc EXCEPT ![w] = p]
      PROVE  CallsAreAwaited'
  <2>1. /\ pc'[w] \in WaitingPc /\ token'[w] = t
        /\ \A v \in Worker : v # w => pc'[v] = pc[v] /\ token'[v] = token[v]
        /\ \A u \in Token : u # t => call'[u] = call[u]
    BY <1>2 DEF SendLease, PipeTypeOK, WaitingPc
  <2>2. pc[w] \notin WaitingPc
    BY <1>2 DEF WaitingPc
  <2>3. ASSUME NEW u \in Token, call'[u] # "none"
        PROVE  \E v \in Worker : token'[v] = u /\ pc'[v] \in WaitingPc
    BY <2>1, <2>2, <2>3 DEF CallsAreAwaited
  <2>. QED BY <2>3 DEF CallsAreAwaited
<1>3. ASSUME NEW w \in Worker, NEW r \in Run, Receive(w, r), NEW t \in Token, SendLease(w, r, t)
      PROVE  CallsAreAwaited'
  BY <1>2, <1>3 DEF Receive
<1>4. ASSUME NEW w \in Worker, Reacquire(w), NEW t \in Token, SendLease(w, job[w], t)
      PROVE  CallsAreAwaited'
  BY <1>2, <1>4 DEF Reacquire
<1>5. ASSUME NEW w \in Worker, Infer(w) \/ Outage(w) PROVE CallsAreAwaited'
  <2>1. PICK v : SendComplete(w, v)
    BY <1>5 DEF Infer, Outage
  <2>2. /\ pc[w] = "inferring" /\ pc[w] \notin WaitingPc
        /\ \E p \in WaitingPc : pc' = [pc EXCEPT ![w] = p]
    BY <1>5 DEF Infer, Outage, WaitingPc
  <2>3. /\ pc'[w] \in WaitingPc /\ token' = token /\ token[w] \in Token
        /\ \A v2 \in Worker : v2 # w => pc'[v2] = pc[v2]
        /\ \A u \in Token : u # token[w] => call'[u] = call[u]
    BY <2>1, <2>2 DEF SendComplete, PipeTypeOK, CallOfWorker, BusyPc
  <2>. QED BY <2>2, <2>3 DEF CallsAreAwaited
<1>6. ASSUME NEW w \in Worker, Settle(w) PROVE CallsAreAwaited'
  <2>1. /\ pc[w] \notin WaitingPc /\ call' = call
        /\ \A v \in Worker : v # w => pc'[v] = pc[v] /\ token'[v] = token[v]
    BY <1>6 DEF Settle, PipeTypeOK, WaitingPc, callVars
  <2>. QED BY <2>1 DEF CallsAreAwaited
<1>7. ASSUME NEW t \in Token, LeaseReads(t) \/ LeaseWrites(t) \/ CompletionForwarded(t)
      PROVE  CallsAreAwaited'
  <2>1. /\ UNCHANGED workerVars
        /\ call[t] # "none" /\ \A u \in Token : u # t => call'[u] = call[u]
    BY <1>7 DEF LeaseReads, LeaseWrites, CompletionForwarded, callVars, PipeTypeOK
  <2>2. \A u \in Token : call'[u] # "none" => call[u] # "none"
    BY <2>1
  <2>. QED BY <2>1, <2>2 DEF CallsAreAwaited, workerVars
<1>8. ASSUME NEW t \in Token, CallEndsFor(t)
      PROVE  CallsAreAwaited'
  <2>1. \A w \in Worker : token[w] # t => pc'[w] = pc[w] /\ token'[w] = token[w]
    BY <1>8, OthersStay DEF Awaiting, CallEndsFor
  <2>2. \A u \in Token : call'[u] # "none" => u # t /\ call[u] # "none"
    BY <1>8 DEF CallEndsFor, EndCall, PipeTypeOK
  <2>. QED BY <2>1, <2>2 DEF CallsAreAwaited
<1>. QED BY <1>1, <1>3, <1>4, <1>5, <1>6, <1>7, <1>8, WorkerCases

\* The stages of the route.
LEMMA RouteFirstStep ==
  ASSUME TypeOK, PipeTypeOK, CallOfWorker, MessageOfWorker, RouteFirst, [PipeNext]_pipeVars
  PROVE  RouteFirst'
<1>1. \A r \in Run : snapshot'[r] = TRUE => r \in Rows'
  <2>1. [Next]_vars
    BY StoreStep
  <2>2. Rows \subseteq Rows'
    BY <2>1, RowsStay
  <2>3. \A r \in Run : snapshot'[r] = TRUE => snapshot[r] = TRUE \/ r \in Rows
    BY <2>1 DEF TypeOK, Next, vars, runVars, CreateBegin, CreateCommit, CreateRollback,
       WriteSnapshot, MarkQueued, DeadlinePasses, LeaseRead, LeaseWrite, LeaseRollback,
       CompleteBegin, CompleteIgnored, CompleteStale, CompleteRequeue, CompleteFailed,
       CompleteSucceeded, Succeed, CompleteRollback, Cleanup, Tick
  <2>. QED BY <2>2, <2>3 DEF RouteFirst
<1>. DEFINE Early == {"none", "creating", "created", "snapshotted"}
<1>2. ASSUME \A r \in Run : /\ route'[r] \in Early => route[r] \in Early
                            /\ msg[r] = "none" => msg'[r] = "none" \/ route'[r] \notin Early
      PROVE  RouteFirst'
  BY <1>1, <1>2 DEF RouteFirst
<1>3. ASSUME NEW r \in Run, PostBegin(r) \/ RouteStep(r)
      PROVE  \A s \in Run : /\ route'[s] \in Early => route[s] \in Early
                            /\ msg[s] = "none" => msg'[s] = "none" \/ route'[s] \notin Early
  BY <1>3 DEF PostBegin, RouteStep, PostCreated, PostCreateFails, PostSnapshot,
              PostSnapshotFails, PostDispatch, PostDispatchFails, PostMarkQueued,
              PostMarkQueuedFails, RouteTo, sbVars, PipeTypeOK
<1>4. ASSUME NEW r \in Run, LockLapses(r)
      PROVE  route' = route /\ \A s \in Run : msg[s] = "none" => msg'[s] = "none"
  BY <1>4 DEF LockLapses, PipeTypeOK
<1>5. ASSUME NEW w \in Worker, NEW r \in Run, Receive(w, r)
      PROVE  route' = route /\ \A s \in Run : msg[s] = "none" => msg'[s] = "none"
  BY <1>5 DEF Receive, PipeTypeOK
<1>6. ASSUME NEW w \in Worker, Settle(w)
      PROVE  route' = route /\ \A s \in Run : msg[s] = "none" => msg'[s] = "none"
  <2>1. msg' = [msg EXCEPT ![job[w]] = IF holder[job[w]] = w THEN "done" ELSE @]
        /\ pc[w] = "settling" /\ route' = route
    BY <1>6 DEF Settle
  <2>2. msg[job[w]] = "locked"
    BY <2>1 DEF MessageOfWorker
  <2>. QED BY <2>1, <2>2 DEF PipeTypeOK
<1>7. ASSUME \/ UNCHANGED pipeVars \/ PipeCleanup \/ PipeTick
             \/ \E r \in Run : PipeDeadline(r)
             \/ \E w \in Worker : Infer(w) \/ Outage(w) \/ Reacquire(w) \/ WorkerFails(w)
             \/ \E t \in Token : GatewayStep(t)
      PROVE  UNCHANGED <<route, msg>>
  BY <1>7 DEF pipeVars, PipeCleanup, PipeTick, PipeDeadline, Infer, Outage, Reacquire,
              WorkerFails, GatewayStep, LeaseRefused, LeaseReads, LeaseWrites, LeaseFails,
              InputReturned, CompletionRefused, CompletionForwarded, CompletionReturned,
              CompletionFails, CallOnly, sbVars
<1>. QED BY <1>2, <1>3, <1>4, <1>5, <1>6, <1>7 DEF PipeNext, WorkerStep

\* A message is locked by the worker that works on it, and by no other.
LEMMA MessageOfWorkerStep ==
  ASSUME PipeTypeOK, SnapshotFirst, RouteFirst, MessageOfWorker, Steady, [PipeNext]_pipeVars
  PROVE  MessageOfWorker'
<1>1. ASSUME UNCHANGED <<msg, holder>>,
             \A w \in Worker : pc'[w] # "idle" => pc[w] # "idle" /\ job'[w] = job[w]
      PROVE  MessageOfWorker'
  BY <1>1 DEF MessageOfWorker
<1>2. \A w \in Worker : pc[w] # "idle" => job[w] \in Run
  BY DEF SnapshotFirst
<1>3. ASSUME NEW r \in Run, PostBegin(r) \/ RouteStep(r) PROVE MessageOfWorker'
  <2>1. UNCHANGED <<workerVars, holder>>
    BY <1>3 DEF PostBegin, RouteStep, PostCreated, PostCreateFails, PostSnapshot,
                PostSnapshotFails, PostDispatch, PostDispatchFails, PostMarkQueued,
                PostMarkQueuedFails, RouteOnly, sbVars
  <2>2. \A s \in Run : msg[s] = "locked" => msg'[s] = "locked"
    BY <1>3 DEF PostBegin, RouteStep, PostCreated, PostCreateFails, PostSnapshot,
                PostSnapshotFails, PostDispatch, PostDispatchFails, PostMarkQueued,
                PostMarkQueuedFails, sbVars, RouteFirst, PipeTypeOK
  <2>. QED BY <1>2, <2>1, <2>2 DEF MessageOfWorker, workerVars
<1>4. ASSUME NEW r \in Run, LockLapses(r) PROVE MessageOfWorker'
  <2>1. UNCHANGED workerVars /\ \A s \in Run : s # r => msg'[s] = msg[s] /\ holder'[s] = holder[s]
    BY <1>4 DEF LockLapses, PipeTypeOK
  <2>2. job[holder[r]] # r
    BY <1>4 DEF LockLapses, Steady
  <2>. QED BY <1>2, <2>1, <2>2 DEF MessageOfWorker, workerVars
<1>5. ASSUME NEW w \in Worker, NEW r \in Run, Receive(w, r) PROVE MessageOfWorker'
  <2>1. /\ msg[r] = "ready" /\ msg'[r] = "locked" /\ holder'[r] = w /\ job'[w] = r
        /\ \A s \in Run : s # r => msg'[s] = msg[s] /\ holder'[s] = holder[s]
        /\ \A v \in Worker : v # w => pc'[v] = pc[v] /\ job'[v] = job[v]
    BY <1>5 DEF Receive, PipeTypeOK
  <2>2. \A v \in Worker : pc[v] # "idle" => job[v] # r
    BY <2>1 DEF MessageOfWorker
  <2>. QED BY <1>2, <2>1, <2>2 DEF MessageOfWorker
<1>6. ASSUME NEW w \in Worker, Infer(w) \/ Outage(w) \/ Reacquire(w) PROVE MessageOfWorker'
  <2>1. /\ UNCHANGED <<msg, holder, job>> /\ pc[w] # "idle"
        /\ \A v \in Worker : v # w => pc'[v] = pc[v]
    BY <1>6 DEF Infer, Outage, Reacquire, SendComplete, CallOnly, sbVars, PipeTypeOK
  <2>. QED BY <1>1, <2>1
<1>7. ASSUME NEW w \in Worker, Settle(w) PROVE MessageOfWorker'
  <2>1. /\ pc[w] # "idle" /\ pc'[w] = "idle"
        /\ \A v \in Worker : v # w => pc'[v] = pc[v] /\ job'[v] = job[v]
        /\ \A s \in Run : s # job[w] => msg'[s] = msg[s] /\ holder'[s] = holder[s]
    BY <1>7 DEF Settle, PipeTypeOK
  <2>2. \A v \in Worker : v # w /\ pc[v] # "idle" => job[v] # job[w]
    BY <2>1 DEF MessageOfWorker
  <2>. QED BY <1>2, <2>1, <2>2 DEF MessageOfWorker
<1>8. ASSUME NEW t \in Token, GatewayStep(t) PROVE MessageOfWorker'
  <2>1. CallOnly /\ (UNCHANGED workerVars \/ \E next : GoOn(Awaiting(t), next))
    BY <1>8 DEF GatewayStep, LeaseRefused, LeaseReads, LeaseWrites, LeaseFails, InputReturned,
                CompletionRefused, CompletionForwarded, CompletionReturned, CompletionFails
  <2>2. \A w \in Worker : pc'[w] # "idle" => pc[w] # "idle" /\ job'[w] = job[w]
    BY <2>1 DEF GoOn, Awaiting, WaitingPc, workerVars
  <2>. QED BY <1>1, <2>1, <2>2 DEF CallOnly, sbVars
<1>9. ASSUME (\E r \in Run : PipeDeadline(r)) \/ PipeCleanup \/ PipeTick \/ UNCHANGED pipeVars
      PROVE  MessageOfWorker'
  BY <1>1, <1>9 DEF PipeDeadline, PipeCleanup, PipeTick, CallOnly, sbVars, workerVars, pipeVars
<1>10. ASSUME NEW w \in Worker PROVE ~WorkerFails(w)
  BY DEF WorkerFails, Steady
<1>. QED BY <1>3, <1>4, <1>5, <1>6, <1>7, <1>8, <1>9, <1>10 DEF PipeNext, WorkerStep

\* What a worker reports is what its inference has ended with.
LEMMA ReportsAnswerStep ==
  ASSUME PipeTypeOK, CallOfWorker, ReportsAnswer, Steady, [PipeNext]_pipeVars
  PROVE  ReportsAnswer'
<1>1. CASE UNCHANGED <<workerVars, callVars>>
  BY <1>1 DEF ReportsAnswer, workerVars, callVars
<1>2. ASSUME NEW w \in Worker, NEW t \in Token, NEW r, SendLease(w, r, t),
             NEW p \in {"leasing", "reacquiring"}, pc' = [pc EXCEPT ![w] = p]
      PROVE  ReportsAnswer'
  <2>1. /\ pc'[w] # "reporting" /\ answer' = answer
        /\ \A v \in Worker : v # w => pc'[v] = pc[v] /\ token'[v] = token[v]
    BY <1>2 DEF SendLease, PipeTypeOK
  <2>. QED BY <2>1 DEF ReportsAnswer
<1>3. ASSUME NEW w \in Worker, NEW r \in Run, Receive(w, r), NEW t \in Token, SendLease(w, r, t)
      PROVE  ReportsAnswer'
  BY <1>2, <1>3 DEF Receive
<1>4. ASSUME NEW w \in Worker, Reacquire(w), NEW t \in Token, SendLease(w, job[w], t)
      PROVE  ReportsAnswer'
  BY <1>2, <1>4 DEF Reacquire
<1>5. ASSUME NEW w \in Worker, Infer(w) \/ Outage(w) PROVE ReportsAnswer'
  <2>1. PICK v : SendComplete(w, v) /\ (Infer(w) => v \in Result \cup {"Failed"})
    <3>1. CASE Infer(w)
      BY <3>1 DEF Infer
    <3>2. CASE Outage(w) /\ ~Infer(w)
      BY <3>2 DEF Outage
    <3>. QED BY <1>5, <3>1, <3>2
  <2>2. /\ pc[w] = "inferring" /\ (pc'[w] = "reporting" => Infer(w))
        /\ \A x \in Worker : x # w => pc'[x] = pc[x]
    BY <1>5 DEF Infer, Outage, PipeTypeOK
  <2>3. /\ token' = token /\ token[w] \in Token
        /\ \A x \in Worker : x # w /\ pc[x] \in BusyPc => token[x] \in Token /\ token[x] # token[w]
    BY <2>1, <2>2 DEF SendComplete, CallOfWorker, BusyPc
  <2>4. /\ answer'[token[w]] = v
        /\ \A u \in Token : u # token[w] => answer'[u] = answer[u]
    BY <2>1, <2>3 DEF SendComplete, PipeTypeOK
  <2>5. pc'[w] = "reporting" => answer'[token'[w]] # "Unavailable"
    BY <2>1, <2>2, <2>3, <2>4, ResultAssumption
  <2>6. ASSUME NEW x \in Worker, x # w, pc'[x] = "reporting"
        PROVE  answer'[token'[x]] # "Unavailable"
    <3>1. pc[x] = "reporting" /\ pc[x] \in BusyPc
      BY <2>2, <2>6 DEF BusyPc, WaitingPc
    <3>. QED BY <2>3, <2>4, <2>6, <3>1 DEF ReportsAnswer
  <2>. QED BY <2>5, <2>6 DEF ReportsAnswer
<1>6. ASSUME NEW w \in Worker, Settle(w) PROVE ReportsAnswer'
  <2>1. /\ pc'[w] = "idle" /\ answer' = answer
        /\ \A v \in Worker : v # w => pc'[v] = pc[v] /\ token'[v] = token[v]
    BY <1>6 DEF Settle, PipeTypeOK, callVars
  <2>. QED BY <2>1 DEF ReportsAnswer
<1>7. ASSUME NEW t \in Token, LeaseReads(t) \/ LeaseWrites(t) \/ CompletionForwarded(t)
      PROVE  ReportsAnswer'
  BY <1>7 DEF LeaseReads, LeaseWrites, CompletionForwarded, callVars, workerVars, ReportsAnswer
<1>8. ASSUME NEW t \in Token, CallEndsFor(t)
      PROVE  ReportsAnswer'
  <2>1. answer' = answer
    BY <1>8 DEF EndCall, CallEndsFor
  <2>2. \A w \in Worker : pc'[w] = "reporting" => pc[w] = "reporting" /\ token'[w] = token[w]
    BY <1>8, OthersStay DEF CallEndsFor
  <2>. QED BY <2>1, <2>2 DEF ReportsAnswer
<1>. QED BY <1>1, <1>3, <1>4, <1>5, <1>6, <1>7, <1>8, WorkerCases

\* What a step does to the store in the steady case.
LEMMA StoreCases ==
  ASSUME Steady, [PipeNext]_pipeVars
  PROVE  \/ UNCHANGED vars
         \/ \E r \in Run : PostBegin(r)
         \/ \E r \in Run : CreateCommit(r) \/ CreateRollback(r) \/ WriteSnapshot(r) \/ MarkQueued(r)
         \/ \E t \in Token : \/ LeaseRead(t, callRun[t]) \/ LeaseWrite(t) \/ LeaseRollback(t)
                             \/ CompleteBegin(t, answer[t])
                             \/ CompleteIgnored(t) \/ CompleteStale(t) \/ CompleteRequeue(t)
                             \/ CompleteFailed(t) \/ CompleteSucceeded(t)
         \/ Cleanup \/ Tick
<1>1. CASE UNCHANGED pipeVars
  BY <1>1 DEF pipeVars
<1>2. ASSUME NEW r \in Run, RouteStep(r)
      PROVE  \/ UNCHANGED vars
             \/ CreateCommit(r) \/ CreateRollback(r) \/ WriteSnapshot(r) \/ MarkQueued(r)
  BY <1>2 DEF RouteStep, PostCreated, PostCreateFails, PostSnapshot, PostSnapshotFails,
              PostDispatch, PostDispatchFails, PostMarkQueued, PostMarkQueuedFails
<1>3. ASSUME NEW r \in Run, LockLapses(r) PROVE UNCHANGED vars
  BY <1>3 DEF LockLapses
<1>4. ASSUME NEW r \in Run PROVE ~PipeDeadline(r)
  BY DEF PipeDeadline, Steady
<1>5. ASSUME NEW w \in Worker, WorkerStep(w) \/ WorkerFails(w) \/ \E r \in Run : Receive(w, r)
      PROVE UNCHANGED vars
  BY <1>5 DEF WorkerStep, Infer, Outage, Reacquire, Settle, WorkerFails, Receive
<1>6. ASSUME NEW t \in Token, GatewayStep(t)
      PROVE  \/ UNCHANGED vars
             \/ LeaseRead(t, callRun[t]) \/ LeaseWrite(t) \/ LeaseRollback(t)
             \/ CompleteBegin(t, answer[t])
             \/ CompleteIgnored(t) \/ CompleteStale(t) \/ CompleteRequeue(t)
             \/ CompleteFailed(t) \/ CompleteSucceeded(t)
  <2>1. ~CompletionFails(t)
    BY DEF CompletionFails, Steady
  <2>. QED BY <1>6, <2>1 DEF GatewayStep, LeaseRefused, LeaseReads, LeaseWrites, LeaseFails,
              InputReturned, CompletionRefused, CompletionForwarded, CompletionReturned
<1>7. PipeCleanup => Cleanup
  BY DEF PipeCleanup
<1>8. PipeTick => Tick
  BY DEF PipeTick
<1>. QED BY <1>1, <1>2, <1>3, <1>4, <1>5, <1>6, <1>7, <1>8 DEF PipeNext

\* A request draws a time that no other request of its subject has.
LEMMA TimesDifferStep ==
  ASSUME TypeOK, TxnOnVisibleRun, TimesDiffer, Steady, [PipeNext]_pipeVars
  PROVE  TimesDiffer'
<1>1. ASSUME requestedAt' = requestedAt,
             \A r \in Run : status[r] = "Absent" => status'[r] = "Absent"
      PROVE  TimesDiffer'
  BY <1>1 DEF TimesDiffer, SameSubject
<1>2. ASSUME NEW r \in Run, PostBegin(r) PROVE TimesDiffer'
  <2>1. ~Overlaps(r)
    BY <1>2 DEF PostBegin, Steady
  <2>2. /\ requestedAt'[r] = clock
        /\ \A s \in Run : s # r => status'[s] = status[s] /\ requestedAt'[s] = requestedAt[s]
    BY <1>2 DEF PostBegin, CreateBegin, TypeOK
  <2>3. \A s \in Run : s # r /\ SameSubject(r, s) => requestedAt[s] # clock
    BY <2>1 DEF Overlaps
  <2>. QED BY <2>2, <2>3 DEF TimesDiffer, SameSubject
<1>3. ASSUME NEW r \in Run, CreateRollback(r) PROVE TimesDiffer'
  <2>1. /\ status'[r] = "Absent"
        /\ \A s \in Run : s # r => status'[s] = status[s] /\ requestedAt'[s] = requestedAt[s]
    BY <1>3 DEF CreateRollback, TypeOK
  <2>. QED BY <2>1 DEF TimesDiffer, SameSubject
<1>4. ASSUME NEW r \in Run, CreateCommit(r) \/ WriteSnapshot(r) \/ MarkQueued(r) PROVE TimesDiffer'
  <2>1. requestedAt' = requestedAt
    BY <1>4 DEF CreateCommit, WriteSnapshot, MarkQueued
  <2>2. \A s \in Run : status[s] = "Absent" => status'[s] = "Absent"
    BY <1>4 DEF CreateCommit, WriteSnapshot, MarkQueued, OtherActive, Active, TypeOK
  <2>. QED BY <1>1, <2>1, <2>2
<1>5. ASSUME NEW t \in Token,
             \/ LeaseRead(t, callRun[t]) \/ LeaseRollback(t)
             \/ CompleteBegin(t, answer[t]) \/ CompleteIgnored(t)
      PROVE  TimesDiffer'
  BY <1>1, <1>5 DEF LeaseRead, LeaseRollback, CompleteBegin, CompleteIgnored, runVars
<1>6. ASSUME NEW t \in Token, LeaseWrite(t) PROVE TimesDiffer'
  <2>1. txnRun[t] \in Run /\ status[txnRun[t]] # "Absent"
    BY <1>6 DEF LeaseWrite, TxnOnVisibleRun, Rows, Invisible
  <2>2. \A s \in Run : status[s] = "Absent" => status'[s] = "Absent"
    BY <1>6, <2>1 DEF LeaseWrite, TypeOK
  <2>. QED BY <1>1, <1>6, <2>2 DEF LeaseWrite
<1>7. ASSUME NEW t \in Token, CompleteStale(t) \/ CompleteRequeue(t) \/ CompleteFailed(t)
                              \/ CompleteSucceeded(t)
      PROVE  TimesDiffer'
  <2>1. requestedAt' = requestedAt /\ status[txnRun[t]] # "Absent"
    BY <1>7 DEF CompleteStale, CompleteRequeue, CompleteFailed, CompleteSucceeded, Succeed,
                Active
  <2>2. \A s \in Run : s # txnRun[t] => status'[s] = status[s]
    BY <1>7 DEF CompleteStale, CompleteRequeue, CompleteFailed, CompleteSucceeded, Succeed, TypeOK
  <2>. QED BY <1>1, <2>1, <2>2
<1>8. ASSUME Cleanup \/ Tick \/ UNCHANGED vars PROVE TimesDiffer'
  <2>1. requestedAt' = requestedAt
    BY <1>8 DEF Cleanup, Tick, vars, runVars
  <2>2. \A s \in Run : status[s] = "Absent" => status'[s] = "Absent"
    BY <1>8 DEF Cleanup, Tick, vars, runVars, Overdue
  <2>. QED BY <1>1, <2>1, <2>2
<1>. QED BY <1>2, <1>3, <1>4, <1>5, <1>6, <1>7, <1>8, StoreCases

\* A write that concerns a deadline sets it, and no deadline passes.
LEMMA AllFreshStep ==
  ASSUME TypeOK, AllFresh, Steady, [PipeNext]_pipeVars
  PROVE  AllFresh'
<1>1. CASE \E r \in Run : PostBegin(r) \/ CreateCommit(r) \/ CreateRollback(r)
                          \/ WriteSnapshot(r) \/ MarkQueued(r)
  BY <1>1 DEF PostBegin, CreateBegin, CreateCommit, CreateRollback, WriteSnapshot, MarkQueued,
              AllFresh, TypeOK
<1>2. CASE \E t \in Token : \/ LeaseRead(t, callRun[t]) \/ LeaseWrite(t) \/ LeaseRollback(t)
                            \/ CompleteBegin(t, answer[t])
  BY <1>2 DEF LeaseRead, LeaseWrite, LeaseRollback, CompleteBegin, runVars, AllFresh, TypeOK
<1>3. CASE \E t \in Token : \/ CompleteIgnored(t) \/ CompleteStale(t) \/ CompleteRequeue(t)
                            \/ CompleteFailed(t) \/ CompleteSucceeded(t)
  BY <1>3 DEF CompleteIgnored, CompleteStale, CompleteRequeue, CompleteFailed,
              CompleteSucceeded, Succeed, runVars, AllFresh, TypeOK
<1>4. CASE Cleanup \/ Tick \/ UNCHANGED vars
  BY <1>4 DEF Cleanup, Tick, vars, runVars, AllFresh
<1>. QED BY <1>1, <1>2, <1>3, <1>4, StoreCases

\* The time of a request is fixed once its row is visible.
LEMMA RowTimesStay ==
  ASSUME TypeOK, [Next]_vars
  PROVE  \A r \in Rows : requestedAt'[r] = requestedAt[r]
<1>1. ASSUME NEW r \in Run, CreateBegin(r) \/ CreateRollback(r)
      PROVE  \A s \in Rows : requestedAt'[s] = requestedAt[s]
  BY <1>1 DEF CreateBegin, CreateRollback, Rows, TypeOK, Invisible
<1>2. \/ \E r \in Run : CreateBegin(r) \/ CreateRollback(r)
      \/ requestedAt' = requestedAt
  BY DEF Next, vars, runVars, CreateCommit, WriteSnapshot, MarkQueued, DeadlinePasses,
         LeaseRead, LeaseWrite, LeaseRollback, CompleteBegin, CompleteIgnored, CompleteStale,
         CompleteRequeue, CompleteFailed, CompleteSucceeded, Succeed, CompleteRollback,
         Cleanup, Tick
<1>. QED BY <1>1, <1>2

\* A row that is no longer the latest of its subject does not become so again.
LEMMA LatestWas ==
  ASSUME TypeOK, TxnOnVisibleRun, [PipeNext]_pipeVars, PipeTypeOK, NEW r \in Rows, IsLatest(r)'
  PROVE  IsLatest(r)
<1>1. [Next]_vars
  BY StoreStep
<1>2. \A s \in Rows : s \in Rows' /\ requestedAt'[s] = requestedAt[s]
  BY <1>1, RowsStay, RowTimesStay
<1>. QED BY <1>2 DEF IsLatest, Newer, SameSubject, Rows

\* The worker that awaits a call, and what it has to do with it.
LEMMA CallHasWorker ==
  ASSUME PipeTypeOK, CallOfWorker, SnapshotFirst, CallsAreAwaited, NEW t \in Token, call[t] # "none"
  PROVE  \E w \in Worker :
            /\ token[w] = t /\ pc[w] \in WaitingPc /\ job[w] = callRun[t] /\ callRun[t] \in Run
            /\ call[t] \in {"lease", "input"} => pc[w] \in {"leasing", "reacquiring"}
            /\ call[t] \in {"complete", "forwarded"} => pc[w] \in {"reporting", "releasing"}
<1>1. PICK w \in Worker : token[w] = t /\ pc[w] \in WaitingPc
  BY DEF CallsAreAwaited
<1>2. job[w] = callRun[t] /\ callRun[t] \in Run
  BY <1>1 DEF CallOfWorker, BusyPc, SnapshotFirst
<1>3. /\ call[t] \in {"lease", "input"} => pc[w] \in {"leasing", "reacquiring"}
      /\ call[t] \in {"complete", "forwarded"} => pc[w] \in {"reporting", "releasing"}
  BY <1>1 DEF CallOfWorker, WaitingPc
<1>. QED BY <1>1, <1>2, <1>3

\* Nobody else works on a worker's run.
LEMMA OneWorker ==
  ASSUME MessageOfWorker, NEW v \in Worker, NEW w \in Worker,
         pc[v] # "idle", pc[w] # "idle", job[v] = job[w]
  PROVE  v = w
BY DEF MessageOfWorker

\* A run is Leased because it was, with the same token, or because Core has just written so.
\* A closed run stays closed unless Core writes that.
LEMMA LeaseOrigin ==
  ASSUME TypeOK, Steady, [PipeNext]_pipeVars, NEW r \in Run
  PROVE  \/ \E t \in Token : LeaseWrites(t) /\ txnRun[t] = r
         \/ /\ status'[r] = "Leased" => status[r] = "Leased" /\ leaseToken'[r] = leaseToken[r]
            /\ status[r] \in Terminal => status'[r] \in Terminal
<1>. DEFINE Same == /\ status'[r] = "Leased" => /\ status[r] = "Leased"
                                                /\ leaseToken'[r] = leaseToken[r]
                    /\ status[r] \in Terminal => status'[r] \in Terminal
<1>1. ASSUME UNCHANGED vars PROVE Same
  BY <1>1 DEF vars, runVars
<1>2. ASSUME NEW s \in Run, PostBegin(s) \/ RouteStep(s) PROVE Same
  <2>1. UNCHANGED vars \/ CreateBegin(s) \/ CreateCommit(s) \/ CreateRollback(s)
          \/ WriteSnapshot(s) \/ MarkQueued(s)
    BY <1>2 DEF PostBegin, RouteStep, PostCreated, PostCreateFails, PostSnapshot,
                PostSnapshotFails, PostDispatch, PostDispatchFails, PostMarkQueued,
                PostMarkQueuedFails
  <2>2. CASE UNCHANGED vars
    BY <1>1, <2>2
  <2>3. CASE CreateBegin(s) \/ CreateRollback(s) \/ WriteSnapshot(s) \/ MarkQueued(s)
    BY <2>3 DEF CreateBegin, CreateRollback, WriteSnapshot, MarkQueued, TypeOK, Terminal
  <2>4. CASE CreateCommit(s)
    BY <2>4 DEF CreateCommit, TypeOK, Terminal
  <2>. QED BY <2>1, <2>2, <2>3, <2>4
<1>3. ASSUME \/ \E s \in Run : LockLapses(s)
             \/ \E w \in Worker : WorkerStep(w) \/ WorkerFails(w) \/ \E s \in Run : Receive(w, s)
      PROVE  Same
  <2>1. UNCHANGED vars
    BY <1>3 DEF LockLapses, WorkerStep, Infer, Outage, Reacquire, Settle, WorkerFails, Receive
  <2>. QED BY <1>1, <2>1
<1>4. ASSUME NEW s \in Run PROVE ~PipeDeadline(s)
  BY DEF PipeDeadline, Steady
<1>5. ASSUME PipeCleanup \/ PipeTick PROVE Same
  BY <1>5 DEF PipeCleanup, PipeTick, Cleanup, Tick, runVars, Terminal
<1>6. ASSUME NEW t \in Token, GatewayStep(t) PROVE Same \/ (LeaseWrites(t) /\ txnRun[t] = r)
  <2>1. CASE \/ LeaseRefused(t) \/ InputReturned(t) \/ CompletionRefused(t)
    BY <1>1, <2>1 DEF LeaseRefused, InputReturned, CompletionRefused
  <2>2. CASE LeaseReads(t) \/ LeaseFails(t) \/ CompletionForwarded(t) \/ CompletionFails(t)
    BY <2>2 DEF LeaseReads, LeaseRead, LeaseFails, LeaseRollback, CompletionForwarded,
                CompleteBegin, CompletionFails, CompleteRollback, runVars
  <2>3. CASE LeaseWrites(t) /\ txnRun[t] # r
    BY <2>3 DEF LeaseWrites, LeaseWrite, TypeOK
  <2>4. CASE CompletionReturned(t)
    <3>1. CASE CompleteIgnored(t)
      BY <3>1 DEF CompleteIgnored, runVars
    <3>2. CASE CompleteStale(t) \/ CompleteRequeue(t) \/ CompleteFailed(t) \/ CompleteSucceeded(t)
      BY <3>2 DEF CompleteStale, CompleteRequeue, CompleteFailed, CompleteSucceeded, Succeed,
                  TypeOK, Terminal, Active
    <3>. QED BY <2>4, <3>1, <3>2 DEF CompletionReturned
  <2>. QED BY <1>6, <2>1, <2>2, <2>3, <2>4 DEF GatewayStep
<1>. HIDE DEF Same
<1>7. Same \/ \E t \in Token : LeaseWrites(t) /\ txnRun[t] = r
  BY <1>1, <1>2, <1>3, <1>4, <1>5, <1>6 DEF PipeNext, pipeVars
<1>. QED BY <1>7 DEF Same

\* What holds of the pipeline as long as its faults are the steady ones.
SteadyInv ==
    /\ TypeOK /\ TxnOnVisibleRun
    /\ PipeTypeOK /\ CallOfWorker /\ SnapshotFirst
    /\ TxnIsCall /\ CallsAreAwaited /\ MessageOfWorker /\ RouteFirst
    /\ TimesDiffer /\ AllFresh /\ ReportsAnswer

\* A holder stays a holder until the run is not leased any more.
LEMMA LeasedHasWorkerStep ==
  ASSUME SteadyInv, LeasedHasWorker, Steady, [PipeNext]_pipeVars
  PROVE  LeasedHasWorker'
<1>. USE DEF SteadyInv
<1>. SUFFICES ASSUME NEW r \in Run, status'[r] = "Leased", IsLatest(r)'
              PROVE  \E w \in Worker : HoldsLease(w)' /\ job'[w] = r /\ token'[w] = leaseToken'[r]
  BY DEF LeasedHasWorker
<1>1. CASE \E t \in Token : LeaseWrites(t) /\ txnRun[t] = r
  <2>1. PICK t \in Token : LeaseWrites(t) /\ txnRun[t] = r
    BY <1>1
  <2>2. /\ call[t] = "lease" /\ txn[t] = "reading" /\ call'[t] = "input"
        /\ leaseToken'[r] = t /\ UNCHANGED workerVars
    BY <2>1 DEF LeaseWrites, LeaseWrite, PipeTypeOK, TypeOK
  <2>3. callRun[t] = r
    BY <2>1, <2>2 DEF TxnIsCall
  <2>4. PICK w \in Worker : /\ token[w] = t /\ job[w] = callRun[t]
                            /\ pc[w] \in {"leasing", "reacquiring"}
    BY <2>2, CallHasWorker
  <2>. QED BY <2>2, <2>3, <2>4 DEF HoldsLease, workerVars
<1>2. CASE ~\E t \in Token : LeaseWrites(t) /\ txnRun[t] = r
  <2>1. status[r] = "Leased" /\ leaseToken'[r] = leaseToken[r]
    BY <1>2, LeaseOrigin
  <2>2. r \in Rows
    BY <2>1 DEF Rows, Invisible
  <2>3. IsLatest(r)
    BY <2>2, LatestWas
  <2>4. PICK w \in Worker : HoldsLease(w) /\ job[w] = r /\ token[w] = leaseToken[r]
    BY <2>1, <2>3 DEF LeasedHasWorker
  <2>. SUFFICES HoldsLease(w)' /\ job'[w] = job[w] /\ token'[w] = token[w]
    BY <2>1, <2>4
  <2>5. /\ token[w] \in Token /\ pc[w] \in BusyPc
        /\ pc[w] \in {"leasing", "reacquiring"} => call[token[w]] = "input"
    BY <2>4 DEF HoldsLease, CallOfWorker, BusyPc, WaitingPc
  <2>6. ASSUME pc'[w] = pc[w], job'[w] = job[w], token'[w] = token[w],
               call'[token[w]] = call[token[w]]
        PROVE  HoldsLease(w)' /\ job'[w] = job[w] /\ token'[w] = token[w]
    BY <2>4, <2>6 DEF HoldsLease
  <2>7. CASE UNCHANGED <<workerVars, callVars>>
    BY <2>6, <2>7 DEF workerVars, callVars
  <2>8. ASSUME NEW v \in Worker, NEW s \in Run \cup {NoRun}, NEW t \in Token, SendLease(v, s, t),
               (s \in Run /\ Receive(v, s)) \/ (s = job[v] /\ Reacquire(v))
        PROVE  HoldsLease(w)' /\ job'[w] = job[w] /\ token'[w] = token[w]
    <3>1. /\ pc[v] \in {"idle", "cooling"}
          /\ \A x \in Worker : x # v => pc'[x] = pc[x] /\ job'[x] = job[x] /\ token'[x] = token[x]
          /\ call[t] = "none" /\ \A u \in Token : u # t => call'[u] = call[u]
      BY <2>8 DEF Receive, Reacquire, SendLease, PipeTypeOK
    <3>2. v # w
      BY <2>5, <3>1 DEF BusyPc, WaitingPc
    <3>. QED BY <2>4, <2>5, <3>1, <3>2 DEF HoldsLease
  <2>9. ASSUME NEW v \in Worker, Infer(v) \/ Outage(v)
        PROVE  HoldsLease(w)' /\ job'[w] = job[w] /\ token'[w] = token[w]
    <3>1. PICK x : SendComplete(v, x)
      BY <2>9 DEF Infer, Outage
    <3>2. /\ pc[v] = "inferring" /\ pc'[v] \in {"reporting", "releasing"}
          /\ \A y \in Worker : y # v => pc'[y] = pc[y]
      BY <2>9 DEF Infer, Outage, PipeTypeOK
    <3>3. job' = job /\ token' = token /\ token[v] \in Token
          /\ \A u \in Token : u # token[v] => call'[u] = call[u]
      BY <3>1, <3>2 DEF SendComplete, PipeTypeOK, CallOfWorker, BusyPc
    <3>4. CASE v = w
      BY <3>2, <3>3, <3>4 DEF HoldsLease
    <3>5. CASE v # w
      <4>1. token[w] # token[v]
        BY <2>5, <3>2, <3>5 DEF CallOfWorker, BusyPc
      <4>. QED BY <2>5, <2>6, <3>2, <3>3, <3>5, <4>1
    <3>. QED BY <3>4, <3>5
  <2>10. ASSUME NEW v \in Worker, Settle(v)
         PROVE  HoldsLease(w)' /\ job'[w] = job[w] /\ token'[w] = token[w]
    <3>1. /\ pc[v] = "settling" /\ call' = call
          /\ \A x \in Worker : x # v => pc'[x] = pc[x] /\ job'[x] = job[x] /\ token'[x] = token[x]
      BY <2>10 DEF Settle, PipeTypeOK, callVars
    <3>2. v # w
      BY <2>5, <3>1 DEF BusyPc, WaitingPc
    <3>. QED BY <2>6, <3>1, <3>2
  <2>11. ASSUME NEW t \in Token, LeaseReads(t) \/ LeaseWrites(t) \/ CompletionForwarded(t)
         PROVE  HoldsLease(w)' /\ job'[w] = job[w] /\ token'[w] = token[w]
    <3>1. /\ UNCHANGED workerVars /\ call[t] \in {"lease", "complete"}
          /\ \A u \in Token : u # t => call'[u] = call[u]
      BY <2>11 DEF LeaseReads, LeaseWrites, CompletionForwarded, callVars, PipeTypeOK
    <3>. QED BY <2>4, <2>5, <3>1 DEF HoldsLease, workerVars
  <2>12. ASSUME NEW t \in Token, CallEndsFor(t),
                LeaseRefused(t) \/ LeaseFails(t) \/ InputReturned(t)
                  \/ CompletionRefused(t) \/ CompletionReturned(t)
         PROVE  HoldsLease(w)' /\ job'[w] = job[w] /\ token'[w] = token[w]
    <3>1. CASE token[w] # t
      <4>1. call'[token[w]] = call[token[w]]
        BY <2>5, <2>12, <3>1 DEF CallEndsFor, EndCall, PipeTypeOK
      <4>2. pc'[w] = pc[w] /\ job'[w] = job[w] /\ token'[w] = token[w]
        BY <2>12, <3>1, OthersStay DEF CallEndsFor, Awaiting
      <4>. QED BY <2>6, <4>1, <4>2
    <3>2. CASE token[w] = t
      <4>1. call[t] # "none" /\ callRun[t] = r
        BY <2>4, <2>5, <2>12, <3>2 DEF LeaseRefused, LeaseFails, InputReturned,
           CompletionRefused, CompletionReturned, CallOfWorker
      <4>2. /\ w \in Awaiting(t)
            /\ call[t] \in {"lease", "input"} => pc[w] \in {"leasing", "reacquiring"}
        BY <2>5, <3>2, <4>1 DEF Awaiting, CallOfWorker, BusyPc, WaitingPc
      <4>3. ~(LeaseRefused(t) \/ LeaseFails(t))
        BY <2>5, <3>2, <4>2 DEF LeaseRefused, LeaseFails
      <4>4. ~CompletionRefused(t)
        <5>1. r \in Run /\ MayBeLatest(r)
          BY <2>2, <2>3 DEF MayBeLatest, IsLatest, Newer, Rows, TypeOK
        <5>2. ~Ties(r)
          BY <2>2, <5>1 DEF Ties, TimesDiffer, Rows, Invisible
        <5>. QED BY <2>4, <3>2, <4>1, <5>1, <5>2 DEF CompletionRefused, Accepts, AllFresh
      <4>5. ~CompletionReturned(t)
        <5>1. ASSUME CompletionReturned(t) PROVE FALSE
          <6>1. txn[t] = "completing"
            BY <5>1 DEF CompletionReturned, CompleteIgnored, CompleteStale, CompleteRequeue,
                        CompleteFailed, CompleteSucceeded, Succeed
          <6>2. txnRun[t] = r
            BY <4>1, <6>1 DEF TxnIsCall
          <6>. QED BY <2>1, <5>1, <6>2 DEF CompletionReturned, CompleteIgnored, CompleteStale,
                      CompleteRequeue, CompleteFailed, CompleteSucceeded, Succeed, Terminal, TypeOK
        <5>. QED BY <5>1
      <4>6. InputReturned(t)
        BY <2>12, <4>3, <4>4, <4>5
      <4>7. GoOn(Awaiting(t), OnGranted)
        BY <4>1, <4>6 DEF InputReturned, SnapshotFirst
      <4>8. pc'[w] = "inferring"
        BY <4>2, <4>6, <4>7, OthersStay, Continuations DEF InputReturned
      <4>. QED BY <4>2, <4>7, <4>8, OthersStay DEF HoldsLease
    <3>. QED BY <3>1, <3>2
  <2>. QED BY <2>7, <2>8, <2>9, <2>10, <2>11, <2>12, WorkerCases
<1>. QED BY <1>1, <1>2

\* A run that is over stays over while its message is settled or about to be: only the
\* worker that holds the message could have Core lease the run again.
LEMMA OverStays ==
  ASSUME SteadyInv, Steady, [PipeNext]_pipeVars, NEW r \in Rows, Over(r),
         \/ msg[r] = "done"
         \/ \E v \in Worker : pc[v] = "settling" /\ job[v] = r
  PROVE  Over(r)'
<1>. USE DEF SteadyInv
<1>1. ~\E t \in Token : LeaseWrites(t) /\ txnRun[t] = r
  <2>1. ASSUME NEW t \in Token, LeaseWrites(t), txnRun[t] = r PROVE FALSE
    <3>1. call[t] = "lease" /\ callRun[t] = r
      BY <2>1 DEF LeaseWrites, LeaseWrite, TxnIsCall
    <3>2. PICK w \in Worker : job[w] = r /\ pc[w] \in {"leasing", "reacquiring"}
      BY <3>1, CallHasWorker
    <3>3. msg[r] = "locked"
      BY <3>2 DEF MessageOfWorker
    <3>. QED BY <3>2, <3>3, OneWorker
  <2>. QED BY <2>1
<1>2. status[r] \in Terminal => status'[r] \in Terminal
  BY <1>1, LeaseOrigin DEF Rows
<1>3. ~IsLatest(r) => ~IsLatest(r)'
  BY LatestWas
<1>. QED BY <1>2, <1>3 DEF Over

\* A worker settles the message of the run it has worked on.
LEMMA SettlingStays ==
  ASSUME PipeTypeOK, CallOfWorker, Steady, [PipeNext]_pipeVars,
         NEW w \in Worker, pc[w] = "settling", pc'[w] = "settling"
  PROVE  job'[w] = job[w]
<1>1. CASE UNCHANGED <<workerVars, callVars>>
  BY <1>1 DEF workerVars
<1>2. ASSUME NEW v \in Worker, NEW r \in Run \cup {NoRun},
             (r \in Run /\ Receive(v, r)) \/ (r = job[v] /\ Reacquire(v))
      PROVE  job'[w] = job[w]
  BY <1>2 DEF Receive, Reacquire, PipeTypeOK
<1>3. ASSUME NEW v \in Worker, Infer(v) \/ Outage(v) PROVE job'[w] = job[w]
  BY <1>3 DEF Infer, Outage, SendComplete
<1>4. ASSUME NEW v \in Worker, Settle(v) PROVE job'[w] = job[w]
  BY <1>4 DEF Settle, PipeTypeOK
<1>5. ASSUME NEW t \in Token, LeaseReads(t) \/ LeaseWrites(t) \/ CompletionForwarded(t)
      PROVE  job'[w] = job[w]
  BY <1>5 DEF LeaseReads, LeaseWrites, CompletionForwarded, workerVars
<1>6. ASSUME NEW t \in Token, CallEndsFor(t) PROVE job'[w] = job[w]
  BY <1>6, OthersStay DEF CallEndsFor, Awaiting, WaitingPc
<1>. QED BY <1>1, <1>2, <1>3, <1>4, <1>5, <1>6, WorkerCases

\* Why a message comes to be settled.
LEMMA SettledIsOverStep ==
  ASSUME SteadyInv, LeasedHasWorker, SettledIsOver, Steady, [PipeNext]_pipeVars
  PROVE  SettledIsOver'
<1>. USE DEF SteadyInv
<1>1. \A w \in Worker : pc[w] # "idle" => job[w] \in Rows
  BY DEF SnapshotFirst, RouteFirst
<1>2. \A r \in Run : msg[r] # "none" => r \in Rows
  BY DEF SnapshotFirst, RouteFirst
<1>3. ASSUME NEW w \in Worker, pc[w] = "settling", NEW r \in Run, job[w] = r PROVE Over(r)'
  <2>1. r \in Rows /\ Over(r)
    BY <1>1, <1>3 DEF SettledIsOver
  <2>. QED BY <1>3, <2>1, OverStays
<1>4. ASSUME NEW r \in Run, msg'[r] = "done" PROVE Over(r)'
  <2>1. CASE msg[r] = "done"
    BY <1>2, <2>1, OverStays DEF SettledIsOver
  <2>2. CASE msg[r] # "done"
    <3>1. \E w \in Worker : Settle(w) /\ job[w] = r
      <4>1. ASSUME NEW s \in Run, PostBegin(s) \/ RouteStep(s) PROVE FALSE
        BY <1>4, <2>2, <4>1 DEF PostBegin, RouteStep, PostCreated, PostCreateFails,
           PostSnapshot, PostSnapshotFails, PostDispatch, PostDispatchFails, PostMarkQueued,
           PostMarkQueuedFails, sbVars, PipeTypeOK
      <4>2. ASSUME NEW s \in Run, LockLapses(s) PROVE FALSE
        BY <1>4, <2>2, <4>2 DEF LockLapses, PipeTypeOK
      <4>3. ASSUME NEW w \in Worker, NEW s \in Run, Receive(w, s) PROVE FALSE
        BY <1>4, <2>2, <4>3 DEF Receive, PipeTypeOK
      <4>4. ASSUME NEW w \in Worker, Settle(w), job[w] # r PROVE FALSE
        BY <1>4, <2>2, <4>4 DEF Settle, PipeTypeOK
      <4>5. ASSUME \/ UNCHANGED pipeVars \/ PipeCleanup \/ PipeTick
                   \/ \E s \in Run : PipeDeadline(s)
                   \/ \E w \in Worker : Infer(w) \/ Outage(w) \/ Reacquire(w) \/ WorkerFails(w)
                   \/ \E t \in Token : GatewayStep(t)
            PROVE  FALSE
        <5>1. msg' = msg
          BY <4>5 DEF pipeVars, PipeCleanup, PipeTick, PipeDeadline, Infer, Outage, Reacquire,
             WorkerFails, GatewayStep, LeaseRefused, LeaseReads, LeaseWrites, LeaseFails,
             InputReturned, CompletionRefused, CompletionForwarded, CompletionReturned,
             CompletionFails, CallOnly, sbVars
        <5>. QED BY <1>4, <2>2, <5>1
      <4>. QED BY <4>1, <4>2, <4>3, <4>4, <4>5 DEF PipeNext, WorkerStep
    <3>. QED BY <1>3, <3>1 DEF Settle
  <2>. QED BY <2>1, <2>2
<1>5. ASSUME NEW w \in Worker, pc'[w] = "settling", pc[w] # "settling"
      PROVE  Over(job[w])' /\ job'[w] = job[w]
  <2>1. PICK t \in Token : /\ CallEndsFor(t)
                           /\ LeaseRefused(t) \/ LeaseFails(t) \/ InputReturned(t)
                                \/ CompletionRefused(t) \/ CompletionReturned(t)
    <3>1. CASE UNCHANGED <<workerVars, callVars>>
      BY <1>5, <3>1 DEF workerVars
    <3>2. ASSUME NEW v \in Worker, NEW s \in Run \cup {NoRun},
                 (s \in Run /\ Receive(v, s)) \/ (s = job[v] /\ Reacquire(v))
          PROVE  FALSE
      BY <1>5, <3>2 DEF Receive, Reacquire, PipeTypeOK
    <3>3. ASSUME NEW v \in Worker, Infer(v) \/ Outage(v) \/ Settle(v) PROVE FALSE
      BY <1>5, <3>3 DEF Infer, Outage, Settle, PipeTypeOK
    <3>4. ASSUME NEW u \in Token, LeaseReads(u) \/ LeaseWrites(u) \/ CompletionForwarded(u)
          PROVE  FALSE
      BY <1>5, <3>4 DEF LeaseReads, LeaseWrites, CompletionForwarded, workerVars
    <3>. QED BY <3>1, <3>2, <3>3, <3>4, WorkerCases
  <2>2. w \in Awaiting(t)
    BY <1>5, <2>1, OthersStay DEF CallEndsFor
  <2>3. /\ token[w] = t /\ pc[w] \in WaitingPc /\ job[w] = callRun[t] /\ job[w] \in Run
        /\ call[t] \in {"lease", "input"} => pc[w] \in {"leasing", "reacquiring"}
        /\ call[t] \in {"complete", "forwarded"} => pc[w] \in {"reporting", "releasing"}
        /\ job'[w] = job[w]
    <3>1. token[w] = t /\ pc[w] \in WaitingPc /\ job[w] = callRun[t] /\ job[w] \in Run
      BY <2>2 DEF Awaiting, CallOfWorker, BusyPc, WaitingPc, SnapshotFirst
    <3>2. job'[w] = job[w]
      BY <1>5, <2>1, <2>2, OthersStay DEF CallEndsFor
    <3>. QED BY <2>2, <3>1, <3>2, AwaitingPc
  <2>4. ASSUME NEW next, GoOn(Awaiting(t), next) PROVE next[pc[w]] = "settling"
    BY <1>5, <2>2, <2>4, OthersStay DEF Awaiting
  <2>5. job[w] \in Rows
    BY <1>1, <2>3 DEF WaitingPc
  <2>6. CASE LeaseRefused(t)
    <3>1. call[t] = "lease" /\ UNCHANGED vars
      BY <2>6 DEF LeaseRefused
    <3>2. ~(status[job[w]] = "Leased" /\ IsLatest(job[w]))
      <4>1. ASSUME status[job[w]] = "Leased", IsLatest(job[w]) PROVE FALSE
        <5>1. PICK v \in Worker : HoldsLease(v) /\ job[v] = job[w]
          BY <2>3, <4>1 DEF LeasedHasWorker
        <5>2. v = w
          BY <2>3, <5>1, OneWorker DEF HoldsLease, WaitingPc
        <5>. QED BY <2>3, <3>1, <5>1, <5>2 DEF HoldsLease
      <4>. QED BY <4>1
    <3>3. ~Ties(job[w])
      BY <2>5 DEF Ties, TimesDiffer, Rows, Invisible
    <3>4. ~Leasable(job[w])
      BY <2>3, <2>6, <3>3 DEF LeaseRefused
    <3>5. ~MayBeLatest(job[w]) => ~IsLatest(job[w])
      BY <2>3 DEF MayBeLatest, IsLatest, Newer, Rows, TypeOK
    <3>6. Over(job[w])
      BY <2>5, <3>2, <3>4, <3>5 DEF Leasable, Over, Rows, Invisible, Active, TypeOK
    <3>7. Over(job[w])' <=> Over(job[w])
      BY <2>3, <3>1 DEF Over, vars, runVars, IsLatest, Rows, Newer, SameSubject
    <3>. QED BY <2>3, <3>6, <3>7
  <2>7. CASE LeaseFails(t)
    BY <2>3, <2>4, <2>7, Continuations DEF LeaseFails
  <2>8. CASE InputReturned(t)
    BY <2>3, <2>4, <2>8, Continuations DEF InputReturned, SnapshotFirst
  <2>9. CASE CompletionRefused(t)
    BY <2>3, <2>4, <2>9, Continuations DEF CompletionRefused
  <2>10. CASE CompletionReturned(t)
    <3>1. txn[t] = "completing" /\ call[t] = "forwarded"
      BY <2>10 DEF CompletionReturned, CompleteIgnored, CompleteStale, CompleteRequeue,
                   CompleteFailed, CompleteSucceeded, Succeed
    <3>2. txnRun[t] = job[w] /\ txnVerdict[t] = answer[t]
      BY <2>3, <3>1 DEF TxnIsCall
    <3>3. ~(status[job[w]] \in {"Pending", "Queued"} /\ IsLatest(job[w]))
      BY <2>3, <2>4, <2>10, Continuations DEF CompletionReturned
    <3>4. pc[w] = "reporting"
      <4>1. GoOn(Awaiting(t), OnAccepted)
        BY <2>3, <2>10, <3>3 DEF CompletionReturned
      <4>. QED BY <2>3, <2>4, <3>1, <4>1 DEF OnAccepted
    <3>5. txnVerdict[t] # "Unavailable"
      BY <2>3, <3>2, <3>4 DEF ReportsAnswer
    <3>6. status'[job[w]] \in Terminal
      <4>1. CASE CompleteIgnored(t)
        BY <3>2, <3>3, <4>1 DEF CompleteIgnored, runVars
      <4>2. CASE CompleteStale(t) \/ CompleteFailed(t) \/ CompleteSucceeded(t)
        BY <2>3, <3>2, <4>2 DEF CompleteStale, CompleteFailed, CompleteSucceeded, Succeed,
                                Terminal, TypeOK
      <4>3. CASE CompleteRequeue(t)
        BY <3>5, <4>3 DEF CompleteRequeue
      <4>. QED BY <2>10, <4>1, <4>2, <4>3 DEF CompletionReturned
    <3>. QED BY <2>3, <3>6 DEF Over
  <2>. QED BY <2>1, <2>6, <2>7, <2>8, <2>9, <2>10
<1>6. ASSUME NEW w \in Worker, pc'[w] = "settling" PROVE Over(job[w])'
  <2>1. CASE pc[w] = "settling"
    <3>1. PICK r \in Run : job[w] = r
      BY <2>1 DEF SnapshotFirst
    <3>2. job'[w] = job[w]
      BY <1>6, <2>1, SettlingStays
    <3>3. Over(r)'
      BY <1>3, <2>1, <3>1
    <3>. QED BY <3>1, <3>2, <3>3
  <2>2. CASE pc[w] # "settling"
    BY <1>5, <1>6, <2>2
  <2>. QED BY <2>1, <2>2
<1>. QED BY <1>4, <1>6 DEF SettledIsOver

\* As long as no worker is lost, no lock or lease lapses under one, a run can be given back
\* and requests for a subject do not overlap, a message is settled only when its run is
\* over or a newer request has taken its place, even though requests, dispatches and
\* replies fail.  The run with "release" among its faults shows what goes wrong otherwise.
THEOREM SettledIsAnswered == Steady /\ PipeSpec => []SettledWorkIsOver
<1>. DEFINE All == SteadyInv /\ LeasedHasWorker /\ SettledIsOver
<1>1. ASSUME PipeInit PROVE TxnIsCall /\ CallsAreAwaited /\ MessageOfWorker /\ RouteFirst
                             /\ TimesDiffer /\ AllFresh /\ ReportsAnswer
                             /\ LeasedHasWorker /\ SettledIsOver
  BY <1>1 DEF PipeInit, Init, TxnIsCall, CallsAreAwaited, MessageOfWorker, RouteFirst,
              TimesDiffer, AllFresh, ReportsAnswer, LeasedHasWorker, SettledIsOver
<1>2. PipeInit => All
  BY <1>1, PipeTypeInit, StoreInit, InvInit, SnapshotInit
     DEF SteadyInv, Inv, PipeInit, CallOfWorker, BusyPc, WaitingPc
<1>3. Steady /\ All /\ TypeOK' /\ TxnOnVisibleRun' /\ [PipeNext]_pipeVars => All'
  BY PipeTypeStep, SnapshotStep, TxnIsCallStep, CallsAreAwaitedStep, MessageOfWorkerStep,
     RouteFirstStep, TimesDifferStep, AllFreshStep, ReportsAnswerStep, LeasedHasWorkerStep,
     SettledIsOverStep DEF SteadyInv
<1>4. Inv => TypeOK /\ TxnOnVisibleRun
  BY DEF Inv
<1>5. All => SettledWorkIsOver
  BY DEF SettledIsOver, Over, SettledWorkIsOver
<1>. HIDE DEF All
<1>6. SUFFICES ASSUME Steady PROVE PipeSpec => []SettledWorkIsOver
  OBVIOUS
<1>. QED BY <1>2, <1>3, <1>4, <1>5, <1>6, PipelineUsesStore, Invariance, PTL DEF PipeSpec

\* The pipeline as a whole keeps the promise of LatestRunWins.
THEOREM PipelineKeepsPromise == PipeSpec => KeepsPromise
BY PipelineUsesStore, Refinement
=============================================================================
