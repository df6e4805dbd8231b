# Verification of ehestifter

ehestifter collects job offerings, and scores them against the CV of each user.
This directory holds TLA+ models of the parts of the system where actions of
several services, users and timers meet on shared state, the TLC configurations
that check them, and proofs about them that TLAPS checks.

Run TLC with `tlc -config X.cfg M` and the prover with `tlapm M.tla`.
`PROJECT.json` lists the components, the runs, the source lines behind each
definition, the hazards with the properties that cover them, the disagreements
between code and comments, and the theorems.

## 1. Inventory

### The compatibility pipeline (modelled)

| Part | Source | State | Operations |
| --- | --- | --- | --- |
| Run store | `backend/enrichers/helpers` | `dbo.EnrichmentRuns` | create (superseding), write snapshot, mark queued, lease, complete / requeue / supersede |
| Cleanup timer | `backend/enrichers/timers/cleanup_runs.py` | the same table | daily: expire queued and leased runs, optionally fail pending ones |
| Request route | `backend/enrichers/routes/enrichment_runs_post.py` | none | create, snapshot, dispatch through the Gateway, mark queued |
| Gateway | `backend/gateway` | none | dispatch, lease, complete |
| Service Bus | external | the queue | locks, redelivery, dead-lettering |
| Compatibility worker | `backend/workers/compatibility/app` | its loop | receive, lease, infer, release during an outage, lease again, report, settle |
| Projection dispatcher | `backend/enrichers/timers/dispatch_projections.py` | `dbo.EnrichmentProjectionDispatch` | every two minutes: select what is due, deliver, record |
| Score upsert | `backend/jobs/routes/internal_job_compatibility_projections_bulk_upsert.py` | `dbo.CompatibilityScores` | read, ignore stale, insert or update |

A request creates a run and closes the earlier runs of its subject (an enricher
type with a job and a user).  Its input is stored, the Gateway sends a message
with the run id, and a worker that receives the message leases the run through
the Gateway, calls the inference service, and completes the run under its lease
token.  A success adds a dispatch row in the same transaction, and the
dispatcher hands the score to the Jobs domain.

Hard here: every step is a remote call that may take effect and still fail for
its caller; the lease is a SELECT and an UPDATE without a guard; timestamps that
are compared with each other are read outside the transactions that store them;
messages are delivered again while their first receiver goes on; a worker may
release and lease a run again with the same message in hand; timer passes
overlap; the upsert is a read followed by a write.

What makes it correct: a subject has at most one active run; the run that counts
is the latest; an answer is accepted only under the current lease; a closed run
stays closed; each success is handed over once and unchanged, with timestamps in
the order of the requests; queued work ends; the score shown never goes back.

### Analytics (modelled)

| Part | Source | State | Operations |
| --- | --- | --- | --- |
| Ingest | `backend/analytics/app/routes/events.py`, `db.py` | `dbo.AnalyticsEvents`, `dbo.AnalyticsDispatch` | post an event: look for its producer id, insert event and row, look again if refused |
| Export | `backend/analytics/app/dispatch.py`, `db.py` | `dbo.AnalyticsDispatch` | every minute: select, mark sending, import to Mixpanel, record |

The other domains post events and do not care what becomes of them; Cloud
Scheduler and an operator call the export.

Hard here: posts with one producer id race for the unique index; exports overlap
(the scheduler repeats a failed call, and the service has eight threads) and
none of their updates but the mark looks at the status; the mark, the import and
the record are three steps, and the export may end between them; an import
without an answer may have been stored.

What makes it correct: one event per producer id, and every post with it is told
so; a row is called sent only when Mixpanel has its event; every row ends sent or
dead, or is selected again.

### Jobs, Users and the Telegram bot (the core of it modelled)

| Part | Source | State | Operations |
| --- | --- | --- | --- |
| Identity | `backend/jobs/helpers/url_helpers.py` | none | provider, tenant and external id from a URL |
| Offerings | `backend/jobs/routes` | `dbo.JobOfferings`, `UserJobStatus`, `JobOfferingHistory` | create, exists, apply by URL, set status, update, delete, post and read history |
| Lists and reports | `jobs_list.py`, `job_list_with_statuses.py`, `jobs_status_report.py`, `job_status_bulk.py` | the same tables | pages of a list, status changes in a time, statuses of some jobs |
| Jobs proxy | `infrastucture/docker/jobs-ehestifter-proxy` | none | ask whether a posting is there, then create it |
| Web core | `backend/core` | `_MEMO`: pages of lists, for 30 s | list, delete and drop the pages |
| Users domain | `backend/users/routes` | `Users`, `UserPreferences`, blobs | link code, link and unlink a chat, save and read a CV |
| Telegram bot | `backend/telegrambot` | `_uid_cache` | /link, /unlink, /applied, /myjobs and its next pages |

Hard here: one posting is known under several URLs, and two requests may create it
at once; a request is a few statements, and what it has read may be old when it
writes; a cursor keeps less of a timestamp than the column does; lists change while
they are paged by offset; two processes remember what they were told; a CV is three
writes.

What makes it correct: links of one posting, and of no other, lead to one offering;
the history tells how the state came about; a reader misses nothing but what changed
meanwhile; a snapshot pairs a version with its own text; the bot acts for the user
whose chat it is.

### ATS scheduler (modelled)

`scrapers/ats-discovery/ops/scheduler/ats_scheduler.py`.  State: a state file shared
by all tasks, a lock file, the directories of published runs.  Operations: scheduled,
forced and manual activations, retention.

Hard here: the attempt is counted before the scanner starts and its outcome recorded
hours later; a process may die at any point while its scanner goes on; the state file
may be broken or impossible to write.

What makes it correct: one scanner at a time; a slot is completed once, within its
budget of attempts; no task overwrites another's record; a completed slot names the
run its own scanner has published.

### The model client and the score of the worker (modelled)

`compatibility.py`, `llama_cpp_client.py` and `inference_resilience.py` in
`backend/workers/compatibility/app`.  State: the attempts of a batch, the stream being
read, the lease.

Hard here: an answer may end anywhere; the fallback, the retries and the outage loop
are nested; the lease is given back and taken again in the middle.

What makes it correct: nothing incomplete is reported as a result; a request refused
as malformed is tried with the fallback prompt before its run is failed, and an outage
never fails a run; reports are made under a lease that is held.

### The rest (not modelled)

| Part | State | Why not |
| --- | --- | --- |
| ATS scanner (`scrapers/ats-discovery/src`) | tenant state, provider health, run artifacts | a batch program of many thousand lines that works on the files of one run; only its exit and the directory it publishes meet another process |
| Analytics: validation, keys, diagnostics | none | one request checked against tables of names |
| Users: registration, roles, filters | rows of `Users` | single statements on one row |
| Frontends, tools, workflows | none of their own | request and response |
| Legacy outbox (`enrichers/domain`) | - | dead code: its timer is not registered |

## 2. Modules

    LatestRunWins             what Enrichment Core promises about the runs of a subject
       ^ refinement
    EnrichmentRuns            the run store: one action per transaction
       ^ EXTENDS         ^ EXTENDS
    EnrichmentPipeline   EnrichmentRunsProofs
       ^ EXTENDS         ^ EXTENDS
    EnrichmentPipelineProofs  the pipeline uses the store as it promises; its own properties

    ProjectionDispatch        from dispatch rows to the scores shown
       ^ EXTENDS
    ProjectionAttempts        the same, counting what is really posted
       ^ EXTENDS
    ProjectionDispatchProofs

    AnalyticsDispatch         ingest of events and their export to Mixpanel
       ^ EXTENDS
    AnalyticsDispatchProofs

    LeaseHolder               what Core may rely on from the holder of a lease
       ^ refinement
    WorkerInference           the worker between the lease and the report
       ^ EXTENDS
    WorkerInferenceProofs

    AtsScheduler              the scheduler of the scanner
       ^ EXTENDS
    AtsSchedulerProofs

    JobIdentity   Workload    identities of URLs; which requests are made
       ^ EXTENDS   ^   ^
    JobOfferings --+   |      offerings, statuses and history
       ^ EXTENDS       |
    JobLists      UserAccounts      lists and the web core; chats and CVs
       ^ EXTENDS       ^ EXTENDS
    TelegramBot -------+      the bot, with the two domains it calls
       ^ EXTENDS
    TelegramBotProofs         EXTENDS also JobOfferingsProofs (lemmas about JobLists)

    MC*                      small instances

`EnrichmentPipeline` adds to the run store the programs that call it: each of its
steps is a step of `EnrichmentRuns` or leaves the store alone, so what is proved
of the store carries over.  `ProjectionDispatch` starts where
`CompleteSucceeded` ends; it assumes that the rows of a subject are inserted in
the order of their `calculatedAt` (`TimeAssumption`), which is the theorem
`Ordered` together with the row lock of the completion.

Definitions that begin with "Mutant" in their comment are wrong on purpose.
Each replaces the definition after it to show that a property notices.

### EnrichmentRuns

`status`, `requestedAt`, `leaseToken`, `snapshot` and `result` are columns of
`dbo.EnrichmentRuns`; `projAt` and `projResult` are the payload of the run's row
in `dbo.EnrichmentProjectionDispatch`.  `age` stands for the columns that are
only compared with a cutoff (`QueuedAt`, `LeaseUntil`).  `txn*` is what Core has
read and not yet acted on, one entry per lease token.

| Action | Code |
| --- | --- |
| `CreateBegin`, `CreateCommit`, `CreateRollback` | `create_run_db`: the clock is read before the transaction |
| `WriteSnapshot`, `MarkQueued` | `write_input_snapshot`, `mark_queued` |
| `LeaseRead`, `LeaseWrite`, `LeaseRollback` | `try_lease_run`: SELECTs, then an UPDATE by id |
| `CompleteBegin` | `complete_run_transactionally` reads the clock |
| `CompleteIgnored` / `Stale` / `Requeue` / `Failed` / `Succeeded` / `Rollback` | its outcomes, under the row lock |
| `DeadlinePasses`, `Cleanup`, `Tick` | time, and the cleanup timer |

Three choices deserve a note.  An expired lease is never granted again: since
migration 19 `LeaseUntil` is `datetime2` without a zone, the comparison in
`try_lease_run` raises, and the branch for that answers `ALREADY_LEASED`.  The
latest run is chosen by `RequestedAt` alone in the lease and in the route that tells
the Gateway the latest id, and by `RequestedAt, RunId` in the completion, and the model
keeps both: `MayBeLatest` and `IsLatest`.  The lease's unguarded
UPDATE may bring a closed run back; what stops two active runs is only the
filtered unique index.

### EnrichmentPipeline

`route` is how far a POST has come, `msg`, `holder` and `deliveries` are the
Service Bus message, `pc`, `job` and `token` the worker's loop, `call`, `callRun`
and `answer` the Gateway call under way.  A worker may stop waiting for a call
(`WorkerFails`) and the call goes on.  `Faults` says which failures may happen,
so a property can be checked with and without them.

The Gateway's checks before it forwards a completion (`Accepts`) and Core's
transaction are two steps: a run may be superseded, expired or leased again in
between.  Its check that the run is the latest before it asks Core for a lease
is left out, because Core repeats it and a run never becomes the latest again.

### ProjectionDispatch

`status` and `attempts` are columns of the dispatch table, `due` the rows whose
`NextAttemptAt` has passed, in that order.  A pass holds its `batch` with the
`AttemptCount` it has selected; a `request` is what Jobs works on, also after the
pass has given up on it; `shown` is the score stored for a subject, named by the
row it came from.  `disturbed` is a history variable: it becomes true when a
second pass starts beside another, or a pass gives up on a request.

`AttemptCount` is incremented with the outcome, after the post and in a transaction of
its own, so it misses a post whose record fails or whose host goes down before it.
`ProjectionAttempts` adds two history variables to the same steps: `posts`, what was
really posted, and `lost`, how many of these posts will never be recorded.  They count
until something is disturbed, as no property looks at them afterwards.

### AnalyticsDispatch

A post is named by the event it would create: `post` is its progress through
`insert_event_with_dispatch` and `answer` the `eventId` it was told.  `status` is
the column, `waiting` the rows whose `NextAttemptAtUtc` lies ahead.  A pass of the
export has a `batch` and, after the import, an `outcome`.  `imported` is what
Mixpanel has stored: a 2xx answer means all rows of the batch, because the import is
asked for with `strict=1` (`MIXPANEL_STRICT`, on by default); with the switch off a
success could leave out rows, which is not modelled.  `abandoned` and `disturbed` are history variables: the rows
some pass has left in `sending`, and whether passes have overlapped.

| Action | Code |
| --- | --- |
| `Find`, `Insert`, `InsertRefused`, `FindAgain`, `PostFails` | `insert_event_with_dispatch`; the unique index decides between the two inserts |
| `Fetch` | `fetch_due_dispatch_rows` |
| `MarkUnmappable`, `MarkSending` | the mapping loop of `run_dispatch_once`, `mark_dispatch_sending` |
| `Import` | `import_events` and the branches on its answer |
| `Record` | `mark_dispatch_sent`, `mark_dispatch_retry`, `mark_dispatch_dead` |
| `PassFails`, `BecomesDue` | a lost pass, and time |

No producer in the repository sets `producerEventId` yet; the route accepts it and
its tests rely on it.

### WorkerInference

`pc` is how far the worker is with one message; `attempt` and `usedFallback` belong to
a batch of `_attempt_batch`; `stream` is what `_read_budgeted_stream` has seen: the id
of the answer, reasoning tokens, whether the end of reasoning was asked for, a finish
reason.  `raw` is the answer as the client returns it, `told` what the Gateway was told
under each lease.

| Action | Code |
| --- | --- |
| `Call`, `CallFails` | one attempt, and the branches after a failure: retry, fallback, outage, give up |
| `StreamBegins`, `ReadChunk`, `StreamEnds`, `StreamGarbled`, `StreamFails` | the streamed answer, event by event |
| `SyncAnswer`, `RequestFails` | the answer without a stream |
| `ReleaseUnavailable`, `ProbeRefused`, `ProbeHealthy`, `Reacquire`, `ReacquireFails` | the outage loop of `run_with_outage_recovery` |
| `Report`, `GatewayFails`, `Escapes` | the end of `main` for this message |

`FinalScores` is a set, because rounding to one decimal in binary floating point may
go either way at a half; scores are in tenths.  `EnrichmentPipeline` keeps all of this
as its steps `Infer`, `Outage` and `Reacquire`.

### AtsScheduler

`file` and `readable` are the state file, `lock` the flock, `mem` what a process has
loaded from the file, `runs` the run directories.  A process goes from `Start` to
`AcquireLock` or `LockBusy`, loads the state (`Decides`, `StateError`), is refused
(`SkipCompleted`, `Collapse`, `Exhausted`) or counts the attempt, launches, and
records (`Record`).  `Dies` ends it anywhere and frees the lock, and its scanner goes
on.  `truth`, `tries` and `done` are history variables: what was recorded, how often a
slot was tried, which slots were recorded as completed.  `late` becomes true when
a process acts for a slot older than the one in the file, which it may because it reads
the clock before it has the lock; it then resets the newer slot's count.

### JobIdentity, JobOfferings and JobLists

`DeduceFromUrl` is the rule table of `url_helpers.py`: a URL is its host labels, path
segments and query, and an external id a sequence of segments.  `Posting` says which
posting a URL of the instance shows, and `Identified` which links have an identity that
says whose posting it is.  Three rules make one that does not, and their links are
left out of the second half of `OfferingsMatchPostings` (and of nothing else):

- `greenhouse.io/jobs/{id}` (`url_helpers.py:294`) names no tenant: the posting is stored
  again beside the one of `boards.greenhouse.io/{tenant}/jobs/{id}`.  The URL does not
  tell more, and the function says it is "best-effort".
- iCIMS drops the tenant of the host (440-441): the postings of two companies that have
  the same number are one offering.
- Corporate sites take the first label of the host for their provider, so
  `talent.acme.co.uk` and `talent.beta.com` are one.

The table of the instance has links of the forms that have a rule of their own, not every
spelling of them.  It takes two things on trust: that LinkedIn, Indeed, StepStone and
SmartRecruiters never use a number twice, since their identities have no company, and
that a segment used as an id, slug included where the rule keeps it, is written one way.
It has no link of applytojob.com, whose tenant is dropped as well, and none of the
application pages of Workday, Personio and the tenant hosts of Ashby and Lever.

`offers`, `status` and `history` are the three tables, `slot` the requests being
served, `reader` a client that follows the cursors of a history.  A request holds its
row from the first write on, so its writes are one step; its reads are steps of their
own (`Exists`, `CheckJob`, `SelectExisting`, the old values `UpdateJob` reads), and
`RollBack` ends it anywhere.  `torn` are the jobs two updates of which have overlapped:
the later one compares with values that are no longer there, and a change may go
untold.

`pager` is a client that turns the pages of a list, of the web core (count, page, keep:
`CountList`, `SelectPage`, `PutPage`, or `Cached`) or of the bot (`AskActive`).  `memo`
is the web core's memory.  `removing` is a DELETE between the answer of the Jobs domain
and `InvalidatePages`; `hidden` the deletions after which no page may show the job.
The orders of a list other than by creation, the filters by mode, place and date, and
the expiry of a kept page, which `CountList` covers by reading anew at any time, add
nothing to these.  The bound of one DELETE at a time keeps the web core small.

### UserAccounts and TelegramBot

`account` holds the two columns of `Users` that link a chat, `blobs` and `prefs` a CV
in its three writes, `call` the requests between two statements.  `stale` are the chats
whose link was taken away since the bot last asked whose they are.

`cache` is `_uid_cache`, `asked` the command of a chat that waits for its user.
`Act` is what a command does once the user is known.  A call that timed out in the bot
goes on in the domain: `Link` and `Act` start a request and do not wait for it.

That the updates of one chat come one after another is Telegram's doing and an
assumption of the model: it delivers to a webhook in order and repeats an update until
it is answered, while `main.py:40` starts `process_update` for each request it gets.

`Workload` bounds all of it: a behaviour is given one set of request kinds, links and
a number of requests, so that a run covers many small mixtures and not their product.

## 3. Runs

| Run | Instance | Checks | States |
| --- | --- | --- | --- |
| `runs` | 2 requests, 1 subject, 2 leases, clock 1..2, cleanup of pending runs on | the parts of `Inv`, `ProjectionIsFinal`, `KeepsPromise` | 376 k |
| `pipeline_fault_free` | 2 requests, 2 workers, 3 leases, one outage, no faults | `SettledWorkIsOver`, `Answered` | 328 k |
| `pipeline_faults` | 1 request, 2 workers, 2 leases, all faults | `LeaseFindsInput`, `QueuedRunEnds` | 72 k |
| `projection` | 2 rows of one subject, 2 passes, 2 requests, 2 attempts, 2 faults of any kind | see below | 576 k |
| `pipeline_release_fails` | failing releases only | `SettledWorkIsOver` is violated | |
| `pipeline_dispatch_fails` | failing dispatches only | `PendingIsPickedUp` is violated | |
| `projection_timeout` | one pass, one timeout | `ScoreNeverRegresses` is violated | |
| `analytics` | 3 posts, two of them with one key and one that cannot be mapped, 2 passes, batches of 2, 2 faults of any kind | see below | 21 k |
| `analytics_abandoned` | one pass, one update that fails | `RowsBecomeSentRetryOrDead` is violated | |
| `ats_scheduler` | 2 tasks with slots of 2 and 4 ticks, 2 processes, 3 activations, 1 fault, 1 retry | see below | 1.4 M |
| `worker_inference` | 1 message, 3 calls in a batch, 4 failures, budget of 2 and margin of 1 | see below | 233 k |
| `telegram_bot` | 24 workloads of 2 to 7 requests, 2 users, chats, codes, CVs and slots, 41 URLs in 12 families | see below | 370 k |

What the properties say:

- `OneActivePerSubject`: never two active runs, whatever overlaps.
- `TokenNamesHolder`: a Leased run names the lease it was granted to; a run that
  waits names none, so a worker that has released a run cannot answer it.
- `ProjectionOrder`: published results are timestamped in request order.
- `SuccessIsProjected`, `ProjectionIsFinal`: a success has its dispatch row at
  once, and no later completion of the run changes it.
- `KeepsPromise`: the store implements `LatestRunWins`.  In particular a closed
  run is worked on again only by a lease whose SELECT had seen it open.
- `SettledWorkIsOver`: a message is settled only when its run is closed or
  replaced, so redelivery can reach every run whose answer is wanted.
- `Answered`: without faults, a request that reaches the queue is answered or
  replaced.  POSTs for one subject do not overlap here: when they do, the run
  that survives may be older, by its timestamp, than the one it superseded, and
  then no lease is ever granted for it.
- `QueuedRunEnds`: whatever fails, a queued or leased run is closed in the end.
- `LeaseFindsInput`: a granted lease finds its input, although the snapshot may fail
  and the dispatch may not be told.
- `QuietScoreNeverRegresses`, `QuietDeliveredIsShown`: as long as passes do not overlap
  and wait for their answers, the score shown never goes back although retries arrive
  out of order, and a Delivered row is shown or was overtaken.
- `QuietAttemptLimit`: under the same proviso Jobs gets a row no more often than the
  limit and once more for each post whose outcome went unrecorded; a row that may be
  retried has an attempt left by its `AttemptCount`, and a closed row is not selected
  again.  Unrecorded posts are not in `AttemptCount`, so with a limit of 2 and two failing
  records a row may be posted four times: real behaviour.
- `EveryRowSettles`: even with overlaps, timeouts and crashes each row ends Delivered
  or DeadLetter for good.
- `SameKeySameEvent`: posts with one producer id are answered with one event.
- `SentWasImported`: a row is sent only if Mixpanel has its event, whatever other
  passes did with it.
- `SendingIsHeld`: a row in `sending` is in the hands of a pass or was left behind
  by one; overlap alone never strands a row.
- `QuietClosedIsFinal`: without overlap a row that is sent or dead stays so.  With
  overlap it may be reopened and exported again.
- `EveryEventSettles`: every row ends sent or dead for good, although passes
  overlap and imports fail, unless a pass has left it behind.
- `OneScanner`: two scanners run only if a scheduler process has died beside one.
- `NoLostUpdate`: although every task writes the whole file, no record is lost.
- `AttemptsWithinBudget`, `CompletedNotRepeated`: a slot is tried within its budget and
  not again once it was recorded as completed, across crashes, failed writes and forced
  runs.
- `RecordsOwnRun`: a record names the run of the scanner it is about.
- `OneReasoningEnd`, `NoPartialResult`: the end of reasoning is asked for at most once,
  in time; nothing that was cut short is scored.
- `FallbackBeforeFailure`: a run is failed for good only by an answer of the server.  A
  request refused as malformed (400) fails it only after the fallback prompt was tried in
  the same batch, unless no retry is configured; a request refused otherwise (401) and a
  stream that breaks off or cannot be read fail it at once, on the primary prompt too
  (`inference_resilience.py:91-131`); an overload (500, 503) or silence never does.
- `ScoreIsFair`: a score that is sent lies between its sections, or is the one for a
  missing mandatory language.
- `KeepsLeaseContract`: the worker implements `LeaseHolder`: one report per lease, and
  no work without a lease, through failing calls and outages.
- `OfferingsMatchPostings`: the links of one identity lead to one offering, and those of
  two never do, whoever creates, applies to and deletes what meanwhile
  (`OfferingsMatchIdentities`); and the same of the postings the URLs show, where the
  identity says whose posting it is (`Identified`, section 2).
- `HistoryTellsState`: the last change that the status report tells, over any time that
  reaches the present, is the status that is there; the last update tells the title.
- `PagesMissNothing`: following the cursors of a history nothing comes twice, and only
  what lies within a cursor's unit of a page's end is missed; turning the pages of a
  list no more jobs are missed than have left it, and none comes twice without another
  that has come.
- `SnapshotIsItsVersion`: the texts of a snapshot are those of its version, whichever
  saves overlap or fail.
- `QuietCacheIsCurrent`: the bot acts for the user whose chat it is unless the link was
  taken away since it asked, and a job deleted on the web stays out of its user's
  pages, unless a page was on its way.

### Bounds

Two runs of one subject are the smallest number that can race, and every
condition in the code relates at most two of them; different subjects share
nothing but the clock and the cleanup timer, and the theorems cover any number
of either.  Two leases allow a double grant and a lease after a requeue; the
fault-free pipeline has a third, for a release and a new lease beside the other
run's.  A clock of two readings has ties and strict order.  `MaxDelivery` 2 lets
a message be redelivered once and then dead-lettered.  Two rows, two passes and
two requests suffice to overlap each kind with itself, `MaxAttempts` 2 gives a
retry and a last attempt, and with two faults a retry can fail again.
`BatchSize` 2 lets both rows be in one pass, and in two.

Three posts give a race for a key, an event beside it, and a batch of two.  At most
two rows exist, so a batch holds all that is due; that the oldest come first when
it does not matters to no safety property (the theorems hold for any batch size).

Two processes meet at the lock and at a death; three activations are a failure, its
retry and one more.  Slots of 2 and 4 ticks within a clock of 2 give each task a slot
that passes.  Three calls in a batch are what is configured; four failures reach a
second batch after an outage.  Scores are one absent, one NaN, one ordinary and one out
of range; levels one unknown and two known.

A workload puts one hazard under load: two requests for each family of URLs, four for a
posting created, deleted and created again, seven for a chat that is linked, unlinked
and linked to another user.  A posting that is there twice, or a chat that is lost,
needs two requests and a third in between.  Pages hold two entries, so three jobs are two
pages; a cursor keeps every second tick, so that ties and truncation both happen.

Tokens and results, processes, users, chats, codes and slots are symmetric in the runs
that check no liveness.

The runs allow deadlock where the system may come to rest: all requests made,
all queues empty.

### Fairness

The pipeline's fairness is weak, and asked only of what goes on by itself: a
route or Gateway handler that has begun, a worker's loop, the broker that offers
a ready message and lets an unattended lock lapse, the passing of deadlines, and
the cleanup timer.  Requests, faults and outages are never fair.  An outage ends
(`Reacquire` is part of the worker's step) because the worker probes for health
without limit, so the property would be void otherwise.  In `ProjectionDispatch` the timer
fires again and again, a started pass and request go on, and backoff times pass.
In `AnalyticsDispatch` the same holds of Cloud Scheduler, a started export and the
time of the next attempt.

### Disagreements with the comments

- The worker relies on redelivery when it cannot release a run during an outage
  (`inference_resilience.py:200-202`).  The redelivered message finds the run
  Leased, gets a 409, and is settled (`main.py:173-188`): run
  `pipeline_release_fails`.  The run waits, Leased and without a message, for the
  cleanup timer, which expires it.
- The request route leaves a run Pending when the dispatch fails and relies on a
  "gateway sweep" (`enrichment_runs_post.py:101`) that does not exist: run
  `pipeline_dispatch_fails`.
- The upsert "can ignore stale writes cleanly" (line 152) only when no request
  interleaves with another; a timeout of the dispatcher is enough for one to do
  so: run `projection_timeout`.
- A deleted job "never reappears" (`backend/core/routes/ui_jobs_delete.py:27`) unless a
  page with it was read before the delete and is kept after it; and after /unlink
  "future bot operations" do not resolve the user again (`docs/system-design.md:1786`)
  while the bot's process lives.  `QuietCacheIsCurrent` says exactly when both hold.
- "Dispatch rows become `sent`, `retry`, or `dead`" (`docs/system-design.md:1824`)
  leaves out the rows of an export that ended between its mark and its record.
  They stay `sending`, are never selected again, and no diagnostic counts them:
  run `analytics_abandoned`.
- Provider, tenant and external id are the "canonical identity of the posting"
  (`database/schema/01_job_offerings.sql:13`), but three rules make one that does not say
  whose posting it is (section 2).  No run claims it: that the number of an iCIMS job is
  one company's is not said in the repository, and the URLs of the other two forms do
  not tell more.

## 4. Proofs

TLAPS proves every invariant and every action property of the passing runs but one, for
all values of the constants that satisfy the assumptions the modules name.  Of
`OfferingsMatchPostings` the first half is proved (`IdentitiesAreOfferings`); the second
adds a fact about a table of URLs, which depends on the table and on no behaviour, and
is model-checked alone.  So are the liveness properties (`Answered`, `QueuedRunEnds`,
`EveryRowSettles`, `EveryEventSettles`): they need ENABLED and arguments under fairness,
which are beyond the provers installed.  One theorem has a hypothesis, `Steady`, which
is explained below.

The library's induction rules take an operator as a parameter and cannot be used
either.  Where an argument is by induction on numbers it goes through the least
element of a set (`Smallest`), which follows from the well-foundedness of `<`; and
what a recursive definition would compute is written without recursion (`Retained`,
`RemoveFirst`), so that it can be reasoned about.

### The run store

`EnrichmentRunsProofs`, for any sets of runs, subjects, tokens and results and any
clock bound.  Assumptions: run ids are numbers, the "no value" constants are outside
their sets, results differ from the error verdicts.

| Theorem | Statement |
| --- | --- |
| `Invariance` | `Spec => []Inv` |
| `TypeCorrect`, `OneActive`, `HolderNamed`, `Ordered`, `Projecting` | `Spec => []P` for the parts of `Inv` |
| `ProjectionFinal` | `Spec => ProjectionIsFinal` |
| `Refinement` | `Spec => KeepsPromise`: the refinement of `LatestRunWins` |

The argument.  `OneActivePerSubject` needs little: a row becomes active in
`CreateCommit`, which supersedes the others, or in `LeaseWrite`, which the unique
index guards.  `TokenNamesHolder` needs that Core works on visible rows only
(`TxnOnVisibleRun`) and that a row not yet visible carries no token
(`InvisibleIsBlank`).  `ProjectionOrder` is the one that is not inductive: when a
run is published, its timestamp must be no earlier than that of every older
published run of the subject, but the timestamp was read earlier, before the row
lock.  `CompletionReadsLate` carries this from the reading to the commit.  It
holds when the clock is read because every published timestamp is in the past
(`PastTimes`), and it stays true because an older run cannot be published while a
newer row is visible: the completion that would do so finds it is not the latest.
`ProjectionIsFinal` follows from `NeedsRow`, and the refinement from one lemma
per action, with the unique index giving the guard `Rivals(r) = {}` of `Claim`.

### The pipeline

`EnrichmentPipelineProofs`, for any requests, workers, tokens, limits of the queue and
sets of faults.  Assumptions: those of the store, and `PipelineAssumption`.

| Theorem | Statement |
| --- | --- |
| `PipelineUsesStore`, `PipelineKeepsPromise` | `PipeSpec => Spec`, and so `PipeSpec => KeepsPromise` |
| `PipeTypeCorrect` | types, and that a worker's call is about its run |
| `LeasesFindInput` | `PipeSpec => []LeaseFindsInput` |
| `SettledIsAnswered` | `Steady /\ PipeSpec => []SettledWorkIsOver` |

The argument.  Each step is a step of the store or leaves it alone, so all that is
proved of the store holds here.  `CallOfWorker` ties a worker to the call it waits
for: a token is drawn again only while it stands for nothing, so no two workers
share one.  `LeaseFindsInput` follows from `SnapshotFirst`: a message, the worker that
holds it and the call this worker makes all come after the snapshot.

`Steady` says that requests for a subject do not overlap, no worker crashes, no release
fails, no lock lapses and no deadline passes; creations, snapshots, dispatches and
replies may fail.  Each of the five is needed.  Overlapping requests may leave an
active run that is not the latest.  A crash, a failed release or a lapsed lock lets
the message come back while the run is leased, and it is settled on the refusal: that
is the run `pipeline_release_fails`.  So does a
deadline: the Gateway refuses an answer after the lease has expired, and the run stays
Leased until the cleanup timer comes.  TLC finds the property violated for each of the
five alone.  Under `Steady` the invariant is `LeasedHasWorker`: a leased
run whose answer is wanted is in the hands of a worker that has its token.  So when Core
answers "already leased", which settles the message, the run is over: otherwise a second
worker would hold the message of the first (`MessageOfWorker`).

### The projection dispatcher

`ProjectionDispatchProofs`, for any rows, subjects, times, passes, requests, limits and
faults.  Assumptions: `RowAssumption`, `SubjectAssumption`, `TimeAssumption` (see section
2), `RequestAssumption`, `LimitAssumption`.

| Theorem | Statement |
| --- | --- |
| `Invariance`, `TypeCorrect` | `Spec => []IInv`, `Spec => []TypeOK` |
| `DeliveredIsShown` | `Spec => []QuietDeliveredIsShown` |
| `ScoreOnlyAdvances` | `Spec => QuietScoreNeverRegresses` |
| `AttemptLimit` | `CountSpec => []QuietAttemptLimit` |

The argument.  `IInv` has a part that always holds (`Always`: what a pass has in hand at
each stage, no row due twice) and a part that holds until passes overlap or give up on
a request (`Quiet`); `disturbed` never becomes false, so the second part may be used of
the state before a step whenever it is to be shown after it.  With one pass
(`OnePass`) whose requests are all awaited (`RequestsAreAwaited`), Jobs works on one
request at a time, so what its SELECT has found is what is shown (`FoundIsCurrent`) and
its upsert covers the row (`AnswerIsShown`).  The rows of the batch are as they were
selected (`BatchIsCurrent`), so the count a record writes is one more than the count in
the table, and a retry leaves an attempt.

`AttemptLimit` is about the posts, too: each is in that recorded count, is lost, or is
the one at hand (`PostsRecorded`), and a row at hand has an attempt left.  The steps of `CountSpec` are steps of `Spec`
(`CountRefines`), so `IInv` may be used.

### Analytics

`AnalyticsDispatchProofs`, for any posts, keys, passes, batch size and number of faults.
Assumptions: `PostAssumption`, `LimitAssumption`.

| Theorem | Statement |
| --- | --- |
| `AnalyticsTypeCorrect`, `SameKeyIsSameEvent`, `SentIsImported`, `NoRowIsForgotten` | `Spec => []P` for the four invariants of the run |
| `ClosedIsFinal` | `Spec => QuietClosedIsFinal` |

The argument.  `SentWasImported` needs that a pass that is to record a success has
its whole batch in Mixpanel (`BatchImported`).  `SendingIsHeld` is inductive once an
outcome is known to be one of three (`OutcomeKnown`), none of which is `sending`.
`SameKeySameEvent` follows from two facts: a key has at most one event
(`OneEventPerKey`), which a pass could only break by creating a row, so its batch
has to consist of rows that exist (`BatchIsStored`); and an answer names a stored
event of the right key (`AnswerIsStored`), which stays stored.  `QuietClosedIsFinal`
needs `LonePassIsOpen`: without overlap there is a single pass, and no row of its
batch is closed.

### The worker

`WorkerInferenceProofs`, for any number of retry delays and failures, any budget, margin,
scores and languages.  Assumption: `InferenceAssumption`.

| Theorem | Statement |
| --- | --- |
| `TypeCorrect`, `ReasoningEndsOnce`, `PartialResultsUnused`, `FallbackIsTried`, `ScoresAreFair` | `Spec => []P` for the five invariants of the run |
| `LeaseContractKept` | `Spec => KeepsLeaseContract`: the refinement of `LeaseHolder` |

The argument.  `FallbackBeforeFailure` rests on `CallsLeft`: before the fallback a batch
has called at most once, so an attempt whose fallback is refused has used the only call
there is.  `NoPartialResult` rests on `AnswerOK`: what was cut short is no object, and
without one every section is zero (`NoObjectNoScore`).  `OneReasoningEnd` follows from
`StreamOK`, because taking in an event never takes content away.  `ScoreIsFair` is about
what was sent; it follows from `ReportIsFair`, about what is to be sent: a best level
misses the level asked for just if no entry of the language reaches it
(`BestIsSpoken`), and the rounded mean lies between its sections (`MeanIsBetween`).
The refinement needs `ToldOfLease`, which says at each `pc` what has been told under the
lease in use, and that `told` is a sequence as long as the number of leases
(`ToldIsSeq`), so that a new lease begins with nothing told; `LeasesArePaid`, one failure
for each new lease, is what bounds the leases.

### The ATS scheduler

`AtsSchedulerProofs`, for any tasks, slots and policies and any number of processes,
activations and faults.  Assumptions: `TaskAssumption`, `PolicyAssumption`.

| Theorem | Statement |
| --- | --- |
| `Invariance`, `TypeCorrect`, `LockHeldInside` | `IInv`, `TypeOK`, and that the lock names the one process inside |
| `ScannersAreAlone`, `RecordsAreKept`, `RetriesAreBounded`, `CompletedIsFinal` | `Spec => []P` for the four invariants of the run |
| `OwnRunIsRecorded` | `Spec => RecordsOwnRun` |

The argument.  A process is inside the `with` block just while it has the lock
(`HolderIsInside`), which is what makes the rest inductive: what a process has loaded is
still the file (`MemoryIsCurrent`), so writing the whole of it loses nothing.  Unless a
process has died beside its scanner, the one scanner has the number of the process that
waits for it (`ScannerIsAwaited`) and a directory that appears meanwhile is its own
(`NewRunIsOwn`).  The file counts the scans of the slot it is about, one more for a scan
about to start (`ScansAreCounted`), and names the latest slot completed
(`CompletedIsLatest`); both hold as long as no process acts for a slot older than the
file's, which would reset its count.

### Jobs, Users and the bot

`JobOfferingsProofs` has the lemmas about the tables, `TelegramBotProofs` those about the
rest and the theorems, for any links, users, statuses, titles, chats, codes and CVs, any
number of requests at one time, and any grain of a cursor and size of a page.
Assumptions: `PageAssumption`, `StockAssumption` (the offerings there already satisfy the
index), `WorkloadAssumption`, `AccountAssumption`.

| Theorem | Statement |
| --- | --- |
| `Invariance`, `TypeCorrect` | `Spec => []IInv`, `Spec => []TypeOK` |
| `IdentitiesAreOfferings` | `Spec => []OfferingsMatchIdentities` |
| `HistoryIsTrue`, `PagesAreComplete`, `SnapshotsAreVersions`, `CacheIsCurrent` | `Spec => []P` for the other four invariants of the run |

The argument.  `StepParts`: a step of the bot is a step of the Jobs domain, of the Users
domain and of the lists, each of which may stutter, so the three are proved apart.

- `OfferingsMatchIdentities`: a request may hold on to an offering for long, but an
  offering keeps its identity, so what is answered for a link has its identity
  (`AnswersNameKey`), and the index leaves one that is there (`KeysUnique`).  It asks
  nothing of the rules for URLs: the proof does not open them.
- `HistoryTellsState`: the last entry of its kind says what the table holds (`Told`), for
  titles unless updates have overlapped.  An insertion into the ordered history is its
  last entry, whatever clock reading it carries.
- `PagesMissNothing`, for a history: what a reader has read is what is newer than its
  cursor, but for what lies in the cursor's unit (`ReadSoFar`).
- `PagesMissNothing`, for a list: what lies behind an offset has at most offset jobs, and
  exactly so many when something lies ahead.  So a change of the list moves no more
  jobs from behind to ahead than have come, and no more from ahead to behind than have
  left (`JobsMove`, `ListChanges`).  The invariant `Going` adds this up over the pages: what
  was shown twice and what was shown and lies ahead are together no more than have
  come; what was not shown and does not lie ahead is no more than has left.  At
  the end nothing lies ahead, or no more than slipped between the count and the page
  (`PagesEnd`).
- `SnapshotIsItsVersion`: a blob holds the text its path is made of and is stored before
  a row names it (`CallOK`, `RowOK`); blobs are only added.
- `QuietCacheIsCurrent`: the bot asks only about a chat it knows nothing of, and what it is
  told stays true until the link is taken away, since no two accounts have one chat
  (`LinksOK`, `ToldIsCurrent`).  A page that shows a deleted job was read before the
  deletion, and dropping the user's pages takes away all of those that are kept
  (`DeletedStaysAway`, `DeletedIsGone`).

## 5. Not modelled in these parts

Validation of request bodies, logging, analytics events, the text of errors,
authentication, the health endpoints, the HTTP adapters of the Gateway, and the
statistics of the worker.  A message that cannot be parsed, or is for another
enricher, is dead-lettered or abandoned by the worker and never reaches the run
store; the Gateway sends none.  `mark_queued_by_gateway` has no caller and would do
what `MarkQueued` does.  A payload of the dispatcher has one item, so the
de-duplication inside one upsert request never acts.  Of Analytics the switches for
collection and export, the length of delays, and `AttemptCount` are left out:
nothing but the delay depends on it, and `MIXPANEL_MAX_ATTEMPTS` is read into the
configuration and used nowhere.

Of the Jobs domain: locations, an identity that a client names or changes itself, the
maintenance endpoints; of the proxy its keys, limits and retries; of the web core a
DELETE without a user, which drops no page.  Of the worker's client the text of the
prompt and the repair of an answer that is almost JSON.  Of the scheduler the
calendar, the configuration and the backups of the state file.

Seen on the way, and not a matter for a model: the payload of a projection carries
"summary" where the upsert reads "explanation", so an explanation is never stored; the
bot's search for /status sends the user where `GET /jobs` does not look for it;
`GET /jobs?category=all` without a user selects a column of a table it does not join;
applying by the URL of a board that names no company always fails.

## 6. Plan

1. Done: the run store and its promise, the pipeline, the projection dispatcher;
   the store's invariants and refinement proved.
2. Done: `AnalyticsDispatch` and its proofs.
3. Done: `AtsScheduler`, `WorkerInference` with `LeaseHolder` and its proofs, and the
   Jobs and Users domains with the bot, the proxy's creation and the web core's pages.
4. Done: every invariant and action property of a passing run is a theorem, but for the
   half of `OfferingsMatchPostings` that is about the table of URLs.
   Left to prove: what remains of `SettledWorkIsOver` when deadlines pass and locks lapse
   (a run whose message is settled is over, or waits Leased for the cleanup timer); that
   the contract of `LeaseHolder` is what `Infer`, `Outage` and `Reacquire` of the pipeline
   take the worker to do.
5. The scanner's tenant state and provider health, if a second process ever shares
   them.
