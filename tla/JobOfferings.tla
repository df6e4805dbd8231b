---------------------------- MODULE JobOfferings ----------------------------
(***************************************************************************)
(* Job offerings, application statuses and history of the Jobs domain.     *)
(*                                                                         *)
(* A request is a transaction of a few statements.  What it only reads it  *)
(* reads one statement at a time; from its first write on it holds the row *)
(* until it commits, so its writes are one step here.  A unique index over *)
(* the identity covers the offerings that are not deleted.  Of an offering *)
(* the model keeps its identity and its title, which stands for every field*)
(* that decides nothing.  An identity is deduced when the offering is made *)
(* and stays, as it does in the forms of the web core; a client of the API *)
(* that names or changes one itself is left out.  Ids of offerings count   *)
(* from 1; timestamps are ticks of the column, of which a history cursor   *)
(* keeps every Grain-th.                                                   *)
(***************************************************************************)
EXTENDS JobIdentity, Workload, FiniteSets

CONSTANTS Users, Statuses, Titles,
          Links, Url,        \* names of URLs, and the URLs
          Slots,             \* requests that are served at one time
          Grain, PageSize    \* ticks of a cursor's unit; entries on a page

ASSUME PageAssumption == Grain \in Nat \ {0} /\ PageSize \in Nat \ {0}

Unset == "Unset"     \* the status of a job the user has not touched
NoJob == 0

VARIABLES
    offers,      \* JobOfferings: identity, title, IsDeleted
    status,      \* UserJobStatus: job -> user -> status
    history,     \* JobOfferingHistory, in the order of insertion
    slot,        \* the requests being served
    reader       \* a client that pages through the history of a job

VARIABLES        \* history of the model
    answers,     \* <<job, link>>: this job was answered for this link
    torn         \* jobs two updates of which have overlapped

tables  == <<offers, status, history>>
jobVars == <<tables, slot, reader, answers, torn>>

-----------------------------------------------------------------------------
Identities == [l \in Links |-> DeduceFromUrl(Url[l])]

Key(l) == LET d == Identities[l] IN <<d.provider, d.tenant, d.id>>

\* The offerings that are there already satisfy the index.
ASSUME StockAssumption ==
    \A w \in Workloads :
        /\ w.links \subseteq Links /\ w.stock \in Seq(Links) /\ w.to \in Statuses
        /\ \A i, k \in DOMAIN w.stock : Key(w.stock[i]) = Key(w.stock[k]) => i = k

Jobs == DOMAIN offers

\* Mutant: the tenant is left out of the comparison.
FindJobIdOfAnyTenant(key) ==
    {j \in Jobs : ~offers[j].deleted /\ offers[j].key[1] = key[1] /\ offers[j].key[3] = key[3]}

\* The offering with an identity that is not deleted: the index allows one.
FindJobId(key) == {j \in Jobs : ~offers[j].deleted /\ offers[j].key = key}

Request(pc, kind, user, link, job, to) ==
    [pc |-> pc, kind |-> kind, user |-> user, link |-> link, job |-> job,
     to |-> to, seen |-> Unset]

IdleSlot == [pc |-> "idle"]

At(s, pc) == slot[s].pc = pc

End(s) == slot' = [slot EXCEPT ![s] = IdleSlot]

\* A bot's request carries no company: the URL has to name it.
HasCompany(r) == r.kind = "apply" => Identities[r.link].company # ""

Entry(ts, j, kind, u, to) == [ts |-> ts, job |-> j, kind |-> kind, user |-> u, to |-> to]

LastTick == IF history = <<>> THEN 0 ELSE Last(history).ts

\* insert_history, for each of these events in turn, in one tick or in the next.
InsertHistory(events) ==
    \E ts \in LastTick .. LastTick + 1 :
        history' = history \o [i \in DOMAIN events |->
                       Entry(ts, events[i][1], events[i][2], events[i][3], events[i][4])]

-----------------------------------------------------------------------------
Fresh(r) ==
    LET title == IF r.kind = "apply" THEN "" ELSE "given"
    IN  [key |-> Key(r.link), title |-> title, by |-> r.user, deleted |-> FALSE]

\* The workload's offerings are there already, made and applied to by one user.
JobsInit ==
    LET stock == workload.stock n == Len(stock)
    IN  \E u \in Users :
            /\ offers = [j \in 1 .. n |->
                   Fresh(Request("insert", "create", u, stock[j], NoJob, Unset))]
            /\ status = [j \in 1 .. n |-> [x \in Users |-> IF x = u THEN workload.to ELSE Unset]]
            /\ history = [i \in 1 .. 2 * n |-> LET j == (i + 1) \div 2 IN
                   IF i % 2 = 1 THEN Entry(j, j, "job_created", u, Unset)
                                ELSE Entry(j, j, "status_changed", u, workload.to)]
            /\ slot = [s \in Slots |-> IdleSlot]
            /\ reader = [job |-> NoJob]
            /\ answers = {<<j, stock[j]>> : j \in 1 .. n}
            /\ torn = {}

Begin(s, r) ==
    /\ At(s, "idle")
    /\ slot' = [slot EXCEPT ![s] = r]
    /\ UNCHANGED <<tables, reader, answers, torn>>

CreateJob(s) ==       \* POST /jobs
    \E u \in Users, l \in workload.links :
        Take("create") /\ Begin(s, Request("insert", "create", u, l, NoJob, Unset))

ProxyCreateJob(s) ==  \* POST /v1/jobs of the proxy, which asks GET /jobs/exists first
    \E u \in Users, l \in workload.links :
        Take("proxy") /\ Begin(s, Request("exists", "create", u, l, NoJob, Unset))

ApplyByUrl(s) ==      \* POST /jobs/apply-by-url
    \E u \in Users, l \in workload.links, to \in Statuses :
        Take("apply") /\ Begin(s, Request("insert", "apply", u, l, NoJob, to))

PutStatus(s) ==       \* PUT /jobs/{id}/status
    \E u \in Users, j \in Jobs, to \in Statuses :
        Take("status") /\ Begin(s, Request("check", "status", u, "", j, to))

\* PUT /jobs/{id} reads the fields before it changes them.
UpdateJob(s) ==
    \E u \in Users, j \in Jobs, to \in Titles :
        /\ Take("update")
        /\ Begin(s, [Request("write", "update", u, "", j, to) EXCEPT !.seen = offers[j].title])

\* What the proxy finds it answers itself.
Exists(s) ==
    LET r == slot[s] found == FindJobId(Key(r.link))
    IN  /\ At(s, "exists")
        /\ IF found = {} THEN /\ slot' = [slot EXCEPT ![s].pc = "insert"]
                              /\ UNCHANGED answers
                         ELSE /\ End(s)
                              /\ answers' = answers \cup {<<j, r.link>> : j \in found}
        /\ UNCHANGED <<tables, reader, torn, load>>

\* create_job_record: an identity that is free is inserted, and the rest of the
\* transaction sees a row nobody else does.
Insert(s) ==
    LET r == slot[s] j == Len(offers) + 1
        created == <<j, "job_created", r.user, Unset>>
        changed == <<j, "status_changed", r.user, r.to>>
    IN  /\ At(s, "insert")
        /\ HasCompany(r)
        /\ FindJobId(Key(r.link)) = {}
        /\ offers' = Append(offers, Fresh(r))
        /\ status' = Append(status, [u \in Users |->
                         IF r.kind = "apply" /\ u = r.user THEN r.to ELSE Unset])
        /\ InsertHistory(IF r.kind = "apply" THEN <<created, changed>> ELSE <<created>>)
        /\ answers' = answers \cup {<<j, r.link>>}
        /\ End(s)
        /\ UNCHANGED <<reader, torn, load>>

InsertRefused(s) ==
    LET r == slot[s]
    IN  /\ At(s, "insert")
        /\ IF HasCompany(r) THEN /\ FindJobId(Key(r.link)) # {}
                                 /\ slot' = [slot EXCEPT ![s].pc = "select"]
                            ELSE End(s)
        /\ UNCHANGED <<tables, reader, answers, torn, load>>

\* The index has refused the row; another statement looks for the one it met,
\* which may have been deleted since.
SelectExisting(s) ==
    LET r == slot[s]
    IN  /\ At(s, "select")
        /\ \E j \in FindJobId(Key(r.link)) :
               IF r.kind = "apply"
               THEN /\ slot' = [slot EXCEPT ![s].pc = "check", ![s].job = j]
                    /\ UNCHANGED <<history, answers>>
               ELSE /\ End(s)
                    /\ InsertHistory(<<<<j, "job_created", r.user, Unset>>>>)
                    /\ answers' = answers \cup {<<j, r.link>>}
        /\ UNCHANGED <<offers, status, reader, torn, load>>

NothingToSelect(s) ==
    /\ At(s, "select")
    /\ FindJobId(Key(slot[s].link)) = {}
    /\ End(s)
    /\ UNCHANGED <<tables, reader, answers, torn, load>>

\* upsert_user_status: the job must be there, and the history tells what was before.
CheckJob(s) ==
    LET r == slot[s]
    IN  /\ At(s, "check")
        /\ IF offers[r.job].deleted
           THEN End(s)
           ELSE slot' = [slot EXCEPT ![s].pc = "merge", ![s].seen = status[r.job][r.user]]
        /\ UNCHANGED <<tables, reader, answers, torn, load>>

\* Mutant: a status that was read to be the new one already leaves no history.
MutantChanged(r) == IF r.seen = r.to THEN <<>> ELSE <<<<r.job, "status_changed", r.user, r.to>>>>

Changed(r) == <<<<r.job, "status_changed", r.user, r.to>>>>

Merge(s) ==
    LET r == slot[s]
        created == IF r.kind = "apply" THEN <<<<r.job, "job_created", r.user, Unset>>>> ELSE <<>>
    IN  /\ At(s, "merge")
        /\ status' = [status EXCEPT ![r.job][r.user] = r.to]
        /\ InsertHistory(created \o Changed(r))
        /\ answers' = IF r.kind = "apply" THEN answers \cup {<<r.job, r.link>>} ELSE answers
        /\ End(s)
        /\ UNCHANGED <<offers, reader, torn, load>>

\* Deleted or not, the offering takes the new title; what is the same as the
\* title read before is not told.
WriteUpdate(s) ==
    LET r == slot[s]
        others == {t \in Slots \ {s} : At(t, "write") /\ slot[t].job = r.job}
    IN  /\ At(s, "write")
        /\ offers' = [offers EXCEPT ![r.job].title = r.to]
        /\ IF r.seen = r.to THEN UNCHANGED history
                            ELSE InsertHistory(<<<<r.job, "job_updated", r.user, r.to>>>>)
        /\ torn' = IF others = {} THEN torn ELSE torn \cup {r.job}
        /\ End(s)
        /\ UNCHANGED <<status, reader, answers, load>>

\* DELETE /jobs/{id} asks for no offering that is still there.
Delete(u, j) ==
    /\ offers' = [offers EXCEPT ![j].deleted = TRUE]
    /\ InsertHistory(<<<<j, "job_deleted", u, Unset>>>>)
    /\ UNCHANGED <<status, slot, reader, answers, torn>>

DeleteJob == \E u \in Users, j \in Jobs : Take("delete") /\ Delete(u, j)

\* POST /jobs/{id}/history, on deleted offerings too.  A "note" is any action but
\* those the routes record themselves.
PostHistory ==
    \E u \in Users, j \in Jobs :
        /\ Take("note")
        /\ InsertHistory(<<<<j, "note", u, Unset>>>>)
        /\ UNCHANGED <<offers, status, slot, reader, answers, torn>>

\* Any statement may fail: what the transaction has done is rolled back.
RollBack(s) ==
    /\ ~At(s, "idle")
    /\ End(s)
    /\ UNCHANGED <<tables, reader, answers, torn, load>>

-----------------------------------------------------------------------------
EntriesOf(j) == {i \in DOMAIN history : history[i].job = j}

Truncated(ts) == ts - (ts % Grain)

MakeCursor(i) == [ts |-> Truncated(history[i].ts), id |-> i]

\* Mutant: the entry the cursor names is on the next page again.
MutantAfter(cursor, i) ==
    \/ history[i].ts < cursor.ts
    \/ history[i].ts = cursor.ts /\ i <= cursor.id

\* Ids are random in the code; here they grow, one of the orders ties may have.
After(cursor, i) ==
    \/ history[i].ts < cursor.ts
    \/ history[i].ts = cursor.ts /\ i < cursor.id

OpenHistory ==
    \E j \in Jobs :
        /\ reader.job = NoJob
        /\ Take("read")
        /\ reader' = [job |-> j, cursor |-> [ts |-> LastTick + 2, id |-> 0], start |-> EntriesOf(j),
                      seen |-> {}, ends |-> {}, twice |-> FALSE, over |-> FALSE]
        /\ UNCHANGED <<tables, slot, answers, torn>>

\* GET /jobs/{id}/history: the next page, latest entries first.
ReadPage ==
    LET left == {i \in EntriesOf(reader.job) : After(reader.cursor, i)}
        page == {i \in left : Cardinality({k \in left : k > i}) < PageSize}
        end  == CHOOSE i \in page : \A k \in page : i <= k
    IN  /\ reader.job # NoJob
        /\ ~reader.over
        /\ reader' = IF page = {} THEN [reader EXCEPT !.over = TRUE]
                     ELSE [reader EXCEPT !.cursor = MakeCursor(end),
                                         !.seen = @ \cup page,
                                         !.ends = @ \cup {end},
                                         !.twice = @ \/ page \cap reader.seen # {}]
        /\ UNCHANGED <<tables, slot, answers, torn, load>>

-----------------------------------------------------------------------------
JobsNext ==
    \/ \E s \in Slots :
           \/ CreateJob(s) \/ ProxyCreateJob(s) \/ ApplyByUrl(s) \/ PutStatus(s) \/ UpdateJob(s)
           \/ Exists(s) \/ Insert(s) \/ InsertRefused(s) \/ SelectExisting(s) \/ NothingToSelect(s)
           \/ CheckJob(s) \/ Merge(s) \/ WriteUpdate(s) \/ RollBack(s)
    \/ DeleteJob \/ PostHistory \/ OpenHistory \/ ReadPage

-----------------------------------------------------------------------------
Served == {"exists", "insert", "select", "check", "merge", "write"}

JobsTypeOK ==
    /\ offers \in Seq([key : {Key(l) : l \in Links}, title : Titles \cup {"", "given"},
                       by : Users, deleted : BOOLEAN])
    /\ status \in [Jobs -> [Users -> Statuses \cup {Unset}]]
    /\ \A i \in DOMAIN history : history[i].job \in Jobs /\ history[i].user \in Users
    /\ \A s \in Slots : At(s, "idle") \/ slot[s].pc \in Served
    /\ reader.job \in Jobs \cup {NoJob}
    /\ answers \subseteq Jobs \X Links
    /\ torn \subseteq Jobs

CONSTANTS Posting,       \* link -> the posting its URL shows
          Identified     \* the links whose identity says whose posting it is

\* The links for which a job was answered have one identity, and the links of one
\* identity lead to one offering that is not deleted: whoever creates it at the same
\* time, and whatever is deleted and created again while a request holds on to it.
OfferingsMatchIdentities ==
    \A a, b \in answers :
        /\ a[1] = b[1] => Key(a[2]) = Key(b[2])
        /\ (Key(a[2]) = Key(b[2]) /\ ~offers[a[1]].deleted /\ ~offers[b[1]].deleted)
               => a[1] = b[1]

\* The same of the postings themselves, however the URL of a posting is written:
\* the rules for URLs tell them apart, where the identity says whose they are.
OfferingsMatchPostings ==
    /\ OfferingsMatchIdentities
    /\ \A a, b \in {p \in answers : p[2] \in Identified} :
          /\ a[1] = b[1] => Posting[a[2]] = Posting[b[2]]
          /\ (Posting[a[2]] = Posting[b[2]] /\ ~offers[a[1]].deleted /\ ~offers[b[1]].deleted)
                 => a[1] = b[1]

LastOf(j, kind, U, otherwise) ==
    LET at == {i \in EntriesOf(j) : history[i].kind = kind /\ history[i].user \in U}
    IN  IF at = {} THEN otherwise ELSE history[CHOOSE i \in at : \A k \in at : k <= i].to

\* The last job_updated tells the title of a job no two updates of which have
\* overlapped.
TitlesAreTold ==
    \A j \in Jobs \ torn :
        offers[j].title \in {LastOf(j, "job_updated", Users, t) : t \in {"", "given"}}

\* A client that follows the cursors to the end meets no entry twice, and misses
\* of the entries that were there only those within one unit of a page's end.
HistoryIsRead ==
    reader.job # NoJob =>
        /\ ~reader.twice
        /\ reader.over => \A i \in reader.start \ reader.seen :
               \E e \in reader.ends : Truncated(history[i].ts) = Truncated(history[e].ts)
=============================================================================
