------------------------------ MODULE JobLists ------------------------------
(***************************************************************************)
(* The lists of the Jobs domain, and its reports of statuses.  A client    *)
(* turns the pages of a list by offset: the web core asks GET /jobs, which *)
(* counts the list in one statement and reads a page in the next, and keeps*)
(* the page in the memory of its process for a while; the bot asks         *)
(* GET /jobs/with-statuses until a page is not full.  Lists are ordered by *)
(* the time of creation, without ties here; the other orders, and filters  *)
(* by mode, place and date, are left out.  The model follows one client.   *)
(***************************************************************************)
EXTENDS JobOfferings

CONSTANTS Final,    \* FINAL_STATUSES
          Views     \* [category, q, ignored, sort]: what is asked for

VARIABLES
    fits,       \* <<job, user>>: the score is above OPEN_MIN_COMPATIBILITY_SCORE
    memo,       \* _MEMO of the web core: <<user, view, offset>> -> answer
    pager,      \* the client that turns the pages of a list
    removing,   \* <<user, job>>: a DELETE of the web core that has not ended
    hidden      \* history: <<user, job>>: deleted, with no page of it on its way

listVars == <<fits, memo, pager, removing, hidden>>

Web == "web"
NoPager == [pc |-> "none"]

-----------------------------------------------------------------------------
HasStatus(j, u) == status[j][u] # Unset

\* GET /jobs/with-statuses
IsActive(j, u) == HasStatus(j, u) /\ status[j][u] \notin Final

\* GET /jobs
InCategory(category, j, u) ==
    \/ category = "with-statuses" /\ IsActive(j, u)
    \/ category = "my" /\ (offers[j].by = u \/ HasStatus(j, u)) /\ status[j][u] \notin Final
    \/ category = "open" /\ ~HasStatus(j, u) /\ offers[j].by # u /\ <<j, u>> \in fits
    \/ category = "all"

Found(q, j) == q \in {"", offers[j].title}

Listed(view, u) ==
    {j \in Jobs : /\ ~offers[j].deleted
                  /\ InCategory(view.category, j, u)
                  /\ Found(view.q, j)
                  /\ status[j][u] \notin view.ignored}

Precedes(view, j, k) == IF view.sort = "created_asc" THEN j < k ELSE j > k

Page(view, list, offset) ==
    {j \in list : Cardinality({k \in list : Precedes(view, k, j)}) \in offset .. offset + PageSize - 1}

\* What is read at one time: the page, and the list it is cut from.
Answer(p, counted) ==
    LET list == Listed(p.view, p.user)
    IN  [counted |-> counted, listed |-> list, page |-> Page(p.view, list, p.offset)]

IsLast(p, a) == IF p.client = Web THEN p.offset + PageSize >= Cardinality(a.counted)
                ELSE Cardinality(a.page) < PageSize

\* A page is shown, and the changes of the list since the last one are counted.
Shown(p, a) ==
    LET last == IF p.offset = 0 THEN a.listed ELSE p.last
        over == IsLast(p, a)
    IN  [p EXCEPT !.pc = IF over THEN "over" ELSE "turn",
                  !.offset = @ + PageSize,
                  !.start = IF p.offset = 0 THEN a.listed ELSE @,
                  !.last = a.listed,
                  !.shown = @ \cup a.page,
                  !.twice = @ + Cardinality(p.shown \cap a.page),
                  !.gone = @ + Cardinality(last \ a.listed),
                  !.came = @ + Cardinality(a.listed \ last),
                  !.slipped = IF over /\ p.client = Web THEN Cardinality(a.listed \ a.counted) ELSE 0]

-----------------------------------------------------------------------------
ListsInit ==
    /\ fits = Jobs \X Users
    /\ memo = <<>>
    /\ pager = NoPager
    /\ removing = {}
    /\ hidden = {}

FirstOf(client, u, v) ==
    [pc |-> "turn", client |-> client, user |-> u, view |-> v, offset |-> 0, got |-> {},
     start |-> {}, last |-> {}, shown |-> {}, twice |-> 0, gone |-> 0, came |-> 0, slipped |-> 0]

Turning(client) == pager.pc = "turn" /\ pager.client = client

KeyOf(p) == <<p.user, p.view, p.offset>>

OpenList ==
    \E u \in Users, v \in {v \in Views : v.category # "with-statuses"} :
        /\ Take("list")
        /\ pager.pc \in {"none", "over"}
        /\ pager' = FirstOf(Web, u, v)
        /\ UNCHANGED <<jobVars, fits, memo, removing, hidden>>

\* GET /ui/jobs: a page the web core still has is not asked for.
Cached ==
    /\ Turning(Web)
    /\ KeyOf(pager) \in DOMAIN memo
    /\ pager' = Shown(pager, memo[KeyOf(pager)])
    /\ UNCHANGED <<jobVars, fits, memo, removing, hidden, load>>

\* It has none, or one that is too old.
CountList ==
    /\ Turning(Web)
    /\ pager' = [pager EXCEPT !.pc = "select", !.got = Listed(pager.view, pager.user)]
    /\ UNCHANGED <<jobVars, fits, memo, removing, hidden, load>>

SelectPage ==
    /\ pager.pc = "select"
    /\ pager' = [pager EXCEPT !.pc = "put", !.got = Answer(pager, pager.got)]
    /\ UNCHANGED <<jobVars, fits, memo, removing, hidden, load>>

PutPage ==
    /\ pager.pc = "put"
    /\ memo' = [k \in DOMAIN memo \cup {KeyOf(pager)} |->
                   IF k = KeyOf(pager) THEN pager.got ELSE memo[k]]
    /\ pager' = Shown(pager, pager.got)
    /\ UNCHANGED <<jobVars, fits, removing, hidden, load>>

\* GET /jobs/with-statuses for the first page of a chat, and for the next one.
AskActive(p) == pager' = Shown(p, Answer(p, {}))

OpenActive(c, u) ==
    \E v \in {v \in Views : v.category = "with-statuses"} :
        /\ IF pager.pc \in {"none", "over"} THEN AskActive(FirstOf(c, u, v)) ELSE UNCHANGED pager
        /\ UNCHANGED <<jobVars, fits, memo, removing, hidden>>

\* The button holds the offset and not the user: after another /link the page is
\* one of another list.
MoreActive(c, u) ==
    /\ IF Turning(c) /\ pager.user = u THEN AskActive(pager) ELSE UNCHANGED pager
    /\ UNCHANGED <<jobVars, fits, memo, removing, hidden>>

-----------------------------------------------------------------------------
\* DELETE /ui/jobs/{id}, one at a time: the Jobs domain first.
DeleteOnWeb ==
    \E u \in Users, j \in Jobs :
        /\ Take("web delete")
        /\ removing = {}
        /\ Delete(u, j)
        /\ removing' = {<<u, j>>}
        /\ UNCHANGED <<fits, memo, pager, hidden>>

\* Mutant: the pages of the user stay.
MutantForget(u) == memo

Forget(u) == [k \in {k \in DOMAIN memo : k[1] # u} |-> memo[k]]

\* Then the pages of the user are dropped; one that has been read and is not kept
\* yet will be kept.
InvalidatePages ==
    \E d \in removing :
        /\ memo' = Forget(d[1])
        /\ removing' = {}
        /\ hidden' = IF pager.pc = "put" /\ pager.user = d[1] /\ d[2] \in pager.got.page
                     THEN hidden ELSE hidden \cup {d}
        /\ UNCHANGED <<jobVars, fits, pager, load>>

\* A projection brings another score.
Score ==
    \E j \in Jobs, u \in Users :
        /\ Take("score")
        /\ fits' = IF <<j, u>> \in fits THEN fits \ {<<j, u>>} ELSE fits \cup {<<j, u>>}
        /\ UNCHANGED <<jobVars, memo, pager, removing, hidden>>

ListsNext ==
    \/ OpenList \/ Cached \/ CountList \/ SelectPage \/ PutPage
    \/ DeleteOnWeb \/ InvalidatePages \/ Score

-----------------------------------------------------------------------------
\* GET /jobs/reports/status: the changes a user has made in a time, the first first.
Report(u, from, to) ==
    {i \in DOMAIN history : /\ history[i].kind = "status_changed"
                            /\ history[i].user = u
                            /\ history[i].ts \in from .. to}

\* With aggregate: job by job.
Aggregated(u, from, to) ==
    LET report == Report(u, from, to)
    IN  [j \in {history[i].job : i \in report} |->
            LET of == {i \in report : history[i].job = j}
            IN  [n \in 1 .. Cardinality(of) |->
                    history[CHOOSE i \in of : Cardinality({k \in of : k <= i}) = n].to]]

\* POST /jobs/status
StatusesOf(u, ids) == [j \in ids |-> IF j \in Jobs THEN status[j][u] ELSE Unset]

-----------------------------------------------------------------------------
ListsTypeOK ==
    /\ fits \subseteq Jobs \X Users
    /\ \A k \in DOMAIN memo : k[1] \in Users /\ memo[k].page \subseteq Jobs
    /\ pager.pc \in {"none", "turn", "select", "put", "over"}
    /\ removing \cup hidden \subseteq Users \X Jobs

\* The report tells how the user has come to every status that is there now: its
\* last entry of a job, from any day on, is the status of the job, and a job it
\* never names has none.  And the last job_updated tells the title of a job no two
\* updates of which have overlapped.
HistoryTellsState ==
    /\ \A u \in Users :
           LET now == StatusesOf(u, Jobs)
           IN  /\ \A from \in 0 .. LastTick :
                      LET told == Aggregated(u, from, LastTick)
                      IN  \A j \in DOMAIN told : Last(told[j]) = now[j]
               /\ \A j \in Jobs \ DOMAIN Aggregated(u, 0, LastTick) : now[j] = Unset
    /\ TitlesAreTold

\* A client that turns the pages to the end meets of a history what was there, and
\* nothing twice (HistoryIsRead).  Of a list it misses no more jobs than have left
\* the list meanwhile, or came between the count and the page the client ended
\* with; and it is shown no more jobs twice than have come.
PagesMissNothing ==
    /\ HistoryIsRead
    /\ pager.pc # "none" => pager.twice <= pager.came
    /\ pager.pc = "over" =>
           Cardinality(pager.start \ pager.shown) <= pager.gone + pager.slipped

\* A job that its user has deleted on the web does not come back to this user's
\* lists, unless a page was on its way when the others were dropped.
DeletedIsGone ==
    \A d \in hidden : \A k \in DOMAIN memo : k[1] = d[1] => d[2] \notin memo[k].page
=============================================================================
