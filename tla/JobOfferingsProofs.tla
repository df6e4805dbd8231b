---------------------------- MODULE JobOfferingsProofs ----------------------------
(***************************************************************************)
(* Proofs about the tables of JobOfferings, for any links, users, statuses *)
(* and titles, any number of requests at one time, any grain of a cursor   *)
(* and any size of a page.  They are about the steps of the Jobs domain,   *)
(* whoever asks for them: TelegramBotProofs has the theorems.              *)
(***************************************************************************)
EXTENDS JobLists, FiniteSetTheorems, SequenceTheorems, WellFoundedInduction, TLAPS

-----------------------------------------------------------------------------
(* The inductive invariant of the tables and of the requests served.       *)

Names == Titles \cup {"", "given"}
Events == {"job_created", "status_changed", "job_updated", "job_deleted", "note"}
Values == Statuses \cup Titles \cup {Unset}

Offering == [key : {Key(l) : l \in Links}, title : Names, by : Users, deleted : BOOLEAN]
HistoryEntry == [ts : Nat, job : Nat, kind : Events, user : Users, to : Values]
RequestSet == [pc : Served, kind : {"create", "apply", "status", "update"}, user : Users,
               link : Links \cup {""}, job : Nat, to : Values, seen : Values \cup Names]

\* The tables.  Every offering has its row of statuses, every entry its offering.
TablesOK ==
    /\ offers \in Seq(Offering)
    /\ status \in Seq([Users -> Statuses \cup {Unset}])
    /\ Len(status) = Len(offers)
    /\ history \in Seq(HistoryEntry)
    /\ \A i \in DOMAIN history : history[i].job \in Jobs
    /\ torn \subseteq Jobs

\* The history is in the order of its timestamps.
HistoryOrdered ==
    \A i, k \in DOMAIN history : i <= k => history[i].ts <= history[k].ts

\* What a request holds on to at each stage, however old it is: the offering it has
\* found has the identity of its link, and the title it has read is the title,
\* unless updates have overlapped.  O is the offerings and T the torn ones.
RequestOK(O, T, r) ==
    /\ r.pc \in {"exists", "insert", "select"} =>
          r.link \in Links /\ r.kind \in {"create", "apply"}
    /\ r.kind \in {"apply", "status"} => r.to \in Statuses
    /\ r.pc \in {"check", "merge"} =>
          /\ r.job \in DOMAIN O
          /\ r.kind \in {"apply", "status"}
          /\ r.kind = "apply" => r.link \in Links /\ O[r.job].key = Key(r.link)
    /\ r.pc = "write" =>
          /\ r.job \in DOMAIN O
          /\ r.to \in Titles
          /\ r.job \notin T => r.seen = O[r.job].title
SlotsOK ==
    /\ slot \in [Slots -> {IdleSlot} \cup RequestSet]
    /\ \A s \in Slots : ~At(s, "idle") => RequestOK(offers, torn, slot[s])

\* The unique index: two offerings with one identity are not both there.
KeysUnique ==
    \A j, k \in Jobs :
        ~offers[j].deleted /\ ~offers[k].deleted /\ offers[j].key = offers[k].key => j = k

\* A job is answered for a link whose identity it has, and identities stay.
AnswersNameKey ==
    \A p \in answers : p \in Jobs \X Links /\ offers[p[1]].key = Key(p[2])

\* v is what the last entry of this kind in the history h says, one of W if there
\* is none.
Matching(h, j, kind, U) ==
    {i \in DOMAIN h : h[i].job = j /\ h[i].kind = kind /\ h[i].user \in U}
Told(h, j, kind, U, v, W) ==
    /\ Matching(h, j, kind, U) = {} => v \in W
    /\ \A i \in Matching(h, j, kind, U) :
          (\A k \in Matching(h, j, kind, U) : k <= i) => v = h[i].to

StatusTold ==
    \A j \in Jobs, u \in Users : Told(history, j, "status_changed", {u}, status[j][u], {Unset})
TitleTold ==
    \A j \in Jobs \ torn : Told(history, j, "job_updated", Users, offers[j].title, {"", "given"})

\* What a client that follows the cursors has been shown lies on one side of the
\* cursor; what it has still to be shown is on the other side, or in one unit of
\* time with the end of a page.  h is the history, J the jobs, r the client.
Before(h, cursor, i) ==
    \/ h[i].ts < cursor.ts
    \/ h[i].ts = cursor.ts /\ i < cursor.id
AtEnd(h, r, i) == \E e \in r.ends : Truncated(h[i].ts) = Truncated(h[e].ts)
ReadSoFar(h, J, r) ==
    /\ r \in [job : J, cursor : [ts : Nat, id : Nat], start : SUBSET DOMAIN h,
              seen : SUBSET DOMAIN h, ends : SUBSET DOMAIN h, twice : {FALSE}, over : BOOLEAN]
    /\ \A i \in r.start : h[i].job = r.job
    /\ \A i \in r.seen : ~Before(h, r.cursor, i)
    /\ \A i \in r.start :
          i \in r.seen \/ AtEnd(h, r, i) \/ (~r.over /\ Before(h, r.cursor, i))
ReaderOK == reader.job # NoJob => ReadSoFar(history, Jobs, reader)

JobsInv == TablesOK /\ HistoryOrdered /\ SlotsOK /\ KeysUnique /\ AnswersNameKey
            /\ StatusTold /\ TitleTold /\ ReaderOK

-----------------------------------------------------------------------------
(* The history grows at its end.                                           *)

EventSet == Nat \X Events \X Users \X Values

\* g is the history h with more entries.
Extends(h, g) ==
    /\ DOMAIN h \subseteq DOMAIN g
    /\ \A i \in DOMAIN h : g[i] = h[i]
    /\ \A i \in DOMAIN h, k \in DOMAIN g \ DOMAIN h : i < k

\* The last tick is the latest.
LEMMA LastTickIsLatest ==
  ASSUME history \in Seq(HistoryEntry), HistoryOrdered
  PROVE  LastTick \in Nat /\ \A i \in DOMAIN history : history[i].ts <= LastTick
<1>1. CASE history = <<>>
  BY <1>1 DEF LastTick
<1>2. CASE history # <<>>
  <2>1. Len(history) \in DOMAIN history /\ LastTick = history[Len(history)].ts
    BY <1>2 DEF LastTick, Last
  <2>2. \A i \in DOMAIN history : i <= Len(history)
    OBVIOUS
  <2>3. history[Len(history)] \in HistoryEntry
    BY <2>1
  <2>. QED BY <2>1, <2>2, <2>3 DEF HistoryOrdered, HistoryEntry
<1>. QED BY <1>1, <1>2

\* What insert_history has added.
LEMMA InsertHistoryEffect ==
  ASSUME history \in Seq(HistoryEntry), HistoryOrdered, NEW events \in Seq(EventSet),
         InsertHistory(events)
  PROVE  /\ history' \in Seq(HistoryEntry)
         /\ Len(history') = Len(history) + Len(events)
         /\ Extends(history, history')
         /\ \A i \in 1 .. Len(events) :
               /\ history'[Len(history) + i].job = events[i][1]
               /\ history'[Len(history) + i].kind = events[i][2]
               /\ history'[Len(history) + i].user = events[i][3]
               /\ history'[Len(history) + i].to = events[i][4]
         /\ HistoryOrdered'
<1>1. LastTick \in Nat /\ \A i \in DOMAIN history : history[i].ts <= LastTick
  BY LastTickIsLatest
<1>. DEFINE N(ts) == [i \in DOMAIN events |->
                        Entry(ts, events[i][1], events[i][2], events[i][3], events[i][4])]
<1>2. PICK ts \in LastTick .. LastTick + 1 : history' = history \o N(ts)
  BY DEF InsertHistory
<1>3. ts \in Nat /\ LastTick <= ts
  BY <1>1
<1>4. N(ts) \in Seq(HistoryEntry) /\ Len(N(ts)) = Len(events)
  <2>1. \A i \in 1 .. Len(events) : N(ts)[i] \in HistoryEntry
    <3>1. \A i \in 1 .. Len(events) : events[i] \in EventSet
      OBVIOUS
    <3>. QED BY <1>3, <3>1 DEF HistoryEntry, EventSet, Entry
  <2>2. N(ts) = [i \in 1 .. Len(events) |-> N(ts)[i]]
    OBVIOUS
  <2>. HIDE DEF N
  <2>3. Len(events) \in Nat
    OBVIOUS
  <2>. QED BY <2>1, <2>2, <2>3
<1>5. \A i \in 1 .. Len(events) :
         /\ N(ts)[i].ts = ts /\ N(ts)[i].job = events[i][1] /\ N(ts)[i].kind = events[i][2]
         /\ N(ts)[i].user = events[i][3] /\ N(ts)[i].to = events[i][4]
  BY DEF Entry
<1>. HIDE DEF N
<1>6. /\ history' \in Seq(HistoryEntry)
      /\ Len(history') = Len(history) + Len(events)
      /\ \A i \in 1 .. Len(history) : history'[i] = history[i]
      /\ \A i \in 1 .. Len(events) : history'[Len(history) + i] = N(ts)[i]
  <2>. DEFINE M == N(ts)
  <2>1. M \in Seq(HistoryEntry) /\ Len(M) = Len(events) /\ history' = history \o M
    BY <1>2, <1>4
  <2>. HIDE DEF M
  <2>2. Len(M) \in Nat /\ Len(history) \in Nat
    BY <2>1
  <2>3. /\ history \o M \in Seq(HistoryEntry)
        /\ Len(history \o M) = Len(history) + Len(M)
        /\ \A i \in 1 .. Len(history) + Len(M) :
              (history \o M)[i] = IF i <= Len(history) THEN history[i] ELSE M[i - Len(history)]
    BY <2>1, ConcatProperties
  <2>4. \A i \in 1 .. Len(history) : i \in 1 .. Len(history) + Len(M) /\ i <= Len(history)
    BY <2>2
  <2>5. \A i \in 1 .. Len(M) : /\ Len(history) + i \in 1 .. Len(history) + Len(M)
                                /\ ~(Len(history) + i <= Len(history))
                                /\ (Len(history) + i) - Len(history) = i
    BY <2>2
  <2>6. \A i \in 1 .. Len(M) : history'[Len(history) + i] = M[i]
    BY <2>1, <2>3, <2>5
  <2>. QED BY <2>1, <2>3, <2>4, <2>6 DEF M
<1>7. /\ Len(history) \in Nat /\ Len(events) \in Nat
      /\ DOMAIN history = 1 .. Len(history)
      /\ DOMAIN history' = 1 .. Len(history) + Len(events)
  BY <1>6
<1>8. Extends(history, history')
  BY <1>6, <1>7 DEF Extends
<1>9. ASSUME NEW i \in DOMAIN history', NEW k \in DOMAIN history', i <= k
      PROVE  history'[i].ts <= history'[k].ts
  <2>1. \A n \in DOMAIN history' : n \notin DOMAIN history => history'[n].ts = ts
    <3>1. ASSUME NEW n \in DOMAIN history', n \notin DOMAIN history
          PROVE  history'[n].ts = ts
      <4>1. n - Len(history) \in 1 .. Len(events) /\ Len(history) + (n - Len(history)) = n
        BY <1>7, <3>1
      <4>2. PICK m \in 1 .. Len(events) : n = Len(history) + m
        BY <4>1
      <4>3. history'[n] = N(ts)[m]
        BY <1>6, <4>2
      <4>. QED BY <1>5, <4>3
    <3>. QED BY <3>1
  <2>2. CASE k \in DOMAIN history
    <3>1. i \in DOMAIN history
      BY <1>7, <1>9, <2>2
    <3>. QED BY <1>6, <1>7, <1>9, <2>2, <3>1 DEF HistoryOrdered
  <2>3. CASE k \notin DOMAIN history /\ i \in DOMAIN history
    <3>0. history[i] \in HistoryEntry
      BY <2>3
    <3>1. history[i].ts \in Nat /\ history[i].ts <= LastTick
      BY <1>1, <2>3, <3>0 DEF HistoryEntry
    <3>2. history'[k].ts = ts /\ history'[i].ts = history[i].ts
      BY <1>6, <1>7, <2>1, <2>3
    <3>. QED BY <1>1, <1>3, <3>1, <3>2
  <2>4. CASE k \notin DOMAIN history /\ i \notin DOMAIN history
    BY <1>3, <2>1, <2>4
  <2>. QED BY <2>2, <2>3, <2>4
<1>10. HistoryOrdered'
  BY <1>9 DEF HistoryOrdered
<1>. QED BY <1>5, <1>6, <1>8, <1>10

\* One event, and two.
OneOf(events, j, kind, u, to) ==
    /\ events \in Seq(EventSet) /\ Len(events) = 1
    /\ events[1] = <<j, kind, u, to>>
TwoOf(events, j, kind, kind2, u, to, to2) ==
    /\ events \in Seq(EventSet) /\ Len(events) = 2
    /\ events[1] = <<j, kind, u, to>> /\ events[2] = <<j, kind2, u, to2>>

LEMMA EventLists ==
  ASSUME NEW j \in Nat, NEW u \in Users, NEW kind \in Events, NEW kind2 \in Events,
         NEW to \in Values, NEW to2 \in Values
  PROVE  /\ OneOf(<<<<j, kind, u, to>>>>, j, kind, u, to)
         /\ TwoOf(<<<<j, kind, u, to>>, <<j, kind2, u, to2>>>>, j, kind, kind2, u, to, to2)
<1>1. <<j, kind, u, to>> \in EventSet /\ <<j, kind2, u, to2>> \in EventSet
  BY DEF EventSet
<1>. QED BY <1>1 DEF OneOf, TwoOf

\* g is h with one entry, or two, that tell these events.
OneMore(h, g, j, kind, u, to) ==
    \E m : /\ DOMAIN g = DOMAIN h \cup {m} /\ m \notin DOMAIN h
           /\ g[m].job = j /\ g[m].kind = kind /\ g[m].user = u /\ g[m].to = to
TwoMore(h, g, j, kind, kind2, u, to) ==
    \E m, n : /\ DOMAIN g = DOMAIN h \cup {m, n} /\ m \notin DOMAIN h /\ n \notin DOMAIN h
              /\ g[m].job = j /\ g[m].kind = kind
              /\ g[n].job = j /\ g[n].kind = kind2 /\ g[n].user = u /\ g[n].to = to

LEMMA OneEvent ==
  ASSUME history \in Seq(HistoryEntry), HistoryOrdered, NEW events, InsertHistory(events),
         NEW j, NEW kind, NEW u, NEW to, OneOf(events, j, kind, u, to)
  PROVE  /\ history' \in Seq(HistoryEntry) /\ HistoryOrdered' /\ Extends(history, history')
         /\ OneMore(history, history', j, kind, u, to)
<1>. DEFINE m == Len(history) + 1
<1>1. /\ history' \in Seq(HistoryEntry) /\ HistoryOrdered' /\ Extends(history, history')
      /\ Len(history') = Len(history) + Len(events)
      /\ \A i \in 1 .. Len(events) :
            /\ history'[Len(history) + i].job = events[i][1]
            /\ history'[Len(history) + i].kind = events[i][2]
            /\ history'[Len(history) + i].user = events[i][3]
            /\ history'[Len(history) + i].to = events[i][4]
  BY InsertHistoryEffect DEF OneOf
<1>2. Len(events) = 1 /\ 1 \in 1 .. Len(events) /\ events[1] = <<j, kind, u, to>>
  BY DEF OneOf
<1>3. /\ history'[m].job = j /\ history'[m].kind = kind
      /\ history'[m].user = u /\ history'[m].to = to
  BY <1>1, <1>2
<1>4. DOMAIN history = 1 .. Len(history) /\ DOMAIN history' = 1 .. Len(history') /\ Len(history) \in Nat
  BY <1>1
<1>5. DOMAIN history' = DOMAIN history \cup {m} /\ m \notin DOMAIN history
  <2>1. Len(history') = Len(history) + 1
    BY <1>1, <1>2
  <2>. PICK L : L = Len(history)
    OBVIOUS
  <2>2. L \in Nat /\ DOMAIN history = 1 .. L /\ DOMAIN history' = 1 .. L + 1 /\ m = L + 1
    BY <1>4, <2>1
  <2>3. 1 .. L + 1 = (1 .. L) \cup {L + 1} /\ L + 1 \notin 1 .. L
    BY <2>2
  <2>. QED BY <2>2, <2>3
<1>. HIDE DEF m
<1>. QED BY <1>1, <1>3, <1>5 DEF OneMore

LEMMA TwoEvents ==
  ASSUME history \in Seq(HistoryEntry), HistoryOrdered, NEW events, InsertHistory(events),
         NEW j, NEW kind, NEW kind2, NEW u, NEW to, NEW to2,
         TwoOf(events, j, kind, kind2, u, to, to2)
  PROVE  /\ history' \in Seq(HistoryEntry) /\ HistoryOrdered' /\ Extends(history, history')
         /\ TwoMore(history, history', j, kind, kind2, u, to2)
<1>. DEFINE m == Len(history) + 1
            n == Len(history) + 2
<1>1. /\ history' \in Seq(HistoryEntry) /\ HistoryOrdered' /\ Extends(history, history')
      /\ Len(history') = Len(history) + Len(events)
      /\ \A i \in 1 .. Len(events) :
            /\ history'[Len(history) + i].job = events[i][1]
            /\ history'[Len(history) + i].kind = events[i][2]
            /\ history'[Len(history) + i].user = events[i][3]
            /\ history'[Len(history) + i].to = events[i][4]
  BY InsertHistoryEffect DEF TwoOf
<1>2. /\ Len(events) = 2 /\ 1 \in 1 .. Len(events) /\ 2 \in 1 .. Len(events)
      /\ events[1] = <<j, kind, u, to>> /\ events[2] = <<j, kind2, u, to2>>
  BY DEF TwoOf
<1>3. /\ history'[m].job = j /\ history'[m].kind = kind
      /\ history'[n].job = j /\ history'[n].kind = kind2
      /\ history'[n].user = u /\ history'[n].to = to2
  BY <1>1, <1>2
<1>4. DOMAIN history = 1 .. Len(history) /\ DOMAIN history' = 1 .. Len(history') /\ Len(history) \in Nat
  BY <1>1
<1>5. /\ DOMAIN history' = DOMAIN history \cup {m, n}
      /\ m \notin DOMAIN history /\ n \notin DOMAIN history
  <2>1. Len(history') = Len(history) + 2
    BY <1>1, <1>2
  <2>. PICK L : L = Len(history)
    OBVIOUS
  <2>2. /\ L \in Nat /\ DOMAIN history = 1 .. L /\ DOMAIN history' = 1 .. L + 2
        /\ m = L + 1 /\ n = L + 2
    BY <1>4, <2>1
  <2>3. /\ 1 .. L + 2 = (1 .. L) \cup {L + 1, L + 2}
        /\ L + 1 \notin 1 .. L /\ L + 2 \notin 1 .. L
    BY <2>2
  <2>. QED BY <2>2, <2>3
<1>. HIDE DEF m, n
<1>. QED BY <1>1, <1>3, <1>5 DEF TwoMore

\* What the history tells stays as long as no entry says otherwise ...
LEMMA ToldKept ==
  ASSUME NEW h, NEW g, Extends(h, g), NEW j, NEW kind, NEW U, NEW v, NEW W,
         Told(h, j, kind, U, v, W),
         \A m \in DOMAIN g \ DOMAIN h : ~(g[m].job = j /\ g[m].kind = kind /\ g[m].user \in U)
  PROVE  Told(g, j, kind, U, v, W)
<1>1. Matching(g, j, kind, U) = Matching(h, j, kind, U)
  BY DEF Matching, Extends
<1>2. \A i \in Matching(h, j, kind, U) : g[i] = h[i]
  BY DEF Matching, Extends
<1>. QED BY <1>1, <1>2 DEF Told

\* ... and is what the last entry says.
LEMMA ToldNew ==
  ASSUME NEW h, NEW g, Extends(h, g), DOMAIN h \subseteq Nat,
         NEW j, NEW kind, NEW U, NEW W,
         NEW n \in DOMAIN g \ DOMAIN h, n \in Nat,
         g[n].job = j, g[n].kind = kind, g[n].user \in U,
         \A m \in DOMAIN g \ DOMAIN h :
            m = n \/ ~(g[m].job = j /\ g[m].kind = kind /\ g[m].user \in U)
  PROVE  Told(g, j, kind, U, g[n].to, W)
<1>1. n \in Matching(g, j, kind, U)
  BY DEF Matching
<1>2. ASSUME NEW i \in Matching(g, j, kind, U), \A k \in Matching(g, j, kind, U) : k <= i
      PROVE  i = n
  <2>1. n <= i
    BY <1>1, <1>2
  <2>2. CASE i \in DOMAIN h
    BY <2>1, <2>2 DEF Extends
  <2>3. CASE i \notin DOMAIN h
    BY <1>2, <2>3 DEF Matching
  <2>. QED BY <2>2, <2>3
<1>. QED BY <1>1, <1>2 DEF Told

-----------------------------------------------------------------------------
(* The steps of the Jobs domain.                                           *)

\* The web core may ask for a deletion, the bot for an application.
JobsStep ==
    \/ UNCHANGED jobVars
    \/ JobsNext
    \/ \E u \in Users, j \in Jobs : Delete(u, j)
    \/ \E s \in Slots, u \in Users, l \in workload.links, to \in Statuses :
          Begin(s, Request("insert", "apply", u, l, NoJob, to))

\* Which of them change the tables.
LEMMA TableSteps ==
  ASSUME JobsStep
  PROVE  \/ UNCHANGED <<tables, torn>>
         \/ \E s \in Slots : Insert(s) \/ SelectExisting(s) \/ Merge(s) \/ WriteUpdate(s)
         \/ \E u \in Users, j \in Jobs : Delete(u, j)
         \/ PostHistory
BY DEF JobsStep, JobsNext, jobVars, Begin, CreateJob, ProxyCreateJob, ApplyByUrl, PutStatus,
       UpdateJob, Exists, InsertRefused, NothingToSelect, CheckJob, RollBack, DeleteJob,
       OpenHistory, ReadPage

\* A request that is being served.
LEMMA Serving ==
  ASSUME SlotsOK, NEW s \in Slots, ~At(s, "idle")
  PROVE  slot[s] \in RequestSet /\ RequestOK(offers, torn, slot[s])
BY DEF SlotsOK, At, IdleSlot

\* An offering keeps its identity, and once deleted stays so.
OffersKept ==
    /\ Jobs \subseteq Jobs'
    /\ \A j \in Jobs : /\ offers'[j].key = offers[j].key
                       /\ offers[j].deleted => offers'[j].deleted
    /\ torn \subseteq torn'

\* A new entry names this job.
OnlyAbout(j) == \A m \in DOMAIN history' \ DOMAIN history : history'[m].job = j
NoNew(kind) == \A m \in DOMAIN history' \ DOMAIN history : history'[m].kind # kind

LEMMA OffersAre ==
  ASSUME TablesOK
  PROVE  /\ Len(offers) \in Nat /\ Jobs = 1 .. Len(offers) /\ DOMAIN status = Jobs
         /\ \A j \in Jobs : j \in Nat /\ offers[j] \in Offering
BY DEF TablesOK, Jobs

\* Short sequences.
LEMMA NothingAndOne ==
  ASSUME NEW a
  PROVE  <<>> \o <<a>> = <<a>>
<1>1. <<a>> \in Seq({a})
  OBVIOUS
<1>. QED BY <1>1, ConcatEmptySeq

LEMMA OneAndOne ==
  ASSUME NEW a, NEW b
  PROVE  <<a>> \o <<b>> = <<a, b>>
<1>1. /\ <<a>> \in Seq({a, b}) /\ <<b>> \in Seq({a, b}) /\ <<a, b>> \in Seq({a, b})
      /\ Len(<<a>>) = 1 /\ Len(<<b>>) = 1 /\ Len(<<a, b>>) = 2
  OBVIOUS
<1>2. /\ <<a>> \o <<b>> \in Seq({a, b}) /\ Len(<<a>> \o <<b>>) = 2
      /\ \A i \in 1 .. 2 : (<<a>> \o <<b>>)[i] = IF i <= 1 THEN <<a>>[i] ELSE <<b>>[i - 1]
  BY <1>1, ConcatProperties
<1>3. (<<a>> \o <<b>>)[1] = a /\ (<<a>> \o <<b>>)[2] = b
  BY <1>2
<1>4. <<a>> \o <<b>> \in Seq({a, b}) /\ Len(<<a>> \o <<b>>) = Len(<<a, b>>)
      /\ \A i \in 1 .. Len(<<a, b>>) : (<<a>> \o <<b>>)[i] = <<a, b>>[i]
  BY <1>1, <1>2, <1>3
<1>. QED BY <1>1, <1>4, SeqEqual

\* A new offering: its identity was free, its status is that of the one who
\* applies, and its history begins.
FirstRow(row, r) ==
    \A u \in Users : row[u] = IF r.kind = "apply" /\ u = r.user THEN r.to ELSE Unset

LEMMA InsertMakes ==
  ASSUME TablesOK, HistoryOrdered, SlotsOK, NEW s \in Slots, Insert(s),
         NEW j, j = Len(offers) + 1
  PROVE  /\ slot[s].link \in Links /\ slot[s].user \in Users
         /\ offers' \in Seq(Offering) /\ Len(offers') = j /\ Jobs' = Jobs \cup {j} /\ j \notin Jobs
         /\ \A k \in Jobs : offers'[k] = offers[k]
         /\ offers'[j].key = Key(slot[s].link) /\ offers'[j].title \in {"", "given"}
         /\ ~offers'[j].deleted
         /\ status' \in Seq([Users -> Statuses \cup {Unset}]) /\ Len(status') = j
         /\ \A k \in Jobs : status'[k] = status[k]
         /\ FirstRow(status'[j], slot[s])
         /\ torn' = torn /\ FindJobId(Key(slot[s].link)) = {}
<1>. DEFINE r == slot[s]
            x == Fresh(r)
            y == [u \in Users |-> IF r.kind = "apply" /\ u = r.user THEN r.to ELSE Unset]
<1>1. /\ offers' = Append(offers, x) /\ status' = Append(status, y)
      /\ torn' = torn /\ FindJobId(Key(r.link)) = {} /\ r.pc = "insert"
  BY DEF Insert, At
<1>2. r \in RequestSet /\ RequestOK(offers, torn, r)
  BY <1>1, Serving DEF At
<1>3. r.link \in Links /\ r.user \in Users /\ (r.kind = "apply" => r.to \in Statuses)
  BY <1>1, <1>2 DEF RequestOK, RequestSet
<1>4. x \in Offering /\ x.key = Key(r.link) /\ x.title \in {"", "given"} /\ ~x.deleted
  BY <1>3 DEF Fresh, Offering, Names
<1>5. y \in [Users -> Statuses \cup {Unset}]
  BY <1>3
<1>6. FirstRow(y, r)
  BY DEF FirstRow
<1>. HIDE DEF x, y
<1>. DEFINE Y == [Users -> Statuses \cup {Unset}]
<1>7. offers \in Seq(Offering) /\ status \in Seq(Y) /\ Len(status) = Len(offers) /\ y \in Y
  BY <1>5 DEF TablesOK
<1>. HIDE DEF Y
<1>8. /\ offers' \in Seq(Offering) /\ Len(offers') = j /\ offers'[j] = x
      /\ \A k \in 1 .. Len(offers) : offers'[k] = offers[k]
  <2>1. offers \in Seq(Offering) /\ x \in Offering /\ offers' = Append(offers, x)
    BY <1>1, <1>4, <1>7
  <2>. QED BY <2>1, AppendProperties
<1>9. /\ status' \in Seq(Y) /\ Len(status') = j /\ status'[j] = y
      /\ \A k \in 1 .. Len(offers) : status'[k] = status[k]
  BY <1>1, <1>7
<1>10. Jobs = 1 .. Len(offers) /\ Jobs' = 1 .. j /\ Len(offers) \in Nat
  BY <1>7, <1>8 DEF Jobs
<1>11. Jobs' = Jobs \cup {j} /\ j \notin Jobs
  BY <1>10
<1>. QED BY <1>1, <1>3, <1>4, <1>6, <1>8, <1>9, <1>10, <1>11 DEF Y

LEMMA InsertTells ==
  ASSUME TablesOK, HistoryOrdered, SlotsOK, NEW s \in Slots, Insert(s),
         NEW j, j = Len(offers) + 1
  PROVE  /\ history' \in Seq(HistoryEntry) /\ HistoryOrdered' /\ Extends(history, history')
         /\ OnlyAbout(j) /\ NoNew("job_updated")
         /\ slot[s].kind # "apply" => NoNew("status_changed")
         /\ slot[s].kind = "apply" =>
              \E n \in DOMAIN history' \ DOMAIN history :
                 /\ history'[n].job = j /\ history'[n].kind = "status_changed"
                 /\ history'[n].user = slot[s].user /\ history'[n].to = slot[s].to
                 /\ \A m \in DOMAIN history' \ DOMAIN history :
                       m = n \/ history'[m].kind # "status_changed"
<1>. DEFINE r == slot[s]
<1>1. history \in Seq(HistoryEntry) /\ j \in Nat
  BY OffersAre DEF TablesOK
<1>2. r \in RequestSet /\ RequestOK(offers, torn, r) /\ r.pc = "insert"
  BY Serving DEF At, Insert
<1>3. r.user \in Users /\ (r.kind = "apply" => r.to \in Values) /\ Unset \in Values
  BY <1>2 DEF RequestOK, RequestSet, Values
<1>4. "job_created" \in Events /\ "status_changed" \in Events
  BY DEF Events
<1>. PICK u, to : u = r.user /\ to = r.to
  OBVIOUS
<1>5. CASE r.kind # "apply"
  <2>. PICK E : E = <<<<j, "job_created", u, Unset>>>>
    OBVIOUS
  <2>1. InsertHistory(E)
    BY <1>5 DEF Insert
  <2>3. OneOf(E, j, "job_created", u, Unset)
    BY <1>1, <1>3, <1>4, EventLists
  <2>2. /\ history' \in Seq(HistoryEntry) /\ HistoryOrdered' /\ Extends(history, history')
        /\ OneMore(history, history', j, "job_created", u, Unset)
    BY <1>1, <2>1, <2>3, OneEvent
  <2>. QED BY <1>5, <2>2 DEF OnlyAbout, NoNew, OneMore, TwoMore
<1>6. CASE r.kind = "apply"
  <2>. PICK E : E = <<<<j, "job_created", u, Unset>>, <<j, "status_changed", u, to>>>>
    OBVIOUS
  <2>1. InsertHistory(E)
    BY <1>6 DEF Insert
  <2>3. TwoOf(E, j, "job_created", "status_changed", u, Unset, to)
    BY <1>1, <1>3, <1>4, <1>6, EventLists
  <2>2. /\ history' \in Seq(HistoryEntry) /\ HistoryOrdered' /\ Extends(history, history')
        /\ TwoMore(history, history', j, "job_created", "status_changed", u, to)
    BY <1>1, <2>1, <2>3, TwoEvents
  <2>. QED BY <1>6, <2>2 DEF OnlyAbout, NoNew, OneMore, TwoMore
<1>. QED BY <1>5, <1>6

\* A status is written, and the history tells it.
LEMMA MergeTells ==
  ASSUME TablesOK, HistoryOrdered, SlotsOK, NEW s \in Slots, Merge(s)
  PROVE  LET r == slot[s]
         IN  /\ r.job \in Jobs /\ r.user \in Users /\ r.to \in Statuses
             /\ r.kind = "apply" => r.link \in Links /\ offers[r.job].key = Key(r.link)
             /\ status' \in Seq([Users -> Statuses \cup {Unset}]) /\ Len(status') = Len(status)
             /\ status'[r.job][r.user] = r.to
             /\ \A j \in Jobs, u \in Users :
                   j # r.job \/ u # r.user => status'[j][u] = status[j][u]
             /\ UNCHANGED <<offers, torn>>
             /\ history' \in Seq(HistoryEntry) /\ HistoryOrdered' /\ Extends(history, history')
             /\ OnlyAbout(r.job) /\ NoNew("job_updated")
             /\ \E n \in DOMAIN history' \ DOMAIN history :
                   /\ history'[n].kind = "status_changed"
                   /\ history'[n].user = r.user /\ history'[n].to = r.to
                   /\ \A m \in DOMAIN history' \ DOMAIN history :
                         m = n \/ history'[m].kind # "status_changed"
<1>. DEFINE r == slot[s]
            Y == [Users -> Statuses \cup {Unset}]
<1>1. history \in Seq(HistoryEntry) /\ status \in Seq(Y) /\ DOMAIN status = Jobs
  BY OffersAre DEF TablesOK
<1>2. r \in RequestSet /\ RequestOK(offers, torn, r) /\ r.pc = "merge"
  BY Serving DEF At, Merge
<1>3. /\ r.user \in Users /\ r.to \in Statuses /\ r.to \in Values /\ Unset \in Values
      /\ r.job \in Jobs
      /\ r.kind = "apply" => r.link \in Links /\ offers[r.job].key = Key(r.link)
  BY <1>2 DEF RequestOK, RequestSet, Values, Jobs
<1>4. "job_created" \in Events /\ "status_changed" \in Events /\ r.job \in Nat
  BY <1>3, OffersAre DEF Events
<1>5. status' = [status EXCEPT ![r.job][r.user] = r.to] /\ UNCHANGED <<offers, torn>>
  BY DEF Merge
<1>6. status[r.job] \in Y
  BY <1>1, <1>3
<1>7. /\ status' \in Seq(Y) /\ Len(status') = Len(status)
      /\ status'[r.job][r.user] = r.to
      /\ \A j \in Jobs, u \in Users : j # r.job \/ u # r.user => status'[j][u] = status[j][u]
  <2>. DEFINE z == [status[r.job] EXCEPT ![r.user] = r.to]
  <2>1. z \in Y /\ z[r.user] = r.to /\ \A u \in Users : u # r.user => z[u] = status[r.job][u]
    BY <1>3, <1>6
  <2>2. status' = [status EXCEPT ![r.job] = z]
    BY <1>5
  <2>. HIDE DEF z, Y
  <2>3. /\ status' \in Seq(Y) /\ Len(status') = Len(status) /\ status'[r.job] = z
        /\ \A j \in Jobs : j # r.job => status'[j] = status[j]
    BY <1>1, <1>3, <2>1, <2>2
  <2>. QED BY <2>1, <2>3
<1>. PICK j, u, to : j = r.job /\ u = r.user /\ to = r.to
  OBVIOUS
<1>8. CASE r.kind # "apply"
  <2>. PICK E : E = <<<<j, "status_changed", u, to>>>>
    OBVIOUS
  <2>1. InsertHistory(<<>> \o <<<<j, "status_changed", u, to>>>>)
    BY <1>8 DEF Merge, Changed
  <2>2. <<>> \o <<<<j, "status_changed", u, to>>>> = E
    BY NothingAndOne
  <2>3. InsertHistory(E)
    BY <2>1, <2>2
  <2>5. OneOf(E, j, "status_changed", u, to)
    BY <1>3, <1>4, EventLists
  <2>4. /\ history' \in Seq(HistoryEntry) /\ HistoryOrdered' /\ Extends(history, history')
        /\ OneMore(history, history', j, "status_changed", u, to)
    BY <1>1, <2>3, <2>5, OneEvent
  <2>. QED BY <1>3, <1>5, <1>7, <2>4 DEF OnlyAbout, NoNew, OneMore, TwoMore
<1>9. CASE r.kind = "apply"
  <2>. PICK E : E = <<<<j, "job_created", u, Unset>>, <<j, "status_changed", u, to>>>>
    OBVIOUS
  <2>1. InsertHistory(<<<<j, "job_created", u, Unset>>>> \o <<<<j, "status_changed", u, to>>>>)
    BY <1>9 DEF Merge, Changed
  <2>2. <<<<j, "job_created", u, Unset>>>> \o <<<<j, "status_changed", u, to>>>> = E
    BY OneAndOne
  <2>3. InsertHistory(E)
    BY <2>1, <2>2
  <2>5. TwoOf(E, j, "job_created", "status_changed", u, Unset, to)
    BY <1>3, <1>4, EventLists
  <2>4. /\ history' \in Seq(HistoryEntry) /\ HistoryOrdered' /\ Extends(history, history')
        /\ TwoMore(history, history', j, "job_created", "status_changed", u, to)
    BY <1>1, <2>3, <2>5, TwoEvents
  <2>. QED BY <1>3, <1>5, <1>7, <2>4 DEF OnlyAbout, NoNew, OneMore, TwoMore
<1>. QED BY <1>8, <1>9

\* An entry that tells neither a status nor a title.
LEMMA PlainEvent ==
  ASSUME TablesOK, HistoryOrdered, NEW j \in Jobs, NEW u \in Users,
         NEW kind \in {"job_created", "job_deleted", "note"},
         InsertHistory(<<<<j, kind, u, Unset>>>>)
  PROVE  /\ history' \in Seq(HistoryEntry) /\ HistoryOrdered' /\ Extends(history, history')
         /\ OnlyAbout(j) /\ NoNew("job_updated") /\ NoNew("status_changed")
<1>1. history \in Seq(HistoryEntry) /\ j \in Nat /\ kind \in Events /\ Unset \in Values
  BY OffersAre DEF TablesOK, Events, Values
<1>. PICK E : E = <<<<j, kind, u, Unset>>>>
  OBVIOUS
<1>2. OneOf(E, j, kind, u, Unset)
  BY <1>1, EventLists
<1>3. InsertHistory(E)
  OBVIOUS
<1>4. /\ history' \in Seq(HistoryEntry) /\ HistoryOrdered' /\ Extends(history, history')
      /\ OneMore(history, history', j, kind, u, Unset)
  BY <1>1, <1>2, <1>3, OneEvent
<1>. QED BY <1>4 DEF OnlyAbout, NoNew, OneMore

\* The steps that tell nothing of a status or a title leave both alone.
LEMMA SelectTells ==
  ASSUME TablesOK, HistoryOrdered, SlotsOK, NEW s \in Slots, SelectExisting(s)
  PROVE  /\ UNCHANGED <<offers, status, torn>>
         /\ history' \in Seq(HistoryEntry) /\ HistoryOrdered' /\ Extends(history, history')
         /\ NoNew("job_updated") /\ NoNew("status_changed")
         /\ \E j \in Jobs : OnlyAbout(j)
<1>1. slot[s] \in RequestSet /\ slot[s].user \in Users
  BY Serving DEF At, SelectExisting, RequestSet
<1>2. PICK j \in FindJobId(Key(slot[s].link)) :
         \/ UNCHANGED history
         \/ InsertHistory(<<<<j, "job_created", slot[s].user, Unset>>>>)
  BY DEF SelectExisting
<1>3. j \in Jobs
  BY <1>2 DEF FindJobId
<1>4. CASE UNCHANGED history
  BY <1>3, <1>4 DEF SelectExisting, Extends, OnlyAbout, NoNew, TablesOK, HistoryOrdered
<1>5. CASE InsertHistory(<<<<j, "job_created", slot[s].user, Unset>>>>)
  <2>1. /\ history' \in Seq(HistoryEntry) /\ HistoryOrdered' /\ Extends(history, history')
        /\ OnlyAbout(j) /\ NoNew("job_updated") /\ NoNew("status_changed")
    BY <1>1, <1>3, <1>5, PlainEvent
  <2>. QED BY <1>3, <2>1 DEF SelectExisting
<1>. QED BY <1>2, <1>4, <1>5

LEMMA DeleteTells ==
  ASSUME TablesOK, HistoryOrdered, NEW u \in Users, NEW j \in Jobs, Delete(u, j)
  PROVE  /\ UNCHANGED <<status, torn, slot, answers, reader>>
         /\ offers' \in Seq(Offering) /\ Len(offers') = Len(offers)
         /\ \A k \in Jobs : /\ offers'[k].key = offers[k].key
                            /\ offers'[k].title = offers[k].title
                            /\ offers[k].deleted => offers'[k].deleted
         /\ offers'[j].deleted
         /\ history' \in Seq(HistoryEntry) /\ HistoryOrdered' /\ Extends(history, history')
         /\ OnlyAbout(j) /\ NoNew("job_updated") /\ NoNew("status_changed")
<1>1. InsertHistory(<<<<j, "job_deleted", u, Unset>>>>)
  BY DEF Delete
<1>2. /\ history' \in Seq(HistoryEntry) /\ HistoryOrdered' /\ Extends(history, history')
      /\ OnlyAbout(j) /\ NoNew("job_updated") /\ NoNew("status_changed")
  BY <1>1, PlainEvent
<1>3. offers' = [offers EXCEPT ![j] = [offers[j] EXCEPT !.deleted = TRUE]]
  BY DEF Delete
<1>4. offers \in Seq(Offering) /\ Jobs = 1 .. Len(offers) /\ offers[j] \in Offering
  BY OffersAre DEF TablesOK
<1>. DEFINE x == [offers[j] EXCEPT !.deleted = TRUE]
<1>5. x \in Offering /\ x.key = offers[j].key /\ x.title = offers[j].title /\ x.deleted
  BY <1>4 DEF Offering
<1>6. offers' = [offers EXCEPT ![j] = x]
  BY <1>3
<1>. HIDE DEF x
<1>7. /\ offers' \in Seq(Offering) /\ Len(offers') = Len(offers) /\ offers'[j] = x
      /\ \A k \in Jobs : k # j => offers'[k] = offers[k]
  BY <1>4, <1>5, <1>6
<1>. QED BY <1>2, <1>5, <1>7 DEF Delete

LEMMA NoteTells ==
  ASSUME TablesOK, HistoryOrdered, PostHistory
  PROVE  /\ UNCHANGED <<offers, status, torn>>
         /\ history' \in Seq(HistoryEntry) /\ HistoryOrdered' /\ Extends(history, history')
         /\ NoNew("job_updated") /\ NoNew("status_changed")
         /\ \E j \in Jobs : OnlyAbout(j)
<1>1. PICK u \in Users, j \in Jobs : InsertHistory(<<<<j, "note", u, Unset>>>>)
  BY DEF PostHistory
<1>2. /\ history' \in Seq(HistoryEntry) /\ HistoryOrdered' /\ Extends(history, history')
      /\ OnlyAbout(j) /\ NoNew("job_updated") /\ NoNew("status_changed")
  BY <1>1, PlainEvent
<1>. QED BY <1>2 DEF PostHistory

\* An update writes the title, and tells it unless it is the one it had read.
LEMMA UpdateTells ==
  ASSUME TablesOK, HistoryOrdered, SlotsOK, NEW s \in Slots, WriteUpdate(s)
  PROVE  LET r == slot[s]
         IN  /\ r.job \in Jobs /\ r.user \in Users /\ r.to \in Titles
             /\ r.job \notin torn => r.seen = offers[r.job].title
             /\ offers' \in Seq(Offering) /\ Len(offers') = Len(offers)
             /\ offers'[r.job].title = r.to
             /\ \A k \in Jobs : /\ offers'[k].key = offers[k].key
                                /\ offers'[k].deleted = offers[k].deleted
                                /\ k # r.job => offers'[k].title = offers[k].title
             /\ UNCHANGED status /\ torn \subseteq torn' /\ torn' \subseteq torn \cup {r.job}
             /\ history' \in Seq(HistoryEntry) /\ HistoryOrdered' /\ Extends(history, history')
             /\ OnlyAbout(r.job) /\ NoNew("status_changed")
             /\ \/ UNCHANGED history /\ r.seen = r.to
                \/ \E n \in DOMAIN history' \ DOMAIN history :
                      /\ history'[n].kind = "job_updated"
                      /\ history'[n].user = r.user /\ history'[n].to = r.to
                      /\ \A m \in DOMAIN history' \ DOMAIN history : m = n
<1>. DEFINE r == slot[s]
<1>1. r \in RequestSet /\ RequestOK(offers, torn, r) /\ r.pc = "write"
  BY Serving DEF At, WriteUpdate
<1>2. /\ r.job \in Jobs /\ r.user \in Users /\ r.to \in Titles
      /\ r.job \notin torn => r.seen = offers[r.job].title
  BY <1>1 DEF RequestOK, RequestSet, Jobs
<1>3. /\ offers' = [offers EXCEPT ![r.job] = [offers[r.job] EXCEPT !.title = r.to]]
      /\ UNCHANGED status /\ torn \subseteq torn' /\ torn' \subseteq torn \cup {r.job}
  BY DEF WriteUpdate
<1>4. offers \in Seq(Offering) /\ Jobs = 1 .. Len(offers) /\ offers[r.job] \in Offering
      /\ history \in Seq(HistoryEntry) /\ r.job \in Nat
  BY <1>2, OffersAre DEF TablesOK
<1>5. /\ offers' \in Seq(Offering) /\ Len(offers') = Len(offers)
      /\ offers'[r.job].title = r.to
      /\ \A k \in Jobs : /\ offers'[k].key = offers[k].key
                         /\ offers'[k].deleted = offers[k].deleted
                         /\ k # r.job => offers'[k].title = offers[k].title
  <2>. DEFINE x == [offers[r.job] EXCEPT !.title = r.to]
  <2>1. /\ x \in Offering /\ x.key = offers[r.job].key /\ x.title = r.to
        /\ x.deleted = offers[r.job].deleted
    BY <1>2, <1>4 DEF Offering, Names
  <2>2. offers' = [offers EXCEPT ![r.job] = x]
    BY <1>3
  <2>. HIDE DEF x
  <2>3. /\ offers' \in Seq(Offering) /\ Len(offers') = Len(offers) /\ offers'[r.job] = x
        /\ \A k \in Jobs : k # r.job => offers'[k] = offers[k]
    BY <1>2, <1>4, <2>1, <2>2
  <2>. QED BY <2>1, <2>3
<1>. PICK j, u, to : j = r.job /\ u = r.user /\ to = r.to
  OBVIOUS
<1>6. CASE r.seen = r.to
  <2>1. UNCHANGED history
    BY <1>6 DEF WriteUpdate
  <2>2. HistoryOrdered' /\ Extends(history, history') /\ OnlyAbout(r.job) /\ NoNew("status_changed")
    BY <2>1 DEF Extends, OnlyAbout, NoNew, HistoryOrdered
  <2>. QED BY <1>2, <1>3, <1>4, <1>5, <1>6, <2>1, <2>2
<1>7. CASE r.seen # r.to
  <2>. PICK E : E = <<<<j, "job_updated", u, to>>>>
    OBVIOUS
  <2>1. InsertHistory(E)
    BY <1>7 DEF WriteUpdate
  <2>2. "job_updated" \in Events /\ to \in Values
    BY <1>2 DEF Events, Values
  <2>3. OneOf(E, j, "job_updated", u, to)
    BY <1>2, <1>4, <2>2, EventLists
  <2>4. /\ history' \in Seq(HistoryEntry) /\ HistoryOrdered' /\ Extends(history, history')
        /\ OneMore(history, history', j, "job_updated", u, to)
    BY <1>4, <2>1, <2>3, OneEvent
  <2>. QED BY <1>2, <1>3, <1>5, <2>4 DEF OnlyAbout, NoNew, OneMore
<1>. QED BY <1>6, <1>7

-----------------------------------------------------------------------------
(* The tables, step by step.                                               *)

\* Every entry names an offering that is there, or that has just been made.
LEMMA EntriesHaveJobs ==
  ASSUME TablesOK, history' \in Seq(HistoryEntry), Extends(history, history'),
         NEW j, OnlyAbout(j), Jobs \subseteq Jobs', j \in Jobs'
  PROVE  \A i \in DOMAIN history' : history'[i].job \in Jobs'
BY DEF TablesOK, Extends, OnlyAbout

\* What the tables are after a step, and that nothing they have told is lost.
LEMMA TablesStep ==
  ASSUME TablesOK, HistoryOrdered, SlotsOK, JobsStep
  PROVE  TablesOK' /\ HistoryOrdered' /\ Extends(history, history') /\ OffersKept
<1>0. \A j \in Jobs : j \in Nat
  BY OffersAre
<1>1. CASE UNCHANGED <<tables, torn>>
  BY <1>1 DEF tables, TablesOK, HistoryOrdered, Extends, OffersKept, Jobs
<1>2. ASSUME NEW s \in Slots, Insert(s)
      PROVE  TablesOK' /\ HistoryOrdered' /\ Extends(history, history') /\ OffersKept
  <2>. PICK j : j = Len(offers) + 1
    OBVIOUS
  <2>1. /\ offers' \in Seq(Offering) /\ Len(offers') = j /\ Jobs' = Jobs \cup {j}
        /\ \A k \in Jobs : offers'[k] = offers[k]
        /\ status' \in Seq([Users -> Statuses \cup {Unset}]) /\ Len(status') = j
        /\ torn' = torn
    BY <1>2, InsertMakes
  <2>2. /\ history' \in Seq(HistoryEntry) /\ HistoryOrdered' /\ Extends(history, history')
        /\ OnlyAbout(j)
    BY <1>2, InsertTells
  <2>3. \A i \in DOMAIN history' : history'[i].job \in Jobs'
    BY <2>1, <2>2, EntriesHaveJobs
  <2>. QED BY <2>1, <2>2, <2>3 DEF TablesOK, OffersKept
<1>3. ASSUME NEW s \in Slots, SelectExisting(s)
      PROVE  TablesOK' /\ HistoryOrdered' /\ Extends(history, history') /\ OffersKept
  <2>1. /\ UNCHANGED <<offers, status, torn>>
        /\ history' \in Seq(HistoryEntry) /\ HistoryOrdered' /\ Extends(history, history')
    BY <1>3, SelectTells
  <2>2. PICK j \in Jobs : OnlyAbout(j)
    BY <1>3, SelectTells
  <2>3. Jobs' = Jobs
    BY <2>1 DEF Jobs
  <2>4. \A i \in DOMAIN history' : history'[i].job \in Jobs'
    BY <2>1, <2>2, <2>3, EntriesHaveJobs
  <2>. QED BY <2>1, <2>3, <2>4 DEF TablesOK, OffersKept
<1>4. ASSUME NEW s \in Slots, Merge(s)
      PROVE  TablesOK' /\ HistoryOrdered' /\ Extends(history, history') /\ OffersKept
  <2>1. /\ slot[s].job \in Jobs
        /\ status' \in Seq([Users -> Statuses \cup {Unset}]) /\ Len(status') = Len(status)
        /\ UNCHANGED <<offers, torn>>
        /\ history' \in Seq(HistoryEntry) /\ HistoryOrdered' /\ Extends(history, history')
        /\ OnlyAbout(slot[s].job)
    BY <1>4, MergeTells
  <2>2. Jobs' = Jobs
    BY <2>1 DEF Jobs
  <2>3. \A i \in DOMAIN history' : history'[i].job \in Jobs'
    <3>. PICK j : j = slot[s].job
      OBVIOUS
    <3>. QED BY <2>1, <2>2, EntriesHaveJobs
  <2>. QED BY <2>1, <2>2, <2>3 DEF TablesOK, OffersKept
<1>5. ASSUME NEW s \in Slots, WriteUpdate(s)
      PROVE  TablesOK' /\ HistoryOrdered' /\ Extends(history, history') /\ OffersKept
  <2>1. /\ slot[s].job \in Jobs
        /\ offers' \in Seq(Offering) /\ Len(offers') = Len(offers) /\ UNCHANGED status
        /\ \A k \in Jobs : /\ offers'[k].key = offers[k].key
                           /\ offers'[k].deleted = offers[k].deleted
        /\ torn \subseteq torn' /\ torn' \subseteq torn \cup {slot[s].job}
        /\ history' \in Seq(HistoryEntry) /\ HistoryOrdered' /\ Extends(history, history')
        /\ OnlyAbout(slot[s].job)
    BY <1>5, UpdateTells
  <2>2. Jobs' = Jobs
    BY <2>1 DEF Jobs, TablesOK
  <2>3. \A i \in DOMAIN history' : history'[i].job \in Jobs'
    <3>. PICK j : j = slot[s].job
      OBVIOUS
    <3>. QED BY <2>1, <2>2, EntriesHaveJobs
  <2>. QED BY <2>1, <2>2, <2>3 DEF TablesOK, OffersKept
<1>6. ASSUME NEW u \in Users, NEW j \in Jobs, Delete(u, j)
      PROVE  TablesOK' /\ HistoryOrdered' /\ Extends(history, history') /\ OffersKept
  <2>1. /\ UNCHANGED <<status, torn>>
        /\ offers' \in Seq(Offering) /\ Len(offers') = Len(offers)
        /\ \A k \in Jobs : /\ offers'[k].key = offers[k].key
                           /\ offers[k].deleted => offers'[k].deleted
        /\ history' \in Seq(HistoryEntry) /\ HistoryOrdered' /\ Extends(history, history')
        /\ OnlyAbout(j)
    BY <1>6, DeleteTells
  <2>2. Jobs' = Jobs
    BY <2>1 DEF Jobs, TablesOK
  <2>3. \A i \in DOMAIN history' : history'[i].job \in Jobs'
    BY <2>1, <2>2, EntriesHaveJobs
  <2>. QED BY <2>1, <2>2, <2>3 DEF TablesOK, OffersKept
<1>7. CASE PostHistory
  <2>1. /\ UNCHANGED <<offers, status, torn>>
        /\ history' \in Seq(HistoryEntry) /\ HistoryOrdered' /\ Extends(history, history')
    BY <1>7, NoteTells
  <2>2. PICK j \in Jobs : OnlyAbout(j)
    BY <1>7, NoteTells
  <2>3. Jobs' = Jobs
    BY <2>1 DEF Jobs
  <2>4. \A i \in DOMAIN history' : history'[i].job \in Jobs'
    BY <2>1, <2>2, <2>3, EntriesHaveJobs
  <2>. QED BY <2>1, <2>3, <2>4 DEF TablesOK, OffersKept
<1>. QED BY <1>1, <1>2, <1>3, <1>4, <1>5, <1>6, <1>7, TableSteps

\* Two offerings with one identity are never both there: a new one is inserted
\* under the index, and none that was deleted comes back.
LEMMA KeysUniqueStep ==
  ASSUME TablesOK, HistoryOrdered, SlotsOK, KeysUnique, JobsStep
  PROVE  KeysUnique'
<1>1. CASE UNCHANGED offers
  BY <1>1 DEF KeysUnique, Jobs
<1>2. ASSUME NEW s \in Slots, Insert(s)
      PROVE  KeysUnique'
  <2>. PICK j : j = Len(offers) + 1
    OBVIOUS
  <2>1. /\ Jobs' = Jobs \cup {j} /\ j \notin Jobs
        /\ \A k \in Jobs : offers'[k] = offers[k]
        /\ offers'[j].key = Key(slot[s].link) /\ FindJobId(Key(slot[s].link)) = {}
    BY <1>2, InsertMakes
  <2>2. \A k \in Jobs : offers[k].deleted \/ offers[k].key # Key(slot[s].link)
    BY <2>1 DEF FindJobId
  <2>. QED BY <2>1, <2>2 DEF KeysUnique
<1>3. ASSUME Jobs' = Jobs,
             \A k \in Jobs : /\ offers'[k].key = offers[k].key
                             /\ offers[k].deleted => offers'[k].deleted
      PROVE  KeysUnique'
  BY <1>3 DEF KeysUnique
<1>4. ASSUME NEW s \in Slots, WriteUpdate(s)
      PROVE  KeysUnique'
  <2>1. /\ Len(offers') = Len(offers) /\ offers' \in Seq(Offering)
        /\ \A k \in Jobs : /\ offers'[k].key = offers[k].key
                           /\ offers'[k].deleted = offers[k].deleted
    BY <1>4, UpdateTells
  <2>2. Jobs' = Jobs
    BY <2>1 DEF Jobs, TablesOK
  <2>. QED BY <1>3, <2>1, <2>2
<1>5. ASSUME NEW u \in Users, NEW j \in Jobs, Delete(u, j)
      PROVE  KeysUnique'
  <2>1. /\ Len(offers') = Len(offers) /\ offers' \in Seq(Offering)
        /\ \A k \in Jobs : /\ offers'[k].key = offers[k].key
                           /\ offers[k].deleted => offers'[k].deleted
    BY <1>5, DeleteTells
  <2>2. Jobs' = Jobs
    BY <2>1 DEF Jobs, TablesOK
  <2>. QED BY <1>3, <2>1, <2>2
<1>6. CASE (\E s \in Slots : SelectExisting(s) \/ Merge(s)) \/ PostHistory
  BY <1>1, <1>6 DEF SelectExisting, Merge, PostHistory
<1>. QED BY <1>1, <1>2, <1>4, <1>5, <1>6, TableSteps DEF tables

\* A job that is answered for a link has the identity of the link: the offering
\* was found by it, made with it, or found by it some statements ago.
LEMMA AnswersStep ==
  ASSUME TablesOK, HistoryOrdered, SlotsOK, AnswersNameKey, JobsStep
  PROVE  AnswersNameKey'
<1>1. OffersKept
  BY TablesStep
<1>2. ASSUME UNCHANGED answers
      PROVE  AnswersNameKey'
  BY <1>1, <1>2 DEF AnswersNameKey, OffersKept
<1>3. ASSUME NEW j \in Jobs, NEW l \in Links, offers'[j].key = Key(l),
             answers' \subseteq answers \cup {<<j, l>>}
      PROVE  AnswersNameKey'
  BY <1>1, <1>3 DEF AnswersNameKey, OffersKept
<1>4. ASSUME NEW s \in Slots, Exists(s)
      PROVE  AnswersNameKey'
  <2>1. slot[s].link \in Links
    BY <1>4, Serving DEF At, Exists, RequestOK
  <2>. PICK l : l = slot[s].link
    OBVIOUS
  <2>2. answers' \subseteq answers \cup {<<j, l>> : j \in FindJobId(Key(l))} /\ UNCHANGED offers
    BY <1>4 DEF Exists, tables
  <2>3. \A j \in FindJobId(Key(l)) : j \in Jobs /\ offers[j].key = Key(l)
    BY DEF FindJobId
  <2>. QED BY <1>1, <2>1, <2>2, <2>3 DEF AnswersNameKey, OffersKept
<1>5. ASSUME NEW s \in Slots, Insert(s)
      PROVE  AnswersNameKey'
  <2>. PICK j, l : j = Len(offers) + 1 /\ l = slot[s].link
    OBVIOUS
  <2>1. l \in Links /\ Jobs' = Jobs \cup {j} /\ offers'[j].key = Key(l)
    BY <1>5, InsertMakes
  <2>2. answers' = answers \cup {<<j, l>>}
    BY <1>5 DEF Insert
  <2>. QED BY <1>1, <2>1, <2>2 DEF AnswersNameKey, OffersKept
<1>6. ASSUME NEW s \in Slots, SelectExisting(s)
      PROVE  AnswersNameKey'
  <2>1. slot[s].link \in Links
    BY <1>6, Serving DEF At, SelectExisting, RequestOK
  <2>. PICK l : l = slot[s].link
    OBVIOUS
  <2>2. PICK j \in FindJobId(Key(l)) : answers' \subseteq answers \cup {<<j, l>>}
    BY <1>6 DEF SelectExisting
  <2>3. j \in Jobs /\ offers'[j].key = Key(l)
    BY <1>1, <2>2 DEF FindJobId, OffersKept
  <2>. QED BY <1>3, <1>6, <2>1, <2>2, <2>3
<1>7. ASSUME NEW s \in Slots, Merge(s)
      PROVE  AnswersNameKey'
  <2>. PICK l, j : l = slot[s].link /\ j = slot[s].job
    OBVIOUS
  <2>1. CASE slot[s].kind = "apply"
    <3>1. j \in Jobs /\ l \in Links /\ offers[j].key = Key(l)
      BY <1>7, <2>1, MergeTells
    <3>2. answers' = answers \cup {<<j, l>>} /\ offers'[j].key = Key(l)
      BY <1>1, <1>7, <2>1, <3>1 DEF Merge, OffersKept
    <3>. QED BY <1>3, <1>7, <3>1, <3>2
  <2>2. CASE slot[s].kind # "apply"
    BY <1>2, <1>7, <2>2 DEF Merge
  <2>. QED BY <2>1, <2>2
<1>8. \/ UNCHANGED answers
      \/ \E s \in Slots : Exists(s) \/ Insert(s) \/ SelectExisting(s) \/ Merge(s)
  BY DEF JobsStep, JobsNext, jobVars, Begin, CreateJob, ProxyCreateJob, ApplyByUrl, PutStatus,
         UpdateJob, InsertRefused, NothingToSelect, CheckJob, WriteUpdate, RollBack, DeleteJob,
         Delete, PostHistory, OpenHistory, ReadPage
<1>. QED BY <1>2, <1>4, <1>5, <1>6, <1>7, <1>8

\* A request that the step leaves alone still knows what it knew: identities stay,
\* and the title it has read is written by another update only if both overlap.
LEMMA WaitingKept ==
  ASSUME TablesOK, HistoryOrdered, SlotsOK, JobsStep, NEW t \in Slots, ~At(t, "idle"),
         slot'[t] = slot[t]
  PROVE  RequestOK(offers', torn', slot[t])
<1>. DEFINE r == slot[t]
<1>1. r \in RequestSet /\ RequestOK(offers, torn, r) /\ OffersKept
  BY Serving, TablesStep
<1>2. ASSUME r.pc = "write", r.job \notin torn'
      PROVE  offers'[r.job].title = offers[r.job].title
  <2>1. r.job \in Jobs
    BY <1>1, <1>2 DEF RequestOK, Jobs
  <2>2. ASSUME NEW s \in Slots, WriteUpdate(s)
        PROVE  offers'[r.job].title = offers[r.job].title
    <3>1. s # t
      <4>1. s \in DOMAIN slot /\ slot'[s] = IdleSlot
        BY <2>2 DEF WriteUpdate, End, SlotsOK
      <4>2. slot[s].pc = "write" /\ slot'[s].pc = "idle"
        BY <2>2, <4>1 DEF WriteUpdate, At, IdleSlot
      <4>. QED BY <4>2
    <3>2. slot[s].job # r.job
      BY <1>2, <2>2, <3>1 DEF WriteUpdate, At
    <3>. QED BY <2>1, <2>2, <3>2, UpdateTells
  <2>3. ASSUME NEW s \in Slots, Insert(s)
        PROVE  offers'[r.job].title = offers[r.job].title
    <3>. PICK j : j = Len(offers) + 1
      OBVIOUS
    <3>. QED BY <2>1, <2>3, InsertMakes
  <2>4. ASSUME NEW u \in Users, NEW j \in Jobs, Delete(u, j)
        PROVE  offers'[r.job].title = offers[r.job].title
    BY <2>1, <2>4, DeleteTells
  <2>5. CASE (\E s \in Slots : SelectExisting(s) \/ Merge(s)) \/ PostHistory \/ UNCHANGED offers
    BY <2>5 DEF SelectExisting, Merge, PostHistory
  <2>. QED BY <2>2, <2>3, <2>4, <2>5, TableSteps DEF tables
<1>3. Jobs \subseteq Jobs' /\ torn \subseteq torn' /\ \A j \in Jobs : offers'[j].key = offers[j].key
  BY <1>1 DEF OffersKept
<1>4. r.pc = "write" => r.job \in DOMAIN offers' /\ r.to \in Titles
                        /\ (r.job \notin torn' => r.seen = offers'[r.job].title)
  BY <1>1, <1>2, <1>3 DEF RequestOK, Jobs
<1>5. r.pc \in {"check", "merge"} =>
          /\ r.job \in DOMAIN offers'
          /\ r.kind \in {"apply", "status"}
          /\ r.kind = "apply" => r.link \in Links /\ offers'[r.job].key = Key(r.link)
  BY <1>1, <1>3 DEF RequestOK, Jobs
<1>. HIDE DEF r
<1>6. RequestOK(offers', torn', r)
  BY <1>1, <1>4, <1>5 DEF RequestOK
<1>. QED BY <1>6 DEF r

\* What a request is when it begins.
LEMMA NewRequest ==
  ASSUME TablesOK, workload \in Workloads, NEW s \in Slots
  PROVE  /\ \A u \in Users, l \in workload.links, pc \in {"insert", "exists"} :
              LET r == Request(pc, "create", u, l, NoJob, Unset)
              IN  r \in RequestSet /\ RequestOK(offers, torn, r)
         /\ \A u \in Users, l \in workload.links, to \in Statuses :
              LET r == Request("insert", "apply", u, l, NoJob, to)
              IN  r \in RequestSet /\ RequestOK(offers, torn, r)
         /\ \A u \in Users, j \in Jobs, to \in Statuses :
              LET r == Request("check", "status", u, "", j, to)
              IN  r \in RequestSet /\ RequestOK(offers, torn, r)
         /\ \A u \in Users, j \in Jobs, to \in Titles :
              LET r == [Request("write", "update", u, "", j, to) EXCEPT !.seen = offers[j].title]
              IN  r \in RequestSet /\ RequestOK(offers, torn, r)
<1>1. workload.links \subseteq Links
  BY StockAssumption
<1>2. /\ Statuses \subseteq Values /\ Titles \subseteq Values /\ Unset \in Values
      /\ "insert" \in Served /\ "exists" \in Served /\ "check" \in Served /\ "write" \in Served
      /\ NoJob \in Nat
  BY DEF Values, Served, NoJob
<1>3. \A j \in Jobs : j \in Nat /\ offers[j].title \in Names
  BY OffersAre DEF Offering
<1>4. ASSUME NEW u \in Users, NEW l \in workload.links, NEW pc \in {"insert", "exists"}
      PROVE  LET r == Request(pc, "create", u, l, NoJob, Unset)
             IN  r \in RequestSet /\ RequestOK(offers, torn, r)
  BY <1>1, <1>2, <1>4 DEF RequestSet, RequestOK, Request
<1>5. ASSUME NEW u \in Users, NEW l \in workload.links, NEW to \in Statuses
      PROVE  LET r == Request("insert", "apply", u, l, NoJob, to)
             IN  r \in RequestSet /\ RequestOK(offers, torn, r)
  BY <1>1, <1>2, <1>5 DEF RequestSet, RequestOK, Request
<1>6. ASSUME NEW u \in Users, NEW j \in Jobs, NEW to \in Statuses
      PROVE  LET r == Request("check", "status", u, "", j, to)
             IN  r \in RequestSet /\ RequestOK(offers, torn, r)
  BY <1>2, <1>3, <1>6 DEF RequestSet, RequestOK, Request, Jobs
<1>7. ASSUME NEW u \in Users, NEW j \in Jobs, NEW to \in Titles
      PROVE  LET r == [Request("write", "update", u, "", j, to) EXCEPT !.seen = offers[j].title]
             IN  r \in RequestSet /\ RequestOK(offers, torn, r)
  BY <1>2, <1>3, <1>7 DEF RequestSet, RequestOK, Request, Jobs
<1>. QED BY <1>4, <1>5, <1>6, <1>7

\* A step leaves the slots alone, empties one, or moves one on.
SlotMoves(s, x) == slot' = [slot EXCEPT ![s] = x]

LEMMA SlotSteps ==
  ASSUME TablesOK, HistoryOrdered, SlotsOK, JobsStep, workload \in Workloads
  PROVE  \/ UNCHANGED slot
         \/ \E s \in Slots : \E x \in {IdleSlot} \cup RequestSet :
               SlotMoves(s, x) /\ (x # IdleSlot => RequestOK(offers', torn', x))
<1>1. ASSUME NEW s \in Slots, NEW x \in RequestSet, RequestOK(offers, torn, x), Begin(s, x)
      PROVE  SlotMoves(s, x) /\ RequestOK(offers', torn', x)
  <2>1. SlotMoves(s, x) /\ UNCHANGED <<offers, torn>>
    BY <1>1 DEF Begin, SlotMoves, tables
  <2>. QED BY <1>1, <2>1
<1>2. CASE \E s \in Slots : CreateJob(s) \/ ProxyCreateJob(s) \/ ApplyByUrl(s) \/ PutStatus(s)
                            \/ UpdateJob(s)
  <2>1. PICK s \in Slots : CreateJob(s) \/ ProxyCreateJob(s) \/ ApplyByUrl(s) \/ PutStatus(s)
                           \/ UpdateJob(s)
    BY <1>2
  <2>2. \E x \in RequestSet : RequestOK(offers, torn, x) /\ Begin(s, x)
    <3>1. CASE CreateJob(s) \/ ProxyCreateJob(s)
      <4>1. PICK u \in Users, l \in workload.links, pc \in {"insert", "exists"} :
               Begin(s, Request(pc, "create", u, l, NoJob, Unset))
        BY <3>1 DEF CreateJob, ProxyCreateJob
      <4>. QED BY <4>1, NewRequest
    <3>2. CASE ApplyByUrl(s)
      BY <3>2, NewRequest DEF ApplyByUrl
    <3>3. CASE PutStatus(s)
      BY <3>3, NewRequest DEF PutStatus
    <3>4. CASE UpdateJob(s)
      BY <3>4, NewRequest DEF UpdateJob
    <3>. QED BY <2>1, <3>1, <3>2, <3>3, <3>4
  <2>. QED BY <1>1, <2>2
<1>3. ASSUME NEW s \in Slots, NEW u \in Users, NEW l \in workload.links, NEW to \in Statuses,
             Begin(s, Request("insert", "apply", u, l, NoJob, to))
      PROVE  \E x \in RequestSet : SlotMoves(s, x) /\ RequestOK(offers', torn', x)
  BY <1>1, <1>3, NewRequest
<1>4. ASSUME NEW s \in Slots, End(s)
      PROVE  SlotMoves(s, IdleSlot)
  BY <1>4 DEF End, SlotMoves
<1>5. ASSUME NEW s \in Slots, Exists(s) \/ InsertRefused(s)
      PROVE  \/ End(s)
             \/ \E x \in RequestSet : SlotMoves(s, x) /\ RequestOK(offers', torn', x)
  <2>1. slot[s] \in RequestSet /\ RequestOK(offers, torn, slot[s]) /\ UNCHANGED <<offers, torn>>
        /\ slot[s].pc \in {"exists", "insert"}
    BY <1>5, Serving DEF At, Exists, InsertRefused, tables
  <2>2. \/ End(s)
        \/ \E pc \in {"insert", "select"} : slot' = [slot EXCEPT ![s] = [slot[s] EXCEPT !.pc = pc]]
    BY <1>5 DEF Exists, InsertRefused
  <2>. PICK r : r = slot[s]
    OBVIOUS
  <2>3. ASSUME NEW pc \in {"insert", "select"}
        PROVE  LET x == [r EXCEPT !.pc = pc] IN x \in RequestSet /\ RequestOK(offers, torn, x)
    BY <2>1 DEF RequestSet, RequestOK, Served
  <2>. QED BY <2>1, <2>2, <2>3 DEF SlotMoves
<1>6. ASSUME NEW s \in Slots, SelectExisting(s)
      PROVE  \/ End(s)
             \/ \E x \in RequestSet : SlotMoves(s, x) /\ RequestOK(offers', torn', x)
  <2>1. /\ slot[s] \in RequestSet /\ RequestOK(offers, torn, slot[s]) /\ UNCHANGED <<offers, torn>>
        /\ slot[s].pc = "select"
    BY <1>6, Serving DEF At, SelectExisting
  <2>. PICK r : r = slot[s]
    OBVIOUS
  <2>2. PICK j \in FindJobId(Key(r.link)) :
           \/ End(s)
           \/ r.kind = "apply" /\ slot' = [slot EXCEPT ![s] = [slot[s] EXCEPT !.pc = "check", !.job = j]]
    BY <1>6 DEF SelectExisting
  <2>3. j \in Jobs /\ j \in Nat /\ offers[j].key = Key(r.link) /\ j \in DOMAIN offers
    BY <2>2, OffersAre DEF FindJobId, Jobs
  <2>4. ASSUME r.kind = "apply"
        PROVE  LET x == [r EXCEPT !.pc = "check", !.job = j]
               IN  x \in RequestSet /\ RequestOK(offers, torn, x)
    BY <2>1, <2>3, <2>4 DEF RequestSet, RequestOK, Served
  <2>. QED BY <2>1, <2>2, <2>4 DEF SlotMoves
<1>7. ASSUME NEW s \in Slots, CheckJob(s)
      PROVE  \/ End(s)
             \/ \E x \in RequestSet : SlotMoves(s, x) /\ RequestOK(offers', torn', x)
  <2>1. /\ slot[s] \in RequestSet /\ RequestOK(offers, torn, slot[s]) /\ UNCHANGED <<offers, torn>>
        /\ slot[s].pc = "check"
    BY <1>7, Serving DEF At, CheckJob, tables
  <2>. PICK r : r = slot[s]
    OBVIOUS
  <2>. PICK v : v = status[r.job][r.user]
    OBVIOUS
  <2>2. \/ End(s)
        \/ slot' = [slot EXCEPT ![s] = [slot[s] EXCEPT !.pc = "merge", !.seen = v]]
    BY <1>7 DEF CheckJob
  <2>3. v \in Values
    <3>1. r.job \in DOMAIN status /\ r.user \in Users
      BY <2>1, OffersAre DEF RequestOK, RequestSet, Jobs
    <3>2. status[r.job] \in [Users -> Statuses \cup {Unset}]
      BY <3>1 DEF TablesOK
    <3>. QED BY <3>1, <3>2 DEF Values
  <2>4. LET x == [r EXCEPT !.pc = "merge", !.seen = v]
        IN  x \in RequestSet /\ RequestOK(offers, torn, x)
    BY <2>1, <2>3 DEF RequestSet, RequestOK, Served
  <2>. QED BY <2>1, <2>2, <2>4 DEF SlotMoves
<1>8. CASE \E s \in Slots : \/ Exists(s) \/ InsertRefused(s) \/ SelectExisting(s) \/ CheckJob(s)
                            \/ Insert(s) \/ NothingToSelect(s) \/ Merge(s) \/ WriteUpdate(s)
                            \/ RollBack(s)
  <2>1. PICK s \in Slots :
           \/ End(s)
           \/ \E x \in RequestSet : SlotMoves(s, x) /\ RequestOK(offers', torn', x)
    BY <1>5, <1>6, <1>7, <1>8 DEF Insert, NothingToSelect, Merge, WriteUpdate, RollBack
  <2>. QED BY <1>4, <2>1
<1>9. CASE UNCHANGED jobVars \/ DeleteJob \/ PostHistory \/ OpenHistory \/ ReadPage
           \/ \E u \in Users, j \in Jobs : Delete(u, j)
  BY <1>9 DEF jobVars, DeleteJob, Delete, PostHistory, OpenHistory, ReadPage
<1>. QED BY <1>2, <1>3, <1>8, <1>9 DEF JobsStep, JobsNext, Begin

LEMMA SlotsStep ==
  ASSUME TablesOK, HistoryOrdered, SlotsOK, JobsStep, workload \in Workloads
  PROVE  SlotsOK'
<1>1. slot \in [Slots -> {IdleSlot} \cup RequestSet]
  BY DEF SlotsOK
<1>2. \A t \in Slots : slot'[t] = slot[t] /\ slot[t].pc # "idle" => RequestOK(offers', torn', slot[t])
  BY WaitingKept DEF At
<1>3. CASE UNCHANGED slot
  BY <1>1, <1>2, <1>3 DEF SlotsOK, At
<1>4. ASSUME NEW s \in Slots, NEW x \in {IdleSlot} \cup RequestSet, SlotMoves(s, x),
             x # IdleSlot => RequestOK(offers', torn', x)
      PROVE  SlotsOK'
  <2>1. /\ slot' \in [Slots -> {IdleSlot} \cup RequestSet] /\ slot'[s] = x
        /\ \A t \in Slots : t # s => slot'[t] = slot[t]
    BY <1>1, <1>4 DEF SlotMoves
  <2>2. \A t \in Slots : slot'[t].pc # "idle" => RequestOK(offers', torn', slot'[t])
    BY <1>2, <1>4, <2>1 DEF IdleSlot
  <2>. QED BY <2>1, <2>2 DEF SlotsOK, At
<1>. QED BY <1>3, <1>4, SlotSteps

-----------------------------------------------------------------------------
(* What the history tells of the statuses and of the titles.               *)

\* A step that adds no entry of a kind changes nothing of what this kind tells.
LEMMA ToldAsBefore ==
  ASSUME NEW kind, Extends(history, history'), NEW j, NEW U, NEW v, NEW W,
         Told(history, j, kind, U, v, W),
         NoNew(kind) \/ \E k : k # j /\ OnlyAbout(k)
  PROVE  Told(history', j, kind, U, v, W)
<1>1. \A m \in DOMAIN history' \ DOMAIN history :
         ~(history'[m].job = j /\ history'[m].kind = kind /\ history'[m].user \in U)
  BY DEF NoNew, OnlyAbout
<1>. QED BY <1>1, ToldKept

\* Nothing is told yet of an offering that has just been made.
LEMMA NothingToldYet ==
  ASSUME TablesOK, HistoryOrdered, Extends(history, history'), NEW j, j \notin Jobs, NEW kind, NEW U,
         \A m \in DOMAIN history' \ DOMAIN history :
            ~(history'[m].kind = kind /\ history'[m].user \in U),
         NEW W, NEW v \in W
  PROVE  Told(history', j, kind, U, v, W)
<1>1. Matching(history', j, kind, U) = {}
  BY DEF Matching, Extends, TablesOK
<1>. QED BY <1>1 DEF Told

LEMMA StatusToldStep ==
  ASSUME TablesOK, HistoryOrdered, SlotsOK, StatusTold, JobsStep
  PROVE  StatusTold'
<1>. DEFINE Kind == "status_changed"
<1>1. TablesOK' /\ HistoryOrdered' /\ Extends(history, history') /\ OffersKept
  BY TablesStep
<1>2. ASSUME Jobs' = Jobs, UNCHANGED status, NoNew(Kind)
      PROVE  StatusTold'
  <2>. SUFFICES ASSUME NEW j \in Jobs, NEW u \in Users
                PROVE  Told(history', j, Kind, {u}, status'[j][u], {Unset})
    BY <1>2 DEF StatusTold
  <2>1. Told(history, j, Kind, {u}, status[j][u], {Unset})
    BY DEF StatusTold
  <2>2. Told(history', j, Kind, {u}, status[j][u], {Unset})
    BY <1>1, <1>2, <2>1, ToldAsBefore
  <2>. QED BY <1>2, <2>2
<1>3. CASE UNCHANGED <<tables, torn>>
  <2>1. NoNew(Kind) /\ Jobs' = Jobs
    BY <1>3 DEF tables, NoNew, Jobs
  <2>. QED BY <1>2, <1>3, <2>1 DEF tables
<1>4. CASE (\E s \in Slots : SelectExisting(s) \/ WriteUpdate(s)) \/ PostHistory
           \/ \E u \in Users, j \in Jobs : Delete(u, j)
  <2>1. /\ UNCHANGED status /\ NoNew(Kind)
        /\ UNCHANGED offers \/ (Len(offers') = Len(offers) /\ offers' \in Seq(Offering))
    BY <1>4, SelectTells, UpdateTells, DeleteTells, NoteTells
  <2>2. Jobs' = Jobs
    BY <2>1 DEF Jobs, TablesOK
  <2>. QED BY <1>2, <2>1, <2>2
<1>5. ASSUME NEW s \in Slots, Insert(s)
      PROVE  StatusTold'
  <2>. PICK j, w, to : j = Len(offers) + 1 /\ w = slot[s].user /\ to = slot[s].to
    OBVIOUS
  <2>1. /\ Jobs' = Jobs \cup {j} /\ j \notin Jobs
        /\ \A k \in Jobs : status'[k] = status[k]
        /\ \A u \in Users : status'[j][u] = IF slot[s].kind = "apply" /\ u = w THEN to ELSE Unset
    <3>1. /\ Jobs' = Jobs \cup {j} /\ j \notin Jobs
          /\ \A k \in Jobs : status'[k] = status[k]
      BY <1>5, InsertMakes
    <3>2. FirstRow(status'[j], slot[s])
      BY <1>5, InsertMakes
    <3>. QED BY <3>1, <3>2 DEF FirstRow
  <2>2. /\ OnlyAbout(j)
        /\ slot[s].kind # "apply" => NoNew("status_changed")
        /\ slot[s].kind = "apply" =>
              \E n \in DOMAIN history' \ DOMAIN history :
                 /\ history'[n].job = j /\ history'[n].kind = "status_changed"
                 /\ history'[n].user = w /\ history'[n].to = to
                 /\ \A m \in DOMAIN history' \ DOMAIN history :
                       m = n \/ history'[m].kind # "status_changed"
    BY <1>5, InsertTells
  <2>3. ASSUME NEW k \in Jobs, NEW u \in Users
        PROVE  Told(history', k, Kind, {u}, status'[k][u], {Unset})
    <3>1. Told(history, k, Kind, {u}, status[k][u], {Unset})
      BY DEF StatusTold
    <3>2. Told(history', k, Kind, {u}, status[k][u], {Unset})
      <4>1. k # j
        BY <2>1
      <4>. QED BY <1>1, <2>2, <3>1, <4>1, ToldAsBefore
    <3>. QED BY <2>1, <3>2
  <2>4. ASSUME NEW u \in Users
        PROVE  Told(history', j, Kind, {u}, status'[j][u], {Unset})
    <3>1. CASE slot[s].kind = "apply" /\ u = w
      <4>1. PICK n \in DOMAIN history' \ DOMAIN history :
                 /\ history'[n].job = j /\ history'[n].kind = Kind
                 /\ history'[n].user = w /\ history'[n].to = to
                 /\ \A m \in DOMAIN history' \ DOMAIN history : m = n \/ history'[m].kind # Kind
        BY <2>2, <3>1
      <4>2. DOMAIN history \subseteq Nat /\ n \in Nat
        BY <1>1 DEF TablesOK
      <4>3. Told(history', j, Kind, {u}, history'[n].to, {Unset})
        BY <1>1, <3>1, <4>1, <4>2, ToldNew
      <4>. QED BY <2>1, <3>1, <4>1, <4>3
    <3>2. CASE ~(slot[s].kind = "apply" /\ u = w)
      <4>1. \A m \in DOMAIN history' \ DOMAIN history :
               ~(history'[m].kind = Kind /\ history'[m].user \in {u})
        BY <2>2, <3>2 DEF NoNew
      <4>2. Told(history', j, Kind, {u}, Unset, {Unset})
        BY <1>1, <2>1, <4>1, NothingToldYet
      <4>. QED BY <2>1, <3>2, <4>2
    <3>. QED BY <3>1, <3>2
  <2>. QED BY <2>1, <2>3, <2>4 DEF StatusTold
<1>6. ASSUME NEW s \in Slots, Merge(s)
      PROVE  StatusTold'
  <2>. PICK j, w, to : j = slot[s].job /\ w = slot[s].user /\ to = slot[s].to
    OBVIOUS
  <2>1. /\ j \in Jobs /\ UNCHANGED offers /\ status'[j][w] = to
        /\ \A k \in Jobs, u \in Users : k # j \/ u # w => status'[k][u] = status[k][u]
        /\ OnlyAbout(j)
    BY <1>6, MergeTells
  <2>2. PICK n \in DOMAIN history' \ DOMAIN history :
                   /\ history'[n].kind = "status_changed"
                   /\ history'[n].user = w /\ history'[n].to = to
                   /\ \A m \in DOMAIN history' \ DOMAIN history :
                         m = n \/ history'[m].kind # "status_changed"
    BY <1>6, MergeTells
  <2>3. ASSUME NEW k \in Jobs, NEW u \in Users, k # j \/ u # w
        PROVE  Told(history', k, Kind, {u}, status'[k][u], {Unset})
    <3>1. Told(history, k, Kind, {u}, status[k][u], {Unset})
      BY DEF StatusTold
    <3>2. \A m \in DOMAIN history' \ DOMAIN history :
             ~(history'[m].job = k /\ history'[m].kind = Kind /\ history'[m].user \in {u})
      BY <2>1, <2>2, <2>3 DEF OnlyAbout
    <3>3. Told(history', k, Kind, {u}, status[k][u], {Unset})
      BY <1>1, <3>1, <3>2, ToldKept
    <3>. QED BY <2>1, <2>3, <3>3
  <2>4. Told(history', j, Kind, {w}, status'[j][w], {Unset})
    <3>1. DOMAIN history \subseteq Nat /\ n \in Nat /\ history'[n].job = j
      BY <1>1, <2>1 DEF TablesOK, OnlyAbout
    <3>2. Told(history', j, Kind, {w}, history'[n].to, {Unset})
      BY <1>1, <2>2, <3>1, ToldNew
    <3>. QED BY <2>1, <2>2, <3>2
  <2>5. Jobs' = Jobs
    BY <2>1 DEF Jobs
  <2>. QED BY <2>3, <2>4, <2>5 DEF StatusTold
<1>. QED BY <1>3, <1>4, <1>5, <1>6, TableSteps

LEMMA TitleToldStep ==
  ASSUME TablesOK, HistoryOrdered, SlotsOK, TitleTold, JobsStep
  PROVE  TitleTold'
<1>. DEFINE Kind == "job_updated"
            Begun == {"", "given"}
<1>1. TablesOK' /\ HistoryOrdered' /\ Extends(history, history') /\ OffersKept
  BY TablesStep
<1>2. ASSUME NEW j \in Jobs \ torn', offers'[j].title = offers[j].title,
             NoNew(Kind) \/ \E k : k # j /\ OnlyAbout(k)
      PROVE  Told(history', j, Kind, Users, offers'[j].title, Begun)
  <2>1. Told(history, j, Kind, Users, offers[j].title, Begun)
    BY <1>1 DEF TitleTold, OffersKept
  <2>2. Told(history', j, Kind, Users, offers[j].title, Begun)
    BY <1>1, <1>2, <2>1, ToldAsBefore
  <2>. QED BY <1>2, <2>2
<1>3. CASE UNCHANGED <<tables, torn>>
  <2>1. NoNew(Kind) /\ Jobs' = Jobs /\ \A j \in Jobs : offers'[j].title = offers[j].title
    BY <1>3 DEF tables, NoNew, Jobs
  <2>. QED BY <1>2, <2>1 DEF TitleTold
<1>4. CASE (\E s \in Slots : SelectExisting(s) \/ Merge(s)) \/ PostHistory
           \/ \E u \in Users, j \in Jobs : Delete(u, j)
  <2>1. /\ NoNew(Kind) /\ \A j \in Jobs : offers'[j].title = offers[j].title
        /\ UNCHANGED offers \/ (Len(offers') = Len(offers) /\ offers' \in Seq(Offering))
    BY <1>4, SelectTells, MergeTells, DeleteTells, NoteTells
  <2>2. Jobs' = Jobs
    BY <2>1 DEF Jobs, TablesOK
  <2>. QED BY <1>2, <2>1, <2>2 DEF TitleTold
<1>5. ASSUME NEW s \in Slots, Insert(s)
      PROVE  TitleTold'
  <2>. PICK j : j = Len(offers) + 1
    OBVIOUS
  <2>1. /\ Jobs' = Jobs \cup {j} /\ j \notin Jobs
        /\ \A k \in Jobs : offers'[k] = offers[k]
        /\ offers'[j].title \in Begun
    BY <1>5, InsertMakes
  <2>2. NoNew("job_updated")
    BY <1>5, InsertTells
  <2>3. \A m \in DOMAIN history' \ DOMAIN history :
           ~(history'[m].kind = Kind /\ history'[m].user \in Users)
    BY <2>2 DEF NoNew
  <2>4. Told(history', j, Kind, Users, offers'[j].title, Begun)
    BY <1>1, <2>1, <2>3, NothingToldYet
  <2>. QED BY <1>2, <2>1, <2>2, <2>4 DEF TitleTold
<1>6. ASSUME NEW s \in Slots, WriteUpdate(s)
      PROVE  TitleTold'
  <2>. PICK j, w, to : j = slot[s].job /\ w = slot[s].user /\ to = slot[s].to
    OBVIOUS
  <2>1. /\ j \in Jobs /\ w \in Users
        /\ j \notin torn => slot[s].seen = offers[j].title
        /\ offers' \in Seq(Offering) /\ Len(offers') = Len(offers)
        /\ offers'[j].title = to
        /\ \A k \in Jobs : k # j => offers'[k].title = offers[k].title
        /\ torn \subseteq torn' /\ OnlyAbout(j)
    BY <1>6, UpdateTells
  <2>2. \/ UNCHANGED history /\ slot[s].seen = to
        \/ \E n \in DOMAIN history' \ DOMAIN history :
              /\ history'[n].kind = "job_updated"
              /\ history'[n].user = w /\ history'[n].to = to
              /\ \A m \in DOMAIN history' \ DOMAIN history : m = n
    BY <1>6, UpdateTells
  <2>3. Jobs' = Jobs
    BY <2>1 DEF Jobs, TablesOK
  <2>4. ASSUME j \notin torn'
        PROVE  Told(history', j, Kind, Users, offers'[j].title, Begun)
    <3>1. CASE UNCHANGED history /\ slot[s].seen = to
      <4>1. NoNew(Kind) /\ offers'[j].title = offers[j].title
        BY <2>1, <2>4, <3>1 DEF NoNew
      <4>. QED BY <1>2, <2>1, <2>4, <4>1
    <3>2. CASE \E n \in DOMAIN history' \ DOMAIN history :
                  /\ history'[n].kind = Kind
                  /\ history'[n].user = w /\ history'[n].to = to
                  /\ \A m \in DOMAIN history' \ DOMAIN history : m = n
      <4>1. PICK n \in DOMAIN history' \ DOMAIN history :
                  /\ history'[n].kind = Kind
                  /\ history'[n].user = w /\ history'[n].to = to
                  /\ \A m \in DOMAIN history' \ DOMAIN history : m = n
        BY <3>2
      <4>2. DOMAIN history \subseteq Nat /\ n \in Nat /\ history'[n].job = j
        BY <1>1, <2>1 DEF TablesOK, OnlyAbout
      <4>3. Told(history', j, Kind, Users, history'[n].to, Begun)
        BY <1>1, <2>1, <4>1, <4>2, ToldNew
      <4>. QED BY <2>1, <4>1, <4>3
    <3>. QED BY <2>2, <3>1, <3>2
  <2>5. ASSUME NEW k \in Jobs \ torn', k # j
        PROVE  Told(history', k, Kind, Users, offers'[k].title, Begun)
    BY <1>2, <2>1, <2>5
  <2>. QED BY <2>3, <2>4, <2>5 DEF TitleTold
<1>. QED BY <1>3, <1>4, <1>5, <1>6, TableSteps

-----------------------------------------------------------------------------
(* A client that reads the history page by page.                           *)

LEMMA HasLeast ==
  ASSUME NEW S, S \subseteq Nat, S # {}
  PROVE  \E x \in S : \A y \in S : x <= y
<1>1. PICK x \in S : \A y \in S : ~(<<y, x>> \in OpToRel(<, Nat))
  BY NatLessThanWellFounded, WFMin
<1>2. \A y \in S : ~(y < x)
  BY <1>1 DEF OpToRel
<1>. QED BY <1>2

LEMMA HasGreatest ==
  ASSUME NEW S, S \subseteq Nat, S # {}, NEW n \in Nat, \A x \in S : x <= n
  PROVE  \E x \in S : \A y \in S : y <= x
<1>. DEFINE D == {n - x : x \in S}
<1>1. D \subseteq Nat /\ D # {}
  <2>1. \A x \in S : n - x \in Nat
    <3>1. ASSUME NEW x \in S PROVE n - x \in Nat
      <4>1. x \in Nat /\ x <= n
        OBVIOUS
      <4>. QED BY <4>1
    <3>. QED BY <3>1
  <2>. QED BY <2>1
<1>2. PICK d \in D : \A e \in D : d <= e
  BY <1>1, HasLeast
<1>3. PICK x \in S : d = n - x
  BY <1>2
<1>4. \A y \in S : n - y \in D
  OBVIOUS
<1>5. ASSUME NEW y \in S
      PROVE  y <= x
  BY <1>2, <1>3, <1>4, <1>5
<1>. QED BY <1>5

LEMMA Monotone ==
  ASSUME NEW g \in Nat, NEW a \in Nat, NEW b \in Nat, a <= b
  PROVE  g * a <= g * b
OBVIOUS

\* A truncated tick is a whole number of units, less than one below the tick.
LEMMA WholeUnits ==
  ASSUME NEW a \in Nat
  PROVE  \E q \in Nat : /\ Truncated(a) = Grain * q /\ Grain * q \in Nat
                        /\ Grain * q <= a /\ a < Grain * q + Grain
<1>1. Grain \in Nat /\ Grain > 0
  BY PageAssumption
<1>2. a % Grain \in 0 .. Grain - 1 /\ a \div Grain \in Nat
      /\ a = Grain * (a \div Grain) + (a % Grain)
  BY <1>1
<1>. DEFINE q == a \div Grain
<1>3. q \in Nat /\ Grain * q \in Nat
  BY <1>1, <1>2
<1>. HIDE DEF q
<1>4. a = Grain * q + (a % Grain)
  BY <1>2 DEF q
<1>. QED BY <1>1, <1>2, <1>3, <1>4 DEF Truncated

LEMMA SameUnit ==
  ASSUME NEW a \in Nat, NEW b \in Nat, Truncated(b) <= a, a <= b
  PROVE  Truncated(a) = Truncated(b)
<1>0. Grain \in Nat /\ Grain > 0
  BY PageAssumption
<1>1. PICK q \in Nat : Truncated(a) = Grain * q /\ Grain * q \in Nat
                        /\ Grain * q <= a /\ a < Grain * q + Grain
  BY WholeUnits
<1>2. PICK p \in Nat : Truncated(b) = Grain * p /\ Grain * p \in Nat
                        /\ Grain * p <= b /\ b < Grain * p + Grain
  BY WholeUnits
<1>3. ~(q + 1 <= p)
  <2>1. ASSUME q + 1 <= p PROVE FALSE
    <3>1. Grain * (q + 1) <= Grain * p
      BY <1>0, <2>1, Monotone
    <3>2. Grain * (q + 1) = Grain * q + Grain
      BY <1>0
    <3>. QED BY <1>0, <1>1, <1>2, <3>1, <3>2
  <2>. QED BY <2>1
<1>4. ~(p + 1 <= q)
  <2>1. ASSUME p + 1 <= q PROVE FALSE
    <3>1. Grain * (p + 1) <= Grain * q
      BY <1>0, <2>1, Monotone
    <3>2. Grain * (p + 1) = Grain * p + Grain
      BY <1>0
    <3>. QED BY <1>0, <1>1, <1>2, <3>1, <3>2
  <2>. QED BY <2>1
<1>5. p = q
  BY <1>3, <1>4
<1>. QED BY <1>1, <1>2, <1>5

\* A page is a run of entries at the end of those that are left: what is left
\* over lies before all of it, and a page of something is not empty.
PageOf(left) == {i \in left : Cardinality({k \in left : k > i}) < PageSize}

LEMMA PageIsTheEnd ==
  ASSUME NEW left, left \subseteq Nat, NEW n \in Nat, \A i \in left : i <= n, left # {}
  PROVE  /\ PageOf(left) # {} /\ PageOf(left) \subseteq left
         /\ \A i \in left \ PageOf(left), p \in PageOf(left) : i < p
<1>1. IsFiniteSet(left)
  BY FS_BoundedSetOfNaturals
<1>2. PICK m \in left : \A k \in left : k <= m
  BY HasGreatest
<1>3. {k \in left : k > m} = {}
  <2>1. \A k \in left : k \in Nat /\ k <= m
    BY <1>2
  <2>2. m \in Nat /\ \A k \in left : ~(k > m)
    BY <2>1
  <2>. QED BY <2>2
<1>4. m \in PageOf(left)
  BY <1>3, FS_EmptySet, PageAssumption DEF PageOf
<1>5. ASSUME NEW i \in left, NEW p \in PageOf(left), p <= i
      PROVE  i \in PageOf(left)
  <2>. DEFINE I == {k \in left : k > i}
              P == {k \in left : k > p}
  <2>1. I \subseteq P /\ P \subseteq left
    <3>1. \A k \in left : k > i => k > p
      <4>1. i \in Nat /\ p \in Nat /\ p <= i /\ \A k \in left : k \in Nat
        BY <1>5 DEF PageOf
      <4>. QED BY <4>1
    <3>. QED BY <3>1
  <2>2. IsFiniteSet(P) /\ IsFiniteSet(I)
    BY <1>1, <2>1, FS_Subset
  <2>3. Cardinality(I) <= Cardinality(P) /\ Cardinality(I) \in Nat /\ Cardinality(P) \in Nat
    BY <2>1, <2>2, FS_Subset, FS_CardinalityType
  <2>4. Cardinality(P) < PageSize
    BY DEF PageOf
  <2>5. Cardinality(I) < PageSize
    BY <2>3, <2>4, PageAssumption
  <2>. QED BY <2>5 DEF PageOf
<1>6. ASSUME NEW i \in left \ PageOf(left), NEW p \in PageOf(left)
      PROVE  i < p
  BY <1>5, <1>6 DEF PageOf
<1>. QED BY <1>4, <1>6 DEF PageOf

\* The history grows, and the client knows what it knew.
LEMMA ReaderWaits ==
  ASSUME NEW h, NEW g, Extends(h, g), NEW J, NEW K, J \subseteq K, NEW r, ReadSoFar(h, J, r)
  PROVE  ReadSoFar(g, K, r)
<1>1. DOMAIN h \subseteq DOMAIN g /\ \A i \in DOMAIN h : g[i] = h[i]
  BY DEF Extends
<1>2. r.start \subseteq DOMAIN h /\ r.seen \subseteq DOMAIN h /\ r.ends \subseteq DOMAIN h
  BY DEF ReadSoFar
<1>3. r \in [job : K, cursor : [ts : Nat, id : Nat], start : SUBSET DOMAIN g,
             seen : SUBSET DOMAIN g, ends : SUBSET DOMAIN g, twice : {FALSE}, over : BOOLEAN]
  <2>1. SUBSET DOMAIN h \subseteq SUBSET DOMAIN g
    BY <1>1
  <2>. QED BY <2>1 DEF ReadSoFar
<1>4. \A i \in DOMAIN h : Before(g, r.cursor, i) <=> Before(h, r.cursor, i)
  BY <1>1 DEF Before
<1>5. \A i \in DOMAIN h : AtEnd(h, r, i) => AtEnd(g, r, i)
  BY <1>1, <1>2 DEF AtEnd
<1>6. \A i \in r.start : g[i].job = r.job
  BY <1>1, <1>2 DEF ReadSoFar
<1>7. \A i \in r.seen : ~Before(g, r.cursor, i)
  <2>1. \A i \in r.seen : ~Before(h, r.cursor, i)
    BY DEF ReadSoFar
  <2>. QED BY <1>2, <1>4, <2>1
<1>8. \A i \in r.start : i \in r.seen \/ AtEnd(g, r, i) \/ (~r.over /\ Before(g, r.cursor, i))
  <2>1. \A i \in r.start : i \in r.seen \/ AtEnd(h, r, i) \/ (~r.over /\ Before(h, r.cursor, i))
    BY DEF ReadSoFar
  <2>. QED BY <1>2, <1>4, <1>5, <2>1
<1>. QED BY <1>3, <1>6, <1>7, <1>8 DEF ReadSoFar

\* A client that begins stands after all there is.
LEMMA ReaderBegins ==
  ASSUME history \in Seq(HistoryEntry), HistoryOrdered, NEW j \in Jobs
  PROVE  ReadSoFar(history, Jobs,
                   [job |-> j, cursor |-> [ts |-> LastTick + 2, id |-> 0], start |-> EntriesOf(j),
                    seen |-> {}, ends |-> {}, twice |-> FALSE, over |-> FALSE])
<1>1. LastTick \in Nat /\ \A i \in DOMAIN history : history[i].ts <= LastTick
  BY LastTickIsLatest
<1>2. \A i \in DOMAIN history : history[i].ts \in Nat
  <2>1. \A i \in DOMAIN history : history[i] \in HistoryEntry
    OBVIOUS
  <2>. QED BY <2>1 DEF HistoryEntry
<1>. DEFINE c == [ts |-> LastTick + 2, id |-> 0]
<1>3. c \in [ts : Nat, id : Nat] /\ c.ts = LastTick + 2
  BY <1>1
<1>. HIDE DEF c
<1>4. \A i \in DOMAIN history : Before(history, c, i)
  BY <1>1, <1>2, <1>3 DEF Before
<1>5. EntriesOf(j) \subseteq DOMAIN history /\ \A i \in EntriesOf(j) : history[i].job = j
  BY DEF EntriesOf
<1>. DEFINE r == [job |-> j, cursor |-> c, start |-> EntriesOf(j),
                  seen |-> {}, ends |-> {}, twice |-> FALSE, over |-> FALSE]
<1>6. ReadSoFar(history, Jobs, r)
  BY <1>3, <1>4, <1>5 DEF ReadSoFar
<1>. QED BY <1>6 DEF c

\* After a page the client has been shown the page; what it will not be shown any
\* more although it was not, shares its unit of time with the page's end.
LEMMA ReaderGoesOn ==
  ASSUME history \in Seq(HistoryEntry), HistoryOrdered, NEW J, NEW r, ReadSoFar(history, J, r),
         ~r.over,
         NEW left, left = {i \in EntriesOf(r.job) : After(r.cursor, i)},
         NEW page, page = PageOf(left),
         NEW end, end \in page, \A k \in page : end <= k,
         NEW q, q = [r EXCEPT !.cursor = MakeCursor(end), !.seen = r.seen \cup page,
                              !.ends = r.ends \cup {end},
                              !.twice = r.twice \/ page \cap r.seen # {}]
  PROVE  ReadSoFar(history, J, q)
<1>1. /\ DOMAIN history \subseteq Nat
      /\ \A i \in DOMAIN history : i <= Len(history)
      /\ \A i \in DOMAIN history : history[i] \in HistoryEntry
      /\ Len(history) \in Nat
  OBVIOUS
<1>2. \A i \in DOMAIN history : history[i].ts \in Nat
  BY <1>1 DEF HistoryEntry
<1>3. /\ left \subseteq DOMAIN history
      /\ \A i \in DOMAIN history : i \in left <=> (history[i].job = r.job /\ Before(history, r.cursor, i))
  BY DEF EntriesOf, After, Before
<1>4. left # {} /\ page \subseteq left
  BY DEF PageOf
<1>5. \A i \in left \ page, p \in page : i < p
  BY <1>1, <1>3, <1>4, PageIsTheEnd
<1>6. /\ r \in [job : J, cursor : [ts : Nat, id : Nat], start : SUBSET DOMAIN history,
                seen : SUBSET DOMAIN history, ends : SUBSET DOMAIN history, twice : {FALSE}, over : BOOLEAN]
      /\ \A i \in r.start : history[i].job = r.job
      /\ \A i \in r.seen : ~Before(history, r.cursor, i)
      /\ \A i \in r.start : i \in r.seen \/ AtEnd(history, r, i) \/ Before(history, r.cursor, i)
  BY DEF ReadSoFar
<1>7. end \in DOMAIN history /\ end \in Nat /\ history[end].ts \in Nat
      /\ Before(history, r.cursor, end)
  BY <1>1, <1>2, <1>3, <1>4
<1>8. Truncated(history[end].ts) \in Nat /\ Truncated(history[end].ts) <= history[end].ts
  <2>. PICK a : a = history[end].ts
    OBVIOUS
  <2>1. \E w \in Nat : /\ Truncated(a) = Grain * w /\ Grain * w \in Nat /\ Grain * w <= a
    BY <1>7, WholeUnits
  <2>. QED BY <2>1
<1>. DEFINE c == MakeCursor(end)
<1>9. c \in [ts : Nat, id : Nat] /\ c.ts = Truncated(history[end].ts) /\ c.id = end
  BY <1>7, <1>8 DEF MakeCursor
<1>10. page \cap r.seen = {}
  BY <1>3, <1>4, <1>6
<1>11. /\ q \in [job : J, cursor : [ts : Nat, id : Nat], start : SUBSET DOMAIN history,
                 seen : SUBSET DOMAIN history, ends : SUBSET DOMAIN history, twice : {FALSE}, over : BOOLEAN]
       /\ q.job = r.job /\ q.cursor = c /\ q.start = r.start /\ q.seen = r.seen \cup page
       /\ q.ends = r.ends \cup {end} /\ q.over = FALSE
  <2>1. r.seen \cup page \subseteq DOMAIN history /\ r.ends \cup {end} \subseteq DOMAIN history
    BY <1>3, <1>4, <1>6, <1>7
  <2>. HIDE DEF c
  <2>. PICK S, E, H : S = r.seen \cup page /\ E = r.ends \cup {end} /\ H = SUBSET DOMAIN history
    OBVIOUS
  <2>2. q = [r EXCEPT !.cursor = c, !.seen = S, !.ends = E, !.twice = FALSE]
    BY <1>6, <1>10 DEF c
  <2>3. S \in H /\ E \in H /\ c \in [ts : Nat, id : Nat]
    BY <1>9, <2>1
  <2>4. r \in [job : J, cursor : [ts : Nat, id : Nat], start : H, seen : H, ends : H,
                twice : {FALSE}, over : BOOLEAN]
    BY <1>6
  <2>5. q \in [job : J, cursor : [ts : Nat, id : Nat], start : H, seen : H, ends : H,
                twice : {FALSE}, over : BOOLEAN]
    BY <2>2, <2>3, <2>4
  <2>6. /\ q.job = r.job /\ q.cursor = c /\ q.start = r.start /\ q.seen = S
        /\ q.ends = E /\ q.over = r.over
    BY <2>2, <2>4
  <2>7. r.over = FALSE
    BY <2>4
  <2>. QED BY <2>5, <2>6, <2>7
<1>. HIDE DEF c
<1>12. ASSUME NEW i \in q.seen
       PROVE  ~Before(history, c, i)
  <2>1. i \in Nat /\ i \in DOMAIN history /\ history[i].ts \in Nat
    BY <1>1, <1>2, <1>6, <1>11
  <2>2. CASE i \in page
    <3>1. end <= i
      BY <2>2
    <3>2. history[end].ts <= history[i].ts
      BY <1>7, <2>1, <3>1 DEF HistoryOrdered
    <3>. QED BY <1>7, <1>8, <1>9, <2>1, <3>1, <3>2 DEF Before
  <2>3. CASE i \in r.seen
    <3>1. ~Before(history, r.cursor, i) /\ r.cursor.ts \in Nat /\ r.cursor.id \in Nat
      BY <1>6, <2>3
    <3>. QED BY <1>7, <1>8, <1>9, <2>1, <3>1 DEF Before
  <2>. QED BY <1>11, <2>2, <2>3
<1>13. ASSUME NEW i \in r.start, i \notin q.seen, ~AtEnd(history, q, i)
       PROVE  Before(history, c, i)
  <2>1. i \in Nat /\ i \in DOMAIN history /\ history[i].ts \in Nat
    BY <1>1, <1>2, <1>6
  <2>2. ~AtEnd(history, r, i) /\ Truncated(history[i].ts) # Truncated(history[end].ts)
    BY <1>11, <1>13 DEF AtEnd
  <2>3. i \in left \ page
    BY <1>3, <1>6, <1>11, <1>13, <2>1, <2>2
  <2>4. i < end /\ history[i].ts <= history[end].ts
    BY <1>5, <1>7, <2>1, <2>3 DEF HistoryOrdered
  <2>5. ~(Truncated(history[end].ts) <= history[i].ts)
    <3>. PICK a, b : a = history[i].ts /\ b = history[end].ts
      OBVIOUS
    <3>. QED BY <1>7, <2>1, <2>2, <2>4, SameUnit
  <2>. QED BY <1>8, <1>9, <2>1, <2>5 DEF Before
<1>. QED BY <1>6, <1>11, <1>12, <1>13 DEF ReadSoFar

\* An empty page is the end: nothing is left.
LEMMA ReaderEnds ==
  ASSUME history \in Seq(HistoryEntry), NEW J, NEW r, ReadSoFar(history, J, r), ~r.over,
         PageOf({i \in EntriesOf(r.job) : After(r.cursor, i)}) = {}
  PROVE  ReadSoFar(history, J, [r EXCEPT !.over = TRUE])
<1>. DEFINE left == {i \in EntriesOf(r.job) : After(r.cursor, i)}
<1>1. left \subseteq DOMAIN history
  BY DEF EntriesOf
<1>2. Len(history) \in Nat /\ DOMAIN history \subseteq Nat /\ \A i \in DOMAIN history : i <= Len(history)
  OBVIOUS
<1>3. left = {}
  <2>. HIDE DEF left
  <2>1. left \subseteq Nat /\ \A i \in left : i <= Len(history)
    BY <1>1, <1>2
  <2>2. PageOf(left) = {}
    BY DEF left
  <2>. QED BY <1>2, <2>1, <2>2, PageIsTheEnd
<1>4. \A i \in r.start : ~Before(history, r.cursor, i)
  BY <1>3 DEF EntriesOf, After, Before, ReadSoFar
<1>. PICK q : q = [r EXCEPT !.over = TRUE]
  OBVIOUS
<1>5. /\ q \in [job : J, cursor : [ts : Nat, id : Nat], start : SUBSET DOMAIN history,
                seen : SUBSET DOMAIN history, ends : SUBSET DOMAIN history, twice : {FALSE}, over : BOOLEAN]
      /\ q.job = r.job /\ q.cursor = r.cursor /\ q.start = r.start /\ q.seen = r.seen
      /\ q.ends = r.ends
  BY DEF ReadSoFar
<1>6. ReadSoFar(history, J, q)
  BY <1>4, <1>5 DEF ReadSoFar, AtEnd
<1>. QED BY <1>6

LEMMA ReaderStep ==
  ASSUME TablesOK, HistoryOrdered, SlotsOK, ReaderOK, JobsStep
  PROVE  ReaderOK'
<1>1. Extends(history, history') /\ Jobs \subseteq Jobs'
  BY TablesStep DEF OffersKept
<1>2. CASE UNCHANGED reader
  <2>1. ReaderOK' = (reader.job # NoJob => ReadSoFar(history', Jobs', reader))
    BY <1>2 DEF ReaderOK
  <2>. QED BY <1>1, <2>1, ReaderWaits DEF ReaderOK
<1>3. CASE OpenHistory
  <2>1. PICK j \in Jobs :
           reader' = [job |-> j, cursor |-> [ts |-> LastTick + 2, id |-> 0], start |-> EntriesOf(j),
                      seen |-> {}, ends |-> {}, twice |-> FALSE, over |-> FALSE]
    BY <1>3 DEF OpenHistory
  <2>2. ReadSoFar(history, Jobs, reader')
    BY <2>1, ReaderBegins DEF TablesOK
  <2>3. ReadSoFar(history', Jobs', reader')
    BY <1>1, <2>2, ReaderWaits
  <2>. QED BY <2>3 DEF ReaderOK
<1>4. CASE ReadPage
  <2>. PICK r : r = reader
    OBVIOUS
  <2>. DEFINE left == {i \in EntriesOf(r.job) : After(r.cursor, i)}
              page == PageOf(left)
              end == CHOOSE i \in page : \A k \in page : i <= k
  <2>1. /\ ReadSoFar(history, Jobs, r) /\ ~r.over /\ history \in Seq(HistoryEntry)
        /\ reader' = IF page = {} THEN [r EXCEPT !.over = TRUE]
                     ELSE [r EXCEPT !.cursor = MakeCursor(end),
                                    !.seen = r.seen \cup page,
                                    !.ends = r.ends \cup {end},
                                    !.twice = r.twice \/ page \cap r.seen # {}]
    BY <1>4 DEF ReadPage, ReaderOK, TablesOK, PageOf
  <2>2. page # {} => end \in page /\ \A k \in page : end <= k
    <3>1. page \subseteq Nat
      BY <2>1 DEF PageOf, EntriesOf
    <3>. HIDE DEF page
    <3>. QED BY <3>1, HasLeast
  <2>. HIDE DEF left, page, end
  <2>3. ReadSoFar(history, Jobs, reader')
    <3>1. CASE page = {}
      <4>1. ReadSoFar(history, Jobs, [r EXCEPT !.over = TRUE])
        BY <2>1, <3>1, ReaderEnds DEF page, left
      <4>. QED BY <2>1, <3>1, <4>1
    <3>2. CASE page # {}
      <4>1. left = {i \in EntriesOf(r.job) : After(r.cursor, i)} /\ page = PageOf(left)
        BY DEF left, page
      <4>. PICK q : q = [r EXCEPT !.cursor = MakeCursor(end), !.seen = r.seen \cup page,
                                  !.ends = r.ends \cup {end},
                                  !.twice = r.twice \/ page \cap r.seen # {}]
        OBVIOUS
      <4>. PICK J : J = Jobs
        OBVIOUS
      <4>2. ReadSoFar(history, J, r)
        BY <2>1
      <4>3. ReadSoFar(history, J, q)
        BY <2>1, <2>2, <3>2, <4>1, <4>2, ReaderGoesOn DEF TablesOK
      <4>. QED BY <2>1, <3>2, <4>3
    <3>. QED BY <3>1, <3>2
  <2>4. ReadSoFar(history', Jobs', reader')
    BY <1>1, <2>3, ReaderWaits
  <2>. QED BY <2>4 DEF ReaderOK
<1>5. UNCHANGED reader \/ OpenHistory \/ ReadPage
  BY DEF JobsStep, JobsNext, jobVars, Begin, CreateJob, ProxyCreateJob, ApplyByUrl, PutStatus,
         UpdateJob, Exists, Insert, InsertRefused, SelectExisting, NothingToSelect, CheckJob,
         Merge, WriteUpdate, RollBack, DeleteJob, Delete, PostHistory
<1>. QED BY <1>2, <1>3, <1>4, <1>5

-----------------------------------------------------------------------------
(* The stock the offerings begin with, and all steps.                      *)

LEMMA Halves ==
  ASSUME NEW n \in Nat, NEW i \in 1 .. 2 * n
  PROVE  /\ (i + 1) \div 2 \in 1 .. n
         /\ \A k \in 1 .. 2 * n : i <= k => (i + 1) \div 2 <= (k + 1) \div 2
OBVIOUS

LEMMA JobsInvInit ==
  ASSUME workload \in Workloads, JobsInit
  PROVE  JobsInv
<1>. DEFINE stock == workload.stock
            n == Len(stock)
<1>1. /\ stock \in Seq(Links) /\ workload.to \in Statuses
      /\ \A i, k \in DOMAIN stock : Key(stock[i]) = Key(stock[k]) => i = k
  BY StockAssumption
<1>. PICK to : to = workload.to
  OBVIOUS
<1>. DEFINE Old(u, j) == Fresh(Request("insert", "create", u, stock[j], NoJob, Unset))
            Row(u) == [x \in Users |-> IF x = u THEN to ELSE Unset]
            Told1(u, i) == LET j == (i + 1) \div 2 IN
                   IF i % 2 = 1 THEN Entry(j, j, "job_created", u, Unset)
                                ELSE Entry(j, j, "status_changed", u, to)
<1>2. PICK u \in Users :
            /\ offers = [j \in 1 .. n |-> Old(u, j)]
            /\ status = [j \in 1 .. n |-> Row(u)]
            /\ history = [i \in 1 .. 2 * n |-> Told1(u, i)]
            /\ slot = [s \in Slots |-> IdleSlot]
            /\ reader = [job |-> NoJob]
            /\ answers = {<<j, stock[j]>> : j \in 1 .. n}
            /\ torn = {}
  BY DEF JobsInit
<1>3. n \in Nat /\ DOMAIN stock = 1 .. n /\ \A j \in 1 .. n : stock[j] \in Links
  BY <1>1
<1>. HIDE DEF stock, n
<1>4. \A j \in 1 .. n : /\ Old(u, j) \in Offering /\ Old(u, j).key = Key(stock[j])
                        /\ Old(u, j).title = "given" /\ Old(u, j).deleted = FALSE
  <2>1. ASSUME NEW j \in 1 .. n, NEW l, l = stock[j]
        PROVE  LET o == Fresh(Request("insert", "create", u, l, NoJob, Unset))
               IN  o \in Offering /\ o.key = Key(l) /\ o.title = "given" /\ o.deleted = FALSE
    <3>1. l \in Links
      BY <1>3, <2>1
    <3>. QED BY <3>1 DEF Fresh, Request, Offering, Names
  <2>. QED BY <2>1
<1>5. Row(u) \in [Users -> Statuses \cup {Unset}] /\ \A x \in Users : Row(u)[x] = IF x = u THEN to ELSE Unset
  BY <1>1
<1>6. \A i \in 1 .. 2 * n :
         /\ Told1(u, i) \in HistoryEntry /\ Told1(u, i).ts = (i + 1) \div 2
         /\ Told1(u, i).job = (i + 1) \div 2 /\ Told1(u, i).user = u
         /\ i % 2 = 1 => Told1(u, i).kind = "job_created"
         /\ i % 2 # 1 => Told1(u, i).kind = "status_changed" /\ Told1(u, i).to = to
  <2>1. ASSUME NEW i \in 1 .. 2 * n, NEW j, j = (i + 1) \div 2
        PROVE  LET e == IF i % 2 = 1 THEN Entry(j, j, "job_created", u, Unset)
                                     ELSE Entry(j, j, "status_changed", u, to)
               IN  /\ e \in HistoryEntry /\ e.ts = j /\ e.job = j /\ e.user = u
                   /\ i % 2 = 1 => e.kind = "job_created"
                   /\ i % 2 # 1 => e.kind = "status_changed" /\ e.to = to
    <3>1. j \in Nat
      BY <1>3, <2>1, Halves
    <3>2. "job_created" \in Events /\ "status_changed" \in Events /\ to \in Values /\ Unset \in Values
      BY <1>1 DEF Events, Values
    <3>. QED BY <3>1, <3>2 DEF Entry, HistoryEntry
  <2>. QED BY <2>1
<1>. HIDE DEF Old, Row, Told1
<1>7. Jobs = 1 .. n
  BY <1>2 DEF Jobs
<1>8. \A i \in 1 .. 2 * n : (i + 1) \div 2 \in 1 .. n
  BY <1>3, Halves
<1>9. DOMAIN history = 1 .. 2 * n /\ \A i \in 1 .. 2 * n : history[i] = Told1(u, i)
  BY <1>2
<1>10. TablesOK
  <2>1. offers \in Seq(Offering) /\ Len(offers) = n
    BY <1>2, <1>3, <1>4
  <2>. PICK Y, y : Y = [Users -> Statuses \cup {Unset}] /\ y = Row(u)
    OBVIOUS
  <2>2. status \in Seq(Y) /\ Len(status) = n
    <3>1. y \in Y /\ status = [j \in 1 .. n |-> y]
      BY <1>2, <1>5
    <3>. QED BY <1>3, <3>1
  <2>3. history \in Seq(HistoryEntry)
    <3>. PICK d : d = 2 * n
      OBVIOUS
    <3>1. d \in Nat /\ \A i \in 1 .. d : Told1(u, i) \in HistoryEntry
      BY <1>3, <1>6
    <3>2. history = [i \in 1 .. d |-> Told1(u, i)]
      BY <1>2
    <3>. QED BY <3>1, <3>2
  <2>4. \A i \in DOMAIN history : history[i].job \in Jobs
    BY <1>6, <1>7, <1>8, <1>9
  <2>. QED BY <1>2, <2>1, <2>2, <2>3, <2>4 DEF TablesOK
<1>11. HistoryOrdered
  <2>1. \A i, k \in 1 .. 2 * n : i <= k => (i + 1) \div 2 <= (k + 1) \div 2
    BY <1>3, Halves
  <2>. QED BY <1>6, <1>9, <2>1 DEF HistoryOrdered
<1>12. SlotsOK
  BY <1>2 DEF SlotsOK, At, IdleSlot
<1>13. KeysUnique
  <2>1. \A j \in Jobs : offers[j].key = Key(stock[j])
    BY <1>2, <1>4, <1>7
  <2>2. \A j, k \in Jobs : Key(stock[j]) = Key(stock[k]) => j = k
    BY <1>1, <1>3, <1>7
  <2>. QED BY <2>1, <2>2 DEF KeysUnique
<1>14. AnswersNameKey
  BY <1>2, <1>3, <1>4, <1>7 DEF AnswersNameKey
<1>15. StatusTold
  <2>. SUFFICES ASSUME NEW j \in 1 .. n, NEW x \in Users
                PROVE  Told(history, j, "status_changed", {x}, status[j][x], {Unset})
    BY <1>7 DEF StatusTold
  <2>1. status[j][x] = IF x = u THEN to ELSE Unset
    BY <1>2, <1>5
  <2>2. \A i \in 1 .. 2 * n : i % 2 # 1 => history[i].to = to
    BY <1>6, <1>9
  <2>3. \A i \in 1 .. 2 * n : history[i].kind = "status_changed" => i % 2 # 1
    BY <1>6, <1>9
  <2>4. CASE x = u
    <3>1. 2 * j \in 1 .. 2 * n /\ (2 * j + 1) \div 2 = j /\ (2 * j) % 2 # 1
      BY <1>3
    <3>2. 2 * j \in Matching(history, j, "status_changed", {x})
      <4>. PICK i : i = 2 * j
        OBVIOUS
      <4>1. i \in 1 .. 2 * n /\ (i + 1) \div 2 = j /\ i % 2 # 1
        BY <3>1
      <4>. QED BY <1>6, <1>9, <2>4, <4>1 DEF Matching
    <3>3. \A i \in Matching(history, j, "status_changed", {x}) : history[i].to = to
      BY <1>9, <2>2, <2>3 DEF Matching
    <3>. QED BY <2>1, <2>4, <3>2, <3>3 DEF Told
  <2>5. CASE x # u
    <3>1. Matching(history, j, "status_changed", {x}) = {}
      BY <1>6, <1>9, <2>5 DEF Matching
    <3>. QED BY <2>1, <2>5, <3>1 DEF Told
  <2>. QED BY <2>4, <2>5
<1>16. TitleTold
  <2>1. \A i \in 1 .. 2 * n : history[i].kind # "job_updated"
    BY <1>6, <1>9
  <2>2. \A j \in Jobs : Matching(history, j, "job_updated", Users) = {}
    BY <1>9, <2>1 DEF Matching
  <2>3. \A j \in Jobs : offers[j].title = "given"
    BY <1>2, <1>4, <1>7
  <2>. QED BY <2>2, <2>3 DEF TitleTold, Told
<1>17. ReaderOK
  BY <1>2 DEF ReaderOK
<1>. QED BY <1>10, <1>11, <1>12, <1>13, <1>14, <1>15, <1>16, <1>17 DEF JobsInv

LEMMA JobsInvStep ==
  ASSUME workload \in Workloads, JobsInv, JobsStep
  PROVE  JobsInv'
<1>1. TablesOK' /\ HistoryOrdered'
  BY TablesStep DEF JobsInv
<1>2. SlotsOK'
  BY SlotsStep DEF JobsInv
<1>3. KeysUnique' /\ AnswersNameKey'
  BY KeysUniqueStep, AnswersStep DEF JobsInv
<1>4. StatusTold' /\ TitleTold'
  BY StatusToldStep, TitleToldStep DEF JobsInv
<1>5. ReaderOK'
  BY ReaderStep DEF JobsInv
<1>. QED BY <1>1, <1>2, <1>3, <1>4, <1>5 DEF JobsInv

-----------------------------------------------------------------------------
(* What the invariant says of the properties.                              *)

LEMMA JobsTypes ==
  ASSUME JobsInv
  PROVE  JobsTypeOK
<1>1. TablesOK /\ SlotsOK /\ ReaderOK /\ AnswersNameKey
  BY DEF JobsInv
<1>2. offers \in Seq([key : {Key(l) : l \in Links}, title : Titles \cup {"", "given"},
                      by : Users, deleted : BOOLEAN])
  BY <1>1 DEF TablesOK, Offering, Names
<1>3. status \in [Jobs -> [Users -> Statuses \cup {Unset}]]
  <2>. PICK Y : Y = [Users -> Statuses \cup {Unset}]
    OBVIOUS
  <2>1. status \in Seq(Y) /\ Jobs = DOMAIN status
    BY <1>1, OffersAre DEF TablesOK
  <2>2. status \in [Jobs -> Y]
    BY <2>1
  <2>. QED BY <2>2
<1>4. \A i \in DOMAIN history : history[i].job \in Jobs /\ history[i].user \in Users
  <2>1. \A i \in DOMAIN history : history[i] \in HistoryEntry
    BY <1>1 DEF TablesOK
  <2>. QED BY <1>1, <2>1 DEF TablesOK, HistoryEntry
<1>5. \A s \in Slots : At(s, "idle") \/ slot[s].pc \in Served
  <2>1. \A s \in Slots : slot[s] = IdleSlot \/ slot[s] \in RequestSet
    BY <1>1 DEF SlotsOK
  <2>2. IdleSlot.pc = "idle" /\ \A r \in RequestSet : r.pc \in Served
    BY DEF IdleSlot, RequestSet
  <2>. QED BY <2>1, <2>2 DEF At
<1>6. reader.job \in Jobs \cup {NoJob}
  BY <1>1 DEF ReaderOK, ReadSoFar
<1>7. answers \subseteq Jobs \X Links /\ torn \subseteq Jobs
  BY <1>1 DEF AnswersNameKey, TablesOK
<1>. QED BY <1>2, <1>3, <1>4, <1>5, <1>6, <1>7 DEF JobsTypeOK

LEMMA OfferingsMatch ==
  ASSUME JobsInv
  PROVE  OfferingsMatchIdentities
<1>1. KeysUnique /\ AnswersNameKey
  BY DEF JobsInv
<1>. SUFFICES ASSUME NEW a \in answers, NEW b \in answers
              PROVE  /\ a[1] = b[1] => Key(a[2]) = Key(b[2])
                     /\ (Key(a[2]) = Key(b[2])
                           /\ ~offers[a[1]].deleted /\ ~offers[b[1]].deleted)
                           => a[1] = b[1]
  BY DEF OfferingsMatchIdentities
<1>2. /\ a[1] \in Jobs /\ offers[a[1]].key = Key(a[2])
      /\ b[1] \in Jobs /\ offers[b[1]].key = Key(b[2])
  BY <1>1 DEF AnswersNameKey
<1>. QED BY <1>1, <1>2 DEF KeysUnique

\* The entry that is ranked last is the one with the greatest place.
LEMMA RankedLast ==
  ASSUME NEW S, S \subseteq Nat, NEW n \in Nat, \A i \in S : i <= n, S # {},
         NEW m, m = CHOOSE i \in S : Cardinality({k \in S : k <= i}) = Cardinality(S)
  PROVE  m \in S /\ \A k \in S : k <= m
<1>1. IsFiniteSet(S)
  BY FS_BoundedSetOfNaturals
<1>2. PICK g \in S : \A k \in S : k <= g
  BY HasGreatest
<1>3. {k \in S : k <= g} = S
  BY <1>2
<1>4. m \in S /\ Cardinality({k \in S : k <= m}) = Cardinality(S)
  BY <1>2, <1>3
<1>5. {k \in S : k <= m} \in SUBSET S
  OBVIOUS
<1>6. S = {k \in S : k <= m}
  BY <1>1, <1>4, <1>5, FS_Subset
<1>. QED BY <1>4, <1>6

LEMMA HistoryTells ==
  ASSUME JobsInv
  PROVE  HistoryTellsState
<1>1. TablesOK /\ HistoryOrdered /\ StatusTold /\ TitleTold
  BY DEF JobsInv
<1>2. /\ history \in Seq(HistoryEntry) /\ Len(history) \in Nat /\ DOMAIN history \subseteq Nat
      /\ \A i \in DOMAIN history : i <= Len(history) /\ history[i] \in HistoryEntry
  BY <1>1 DEF TablesOK
<1>3. \A i \in DOMAIN history : history[i].job \in Jobs /\ history[i].ts \in Nat
  BY <1>1, <1>2 DEF TablesOK, HistoryEntry
<1>4. LastTick \in Nat /\ \A i \in DOMAIN history : history[i].ts <= LastTick
  BY <1>1, <1>2, LastTickIsLatest
<1>5. ASSUME NEW u \in Users, NEW from \in 0 .. LastTick,
             NEW j \in DOMAIN Aggregated(u, from, LastTick)
      PROVE  Last(Aggregated(u, from, LastTick)[j]) = status[j][u] /\ j \in Jobs
  <2>. DEFINE report == Report(u, from, LastTick)
              of == {i \in report : history[i].job = j}
              nth(n) == CHOOSE i \in of : Cardinality({k \in of : k <= i}) = n
  <2>1. report \subseteq DOMAIN history /\ of \subseteq report
    BY DEF Report
  <2>2. of # {} /\ j \in Jobs
    BY <1>3, <1>5, <2>1 DEF Aggregated
  <2>3. Aggregated(u, from, LastTick)[j] = [n \in 1 .. Cardinality(of) |-> history[nth(n)].to]
    BY <1>5 DEF Aggregated
  <2>4. IsFiniteSet(of) /\ Cardinality(of) \in Nat /\ Cardinality(of) # 0
    <3>. HIDE DEF of
    <3>1. of \in SUBSET Nat /\ \A i \in of : i <= Len(history)
      BY <1>2, <2>1
    <3>2. IsFiniteSet(of)
      BY <1>2, <3>1, FS_BoundedSetOfNaturals
    <3>. QED BY <2>2, <3>2, FS_CardinalityType, FS_EmptySet
  <2>. DEFINE m == nth(Cardinality(of))
  <2>5. Last(Aggregated(u, from, LastTick)[j]) = history[m].to
    <3>. HIDE DEF of, nth, report
    <3>. PICK c, f : c = Cardinality(of) /\ f = [n \in 1 .. c |-> history[nth(n)].to]
      OBVIOUS
    <3>1. c \in Nat /\ c # 0 /\ f[c] = history[m].to /\ Len(f) = c
      BY <2>4
    <3>2. Last(f) = f[c]
      BY <3>1 DEF Last
    <3>. QED BY <2>3, <3>1, <3>2
  <2>6. m \in of /\ \A k \in of : k <= m
    <3>1. of \subseteq Nat /\ \A i \in of : i <= Len(history)
      BY <1>2, <2>1
    <3>2. m = CHOOSE i \in of : Cardinality({k \in of : k <= i}) = Cardinality(of)
      OBVIOUS
    <3>. HIDE DEF of, m
    <3>. QED BY <1>2, <2>2, <3>1, <3>2, RankedLast
  <2>7. m \in Matching(history, j, "status_changed", {u})
    BY <2>1, <2>6 DEF Matching, Report
  <2>8. ASSUME NEW k \in Matching(history, j, "status_changed", {u})
        PROVE  k <= m
    <3>1. k \in DOMAIN history /\ m \in DOMAIN history /\ history[m].ts \in from .. LastTick
      BY <2>1, <2>6 DEF Matching, Report
    <3>2. CASE history[k].ts \in from .. LastTick
      <4>1. k \in of
        BY <3>2 DEF Matching, Report
      <4>. QED BY <2>6, <4>1
    <3>3. CASE history[k].ts \notin from .. LastTick
      <4>1. history[k].ts \in Nat /\ history[k].ts <= LastTick /\ history[m].ts \in Nat
        BY <1>3, <1>4, <3>1
      <4>2. history[k].ts < history[m].ts
        BY <1>4, <3>1, <3>3, <4>1
      <4>3. ~(m <= k)
        BY <1>1, <3>1, <4>1, <4>2 DEF HistoryOrdered
      <4>4. k \in Nat /\ m \in Nat
        BY <1>2, <3>1
      <4>. QED BY <4>3, <4>4
    <3>. QED BY <3>2, <3>3
  <2>. HIDE DEF m
  <2>9. status[j][u] = history[m].to
    BY <1>1, <2>2, <2>7, <2>8 DEF StatusTold, Told
  <2>. QED BY <2>2, <2>5, <2>9
<1>6. ASSUME NEW u \in Users, NEW j \in Jobs \ DOMAIN Aggregated(u, 0, LastTick)
      PROVE  status[j][u] = Unset
  <2>1. Matching(history, j, "status_changed", {u}) = {}
    <3>1. ASSUME NEW i \in Matching(history, j, "status_changed", {u})
          PROVE  FALSE
      <4>1. i \in DOMAIN history /\ history[i].ts \in 0 .. LastTick
        BY <1>3, <1>4 DEF Matching
      <4>2. i \in Report(u, 0, LastTick) /\ history[i].job = j
        BY <4>1 DEF Matching, Report
      <4>. QED BY <1>6, <4>2 DEF Aggregated
    <3>. QED BY <3>1
  <2>. QED BY <1>1, <1>6, <2>1 DEF StatusTold, Told
<1>7. TitlesAreTold
  <2>. SUFFICES ASSUME NEW j \in Jobs \ torn
                PROVE  \E t \in {"", "given"} : offers[j].title = LastOf(j, "job_updated", Users, t)
    BY DEF TitlesAreTold
  <2>. DEFINE at == {i \in EntriesOf(j) : history[i].kind = "job_updated" /\ history[i].user \in Users}
  <2>1. at = Matching(history, j, "job_updated", Users)
    BY DEF EntriesOf, Matching
  <2>2. Told(history, j, "job_updated", Users, offers[j].title, {"", "given"})
    BY <1>1 DEF TitleTold
  <2>3. CASE at = {}
    BY <2>1, <2>2, <2>3 DEF LastOf, Told
  <2>4. CASE at # {}
    <3>. DEFINE m == CHOOSE i \in at : \A k \in at : k <= i
    <3>1. at \subseteq Nat /\ \A i \in at : i <= Len(history)
      BY <1>2 DEF EntriesOf
    <3>2. m \in at /\ \A k \in at : k <= m
      <4>. HIDE DEF at
      <4>. QED BY <1>2, <2>4, <3>1, HasGreatest
    <3>3. \A t : LastOf(j, "job_updated", Users, t) = history[m].to
      BY <2>4 DEF LastOf
    <3>. HIDE DEF at, m
    <3>4. offers[j].title = history[m].to
      BY <2>1, <2>2, <3>2 DEF Told
    <3>. QED BY <3>3, <3>4
  <2>. QED BY <2>3, <2>4
<1>8. \A u \in Users, j \in Jobs : StatusesOf(u, Jobs)[j] = status[j][u]
  BY DEF StatusesOf
<1>. QED BY <1>5, <1>6, <1>7, <1>8 DEF HistoryTellsState

LEMMA HistoryRead ==
  ASSUME JobsInv
  PROVE  HistoryIsRead
<1>. SUFFICES ASSUME reader.job # NoJob
              PROVE  /\ ~reader.twice
                     /\ reader.over => \A i \in reader.start \ reader.seen : AtEnd(history, reader, i)
  BY DEF HistoryIsRead, AtEnd
<1>1. ReadSoFar(history, Jobs, reader)
  BY DEF JobsInv, ReaderOK
<1>. QED BY <1>1 DEF ReadSoFar
=============================================================================
