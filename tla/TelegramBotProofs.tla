--------------------------- MODULE TelegramBotProofs ---------------------------
(***************************************************************************)
(* Proofs about TelegramBot, for any users, chats, codes, CVs and requests *)
(* at one time: what the Users domain links and stores, what the bot and   *)
(* the web core remember, and, with the lemmas of JobOfferingsProofs, what *)
(* the tables of the Jobs domain tell.                                     *)
(***************************************************************************)
EXTENDS TelegramBot, JobOfferingsProofs

-----------------------------------------------------------------------------
(* The inductive invariant of the Users domain, of the bot and of the lists. *)

\* An account has no two chats and no two accounts have one; the same for codes.
LinksOK ==
    /\ account \in [Accounts -> [tg : Chats \cup {Null}, code : Codes \cup {Null}]]
    /\ \A u, x \in Accounts : account[u].tg # Null /\ account[u].tg = account[x].tg => u = x
    /\ \A u, x \in Accounts : account[u].code # Null /\ account[u].code = account[x].code => u = x
    /\ stale \subseteq Chats

\* A blob holds the CV its path is made of.  B is the blobs.
Stored(B, folder, path) == path \in DOMAIN B[folder]
BlobsOK ==
    /\ DOMAIN blobs = {"quill", "text"}
    /\ \A folder \in {"quill", "text"} : \A u \in Accounts, cv \in CVs :
          Stored(blobs, folder, <<u, cv>>) => blobs[folder][<<u, cv>>] = cv

\* A row names a CV whose two blobs are stored.
RowOK(B, row) ==
    \E u \in Accounts, cv \in CVs :
        /\ row.version = cv /\ row.path = <<u, cv>>
        /\ Stored(B, "quill", <<u, cv>>) /\ Stored(B, "text", <<u, cv>>)
RowsOK ==
    /\ DOMAIN prefs = Accounts
    /\ \A u \in Accounts : prefs[u] # Null => RowOK(blobs, prefs[u])

\* A request stores the blobs before it names them.
CallOK(B, r) ==
    /\ r.pc = "issue" => r.user \in Accounts
    /\ r.pc = "link" => r.user \in Accounts /\ r.chat \in Chats
    /\ r.pc \in {"quill", "text", "upsert"} =>
          r.user \in Accounts /\ r.cv \in CVs /\ r = [pc |-> r.pc, user |-> r.user, cv |-> r.cv]
    /\ r.pc \in {"text", "upsert"} => Stored(B, "quill", <<r.user, r.cv>>)
    /\ r.pc = "upsert" => Stored(B, "text", <<r.user, r.cv>>)
    /\ r.pc = "fetch" => RowOK(B, r.row)
CallsOK ==
    /\ DOMAIN call = Servers
    /\ \A v \in Servers : CallOK(blobs, call[v])

\* The bot asks only for a chat it knows nothing of, ...
BotOK ==
    /\ cache \in [Chats -> Users \cup {Null}]
    /\ asked \in [Chats -> [command : Commands \cup {"none"}, user : Users \cup {Null}]]
    /\ \A c \in Chats : /\ asked[c].command = "none" => asked[c].user = Null
                        /\ asked[c].command # "none" => cache[c] = Null

\* ... and what it has been told is current as long as the link is not taken away.
ToldIsCurrent ==
    \A c \in Chats \ stale : /\ cache[c] # Null => account[cache[c]].tg = c
                             /\ asked[c].user # Null => account[asked[c].user].tg = c

\* The pages that are read and kept are pages of jobs.  J is the jobs.
PagerOK(J, p) ==
    /\ p.pc \in {"none", "turn", "select", "put", "over"}
    /\ p.pc # "none" => p.user \in Users /\ {"pc", "user", "got"} \subseteq DOMAIN p
    /\ p.pc = "put" => p.got.page \subseteq J
ListsOK ==
    /\ fits \subseteq Jobs \X Users
    /\ PagerOK(Jobs, pager)
    /\ \A k \in DOMAIN memo : k[1] \in Users /\ memo[k].page \subseteq Jobs
    /\ removing \cup hidden \subseteq Users \X Jobs

\* A page on its way was read before the offerings deleted since.
DeletedStaysAway ==
    /\ \A d \in removing \cup hidden : offers[d[2]].deleted
    /\ \A d \in hidden : pager.pc = "put" /\ pager.user = d[1] => d[2] \notin pager.got.page

AccountsInv == LinksOK /\ BlobsOK /\ RowsOK /\ CallsOK /\ SnapshotIsItsVersion
MemoryInv   == BotOK /\ ToldIsCurrent /\ ListsOK /\ DeletedStaysAway /\ DeletedIsGone

IInv == workload \in Workloads /\ JobsInv /\ AccountsInv /\ MemoryInv

-----------------------------------------------------------------------------
(* The parts of a step.                                                    *)

UsersStep ==
    \/ UNCHANGED userVars
    \/ UsersNext
    \/ \E c \in Chats : UnlinkChat(c) \/ \E v \in Servers : LinkTelegram(v, c)
    \/ \E c \in Chats : stale' = stale \ {c} /\ UNCHANGED <<account, blobs, prefs, call, snapshots>>

ListsStep ==
    \/ UNCHANGED listVars
    \/ ListsNext
    \/ \E c \in Chats, u \in Users : OpenActive(c, u) \/ MoreActive(c, u)

\* What a command does, it does in the name of a user.
LEMMA ActSteps ==
  ASSUME NEW command, NEW c \in Chats, NEW u \in Users, Act(command, c, u)
  PROVE  JobsStep /\ ListsStep
<1>1. CASE command = "applied"
  BY <1>1 DEF Act, JobsStep, ListsStep
<1>2. CASE command = "myjobs"
  BY <1>2 DEF Act, OpenActive, JobsStep, ListsStep
<1>3. CASE command = "more"
  BY <1>3 DEF Act, MoreActive, JobsStep, ListsStep
<1>. QED BY <1>1, <1>2, <1>3 DEF Act

LEMMA ListsNextJobs ==
  ASSUME ListsNext
  PROVE  JobsStep
<1>1. ASSUME DeleteOnWeb PROVE JobsStep
  BY <1>1 DEF DeleteOnWeb, JobsStep
<1>2. ASSUME ~DeleteOnWeb PROVE UNCHANGED jobVars
  BY <1>2 DEF ListsNext, OpenList, Cached, CountList, SelectPage, PutPage, InvalidatePages, Score
<1>. QED BY <1>1, <1>2 DEF JobsStep

\* Every step is a step of the Jobs domain, of the Users domain and of the lists,
\* most of them steps that change nothing there.
LEMMA StepParts ==
  ASSUME BotOK, [Next]_vars
  PROVE  JobsStep /\ UsersStep /\ ListsStep
<1>1. CASE UNCHANGED vars
  BY <1>1 DEF vars, JobsStep, UsersStep, ListsStep
<1>2. CASE JobsNext /\ UNCHANGED <<listVars, userVars, botVars>>
  BY <1>2 DEF JobsStep, UsersStep, ListsStep
<1>3. CASE ListsNext /\ UNCHANGED <<userVars, botVars>>
  BY <1>3, ListsNextJobs DEF UsersStep, ListsStep
<1>4. CASE UsersNext /\ UNCHANGED <<jobVars, listVars, botVars>>
  BY <1>4 DEF JobsStep, UsersStep, ListsStep
<1>5. ASSUME NEW c \in Chats, Link(c) \/ Unlink(c) PROVE JobsStep /\ UsersStep /\ ListsStep
  BY <1>5 DEF Link, Unlink, JobsStep, UsersStep, ListsStep
<1>6. ASSUME NEW c \in Chats, LookUp(c) PROVE JobsStep /\ UsersStep /\ ListsStep
  BY <1>6 DEF LookUp, JobsStep, UsersStep, ListsStep
<1>7. ASSUME NEW c \in Chats, Resolved(c) PROVE JobsStep /\ UsersStep /\ ListsStep
  <2>1. asked[c].user \in Users
    BY <1>7 DEF BotOK, Resolved
  <2>2. Act(asked[c].command, c, asked[c].user) /\ UNCHANGED userVars
    BY <1>7 DEF Resolved
  <2>. QED BY <2>1, <2>2, ActSteps DEF UsersStep
<1>8. ASSUME NEW c \in Chats, NEW command \in Commands, Command(c, command)
      PROVE  JobsStep /\ UsersStep /\ ListsStep
  <2>1. CASE cache[c] # Null
    <3>1. cache[c] \in Users /\ Act(command, c, cache[c]) /\ UNCHANGED userVars
      BY <1>8, <2>1 DEF Command, BotOK
    <3>. QED BY <3>1, ActSteps DEF UsersStep
  <2>2. CASE cache[c] = Null
    BY <1>8, <2>2 DEF Command, JobsStep, UsersStep, ListsStep
  <2>. QED BY <2>1, <2>2
<1>9. CASE Restart
  BY <1>9 DEF Restart, JobsStep, UsersStep, ListsStep
<1>. QED BY <1>1, <1>2, <1>3, <1>4, <1>5, <1>6, <1>7, <1>8, <1>9 DEF Next

\* The workload stays.
LEMMA WorkloadStays ==
  ASSUME [Next]_vars
  PROVE  workload' = workload
<1>1. ASSUME JobsNext PROVE workload' = workload
  BY <1>1 DEF JobsNext, CreateJob, ProxyCreateJob, ApplyByUrl, PutStatus, UpdateJob, Exists,
     Insert, InsertRefused, SelectExisting, NothingToSelect, CheckJob, Merge, WriteUpdate, RollBack,
     DeleteJob, PostHistory, OpenHistory, ReadPage, Take, load
<1>2. ASSUME ListsNext PROVE workload' = workload
  BY <1>2 DEF ListsNext, OpenList, Cached, CountList, SelectPage, PutPage, DeleteOnWeb,
     InvalidatePages, Score, Take, load
<1>3. ASSUME UsersNext PROVE workload' = workload
  BY <1>3 DEF UsersNext, LinkCode, IssueCode, LinkAccount, SavePreferences, Upload,
     UpsertPreferences, ReadPreferences, AnswerSnapshot, CallFails, UnlinkAccount, Take, load
<1>4. ASSUME NEW c \in Chats,
             Link(c) \/ Unlink(c) \/ LookUp(c) \/ Resolved(c) \/ \E command \in Commands : Command(c, command)
      PROVE  workload' = workload
  BY <1>4 DEF Link, LinkTelegram, Unlink, UnlinkChat, LookUp, Resolved, Command, Take, load
<1>. QED BY <1>1, <1>2, <1>3, <1>4 DEF Next, Restart, Take, vars, load

-----------------------------------------------------------------------------
(* Links.                                                                  *)

LEMMA AccountSteps ==
  ASSUME UsersStep
  PROVE  \/ UNCHANGED account /\ stale' \subseteq stale
         \/ \E v \in Servers : IssueCode(v) \/ LinkAccount(v)
         \/ \E U \in SUBSET Accounts : Unlinked(U)
<1>1. ASSUME NEW c \in Chats, UnlinkChat(c) PROVE \E U \in SUBSET Accounts : Unlinked(U)
  <2>1. LinkedTo(c) \in SUBSET Accounts
    BY DEF LinkedTo
  <2>. QED BY <1>1, <2>1 DEF UnlinkChat
<1>2. ASSUME UnlinkAccount PROVE \E U \in SUBSET Accounts : Unlinked(U)
  BY <1>2 DEF UnlinkAccount
<1>3. ASSUME NEW v \in Servers,
             \/ LinkCode(v) \/ SavePreferences(v) \/ Upload(v, "quill", "text")
             \/ Upload(v, "text", "upsert") \/ UpsertPreferences(v) \/ ReadPreferences(v)
             \/ AnswerSnapshot(v) \/ CallFails(v)
      PROVE  UNCHANGED <<account, stale>>
  BY <1>3 DEF LinkCode, SavePreferences, Upload, UpsertPreferences, ReadPreferences,
     AnswerSnapshot, CallFails
<1>4. ASSUME NEW c \in Chats, NEW v \in Servers, LinkTelegram(v, c)
      PROVE  UNCHANGED <<account, stale>>
  BY <1>4 DEF LinkTelegram
<1>. QED BY <1>1, <1>2, <1>3, <1>4 DEF UsersStep, UsersNext, userVars

\* The code that is issued is nobody's.
LEMMA CodeIsIssued ==
  ASSUME LinksOK, CallsOK, NEW v \in Servers, IssueCode(v)
  PROVE  /\ stale' = stale
         /\ account' \in [Accounts -> [tg : Chats \cup {Null}, code : Codes \cup {Null}]]
         /\ \A x \in Accounts : account'[x].tg = account[x].tg
         /\ \A x, y \in Accounts : account'[x].code # Null /\ account'[x].code = account'[y].code => x = y
<1>. PICK u : u = call[v].user
  OBVIOUS
<1>1. u \in Accounts
  BY DEF CallsOK, CallOK, IssueCode, Calling
<1>2. CASE UNCHANGED account
  BY <1>2 DEF LinksOK, IssueCode
<1>3. ASSUME NEW k \in FreeCodes, account' = [account EXCEPT ![u].code = k]
      PROVE  /\ account' \in [Accounts -> [tg : Chats \cup {Null}, code : Codes \cup {Null}]]
             /\ \A x \in Accounts : account'[x].tg = account[x].tg
             /\ \A x, y \in Accounts :
                   account'[x].code # Null /\ account'[x].code = account'[y].code => x = y
  <2>1. k \in Codes /\ \A x \in Accounts : account[x].code # k
    BY DEF FreeCodes, WithCode
  <2>2. /\ account'[u] = [account[u] EXCEPT !.code = k]
        /\ \A x \in Accounts : x # u => account'[x] = account[x]
    BY <1>1, <1>3 DEF LinksOK
  <2>3. account'[u].tg = account[u].tg /\ account'[u].code = k
    BY <1>1, <2>2 DEF LinksOK
  <2>. QED BY <1>1, <1>3, <2>1, <2>2, <2>3 DEF LinksOK
<1>. QED BY <1>2, <1>3 DEF IssueCode

\* The chat that is linked is nobody else's, and the one it replaces is stale.
LEMMA ChatIsLinked ==
  ASSUME LinksOK, CallsOK, NEW v \in Servers, LinkAccount(v),
         NEW u, u = call[v].user, NEW c, c = call[v].chat
  PROVE  /\ u \in Accounts /\ c \in Chats
         /\ \A x \in Accounts : account[x].tg = c => x = u
         /\ account' \in [Accounts -> [tg : Chats \cup {Null}, code : Codes \cup {Null}]]
         /\ account'[u].tg = c /\ account'[u].code = Null
         /\ \A x \in Accounts : x # u => account'[x] = account[x]
         /\ stale \subseteq stale' /\ stale' \subseteq Chats
         /\ account[u].tg # c => account[u].tg \in stale' \cup {Null}
<1>1. u \in Accounts /\ c \in Chats
  BY DEF CallsOK, CallOK, LinkAccount, Calling
<1>2. /\ LinkedTo(c) \subseteq {u}
      /\ account' = [account EXCEPT ![u] = [tg |-> c, code |-> Null]]
      /\ stale' = IF account[u].tg = c THEN stale ELSE stale \cup ({account[u].tg} \ {Null})
  BY DEF LinkAccount, Linked
<1>3. \A x \in Accounts : account[x].tg = c => x = u
  BY <1>2 DEF LinkedTo
<1>4. account[u].tg \in Chats \cup {Null}
  BY <1>1 DEF LinksOK
<1>. QED BY <1>1, <1>2, <1>3, <1>4 DEF LinksOK

\* A chat that is taken from its account is stale.
LEMMA ChatsAreUnlinked ==
  ASSUME LinksOK, NEW U \in SUBSET Accounts, Unlinked(U)
  PROVE  /\ account' \in [Accounts -> [tg : Chats \cup {Null}, code : Codes \cup {Null}]]
         /\ \A x \in Accounts : /\ account'[x].code = account[x].code
                                /\ x \notin U => account'[x].tg = account[x].tg
                                /\ x \in U => /\ account'[x].tg = Null
                                              /\ account[x].tg \in stale' \cup {Null}
         /\ stale \subseteq stale' /\ stale' \subseteq Chats
<1>1. /\ account' = [x \in Accounts |-> IF x \in U THEN [account[x] EXCEPT !.tg = Null] ELSE account[x]]
      /\ stale' = stale \cup ({account[x].tg : x \in U} \ {Null})
  BY DEF Unlinked
<1>2. \A x \in Accounts : account[x] \in [tg : Chats \cup {Null}, code : Codes \cup {Null}]
  BY DEF LinksOK
<1>3. \A x \in Accounts : account'[x] = IF x \in U THEN [account[x] EXCEPT !.tg = Null] ELSE account[x]
  BY <1>1
<1>4. \A x \in Accounts :
         /\ account'[x] \in [tg : Chats \cup {Null}, code : Codes \cup {Null}]
         /\ account'[x].code = account[x].code
         /\ x \notin U => account'[x].tg = account[x].tg
         /\ x \in U => account'[x].tg = Null
  BY <1>2, <1>3
<1>5. account' \in [Accounts -> [tg : Chats \cup {Null}, code : Codes \cup {Null}]]
  BY <1>1, <1>4
<1>6. stale' \subseteq Chats
  BY <1>1, <1>2 DEF LinksOK
<1>. QED BY <1>1, <1>4, <1>5, <1>6

LEMMA LinksStep ==
  ASSUME LinksOK, CallsOK, UsersStep
  PROVE  LinksOK'
<1>1. CASE UNCHANGED account /\ stale' \subseteq stale
  BY <1>1 DEF LinksOK
<1>2. ASSUME NEW v \in Servers, IssueCode(v) PROVE LinksOK'
  BY <1>2, CodeIsIssued DEF LinksOK
<1>3. ASSUME NEW v \in Servers, LinkAccount(v) PROVE LinksOK'
  <2>. PICK u, c : u = call[v].user /\ c = call[v].chat
    OBVIOUS
  <2>1. /\ u \in Accounts /\ c \in Chats
        /\ \A x \in Accounts : account[x].tg = c => x = u
        /\ account' \in [Accounts -> [tg : Chats \cup {Null}, code : Codes \cup {Null}]]
        /\ account'[u].tg = c /\ account'[u].code = Null
        /\ \A x \in Accounts : x # u => account'[x] = account[x]
        /\ stale' \subseteq Chats
    BY <1>3, ChatIsLinked
  <2>. QED BY <2>1 DEF LinksOK
<1>4. ASSUME NEW U \in SUBSET Accounts, Unlinked(U) PROVE LinksOK'
  <2>1. /\ account' \in [Accounts -> [tg : Chats \cup {Null}, code : Codes \cup {Null}]]
        /\ \A x \in Accounts : /\ account'[x].code = account[x].code
                               /\ x \notin U => account'[x].tg = account[x].tg
                               /\ x \in U => account'[x].tg = Null
        /\ stale' \subseteq Chats
    BY <1>4, ChatsAreUnlinked
  <2>. QED BY <2>1 DEF LinksOK
<1>. QED BY <1>1, <1>2, <1>3, <1>4, AccountSteps

-----------------------------------------------------------------------------
(* CVs.                                                                    *)

\* Blobs are stored and never taken away.
BlobsKept == \A folder \in {"quill", "text"} : DOMAIN blobs[folder] \subseteq DOMAIN blobs'[folder]

LEMMA BlobSteps ==
  ASSUME UsersStep
  PROVE  \/ UNCHANGED blobs
         \/ \E v \in Servers : Upload(v, "quill", "text") \/ Upload(v, "text", "upsert")
<1>1. ASSUME NEW v \in Servers,
             \/ LinkCode(v) \/ IssueCode(v) \/ LinkAccount(v) \/ SavePreferences(v)
             \/ UpsertPreferences(v) \/ ReadPreferences(v) \/ AnswerSnapshot(v) \/ CallFails(v)
      PROVE  UNCHANGED blobs
  BY <1>1 DEF LinkCode, IssueCode, LinkAccount, SavePreferences, UpsertPreferences, ReadPreferences,
     AnswerSnapshot, CallFails
<1>2. ASSUME UnlinkAccount \/ \E c \in Chats : UnlinkChat(c) \/ \E v \in Servers : LinkTelegram(v, c)
      PROVE  UNCHANGED blobs
  BY <1>2 DEF UnlinkAccount, UnlinkChat, Unlinked, LinkTelegram
<1>. QED BY <1>1, <1>2 DEF UsersStep, UsersNext, userVars

\* An upload stores the CV of its path.
LEMMA UploadStores ==
  ASSUME BlobsOK, CallsOK, NEW v \in Servers, NEW folder \in {"quill", "text"}, NEW next,
         Upload(v, folder, next)
  PROVE  BlobsOK' /\ BlobsKept /\ Stored(blobs', folder, <<call[v].user, call[v].cv>>)
<1>. PICK path, cv, old : path = <<call[v].user, call[v].cv>> /\ cv = call[v].cv /\ old = blobs[folder]
  OBVIOUS
<1>1. blobs' = [blobs EXCEPT ![folder] = [p \in DOMAIN old \cup {path} |-> IF p = path THEN cv ELSE old[p]]]
  BY DEF Upload, BlobPath
<1>2. /\ DOMAIN blobs' = {"quill", "text"}
      /\ \A f \in {"quill", "text"} : f # folder => blobs'[f] = blobs[f]
      /\ DOMAIN blobs'[folder] = DOMAIN old \cup {path}
      /\ \A p \in DOMAIN old \cup {path} : blobs'[folder][p] = IF p = path THEN cv ELSE old[p]
  BY <1>1 DEF BlobsOK
<1>3. \A u \in Accounts, w \in CVs : <<u, w>> = path => w = cv
  OBVIOUS
<1>4. BlobsOK'
  BY <1>2, <1>3 DEF BlobsOK, Stored
<1>5. BlobsKept
  BY <1>2 DEF BlobsKept
<1>. QED BY <1>2, <1>4, <1>5 DEF Stored

LEMMA BlobsStep ==
  ASSUME BlobsOK, CallsOK, UsersStep
  PROVE  BlobsOK' /\ BlobsKept
<1>1. CASE UNCHANGED blobs
  BY <1>1 DEF BlobsOK, BlobsKept
<1>2. ASSUME NEW v \in Servers, Upload(v, "quill", "text") \/ Upload(v, "text", "upsert")
      PROVE  BlobsOK' /\ BlobsKept
  BY <1>2, UploadStores
<1>. QED BY <1>1, <1>2, BlobSteps

\* What a row or a request names stays stored.
LEMMA NamesKept ==
  ASSUME BlobsKept
  PROVE  /\ \A row : RowOK(blobs, row) => RowOK(blobs', row)
         /\ \A r : CallOK(blobs, r) => CallOK(blobs', r)
<1>1. \A folder \in {"quill", "text"} : \A p : Stored(blobs, folder, p) => Stored(blobs', folder, p)
  BY DEF BlobsKept, Stored
<1>2. ASSUME NEW row, RowOK(blobs, row) PROVE RowOK(blobs', row)
  BY <1>1, <1>2 DEF RowOK
<1>3. ASSUME NEW r, CallOK(blobs, r) PROVE CallOK(blobs', r)
  BY <1>1, <1>2, <1>3 DEF CallOK
<1>. QED BY <1>2, <1>3

\* What becomes of the requests.  A request that is taken up names nothing yet, or a
\* row that is there.  P is the rows.
Taken(P, r) ==
    \/ \E u \in Accounts : r = [pc |-> "issue", user |-> u]
    \/ \E u \in Accounts, c \in Chats : r = [pc |-> "link", user |-> u, chat |-> c]
    \/ \E u \in Accounts, cv \in CVs : r = [pc |-> "quill", user |-> u, cv |-> cv]
    \/ \E u \in Accounts : P[u] # Null /\ r = [pc |-> "fetch", row |-> P[u]]
TakeUp(v) == \E r : Taken(prefs, r) /\ call' = [call EXCEPT ![v] = r]

LEMMA CallSteps ==
  ASSUME UsersStep
  PROVE  \/ UNCHANGED call
         \/ \E v \in Servers :
               Done(v) \/ TakeUp(v) \/ Upload(v, "quill", "text") \/ Upload(v, "text", "upsert")
<1>1. ASSUME NEW v \in Servers, IssueCode(v) \/ LinkAccount(v) \/ UpsertPreferences(v)
                                  \/ AnswerSnapshot(v) \/ CallFails(v)
      PROVE  Done(v)
  BY <1>1 DEF IssueCode, LinkAccount, UpsertPreferences, AnswerSnapshot, CallFails
<1>2. ASSUME NEW v \in Servers, LinkCode(v) PROVE TakeUp(v)
  BY <1>2 DEF LinkCode, TakeUp, Taken
<1>3. ASSUME NEW v \in Servers, NEW c \in Chats, LinkTelegram(v, c) PROVE TakeUp(v)
  BY <1>3 DEF LinkTelegram, WithCode, TakeUp, Taken
<1>4. ASSUME NEW v \in Servers, SavePreferences(v) PROVE TakeUp(v)
  BY <1>4 DEF SavePreferences, TakeUp, Taken
<1>5. ASSUME NEW v \in Servers, ReadPreferences(v) PROVE TakeUp(v)
  BY <1>5 DEF ReadPreferences, TakeUp, Taken
<1>6. ASSUME UnlinkAccount \/ \E c \in Chats : UnlinkChat(c)
      PROVE  UNCHANGED call
  BY <1>6 DEF UnlinkAccount, UnlinkChat, Unlinked
<1>7. CASE UNCHANGED call
  BY <1>7
<1>8. CASE UsersNext
  BY <1>1, <1>2, <1>4, <1>5, <1>6, <1>8 DEF UsersNext
<1>. QED BY <1>3, <1>6, <1>7, <1>8 DEF UsersStep, userVars

LEMMA CallsStep ==
  ASSUME BlobsOK, RowsOK, CallsOK, UsersStep
  PROVE  CallsOK'
<1>1. BlobsKept /\ \A r : CallOK(blobs, r) => CallOK(blobs', r)
  BY BlobsStep, NamesKept
<1>2. DOMAIN call = Servers /\ \A v \in Servers : CallOK(blobs', call[v])
  BY <1>1 DEF CallsOK
<1>3. ASSUME NEW v \in Servers, NEW r, call' = [call EXCEPT ![v] = r], CallOK(blobs', r)
      PROVE  CallsOK'
  BY <1>2, <1>3 DEF CallsOK
<1>4. ASSUME NEW v \in Servers, Done(v) PROVE CallsOK'
  <2>1. CallOK(blobs', IdleCall)
    BY DEF CallOK, IdleCall
  <2>. QED BY <1>3, <1>4, <2>1 DEF Done
<1>5. ASSUME NEW r, Taken(prefs, r) PROVE CallOK(blobs', r)
  <2>1. ASSUME NEW u \in Accounts, prefs[u] # Null, r = [pc |-> "fetch", row |-> prefs[u]]
        PROVE  CallOK(blobs', r)
    <3>. PICK row : row = prefs[u]
      OBVIOUS
    <3>1. RowOK(blobs', row)
      BY <1>1, <2>1, NamesKept DEF RowsOK
    <3>. QED BY <2>1, <3>1 DEF CallOK
  <2>. QED BY <1>5, <2>1 DEF Taken, CallOK
<1>6. ASSUME NEW v \in Servers, TakeUp(v) PROVE CallsOK'
  BY <1>3, <1>5, <1>6 DEF TakeUp
<1>7. ASSUME NEW v \in Servers, NEW folder \in {"quill", "text"}, NEW next \in {"text", "upsert"},
             folder = "quill" => next = "text", folder = "text" => next = "upsert",
             Upload(v, folder, next)
      PROVE  CallsOK'
  <2>. PICK r : r = call[v]
    OBVIOUS
  <2>1. r.pc = folder /\ CallOK(blobs', r)
    BY <1>2, <1>7 DEF Upload, Calling
  <2>. PICK u, cv : u = r.user /\ cv = r.cv
    OBVIOUS
  <2>2. u \in Accounts /\ cv \in CVs /\ r = [pc |-> folder, user |-> u, cv |-> cv]
    BY <2>1 DEF CallOK
  <2>3. folder = "text" => Stored(blobs', "quill", <<u, cv>>)
    BY <2>1 DEF CallOK
  <2>4. Stored(blobs', folder, <<u, cv>>)
    BY <1>7, UploadStores
  <2>5. CallOK(blobs', [pc |-> next, user |-> u, cv |-> cv])
    BY <1>7, <2>2, <2>3, <2>4 DEF CallOK
  <2>6. call' = [call EXCEPT ![v] = [pc |-> next, user |-> u, cv |-> cv]]
    <3>1. call' = [call EXCEPT ![v] = [r EXCEPT !.pc = next]]
      BY <1>7 DEF Upload
    <3>2. [r EXCEPT !.pc = next] = [pc |-> next, user |-> u, cv |-> cv]
      BY <2>2
    <3>. QED BY <3>1, <3>2
  <2>. QED BY <1>3, <2>5, <2>6
<1>8. CASE UNCHANGED call
  BY <1>2, <1>8 DEF CallsOK
<1>. QED BY <1>4, <1>5, <1>6, <1>7, <1>8, CallSteps

LEMMA RowsStep ==
  ASSUME BlobsOK, RowsOK, CallsOK, UsersStep
  PROVE  RowsOK'
<1>1. \A row : RowOK(blobs, row) => RowOK(blobs', row)
  BY BlobsStep, NamesKept
<1>2. ASSUME NEW v \in Servers, UpsertPreferences(v) PROVE RowsOK'
  <2>. PICK r : r = call[v]
    OBVIOUS
  <2>. PICK u, cv : u = r.user /\ cv = r.cv
    OBVIOUS
  <2>1. r.pc = "upsert" /\ CallOK(blobs, r) /\ UNCHANGED blobs
    BY <1>2 DEF UpsertPreferences, Calling, CallsOK
  <2>2. /\ u \in Accounts /\ cv \in CVs
        /\ Stored(blobs, "quill", <<u, cv>>) /\ Stored(blobs, "text", <<u, cv>>)
    BY <2>1 DEF CallOK
  <2>3. RowOK(blobs', [version |-> cv, path |-> <<u, cv>>])
    BY <2>1, <2>2 DEF RowOK
  <2>4. prefs' = [prefs EXCEPT ![u] = [version |-> cv, path |-> <<u, cv>>]]
    BY <1>2 DEF UpsertPreferences, BlobPath
  <2>. QED BY <1>1, <2>3, <2>4 DEF RowsOK
<1>3. CASE ~\E v \in Servers : UpsertPreferences(v)
  <2>1. UNCHANGED prefs
    BY <1>3 DEF UsersStep, UsersNext, userVars, LinkCode, IssueCode, LinkAccount, SavePreferences,
       Upload, ReadPreferences, AnswerSnapshot, CallFails, UnlinkAccount, UnlinkChat, Unlinked,
       LinkTelegram
  <2>. QED BY <1>1, <2>1 DEF RowsOK
<1>. QED BY <1>2, <1>3

\* A row that was read, however long ago, leads to the version it names.
LEMMA SnapshotsStep ==
  ASSUME BlobsOK, CallsOK, SnapshotIsItsVersion, UsersStep
  PROVE  SnapshotIsItsVersion'
<1>1. ASSUME NEW v \in Servers, AnswerSnapshot(v) PROVE SnapshotIsItsVersion'
  <2>. PICK row : row = call[v].row
    OBVIOUS
  <2>1. RowOK(blobs, row)
    BY <1>1 DEF AnswerSnapshot, Calling, CallsOK, CallOK
  <2>2. Download("text", row.path) = row.version /\ Download("quill", row.path) = row.version
    BY <2>1 DEF RowOK, Stored, Download, BlobsOK
  <2>3. snapshots' = snapshots \cup {[version |-> row.version, text |-> Download("text", row.path),
                                      rich |-> Download("quill", row.path)]}
    BY <1>1 DEF AnswerSnapshot
  <2>. QED BY <2>2, <2>3 DEF SnapshotIsItsVersion
<1>2. CASE ~\E v \in Servers : AnswerSnapshot(v)
  <2>1. UNCHANGED snapshots
    BY <1>2 DEF UsersStep, UsersNext, userVars, LinkCode, IssueCode, LinkAccount, SavePreferences,
       Upload, UpsertPreferences, ReadPreferences, CallFails, UnlinkAccount, UnlinkChat, Unlinked,
       LinkTelegram
  <2>. QED BY <2>1 DEF SnapshotIsItsVersion
<1>. QED BY <1>1, <1>2

LEMMA AccountsInvStep ==
  ASSUME AccountsInv, UsersStep
  PROVE  AccountsInv'
<1>1. LinksOK'
  BY LinksStep DEF AccountsInv
<1>2. BlobsOK' /\ RowsOK' /\ CallsOK' /\ SnapshotIsItsVersion'
  BY BlobsStep, RowsStep, CallsStep, SnapshotsStep DEF AccountsInv
<1>. QED BY <1>1, <1>2 DEF AccountsInv

-----------------------------------------------------------------------------
(* What the bot has been told.                                             *)

LEMMA BotStep ==
  ASSUME BotOK, [Next]_vars
  PROVE  BotOK'
<1>1. CASE UNCHANGED botVars
  BY <1>1 DEF BotOK, botVars
<1>2. ASSUME NEW c \in Chats, LookUp(c) PROVE BotOK'
  <2>. PICK a : a = asked[c]
    OBVIOUS
  <2>1. a \in [command : Commands \cup {"none"}, user : Users \cup {Null}] /\ a.command # "none"
    BY <1>2 DEF BotOK, LookUp
  <2>2. cache' = cache /\ cache[c] = Null
    BY <1>2 DEF BotOK, LookUp
  <2>3. asked' = [asked EXCEPT ![c] = NoCommand]
          \/ \E u \in Users : asked' = [asked EXCEPT ![c] = [a EXCEPT !.user = u]]
    <3>1. CASE LinkedTo(c) = {}
      BY <1>2, <3>1 DEF LookUp
    <3>2. CASE LinkedTo(c) # {}
      <4>. DEFINE u == CHOOSE x \in Accounts : x \in LinkedTo(c)
      <4>1. u \in Users
        BY <3>2, AccountAssumption DEF LinkedTo
      <4>2. asked' = [asked EXCEPT ![c] = [a EXCEPT !.user = u]]
        BY <1>2, <3>2 DEF LookUp
      <4>. QED BY <4>1, <4>2
    <3>. QED BY <3>1, <3>2
  <2>. QED BY <2>1, <2>2, <2>3 DEF BotOK, NoCommand
<1>3. ASSUME NEW c \in Chats, Resolved(c) PROVE BotOK'
  <2>1. asked[c].user \in Users
    BY <1>3 DEF BotOK, Resolved
  <2>. QED BY <1>3, <2>1 DEF BotOK, Resolved, NoCommand
<1>4. ASSUME NEW c \in Chats, NEW command \in Commands, Command(c, command) PROVE BotOK'
  <2>1. cache' = cache
    BY <1>4 DEF Command
  <2>2. CASE cache[c] # Null
    BY <1>4, <2>1, <2>2 DEF Command, BotOK
  <2>3. CASE cache[c] = Null
    <3>1. asked' = [asked EXCEPT ![c] = [command |-> command, user |-> Null]]
      BY <1>4, <2>3 DEF Command
    <3>2. command # "none"
      BY DEF Commands
    <3>. QED BY <2>1, <2>3, <3>1, <3>2 DEF BotOK
  <2>. QED BY <2>2, <2>3
<1>5. CASE Restart
  BY <1>5 DEF Restart, BotOK, NoCommand
<1>. QED BY <1>1, <1>2, <1>3, <1>4, <1>5 DEF Next, Link, Unlink, vars

\* An account keeps its chat, or the chat is stale.
LEMMA CurrentOrStale ==
  ASSUME LinksOK, CallsOK, UsersStep, stale \subseteq stale'
  PROVE  \A u \in Accounts, c \in Chats \ stale' : account[u].tg = c => account'[u].tg = c
<1>1. CASE UNCHANGED account
  BY <1>1
<1>2. ASSUME NEW v \in Servers, IssueCode(v)
      PROVE  \A u \in Accounts, c \in Chats \ stale' : account[u].tg = c => account'[u].tg = c
  BY <1>2, CodeIsIssued
<1>3. ASSUME NEW v \in Servers, LinkAccount(v),
             NEW x \in Accounts, NEW d \in Chats \ stale', account[x].tg = d
      PROVE  account'[x].tg = d
  <2>. PICK u, c : u = call[v].user /\ c = call[v].chat
    OBVIOUS
  <2>1. /\ account'[u].tg = c
        /\ x # u => account'[x] = account[x]
        /\ account[u].tg # c => account[u].tg \in stale' \cup {Null}
    BY <1>3, ChatIsLinked
  <2>2. d # Null
    BY AccountAssumption
  <2>. QED BY <1>3, <2>1, <2>2
<1>4. ASSUME NEW U \in SUBSET Accounts, Unlinked(U),
             NEW x \in Accounts, NEW d \in Chats \ stale', account[x].tg = d
      PROVE  account'[x].tg = d
  <2>1. /\ x \notin U => account'[x].tg = account[x].tg
        /\ x \in U => account[x].tg \in stale' \cup {Null}
    BY <1>4, ChatsAreUnlinked
  <2>2. d # Null
    BY AccountAssumption
  <2>. QED BY <1>4, <2>1, <2>2
<1>. QED BY <1>1, <1>2, <1>3, <1>4, AccountSteps

LEMMA ToldStep ==
  ASSUME LinksOK, CallsOK, BotOK, ToldIsCurrent, [Next]_vars
  PROVE  ToldIsCurrent'
<1>0. \A c \in Chats : cache[c] \in Users \cup {Null} /\ asked[c].user \in Users \cup {Null}
  BY DEF BotOK
<1>1. ASSUME UNCHANGED botVars, UsersStep, stale \subseteq stale' PROVE ToldIsCurrent'
  <2>1. \A u \in Users, c \in Chats \ stale' : account[u].tg = c => account'[u].tg = c
    BY <1>1, CurrentOrStale, AccountAssumption
  <2>. QED BY <1>0, <1>1, <2>1 DEF ToldIsCurrent, botVars
<1>2. ASSUME UsersNext \/ \E c \in Chats : UnlinkChat(c) \/ \E v \in Servers : LinkTelegram(v, c)
      PROVE  UsersStep /\ stale \subseteq stale'
  <2>1. UsersStep
    BY <1>2 DEF UsersStep
  <2>. DEFINE Keeps == stale \subseteq stale'
  <2>2. ASSUME NEW v \in Servers, LinkAccount(v) PROVE Keeps
    BY <2>2 DEF LinkAccount
  <2>3. ASSUME NEW v \in Servers,
               \/ LinkCode(v) \/ IssueCode(v) \/ SavePreferences(v) \/ Upload(v, "quill", "text")
               \/ Upload(v, "text", "upsert") \/ UpsertPreferences(v) \/ ReadPreferences(v)
               \/ AnswerSnapshot(v) \/ CallFails(v)
        PROVE  Keeps
    BY <2>3 DEF LinkCode, IssueCode, SavePreferences, Upload, UpsertPreferences, ReadPreferences,
       AnswerSnapshot, CallFails
  <2>4. ASSUME NEW U, Unlinked(U) PROVE Keeps
    BY <2>4 DEF Unlinked
  <2>5. ASSUME NEW v \in Servers, NEW c \in Chats, LinkTelegram(v, c) PROVE Keeps
    BY <2>5 DEF LinkTelegram
  <2>6. UnlinkAccount \/ (\E c \in Chats : UnlinkChat(c)) => Keeps
    BY <2>4 DEF UnlinkAccount, UnlinkChat
  <2>. HIDE DEF Keeps
  <2>7. UsersNext => Keeps
    BY <2>2, <2>3, <2>6 DEF UsersNext
  <2>8. Keeps
    BY <1>2, <2>5, <2>6, <2>7
  <2>. QED BY <2>1, <2>8 DEF Keeps
<1>3. ASSUME NEW c \in Chats, LookUp(c) PROVE ToldIsCurrent'
  <2>1. UNCHANGED <<account, cache>> /\ stale' = stale \ {c} /\ cache[c] = Null
    BY <1>3 DEF LookUp, BotOK
  <2>2. \A d \in Chats : d # c => asked'[d] = asked[d]
    BY <1>3 DEF LookUp
  <2>3. asked'[c].user # Null => account[asked'[c].user].tg = c
    <3>1. CASE LinkedTo(c) = {}
      <4>1. asked' = [asked EXCEPT ![c] = NoCommand]
        BY <1>3, <3>1 DEF LookUp
      <4>. QED BY <4>1 DEF BotOK, NoCommand
    <3>2. CASE LinkedTo(c) # {}
      <4>. DEFINE u == CHOOSE x \in Accounts : x \in LinkedTo(c)
      <4>1. account[u].tg = c
        BY <3>2 DEF LinkedTo
      <4>2. asked' = [asked EXCEPT ![c] = [asked[c] EXCEPT !.user = u]]
        BY <1>3, <3>2 DEF LookUp
      <4>. HIDE DEF u
      <4>3. asked'[c].user = u
        BY <4>2 DEF BotOK
      <4>. QED BY <4>1, <4>3
    <3>. QED BY <3>1, <3>2
  <2>. QED BY <2>1, <2>2, <2>3 DEF ToldIsCurrent
<1>4. ASSUME NEW c \in Chats, Resolved(c) PROVE ToldIsCurrent'
  <2>1. /\ UNCHANGED <<account, stale>>
        /\ cache' = [cache EXCEPT ![c] = asked[c].user]
        /\ asked' = [asked EXCEPT ![c] = NoCommand]
    BY <1>4 DEF Resolved, userVars
  <2>. QED BY <2>1 DEF ToldIsCurrent, BotOK, NoCommand
<1>5. ASSUME NEW c \in Chats, NEW command \in Commands, Command(c, command) PROVE ToldIsCurrent'
  <2>1. /\ UNCHANGED <<account, stale, cache>>
        /\ \/ UNCHANGED asked
           \/ asked' = [asked EXCEPT ![c] = [command |-> command, user |-> Null]]
    BY <1>5 DEF Command, userVars
  <2>. QED BY <2>1 DEF ToldIsCurrent, BotOK
<1>6. CASE Restart
  BY <1>6 DEF Restart, ToldIsCurrent, NoCommand
<1>7. CASE UNCHANGED <<botVars, userVars>>
  BY <1>7 DEF ToldIsCurrent, botVars, userVars
<1>8. ASSUME NEW c \in Chats, Link(c) \/ Unlink(c) PROVE ToldIsCurrent'
  BY <1>1, <1>2, <1>8 DEF Link, Unlink
<1>. QED BY <1>1, <1>2, <1>3, <1>4, <1>5, <1>6, <1>7, <1>8 DEF Next, vars

-----------------------------------------------------------------------------
(* The pages that are read and kept.                                       *)

\* Nothing that is deleted is listed.
LEMMA AnswersAreThere ==
  ASSUME NEW p, NEW counted, NEW j \in Answer(p, counted).page
  PROVE  j \in Jobs /\ ~offers[j].deleted
BY DEF Answer, Page, Listed

\* A page that is shown is not on its way any more.
LEMMA ShownKeeps ==
  ASSUME NEW p, NEW a, NEW q, q = Shown(p, a), {"pc", "user", "got"} \subseteq DOMAIN p
  PROVE  q.pc \in {"over", "turn"} /\ q.user = p.user /\ DOMAIN q = DOMAIN p
<1>. DEFINE last == IF p.offset = 0 THEN a.listed ELSE p.last
            over == IsLast(p, a)
            next == IF over THEN "over" ELSE "turn"
            offset == p.offset + PageSize
            start == IF p.offset = 0 THEN a.listed ELSE p.start
            shown == p.shown \cup a.page
            twice == p.twice + Cardinality(p.shown \cap a.page)
            gone == p.gone + Cardinality(last \ a.listed)
            came == p.came + Cardinality(a.listed \ last)
            slipped == IF over /\ p.client = Web THEN Cardinality(a.listed \ a.counted) ELSE 0
<1>1. q = [p EXCEPT !.pc = next, !.offset = offset, !.start = start, !.last = a.listed,
                    !.shown = shown, !.twice = twice, !.gone = gone, !.came = came,
                    !.slipped = slipped]
  BY DEF Shown
<1>2. next \in {"over", "turn"}
  OBVIOUS
<1>. HIDE DEF last, over, next, offset, start, shown, twice, gone, came, slipped
<1>. QED BY <1>1, <1>2

\* What a step may do to the client that turns the pages.
LEMMA PagerSteps ==
  ASSUME PagerOK(Jobs, pager), ListsStep
  PROVE  \/ UNCHANGED pager
         \/ /\ pager'.pc \in {"turn", "select", "over"}
            /\ pager'.user \in Users
            /\ {"pc", "user", "got"} \subseteq DOMAIN pager'
         \/ SelectPage
<1>1. ASSUME NEW client, NEW u \in Users, NEW v
      PROVE  LET p == FirstOf(client, u, v)
             IN  p.pc = "turn" /\ p.user = u /\ {"pc", "user", "got"} \subseteq DOMAIN p
  BY DEF FirstOf
<1>2. ASSUME NEW p, NEW a, p.user \in Users, {"pc", "user", "got"} \subseteq DOMAIN p, pager' = Shown(p, a)
      PROVE  /\ pager'.pc \in {"turn", "select", "over"} /\ pager'.user \in Users
             /\ {"pc", "user", "got"} \subseteq DOMAIN pager'
  BY <1>2, ShownKeeps
<1>3. ASSUME NEW client, NEW u \in Users, NEW v, pager' = FirstOf(client, u, v)
      PROVE  /\ pager'.pc \in {"turn", "select", "over"} /\ pager'.user \in Users
             /\ {"pc", "user", "got"} \subseteq DOMAIN pager'
  BY <1>1, <1>3
<1>4. ASSUME pager.pc # "none" PROVE pager.user \in Users /\ {"pc", "user", "got"} \subseteq DOMAIN pager
  BY <1>4 DEF PagerOK
<1>. DEFINE Turned == /\ pager'.pc \in {"turn", "select", "over"} /\ pager'.user \in Users
                      /\ {"pc", "user", "got"} \subseteq DOMAIN pager'
<1>5. ASSUME OpenList PROVE Turned
  BY <1>3, <1>5 DEF OpenList
<1>6. ASSUME Cached PROVE Turned
  BY <1>2, <1>4, <1>6 DEF Cached, Turning
<1>7. ASSUME CountList PROVE Turned
  BY <1>4, <1>7 DEF CountList, Turning
<1>8. ASSUME PutPage PROVE Turned
  BY <1>2, <1>4, <1>8 DEF PutPage
<1>9. ASSUME NEW c, NEW u \in Users, OpenActive(c, u) PROVE Turned \/ UNCHANGED pager
  BY <1>1, <1>2, <1>9 DEF OpenActive, AskActive
<1>10. ASSUME NEW c, NEW u \in Users, MoreActive(c, u) PROVE Turned \/ UNCHANGED pager
  BY <1>2, <1>4, <1>10 DEF MoreActive, AskActive, Turning
<1>11. ASSUME DeleteOnWeb \/ InvalidatePages \/ Score PROVE UNCHANGED pager
  BY <1>11 DEF DeleteOnWeb, InvalidatePages, Score
<1>. HIDE DEF Turned
<1>12. Turned \/ UNCHANGED pager \/ SelectPage
  BY <1>5, <1>6, <1>7, <1>8, <1>9, <1>10, <1>11 DEF ListsStep, ListsNext, listVars
<1>. QED BY <1>12 DEF Turned

\* What is read now is there now.
LEMMA PageIsRead ==
  ASSUME PagerOK(Jobs, pager), SelectPage
  PROVE  /\ UNCHANGED <<jobVars, fits, memo, removing, hidden>>
         /\ pager'.pc = "put" /\ pager'.user = pager.user /\ pager.user \in Users
         /\ {"pc", "user", "got"} \subseteq DOMAIN pager'
         /\ \A j \in pager'.got.page : j \in Jobs /\ ~offers[j].deleted
<1>. PICK a : a = Answer(pager, pager.got)
  OBVIOUS
<1>1. \A j \in a.page : j \in Jobs /\ ~offers[j].deleted
  BY AnswersAreThere
<1>2. pager' = [pager EXCEPT !.pc = "put", !.got = a]
  BY DEF SelectPage
<1>3. pager.user \in Users /\ {"pc", "user", "got"} \subseteq DOMAIN pager
  BY DEF PagerOK, SelectPage
<1>4. pager'.pc = "put" /\ pager'.user = pager.user /\ pager'.got = a /\ DOMAIN pager' = DOMAIN pager
  BY <1>2, <1>3
<1>. QED BY <1>1, <1>3, <1>4 DEF SelectPage

\* What a step may do to the pages that are kept.
LEMMA MemoSteps ==
  ASSUME ListsStep
  PROVE  \/ UNCHANGED memo
         \/ PutPage
         \/ \E d \in removing : memo' = Forget(d[1])
BY DEF ListsStep, ListsNext, listVars, OpenList, Cached, CountList, SelectPage, DeleteOnWeb,
   InvalidatePages, Score, OpenActive, MoreActive

\* The page that was read is kept, and those of others stay.
LEMMA PageIsKept ==
  ASSUME PagerOK(Jobs, pager), PutPage, NEW k \in DOMAIN memo'
  PROVE  \/ k \in DOMAIN memo /\ memo'[k] = memo[k]
         \/ memo'[k] = pager.got /\ k[1] = pager.user /\ pager.user \in Users /\ pager.pc = "put"
<1>. PICK key, a : key = KeyOf(pager) /\ a = pager.got
  OBVIOUS
<1>1. memo' = [x \in DOMAIN memo \cup {key} |-> IF x = key THEN a ELSE memo[x]]
  BY DEF PutPage
<1>2. key[1] = pager.user /\ pager.user \in Users /\ pager.pc = "put"
  BY DEF KeyOf, PagerOK, PutPage
<1>. QED BY <1>1, <1>2

\* Who deletes what.
LEMMA DeletionSteps ==
  ASSUME ListsStep
  PROVE  \/ UNCHANGED <<removing, hidden>>
         \/ /\ UNCHANGED <<hidden, pager, memo>>
            /\ \E u \in Users, j \in Jobs : removing' = {<<u, j>>} /\ Delete(u, j)
         \/ InvalidatePages
BY DEF ListsStep, ListsNext, listVars, OpenList, Cached, CountList, SelectPage, PutPage, DeleteOnWeb,
   Score, OpenActive, MoreActive

LEMMA ListsStepOK ==
  ASSUME ListsOK, OffersKept, ListsStep
  PROVE  ListsOK'
<1>1. Jobs \subseteq Jobs' /\ PagerOK(Jobs, pager)
  BY DEF OffersKept, ListsOK
<1>2. PagerOK(Jobs', pager')
  <2>1. CASE UNCHANGED pager
    BY <1>1, <2>1 DEF PagerOK
  <2>2. CASE SelectPage
    BY <1>1, <2>2, PageIsRead DEF PagerOK
  <2>3. CASE /\ pager'.pc \in {"turn", "select", "over"}
             /\ pager'.user \in Users
             /\ {"pc", "user", "got"} \subseteq DOMAIN pager'
    BY <2>3 DEF PagerOK
  <2>. QED BY <1>1, <2>1, <2>2, <2>3, PagerSteps
<1>3. ASSUME NEW k \in DOMAIN memo' PROVE k[1] \in Users /\ memo'[k].page \subseteq Jobs'
  <2>1. k \in DOMAIN memo => k[1] \in Users /\ memo[k].page \subseteq Jobs'
    BY <1>1 DEF ListsOK
  <2>2. CASE UNCHANGED memo
    BY <1>3, <2>1, <2>2
  <2>3. CASE PutPage
    BY <1>1, <1>3, <2>1, <2>3, PageIsKept DEF PagerOK
  <2>4. ASSUME NEW d, memo' = Forget(d[1]) PROVE k[1] \in Users /\ memo'[k].page \subseteq Jobs'
    BY <1>3, <2>1, <2>4 DEF Forget
  <2>. QED BY <2>2, <2>3, <2>4, MemoSteps
<1>4. fits' \subseteq Jobs' \X Users
  <2>1. ASSUME Score PROVE fits' \subseteq fits \cup (Jobs \X Users)
    <3>1. PICK j \in Jobs, u \in Users :
             fits' = IF <<j, u>> \in fits THEN fits \ {<<j, u>>} ELSE fits \cup {<<j, u>>}
      BY <2>1 DEF Score
    <3>2. <<j, u>> \in Jobs \X Users
      OBVIOUS
    <3>. QED BY <3>1, <3>2
  <2>2. ASSUME ~Score PROVE UNCHANGED fits
    BY <2>2 DEF ListsStep, ListsNext, listVars, OpenList, Cached, CountList, SelectPage, PutPage,
       DeleteOnWeb, InvalidatePages, OpenActive, MoreActive
  <2>. QED BY <1>1, <2>1, <2>2 DEF ListsOK
<1>5. removing' \cup hidden' \subseteq Users \X Jobs'
  <2>1. CASE UNCHANGED <<removing, hidden>>
    BY <1>1, <2>1 DEF ListsOK
  <2>2. ASSUME UNCHANGED hidden, NEW u \in Users, NEW j \in Jobs, removing' = {<<u, j>>}
        PROVE  removing' \cup hidden' \subseteq Users \X Jobs'
    BY <1>1, <2>2 DEF ListsOK
  <2>3. CASE InvalidatePages
    BY <1>1, <2>3 DEF ListsOK, InvalidatePages
  <2>. QED BY <2>1, <2>2, <2>3, DeletionSteps
<1>. QED BY <1>2, <1>3, <1>4, <1>5 DEF ListsOK

\* A page that is read after a deletion does not hold what was deleted.
LEMMA DeletedStep ==
  ASSUME TablesOK, HistoryOrdered, ListsOK, OffersKept, DeletedStaysAway, ListsStep
  PROVE  DeletedStaysAway'
<1>0. /\ PagerOK(Jobs, pager)
      /\ \A d \in removing \cup hidden : offers[d[2]].deleted /\ offers'[d[2]].deleted
  BY DEF ListsOK, OffersKept, DeletedStaysAway
<1>1. \A d \in removing' \cup hidden' : offers'[d[2]].deleted
  <2>1. CASE UNCHANGED <<removing, hidden>>
    BY <1>0, <2>1
  <2>2. ASSUME UNCHANGED hidden, NEW u \in Users, NEW j \in Jobs, removing' = {<<u, j>>}, Delete(u, j)
        PROVE  \A d \in removing' \cup hidden' : offers'[d[2]].deleted
    <3>1. offers'[j].deleted
      BY <2>2, DeleteTells
    <3>. QED BY <1>0, <2>2, <3>1
  <2>3. CASE InvalidatePages
    BY <1>0, <2>3 DEF InvalidatePages
  <2>. QED BY <2>1, <2>2, <2>3, DeletionSteps
<1>2. ASSUME NEW d \in hidden', pager'.pc = "put", pager'.user = d[1], d[2] \in pager'.got.page
      PROVE  FALSE
  <2>1. CASE SelectPage
    <3>1. d \in hidden /\ ~offers[d[2]].deleted
      BY <1>0, <1>2, <2>1, PageIsRead
    <3>. QED BY <1>0, <3>1
  <2>2. CASE ~SelectPage
    <3>1. UNCHANGED pager
      BY <1>0, <1>2, <2>2, PagerSteps
    <3>2. d \notin hidden
      BY <1>2, <3>1 DEF DeletedStaysAway
    <3>3. InvalidatePages
      BY <1>2, <3>2, DeletionSteps
    <3>4. PICK e \in removing :
             hidden' = IF pager.pc = "put" /\ pager.user = e[1] /\ e[2] \in pager.got.page
                       THEN hidden ELSE hidden \cup {e}
      BY <3>3 DEF InvalidatePages
    <3>. QED BY <1>2, <3>1, <3>2, <3>4
  <2>. QED BY <2>1, <2>2
<1>. QED BY <1>1, <1>2 DEF DeletedStaysAway

\* It is in no page that is kept of those who have been told.
LEMMA GoneStep ==
  ASSUME ListsOK, DeletedStaysAway, DeletedIsGone, ListsStep
  PROVE  DeletedIsGone'
<1>1. SUFFICES ASSUME NEW d \in hidden', NEW k \in DOMAIN memo', k[1] = d[1],
                      d[2] \in memo'[k].page
               PROVE  FALSE
  BY DEF DeletedIsGone
<1>2. CASE d \in hidden
  <2>1. k \in DOMAIN memo => d[2] \notin memo[k].page
    BY <1>1, <1>2 DEF DeletedIsGone
  <2>2. CASE UNCHANGED memo
    BY <1>1, <2>1, <2>2
  <2>3. CASE PutPage
    <3>1. memo'[k] = pager.got /\ k[1] = pager.user /\ pager.pc = "put"
      BY <1>1, <2>1, <2>3, PageIsKept DEF ListsOK
    <3>. QED BY <1>1, <1>2, <3>1 DEF DeletedStaysAway
  <2>4. ASSUME NEW e, memo' = Forget(e[1]) PROVE FALSE
    BY <1>1, <2>1, <2>4 DEF Forget
  <2>. QED BY <2>2, <2>3, <2>4, MemoSteps
<1>3. CASE d \notin hidden
  <2>1. InvalidatePages
    BY <1>1, <1>3, DeletionSteps
  <2>2. PICK e \in removing :
           memo' = Forget(e[1]) /\ (hidden' = hidden \/ hidden' = hidden \cup {e})
    BY <2>1 DEF InvalidatePages
  <2>3. d = e
    BY <1>1, <1>3, <2>2
  <2>. QED BY <1>1, <2>2, <2>3 DEF Forget
<1>. QED BY <1>2, <1>3

-----------------------------------------------------------------------------
(* A client that turns the pages of a list.                                *)

\* The jobs before an offset of a list; the pages from there show the others.
Behind(view, list, offset) ==
    {j \in list : Cardinality({k \in list : Precedes(view, k, j)}) < offset}
Ahead(view, list, offset) == list \ Behind(view, list, offset)

LEMMA ViewsAreOrders ==
  ASSUME NEW v, NEW i \in Nat, NEW j \in Nat, NEW k \in Nat
  PROVE  /\ ~Precedes(v, i, i)
         /\ Precedes(v, i, j) /\ Precedes(v, j, k) => Precedes(v, i, k)
         /\ i = j \/ Precedes(v, i, j) \/ Precedes(v, j, i)
BY DEF Precedes

LEMMA HasEnds ==
  ASSUME NEW v, NEW n \in Nat, NEW S \in SUBSET (1 .. n), S # {}
  PROVE  /\ \E x \in S : \A y \in S : x = y \/ Precedes(v, x, y)
         /\ \E x \in S : \A y \in S : x = y \/ Precedes(v, y, x)
<1>1. S \subseteq Nat /\ \A x \in S : x <= n
  OBVIOUS
<1>2. PICK a \in S : \A y \in S : a <= y
  BY <1>1, HasLeast
<1>3. PICK z \in S : \A y \in S : y <= z
  BY <1>1, HasGreatest
<1>4. \A y \in S : (a = y \/ a < y) /\ (z = y \/ y < z)
  BY <1>1, <1>2, <1>3
<1>. QED BY <1>4 DEF Precedes

LEMMA Sizes ==
  ASSUME NEW n \in Nat, NEW S \in SUBSET (1 .. n), NEW T \in SUBSET S
  PROVE  /\ IsFiniteSet(S) /\ IsFiniteSet(T)
         /\ Cardinality(S) \in Nat /\ Cardinality(T) \in Nat
         /\ Cardinality(T) <= Cardinality(S)
<1>1. IsFiniteSet(1 .. n)
  BY FS_Interval
<1>2. IsFiniteSet(S)
  BY <1>1, FS_Subset
<1>. QED BY <1>2, FS_Subset, FS_CardinalityType

LEMMA BehindOffset ==
  ASSUME NEW n \in Nat, NEW L \in SUBSET (1 .. n), NEW v, NEW o \in Nat
  PROVE  /\ \A j \in Behind(v, L, o), k \in L : Precedes(v, k, j) => k \in Behind(v, L, o)
         /\ Cardinality(Behind(v, L, o)) <= o
         /\ Ahead(v, L, o) # {} => Cardinality(Behind(v, L, o)) = o
<1>. DEFINE Earlier(j) == {k \in L : Precedes(v, k, j)}
            H == Behind(v, L, o)
<1>1. H \subseteq L /\ \A j \in L : j \in H <=> Cardinality(Earlier(j)) < o
  BY DEF Behind
<1>2. \A j \in L : Earlier(j) \subseteq L /\ Cardinality(Earlier(j)) \in Nat
  BY Sizes
<1>3. L \subseteq Nat
  OBVIOUS
<1>4. \A j, k \in L : Precedes(v, k, j) => Earlier(k) \subseteq Earlier(j)
  BY <1>3, ViewsAreOrders
<1>5. \A j \in L : j \notin Earlier(j)
  BY <1>3, ViewsAreOrders
<1>6. \A j, k \in L : Precedes(v, k, j) => k \in Earlier(j)
  OBVIOUS
<1>7. \A j \in L : \A S \in SUBSET Earlier(j) : Cardinality(S) <= Cardinality(Earlier(j)) /\ Cardinality(S) \in Nat
  BY <1>2, Sizes
<1>. HIDE DEF Earlier, H
<1>8. ASSUME NEW j \in H, NEW k \in L, Precedes(v, k, j) PROVE k \in H
  <2>1. Cardinality(Earlier(k)) <= Cardinality(Earlier(j)) /\ Cardinality(Earlier(j)) < o
    BY <1>1, <1>4, <1>7, <1>8
  <2>2. Cardinality(Earlier(k)) < o
    BY <1>1, <1>2, <1>8, <2>1
  <2>. QED BY <1>1, <1>8, <2>2
<1>9. Cardinality(H) \in Nat /\ IsFiniteSet(H)
  BY <1>1, Sizes
<1>10. Cardinality(H) <= o
  <2>1. CASE H = {}
    BY <2>1, FS_EmptySet
  <2>2. CASE H # {}
    <3>1. PICK z \in H : \A y \in H : z = y \/ Precedes(v, y, z)
      BY <1>1, <2>2, HasEnds
    <3>2. z \in L /\ H \ {z} \subseteq Earlier(z)
      BY <1>1, <1>6, <3>1
    <3>3. Cardinality(H \ {z}) = Cardinality(H) - 1
      BY <1>9, FS_RemoveElement
    <3>4. Cardinality(H \ {z}) <= Cardinality(Earlier(z)) /\ Cardinality(Earlier(z)) < o
      BY <1>1, <1>7, <3>2
    <3>5. Cardinality(Earlier(z)) \in Nat
      BY <1>2, <3>2
    <3>. QED BY <1>9, <3>3, <3>4, <3>5
  <2>. QED BY <2>1, <2>2
<1>11. ASSUME L \ H # {} PROVE o <= Cardinality(H)
  <2>1. PICK a \in L \ H : \A y \in L \ H : a = y \/ Precedes(v, a, y)
    BY <1>11, HasEnds
  <2>2. Earlier(a) \subseteq H
    <3>1. ASSUME NEW k \in Earlier(a), k \notin H PROVE FALSE
      <4>1. k \in L /\ Precedes(v, k, a)
        BY <3>1 DEF Earlier
      <4>2. k \in Nat /\ a \in Nat /\ k \in L \ H
        BY <1>3, <3>1, <4>1
      <4>3. a = k \/ Precedes(v, a, k)
        BY <2>1, <4>2
      <4>. QED BY <4>1, <4>2, <4>3, ViewsAreOrders
    <3>. QED BY <3>1
  <2>3. ~(Cardinality(Earlier(a)) < o) /\ Cardinality(Earlier(a)) \in Nat
    BY <1>1, <1>2
  <2>4. Cardinality(Earlier(a)) <= Cardinality(H)
    BY <1>9, <2>2, FS_Subset
  <2>. QED BY <1>9, <2>3, <2>4
<1>12. L \ H # {} => Cardinality(H) = o
  BY <1>9, <1>10, <1>11
<1>. QED BY <1>8, <1>10, <1>12 DEF H, Ahead

\* When a list has changed, no more jobs have moved behind an offset than came before it,
\* and no more before it than have left from there.
LEMMA JobsMove ==
  ASSUME NEW n \in Nat, NEW L \in SUBSET (1 .. n), NEW M \in SUBSET (1 .. n), NEW v, NEW o \in Nat
  PROVE  Cardinality((Behind(v, L, o) \cap M) \ Behind(v, M, o)) <= Cardinality((M \ L) \cap Behind(v, M, o))
<1>. PICK X, Y : X = Behind(v, L, o) /\ Y = Behind(v, M, o)
  OBVIOUS
<1>1. X \subseteq L /\ Y \subseteq M /\ L \subseteq Nat /\ M \subseteq Nat
  BY DEF Behind
<1>2. /\ Cardinality(X) <= o
      /\ M \ Y # {} => Cardinality(Y) = o
      /\ \A j \in X, k \in L : Precedes(v, k, j) => k \in X
      /\ \A j \in Y, k \in M : Precedes(v, k, j) => k \in Y
  BY BehindOffset DEF Ahead
<1>3. /\ IsFiniteSet(X) /\ IsFiniteSet(Y) /\ Cardinality(X) \in Nat /\ Cardinality(Y) \in Nat
      /\ IsFiniteSet((M \ L) \cap Y) /\ Cardinality((M \ L) \cap Y) \in Nat
  BY <1>1, Sizes
<1>4. CASE (X \cap M) \ Y = {}
  BY <1>3, <1>4, FS_EmptySet
<1>5. ASSUME NEW j \in (X \cap M) \ Y
      PROVE  Cardinality((X \cap M) \ Y) <= Cardinality((M \ L) \cap Y)
  <2>1. Y \ X \subseteq (M \ L) \cap Y
    <3>1. ASSUME NEW y \in Y \ X, y \in L PROVE FALSE
      <4>1. y \in Nat /\ j \in Nat /\ y # j /\ y \in M /\ j \in M
        BY <1>1, <3>1
      <4>2. ~Precedes(v, y, j) /\ ~Precedes(v, j, y)
        BY <1>2, <1>5, <3>1, <4>1
      <4>. QED BY <4>1, <4>2, ViewsAreOrders
    <3>. QED BY <1>1, <3>1
  <2>2. Cardinality(X) <= Cardinality(Y)
    BY <1>2, <1>5
  <2>3. /\ Cardinality(X \ Y) = Cardinality(X) - Cardinality(X \cap Y)
        /\ Cardinality(Y \ X) = Cardinality(Y) - Cardinality(Y \cap X)
        /\ IsFiniteSet(X \ Y) /\ IsFiniteSet(Y \ X)
    BY <1>3, FS_Difference
  <2>4. X \cap Y = Y \cap X
    OBVIOUS
  <2>5. Cardinality(X \cap Y) \in Nat
    BY <1>1, Sizes
  <2>6. Cardinality(X \ Y) <= Cardinality(Y \ X)
    BY <1>3, <2>2, <2>3, <2>4, <2>5
  <2>7. /\ Cardinality((X \cap M) \ Y) <= Cardinality(X \ Y)
        /\ Cardinality((X \cap M) \ Y) \in Nat
    <3>1. (X \cap M) \ Y \subseteq X \ Y
      OBVIOUS
    <3>. QED BY <2>3, <3>1, FS_Subset, FS_CardinalityType
  <2>8. Cardinality(Y \ X) <= Cardinality((M \ L) \cap Y)
    BY <1>3, <2>1, FS_Subset
  <2>9. Cardinality(X \ Y) \in Nat /\ Cardinality(Y \ X) \in Nat
    BY <2>3, FS_CardinalityType
  <2>. QED BY <1>3, <2>6, <2>7, <2>8, <2>9
<1>. QED BY <1>4, <1>5

\* A list and the jobs behind an offset, before and after a change: of those that were
\* shown no more are ahead again than have come, and of those that were not no more are
\* lost than have left.
LEMMA ListChanges ==
  ASSUME NEW n \in Nat, NEW L \in SUBSET (1 .. n), NEW M \in SUBSET (1 .. n), NEW v, NEW o \in Nat,
         NEW S \in SUBSET (1 .. n)
  PROVE  /\ Cardinality(S \cap Ahead(v, M, o)) <=
               Cardinality(S \cap Ahead(v, L, o)) + Cardinality(M \ L)
         /\ Cardinality(S \ Ahead(v, M, o)) <=
               Cardinality(S \ Ahead(v, L, o)) + Cardinality(L \ M)
<1>. PICK X, Y : X = Behind(v, L, o) /\ Y = Behind(v, M, o)
  OBVIOUS
<1>1. X \subseteq L /\ Y \subseteq M
  BY DEF Behind
<1>2. ASSUME NEW A \in SUBSET (1 .. n), NEW B \in SUBSET (1 .. n), NEW C \in SUBSET (1 .. n),
             NEW D \in SUBSET (1 .. n), NEW E \in SUBSET (1 .. n), NEW F \in SUBSET (1 .. n),
             A \subseteq B \cup C \cup D,
             Cardinality(D) <= Cardinality(F), C \cup F \subseteq E, C \cap F = {}
      PROVE  Cardinality(A) <= Cardinality(B) + Cardinality(E)
  <2>1. \A R \in SUBSET (1 .. n) : IsFiniteSet(R) /\ Cardinality(R) \in Nat
    BY Sizes
  <2>2. Cardinality(B \cup C) = Cardinality(B) + Cardinality(C) - Cardinality(B \cap C)
    BY <2>1, FS_Union
  <2>3. Cardinality((B \cup C) \cup D) =
           Cardinality(B \cup C) + Cardinality(D) - Cardinality((B \cup C) \cap D)
    BY <2>1, FS_Union
  <2>4. Cardinality(C \cup F) = Cardinality(C) + Cardinality(F)
    <3>1. Cardinality(C \cup F) = Cardinality(C) + Cardinality(F) - Cardinality(C \cap F)
      BY <2>1, FS_Union
    <3>2. Cardinality(C \cap F) = 0
      BY <1>2, FS_EmptySet
    <3>3. Cardinality(C) \in Nat /\ Cardinality(F) \in Nat
      BY <2>1
    <3>. QED BY <3>1, <3>2, <3>3
  <2>5. Cardinality(C \cup F) <= Cardinality(E)
    BY <1>2, Sizes
  <2>6. Cardinality(A) <= Cardinality((B \cup C) \cup D)
    BY <1>2, Sizes
  <2>7. /\ Cardinality(B \cap C) \in Nat /\ Cardinality((B \cup C) \cap D) \in Nat
        /\ Cardinality(A) \in Nat /\ Cardinality(B) \in Nat /\ Cardinality(C) \in Nat
        /\ Cardinality(D) \in Nat /\ Cardinality(E) \in Nat /\ Cardinality(F) \in Nat
    BY <2>1
  <2>. QED BY <1>2, <2>2, <2>3, <2>4, <2>5, <2>6, <2>7
<1>3. Cardinality(S \cap (M \ Y)) <= Cardinality(S \cap (L \ X)) + Cardinality(M \ L)
  <2>1. Cardinality((X \cap M) \ Y) <= Cardinality((M \ L) \cap Y)
    BY JobsMove
  <2>2. S \cap (M \ Y) \subseteq (S \cap (L \ X)) \cup ((M \ L) \ Y) \cup ((X \cap M) \ Y)
    OBVIOUS
  <2>3. ((M \ L) \ Y) \cup ((M \ L) \cap Y) \subseteq M \ L /\ ((M \ L) \ Y) \cap ((M \ L) \cap Y) = {}
    OBVIOUS
  <2>4. /\ S \cap (M \ Y) \in SUBSET (1 .. n) /\ S \cap (L \ X) \in SUBSET (1 .. n)
        /\ (M \ L) \ Y \in SUBSET (1 .. n) /\ (X \cap M) \ Y \in SUBSET (1 .. n)
        /\ M \ L \in SUBSET (1 .. n) /\ (M \ L) \cap Y \in SUBSET (1 .. n)
    BY <1>1
  <2>. QED BY <1>2, <2>1, <2>2, <2>3, <2>4
<1>4. Cardinality(S \ (M \ Y)) <= Cardinality(S \ (L \ X)) + Cardinality(L \ M)
  <2>1. Cardinality((Y \cap L) \ X) <= Cardinality((L \ M) \cap X)
    BY JobsMove
  <2>2. S \ (M \ Y) \subseteq (S \ (L \ X)) \cup ((L \ M) \ X) \cup ((Y \cap L) \ X)
    OBVIOUS
  <2>3. ((L \ M) \ X) \cup ((L \ M) \cap X) \subseteq L \ M /\ ((L \ M) \ X) \cap ((L \ M) \cap X) = {}
    OBVIOUS
  <2>4. /\ S \ (M \ Y) \in SUBSET (1 .. n) /\ S \ (L \ X) \in SUBSET (1 .. n)
        /\ (L \ M) \ X \in SUBSET (1 .. n) /\ (Y \cap L) \ X \in SUBSET (1 .. n)
        /\ L \ M \in SUBSET (1 .. n) /\ (L \ M) \cap X \in SUBSET (1 .. n)
    BY <1>1
  <2>. QED BY <1>2, <2>1, <2>2, <2>3, <2>4
<1>. QED BY <1>3, <1>4 DEF Ahead

\* A page shows what is ahead until the next offset.
LEMMA PageIsAhead ==
  ASSUME NEW n \in Nat, NEW L \in SUBSET (1 .. n), NEW v, NEW o \in Nat
  PROVE  /\ Page(v, L, o) = Ahead(v, L, o) \ Ahead(v, L, o + PageSize)
         /\ Ahead(v, L, o + PageSize) \subseteq Ahead(v, L, o)
<1>1. \A j \in L : Cardinality({k \in L : Precedes(v, k, j)}) \in Nat
  <2>1. \A j \in L : {k \in L : Precedes(v, k, j)} \subseteq L
    OBVIOUS
  <2>. QED BY <2>1, Sizes
<1>2. ASSUME NEW c \in Nat
      PROVE  /\ c < o => c < o + PageSize
             /\ c \in o .. o + PageSize - 1 <=> c < o + PageSize /\ ~(c < o)
  BY PageAssumption
<1>. QED BY <1>1, <1>2 DEF Page, Ahead, Behind

\* A page that is not full is the last one; and a page that ends where the count says
\* leaves no more jobs ahead than have come since the count.
LEMMA PagesEnd ==
  ASSUME NEW n \in Nat, NEW L \in SUBSET (1 .. n), NEW C \in SUBSET (1 .. n), NEW v, NEW o \in Nat
  PROVE  /\ Cardinality(Page(v, L, o)) < PageSize => Ahead(v, L, o + PageSize) = {}
         /\ o + PageSize >= Cardinality(C) =>
               Cardinality(Ahead(v, L, o + PageSize)) <= Cardinality(L \ C)
<1>. PICK P, X, Y : P = Page(v, L, o) /\ X = Behind(v, L, o) /\ Y = Behind(v, L, o + PageSize)
  OBVIOUS
<1>0. o + PageSize \in Nat /\ PageSize \in Nat
  BY PageAssumption
<1>1. X \subseteq L /\ Y \subseteq L /\ Y \ X \subseteq P /\ P \subseteq L
  <2>1. \A j \in L : Cardinality({k \in L : Precedes(v, k, j)}) \in Nat
    <3>1. \A j \in L : {k \in L : Precedes(v, k, j)} \subseteq L
      OBVIOUS
    <3>. QED BY <3>1, Sizes
  <2>2. ASSUME NEW c \in Nat, c < o + PageSize, ~(c < o) PROVE c \in o .. o + PageSize - 1
    BY <2>2, PageAssumption
  <2>. QED BY <2>1, <2>2 DEF Page, Behind
<1>2. /\ Cardinality(X) <= o
      /\ L \ Y # {} => Cardinality(Y) = o + PageSize
  BY <1>0, BehindOffset DEF Ahead
<1>3. \A R \in SUBSET (1 .. n) : IsFiniteSet(R) /\ Cardinality(R) \in Nat
  BY Sizes
<1>4. ASSUME L \ Y # {} PROVE ~(Cardinality(P) < PageSize)
  <2>1. Cardinality(Y \ X) = Cardinality(Y) - Cardinality(Y \cap X)
    BY <1>1, <1>3, FS_Difference
  <2>2. Cardinality(Y \cap X) <= Cardinality(X)
    BY <1>1, <1>3, FS_Subset
  <2>3. Cardinality(Y \ X) <= Cardinality(P)
    BY <1>1, <1>3, FS_Subset
  <2>4. /\ Cardinality(X) \in Nat /\ Cardinality(Y \cap X) \in Nat /\ Cardinality(P) \in Nat
        /\ Cardinality(Y) = o + PageSize
    BY <1>1, <1>2, <1>3, <1>4
  <2>. QED BY <1>0, <1>2, <2>1, <2>2, <2>3, <2>4
<1>5. ASSUME o + PageSize >= Cardinality(C) PROVE Cardinality(L \ Y) <= Cardinality(L \ C)
  <2>1. CASE L \ Y = {}
    BY <1>3, <2>1, FS_EmptySet
  <2>2. CASE L \ Y # {}
    <3>1. /\ Cardinality(L \ Y) = Cardinality(L) - Cardinality(L \cap Y)
          /\ Cardinality(L \ C) = Cardinality(L) - Cardinality(L \cap C)
      BY <1>3, FS_Difference
    <3>2. Cardinality(L \cap Y) = o + PageSize
      <4>1. L \cap Y = Y
        BY <1>1
      <4>. QED BY <1>2, <2>2, <4>1
    <3>3. Cardinality(L \cap C) <= Cardinality(C)
      BY <1>3, FS_Subset
    <3>4. Cardinality(L) \in Nat /\ Cardinality(C) \in Nat /\ Cardinality(L \cap C) \in Nat
      BY <1>3
    <3>. QED BY <1>0, <1>5, <3>1, <3>2, <3>3, <3>4
  <2>. QED BY <2>1, <2>2
<1>. QED BY <1>4, <1>5 DEF Ahead

\* What is read at one time belongs together.  J is the jobs.
AnswerOK(J, a, view, offset) ==
    /\ offset \in Nat
    /\ a.counted \in SUBSET J /\ a.listed \in SUBSET J
    /\ a.page = Page(view, a.listed, offset)

\* What the client has been shown, and what lies ahead of it in the list it saw last: of
\* the jobs it began with, those it was not shown lie ahead unless as many have left the
\* list; those it was shown lie behind, unless as many have come.
PagerFields ==
    {"pc", "client", "user", "view", "offset", "got", "start", "last", "shown", "twice",
     "gone", "came", "slipped"}
Going(p) ==
    LET ahead == Ahead(p.view, p.last, p.offset)
    IN  /\ p.twice + Cardinality(p.shown \cap ahead) <= p.came
        /\ Cardinality((p.start \ p.shown) \ ahead) <= p.gone
Ended(p) == p.twice <= p.came /\ Cardinality(p.start \ p.shown) <= p.gone + p.slipped
PagesShown(J, p) ==
    /\ DOMAIN p = PagerFields
    /\ p.offset \in Nat /\ p.twice \in Nat /\ p.gone \in Nat /\ p.came \in Nat
    /\ p.start \in SUBSET J /\ p.last \in SUBSET J /\ p.shown \in SUBSET J
    /\ p.offset = 0 => p.shown = {}
    /\ p.pc \in {"turn", "select", "put"} => Going(p)
    /\ p.pc = "select" => p.got \in SUBSET J
    /\ p.pc = "put" => AnswerOK(J, p.got, p.view, p.offset)
    /\ p.pc = "over" => Ended(p)
PagesOK ==
    /\ pager.pc # "none" => PagesShown(Jobs, pager)
    /\ \A k \in DOMAIN memo : AnswerOK(Jobs, memo[k], k[2], k[3])

\* There are never fewer jobs.
LEMMA PagesStay ==
  ASSUME NEW J, NEW K, J \subseteq K
  PROVE  /\ \A a, view, offset : AnswerOK(J, a, view, offset) => AnswerOK(K, a, view, offset)
         /\ \A p : PagesShown(J, p) => PagesShown(K, p)
BY DEF AnswerOK, PagesShown

LEMMA JobsAreCounted ==
  ASSUME TablesOK
  PROVE  \E n \in Nat : Jobs = 1 .. n
BY OffersAre

\* The counts after a page of the list M, which was L at the page before: who has been
\* shown something again, ...
LEMMA ShownAgain ==
  ASSUME NEW n \in Nat, NEW v, NEW o \in Nat, NEW L \in SUBSET (1 .. n), NEW M \in SUBSET (1 .. n),
         NEW S \in SUBSET (1 .. n), NEW tw \in Nat, NEW cm \in Nat,
         tw + Cardinality(S \cap Ahead(v, L, o)) <= cm
  PROVE  (tw + Cardinality(S \cap Page(v, M, o)))
            + Cardinality((S \cup Page(v, M, o)) \cap Ahead(v, M, o + PageSize)) <=
         cm + Cardinality(M \ L)
<1>. PICK P, here, next, before :
        /\ P = Page(v, M, o) /\ here = Ahead(v, M, o) /\ next = Ahead(v, M, o + PageSize)
        /\ before = Ahead(v, L, o)
  OBVIOUS
<1>1. P = here \ next /\ next \subseteq here /\ here \in SUBSET (1 .. n)
  <2>1. /\ Page(v, M, o) = Ahead(v, M, o) \ Ahead(v, M, o + PageSize)
        /\ Ahead(v, M, o + PageSize) \subseteq Ahead(v, M, o)
    BY ONLY n \in Nat, M \in SUBSET (1 .. n), o \in Nat, PageIsAhead
  <2>. QED BY <2>1 DEF Ahead
<1>2. Cardinality(S \cap here) <= Cardinality(S \cap before) + Cardinality(M \ L)
  BY ListChanges
<1>. PICK A, B : A = S \cap P /\ B = (S \cup P) \cap next
  OBVIOUS
<1>3. A \cup B = S \cap here /\ A \cap B = {}
  BY <1>1
<1>4. IsFiniteSet(A) /\ IsFiniteSet(B)
  <2>1. A \in SUBSET (1 .. n) /\ B \in SUBSET (1 .. n)
    BY <1>1
  <2>. QED BY <2>1, Sizes
<1>5. Cardinality(A \cup B) = Cardinality(A) + Cardinality(B) - Cardinality(A \cap B)
  BY <1>4, FS_Union
<1>6. Cardinality(A \cap B) = 0
  BY <1>3, FS_EmptySet
<1>7. /\ Cardinality(A) \in Nat /\ Cardinality(B) \in Nat
      /\ Cardinality(S \cap before) \in Nat /\ Cardinality(M \ L) \in Nat
  <2>1. S \cap before \in SUBSET (1 .. n) /\ M \ L \in SUBSET (1 .. n)
    OBVIOUS
  <2>2. \A R \in SUBSET (1 .. n) : Cardinality(R) \in Nat
    BY Sizes
  <2>3. Cardinality(A) \in Nat /\ Cardinality(B) \in Nat
    BY <1>4, FS_CardinalityType
  <2>. QED BY <2>1, <2>2, <2>3
<1>8. Cardinality(S \cap here) = Cardinality(A) + Cardinality(B)
  <2>1. Cardinality(A \cup B) = Cardinality(A) + Cardinality(B)
    BY <1>5, <1>6, <1>7
  <2>. QED BY <1>3, <2>1
<1>9. (tw + Cardinality(A)) + Cardinality(B) <= cm + Cardinality(M \ L)
  BY <1>2, <1>7, <1>8
<1>. QED BY <1>9

\* ... and what has been passed over.
LEMMA PassedOver ==
  ASSUME NEW n \in Nat, NEW v, NEW o \in Nat, NEW L \in SUBSET (1 .. n), NEW M \in SUBSET (1 .. n),
         NEW S \in SUBSET (1 .. n), NEW T \in SUBSET (1 .. n), NEW gn \in Nat,
         Cardinality((T \ S) \ Ahead(v, L, o)) <= gn
  PROVE  Cardinality((T \ (S \cup Page(v, M, o))) \ Ahead(v, M, o + PageSize)) <=
         gn + Cardinality(L \ M)
<1>. PICK P, here, next, before :
        /\ P = Page(v, M, o) /\ here = Ahead(v, M, o) /\ next = Ahead(v, M, o + PageSize)
        /\ before = Ahead(v, L, o)
  OBVIOUS
<1>1. P = here \ next /\ next \subseteq here
  <2>1. /\ Page(v, M, o) = Ahead(v, M, o) \ Ahead(v, M, o + PageSize)
        /\ Ahead(v, M, o + PageSize) \subseteq Ahead(v, M, o)
    BY ONLY n \in Nat, M \in SUBSET (1 .. n), o \in Nat, PageIsAhead
  <2>. QED BY <2>1
<1>2. T \ S \in SUBSET (1 .. n)
  OBVIOUS
<1>3. Cardinality((T \ S) \ here) <= Cardinality((T \ S) \ before) + Cardinality(L \ M)
  BY <1>2, ListChanges
<1>. PICK A, B : A = (T \ (S \cup P)) \ next /\ B = (T \ S) \ here
  OBVIOUS
<1>4. A \subseteq B /\ B \in SUBSET (1 .. n)
  BY <1>1
<1>5. Cardinality(A) <= Cardinality(B) /\ Cardinality(A) \in Nat /\ Cardinality(B) \in Nat
  BY <1>4, Sizes
<1>6. Cardinality((T \ S) \ before) \in Nat /\ Cardinality(L \ M) \in Nat
  <2>1. (T \ S) \ before \in SUBSET (1 .. n) /\ L \ M \in SUBSET (1 .. n)
    OBVIOUS
  <2>2. \A R \in SUBSET (1 .. n) : Cardinality(R) \in Nat
    BY Sizes
  <2>. QED BY <2>1, <2>2
<1>7. Cardinality(A) <= gn + Cardinality(L \ M)
  BY <1>3, <1>5, <1>6
<1>. QED BY <1>7

\* The next page, however the list has changed since the last one.
LEMMA PageIsShown ==
  ASSUME NEW n \in Nat, NEW p, NEW a, PagesShown(1 .. n, p), Going(p),
         AnswerOK(1 .. n, a, p.view, p.offset), NEW q, q = Shown(p, a)
  PROVE  PagesShown(1 .. n, q) /\ q.pc \in {"turn", "over"}
<1>. PICK v, o, S, tw, gn, cm :
        v = p.view /\ o = p.offset /\ S = p.shown /\ tw = p.twice /\ gn = p.gone /\ cm = p.came
  OBVIOUS
<1>. PICK M, C, P : M = a.listed /\ C = a.counted /\ P = a.page
  OBVIOUS
<1>. PICK L : L = IF o = 0 THEN M ELSE p.last
  OBVIOUS
<1>. PICK T : T = IF o = 0 THEN M ELSE p.start
  OBVIOUS
<1>. PICK next : next = Ahead(v, M, o + PageSize)
  OBVIOUS
<1>1. /\ o \in Nat /\ tw \in Nat /\ gn \in Nat /\ cm \in Nat /\ DOMAIN p = PagerFields
      /\ S \in SUBSET (1 .. n) /\ p.last \in SUBSET (1 .. n) /\ p.start \in SUBSET (1 .. n)
      /\ o = 0 => S = {}
  BY DEF PagesShown
<1>2. M \in SUBSET (1 .. n) /\ C \in SUBSET (1 .. n) /\ P = Page(v, M, o)
  BY DEF AnswerOK
<1>3. L \in SUBSET (1 .. n) /\ T \in SUBSET (1 .. n)
  BY <1>1, <1>2
<1>4. \A R \in SUBSET (1 .. n) : IsFiniteSet(R) /\ Cardinality(R) \in Nat
  BY Sizes
<1>5. /\ DOMAIN q = PagerFields /\ q.view = v /\ q.offset = o + PageSize
      /\ q.start = T /\ q.last = M /\ q.shown = S \cup P
      /\ q.twice = tw + Cardinality(S \cap P)
      /\ q.gone = gn + Cardinality(L \ M) /\ q.came = cm + Cardinality(M \ L)
      /\ q.pc = (IF IsLast(p, a) THEN "over" ELSE "turn")
      /\ q.slipped = (IF IsLast(p, a) /\ p.client = Web THEN Cardinality(M \ C) ELSE 0)
  <2>. DEFINE ends == IsLast(p, a)
              pc == IF ends THEN "over" ELSE "turn"
              slipped == IF ends /\ p.client = Web THEN Cardinality(M \ C) ELSE 0
              offset == o + PageSize
              shown == S \cup P
              twice == tw + Cardinality(S \cap P)
              gone == gn + Cardinality(L \ M)
              came == cm + Cardinality(M \ L)
  <2>1. q = [p EXCEPT !.pc = pc, !.offset = offset, !.start = T, !.last = M, !.shown = shown,
                      !.twice = twice, !.gone = gone, !.came = came, !.slipped = slipped]
    BY DEF Shown
  <2>. HIDE DEF ends, pc, slipped, offset, shown, twice, gone, came
  <2>2. /\ DOMAIN q = PagerFields /\ q.view = p.view /\ q.pc = pc /\ q.offset = offset
        /\ q.start = T /\ q.last = M /\ q.shown = shown /\ q.twice = twice /\ q.gone = gone
        /\ q.came = came /\ q.slipped = slipped
    BY <1>1, <2>1 DEF PagerFields
  <2>. QED BY <2>2 DEF ends, pc, slipped, offset, shown, twice, gone, came
<1>6. /\ tw + Cardinality(S \cap Ahead(v, L, o)) <= cm
      /\ Cardinality((T \ S) \ Ahead(v, L, o)) <= gn
  <2>1. CASE o = 0
    <3>1. S \cap Ahead(v, L, o) = {}
      BY <1>1, <2>1
    <3>2. tw <= cm
      <4>1. p.shown \cap Ahead(p.view, p.last, p.offset) \in SUBSET (1 .. n)
        BY <1>1
      <4>2. Cardinality(p.shown \cap Ahead(p.view, p.last, p.offset)) \in Nat
        BY <1>4, <4>1
      <4>. QED BY <1>1, <4>2 DEF Going
    <3>3. Behind(v, L, o) = {}
      <4>1. \A j \in L : {k \in L : Precedes(v, k, j)} \in SUBSET (1 .. n)
        BY <1>3
      <4>2. \A j \in L : Cardinality({k \in L : Precedes(v, k, j)}) \in Nat
        BY <1>4, <4>1
      <4>. QED BY <2>1, <4>2 DEF Behind
    <3>4. (T \ S) \ Ahead(v, L, o) = {}
      <4>1. L = M /\ T = M
        BY <2>1
      <4>. QED BY <3>3, <4>1 DEF Ahead
    <3>5. Cardinality(S \cap Ahead(v, L, o)) = 0 /\ Cardinality((T \ S) \ Ahead(v, L, o)) = 0
      BY <3>1, <3>4, FS_EmptySet
    <3>. QED BY <1>1, <3>2, <3>5
  <2>2. CASE o # 0
    <3>1. L = p.last /\ T = p.start
      BY <2>2
    <3>. QED BY <3>1 DEF Going
  <2>. QED BY <2>1, <2>2
<1>7. /\ (tw + Cardinality(S \cap P)) + Cardinality((S \cup P) \cap next) <= cm + Cardinality(M \ L)
      /\ Cardinality((T \ (S \cup P)) \ next) <= gn + Cardinality(L \ M)
      /\ P \in SUBSET (1 .. n) /\ next \in SUBSET (1 .. n)
  <2>1. (tw + Cardinality(S \cap Page(v, M, o)))
           + Cardinality((S \cup Page(v, M, o)) \cap Ahead(v, M, o + PageSize)) <=
        cm + Cardinality(M \ L)
    BY ONLY n \in Nat, <1>1, <1>2, <1>3, <1>6, ShownAgain
  <2>2. Cardinality((T \ (S \cup Page(v, M, o))) \ Ahead(v, M, o + PageSize)) <=
        gn + Cardinality(L \ M)
    BY ONLY n \in Nat, <1>1, <1>2, <1>3, <1>6, PassedOver
  <2>3. P \in SUBSET (1 .. n) /\ next \in SUBSET (1 .. n)
    BY <1>2 DEF Page, Ahead
  <2>. QED BY <1>2, <2>1, <2>2, <2>3
<1>8. /\ Cardinality(S \cap P) \in Nat /\ Cardinality(L \ M) \in Nat
      /\ Cardinality(M \ L) \in Nat /\ Cardinality(M \ C) \in Nat
  <2>1. /\ S \cap P \in SUBSET (1 .. n) /\ L \ M \in SUBSET (1 .. n)
        /\ M \ L \in SUBSET (1 .. n) /\ M \ C \in SUBSET (1 .. n)
    BY <1>1, <1>2, <1>3
  <2>. QED BY <1>4, <2>1
<1>9. /\ q.twice + Cardinality(q.shown \cap next) <= q.came
      /\ Cardinality((q.start \ q.shown) \ next) <= q.gone
  BY <1>5, <1>7
<1>10. q.twice \in Nat /\ q.gone \in Nat /\ q.came \in Nat /\ q.slipped \in Nat
  <2>1. q.slipped \in Nat
    <3>1. q.slipped \in {Cardinality(M \ C), 0}
      BY ONLY <1>5
    <3>. QED BY ONLY <1>8, <3>1
  <2>2. tw \in Nat /\ gn \in Nat /\ cm \in Nat
    BY ONLY <1>1
  <2>3. q.twice = tw + Cardinality(S \cap P)
    BY ONLY <1>5
  <2>4. q.gone = gn + Cardinality(L \ M) /\ q.came = cm + Cardinality(M \ L)
    BY ONLY <1>5
  <2>. QED BY ONLY <1>8, <2>1, <2>2, <2>3, <2>4
<1>11. q.offset \in Nat /\ q.offset # 0
  BY <1>1, <1>5, PageAssumption
<1>12. /\ q.start \in SUBSET (1 .. n) /\ q.last \in SUBSET (1 .. n) /\ q.shown \in SUBSET (1 .. n)
       /\ q.pc \in {"turn", "over"}
  BY <1>1, <1>2, <1>3, <1>5, <1>7
<1>13. IsLast(p, a) => Cardinality(next) <= q.slipped
  <2>1. o + PageSize >= Cardinality(C) => Cardinality(next) <= Cardinality(M \ C)
    BY <1>1, <1>2, PagesEnd
  <2>2. Cardinality(P) < PageSize => Cardinality(next) = 0
    <3>1. Cardinality(P) < PageSize => next = {}
      BY <1>1, <1>2, PagesEnd
    <3>. QED BY <3>1, FS_EmptySet
  <2>3. ASSUME IsLast(p, a), p.client = Web PROVE Cardinality(next) <= q.slipped
    BY <1>5, <2>1, <2>3 DEF IsLast
  <2>4. ASSUME IsLast(p, a), p.client # Web PROVE Cardinality(next) <= q.slipped
    BY <1>5, <2>2, <2>4 DEF IsLast
  <2>. QED BY <2>3, <2>4
<1>14. Going(q)
  BY <1>5, <1>9 DEF Going
<1>15. ASSUME q.pc = "over" PROVE Ended(q)
  <2>. PICK D : D = q.start \ q.shown
    OBVIOUS
  <2>1. D \in SUBSET (1 .. n)
    BY <1>12
  <2>2. Cardinality(next) <= q.slipped
    BY <1>5, <1>13, <1>15
  <2>3. Cardinality(D \ next) = Cardinality(D) - Cardinality(D \cap next)
    BY <1>4, <2>1, FS_Difference
  <2>4. Cardinality(D \cap next) <= Cardinality(next)
    <3>1. D \cap next \in SUBSET next
      OBVIOUS
    <3>. QED BY <1>7, <3>1, Sizes
  <2>5. /\ Cardinality(D) \in Nat /\ Cardinality(next) \in Nat /\ Cardinality(D \cap next) \in Nat
        /\ Cardinality(q.shown \cap next) \in Nat
    <3>1. D \cap next \in SUBSET (1 .. n) /\ q.shown \cap next \in SUBSET (1 .. n)
      BY <1>7
    <3>. QED BY <1>4, <1>7, <2>1, <3>1
  <2>6. Cardinality(D) <= q.gone + q.slipped
    BY <1>9, <1>10, <2>2, <2>3, <2>4, <2>5
  <2>7. q.twice <= q.came
    BY <1>9, <1>10, <2>5
  <2>. QED BY <2>6, <2>7 DEF Ended
<1>. QED BY <1>5, <1>10, <1>11, <1>12, <1>14, <1>15 DEF PagesShown

\* The client begins with nothing seen.
LEMMA NothingShown ==
  ASSUME NEW J, NEW client, NEW u, NEW v
  PROVE  LET p == FirstOf(client, u, v)
         IN  PagesShown(J, p) /\ Going(p) /\ p.pc = "turn" /\ p.view = v /\ p.user = u
<1>. PICK p : p = FirstOf(client, u, v)
  OBVIOUS
<1>1. /\ DOMAIN p = PagerFields /\ p.pc = "turn" /\ p.view = v /\ p.user = u /\ p.offset = 0 /\ p.start = {}
      /\ p.last = {} /\ p.shown = {} /\ p.twice = 0 /\ p.gone = 0 /\ p.came = 0
  BY DEF FirstOf, PagerFields
<1>2. Cardinality({}) = 0
  BY FS_EmptySet
<1>. PICK ahead : ahead = Ahead(p.view, p.last, p.offset)
  OBVIOUS
<1>3. p.shown \cap ahead = {} /\ (p.start \ p.shown) \ ahead = {}
  BY <1>1
<1>4. Going(p)
  BY <1>1, <1>2, <1>3 DEF Going
<1>. QED BY <1>1, <1>4 DEF PagesShown

\* An answer that is read now.
LEMMA AnswerIsRead ==
  ASSUME NEW p, p.offset \in Nat, NEW counted \in SUBSET Jobs
  PROVE  AnswerOK(Jobs, Answer(p, counted), p.view, p.offset)
BY DEF Answer, AnswerOK, Listed

\* The client goes on, in one of three ways.
LEMMA PagerTurns ==
  ASSUME TablesOK, ListsOK, PagesOK, ListsStep, pager'.pc # "none"
  PROVE  PagesShown(Jobs, pager')
<1>1. PICK n \in Nat : Jobs = 1 .. n
  BY JobsAreCounted
<1>2. ASSUME NEW p, NEW a, PagesShown(Jobs, p), Going(p), AnswerOK(Jobs, a, p.view, p.offset),
             pager' = Shown(p, a)
      PROVE  PagesShown(Jobs, pager')
  BY <1>1, <1>2, PageIsShown
<1>3. ASSUME NEW p, PagesShown(Jobs, p), Going(p), AskActive(p)
      PROVE  PagesShown(Jobs, pager')
  <2>1. AnswerOK(Jobs, Answer(p, {}), p.view, p.offset)
    <3>1. p.offset \in Nat
      BY <1>3 DEF PagesShown
    <3>. QED BY <3>1, AnswerIsRead
  <2>. QED BY <1>2, <1>3, <2>1 DEF AskActive
<1>4. ASSUME NEW client, NEW u, NEW v PROVE PagesShown(Jobs, FirstOf(client, u, v)) /\ Going(FirstOf(client, u, v))
  BY NothingShown
<1>5. ASSUME pager.pc # "none" PROVE PagesShown(Jobs, pager)
  BY <1>5 DEF PagesOK
<1>6. ASSUME pager.pc \in {"turn", "put"} PROVE PagesShown(Jobs, pager) /\ Going(pager)
  BY <1>5, <1>6 DEF PagesShown
<1>7. ASSUME OpenList PROVE PagesShown(Jobs, pager')
  BY <1>4, <1>7 DEF OpenList
<1>8. ASSUME Cached PROVE PagesShown(Jobs, pager')
  <2>1. /\ pager.pc = "turn" /\ KeyOf(pager) \in DOMAIN memo
        /\ pager' = Shown(pager, memo[KeyOf(pager)])
    BY <1>8 DEF Cached, Turning
  <2>2. AnswerOK(Jobs, memo[KeyOf(pager)], pager.view, pager.offset)
    <3>1. KeyOf(pager)[2] = pager.view /\ KeyOf(pager)[3] = pager.offset
      BY DEF KeyOf
    <3>. QED BY <2>1, <3>1 DEF PagesOK
  <2>. QED BY <1>2, <1>6, <2>1, <2>2
<1>9. ASSUME CountList PROVE PagesShown(Jobs, pager')
  <2>1. PagesShown(Jobs, pager) /\ Going(pager)
    BY <1>6, <1>9 DEF CountList, Turning
  <2>. PICK list : list = Listed(pager.view, pager.user)
    OBVIOUS
  <2>2. list \in SUBSET Jobs /\ pager' = [pager EXCEPT !.pc = "select", !.got = list]
    BY <1>9 DEF CountList, Listed
  <2>. PICK p, q : p = pager /\ q = pager'
    OBVIOUS
  <2>3. DOMAIN p = PagerFields
    BY <2>1 DEF PagesShown
  <2>4. /\ DOMAIN q = PagerFields /\ q.pc = "select" /\ q.got = list /\ q.view = p.view
        /\ q.offset = p.offset /\ q.start = p.start /\ q.last = p.last /\ q.shown = p.shown
        /\ q.twice = p.twice /\ q.gone = p.gone /\ q.came = p.came
    BY <2>2, <2>3 DEF PagerFields
  <2>5. Going(q)
    BY <2>1, <2>4 DEF Going
  <2>6. PagesShown(Jobs, q)
    BY <2>1, <2>2, <2>4, <2>5 DEF PagesShown
  <2>. QED BY <2>6
<1>10. ASSUME SelectPage PROVE PagesShown(Jobs, pager')
  <2>1. PagesShown(Jobs, pager) /\ Going(pager) /\ pager.got \in SUBSET Jobs /\ pager.offset \in Nat
    BY <1>5, <1>10 DEF SelectPage, PagesShown
  <2>. PICK a : a = Answer(pager, pager.got)
    OBVIOUS
  <2>2. AnswerOK(Jobs, a, pager.view, pager.offset)
    BY <2>1, AnswerIsRead
  <2>3. pager' = [pager EXCEPT !.pc = "put", !.got = a]
    BY <1>10 DEF SelectPage
  <2>. PICK p, q : p = pager /\ q = pager'
    OBVIOUS
  <2>4. DOMAIN p = PagerFields
    BY <2>1 DEF PagesShown
  <2>5. /\ DOMAIN q = PagerFields /\ q.pc = "put" /\ q.got = a /\ q.view = p.view
        /\ q.offset = p.offset /\ q.start = p.start /\ q.last = p.last /\ q.shown = p.shown
        /\ q.twice = p.twice /\ q.gone = p.gone /\ q.came = p.came
    BY <2>3, <2>4 DEF PagerFields
  <2>6. Going(q)
    BY <2>1, <2>5 DEF Going
  <2>7. PagesShown(Jobs, q)
    BY <2>1, <2>2, <2>5, <2>6 DEF PagesShown
  <2>. QED BY <2>7
<1>11. ASSUME PutPage PROVE PagesShown(Jobs, pager')
  <2>1. pager.pc = "put" /\ pager' = Shown(pager, pager.got)
    BY <1>11 DEF PutPage
  <2>2. AnswerOK(Jobs, pager.got, pager.view, pager.offset)
    BY <1>5, <2>1 DEF PagesShown
  <2>. QED BY <1>2, <1>6, <2>1, <2>2
<1>12. ASSUME UNCHANGED pager PROVE PagesShown(Jobs, pager')
  BY <1>5, <1>12
<1>13. ASSUME NEW c, NEW u, OpenActive(c, u) PROVE PagesShown(Jobs, pager')
  BY <1>3, <1>4, <1>12, <1>13 DEF OpenActive
<1>14. ASSUME NEW c, NEW u, MoreActive(c, u) PROVE PagesShown(Jobs, pager')
  BY <1>3, <1>6, <1>12, <1>14 DEF MoreActive, Turning
<1>15. DeleteOnWeb \/ InvalidatePages \/ Score \/ UNCHANGED listVars => UNCHANGED pager
  BY DEF DeleteOnWeb, InvalidatePages, Score, listVars
<1>. QED BY <1>7, <1>8, <1>9, <1>10, <1>11, <1>12, <1>13, <1>14, <1>15 DEF ListsStep, ListsNext

LEMMA PagesStep ==
  ASSUME TablesOK, ListsOK, PagesOK, OffersKept, ListsStep
  PROVE  PagesOK'
<1>1. Jobs \subseteq Jobs'
  BY DEF OffersKept
<1>2. pager'.pc # "none" => PagesShown(Jobs', pager')
  BY <1>1, PagerTurns, PagesStay
<1>3. ASSUME NEW k \in DOMAIN memo' PROVE AnswerOK(Jobs', memo'[k], k[2], k[3])
  <2>1. k \in DOMAIN memo => AnswerOK(Jobs, memo[k], k[2], k[3])
    BY DEF PagesOK
  <2>2. CASE UNCHANGED memo
    BY <1>1, <1>3, <2>1, <2>2, PagesStay
  <2>3. CASE PutPage
    <3>. PICK key, a : key = KeyOf(pager) /\ a = pager.got
      OBVIOUS
    <3>1. memo' = [x \in DOMAIN memo \cup {key} |-> IF x = key THEN a ELSE memo[x]]
      BY <2>3 DEF PutPage
    <3>2. AnswerOK(Jobs, a, key[2], key[3])
      <4>1. pager.pc = "put"
        BY <2>3 DEF PutPage
      <4>2. AnswerOK(Jobs, pager.got, pager.view, pager.offset)
        BY <4>1 DEF PagesOK, PagesShown
      <4>3. key[2] = pager.view /\ key[3] = pager.offset
        BY DEF KeyOf
      <4>. QED BY <4>2, <4>3
    <3>3. AnswerOK(Jobs, memo'[k], k[2], k[3])
      BY <1>3, <2>1, <3>1, <3>2
    <3>. QED BY <1>1, <3>3, PagesStay
  <2>4. ASSUME NEW d, memo' = Forget(d[1]) PROVE AnswerOK(Jobs', memo'[k], k[2], k[3])
    <3>1. k \in DOMAIN memo /\ memo'[k] = memo[k]
      BY <1>3, <2>4 DEF Forget
    <3>. QED BY <1>1, <2>1, <3>1, PagesStay
  <2>. QED BY <2>2, <2>3, <2>4, MemoSteps
<1>. QED BY <1>2, <1>3 DEF PagesOK

-----------------------------------------------------------------------------
(* The theorems.                                                           *)

LEMMA IInvInit == Init => IInv
<1>. SUFFICES ASSUME Init PROVE IInv
  OBVIOUS
<1>1. workload \in Workloads /\ JobsInv
  BY JobsInvInit DEF Init, LoadInit
<1>2. LinksOK
  <2>1. PICK x \in Accounts, c \in Chats :
           account = [u \in Accounts |->
               [tg |-> IF workload.linked /\ u = x THEN c ELSE Null, code |-> Null]]
    BY DEF Init, UsersInit
  <2>2. \A u \in Accounts : account[u] = [tg |-> IF workload.linked /\ u = x THEN c ELSE Null, code |-> Null]
    BY <2>1
  <2>3. account \in [Accounts -> [tg : Chats \cup {Null}, code : Codes \cup {Null}]]
    BY <2>1
  <2>4. stale = {}
    BY DEF Init, UsersInit
  <2>. QED BY <2>2, <2>3, <2>4 DEF LinksOK
<1>3. BlobsOK
  BY DEF Init, UsersInit, BlobsOK, Stored
<1>4. RowsOK /\ CallsOK /\ SnapshotIsItsVersion
  BY DEF Init, UsersInit, RowsOK, CallsOK, CallOK, IdleCall, SnapshotIsItsVersion
<1>5. BotOK /\ ToldIsCurrent
  BY DEF Init, BotOK, ToldIsCurrent, NoCommand
<1>6. ListsOK /\ DeletedStaysAway /\ DeletedIsGone
  BY DEF Init, ListsInit, ListsOK, PagerOK, NoPager, DeletedStaysAway, DeletedIsGone
<1>. QED BY <1>1, <1>2, <1>3, <1>4, <1>5, <1>6 DEF IInv, AccountsInv, MemoryInv

LEMMA IInvStep == IInv /\ [Next]_vars => IInv'
<1>. SUFFICES ASSUME IInv, [Next]_vars PROVE IInv'
  OBVIOUS
<1>1. JobsStep /\ UsersStep /\ ListsStep
  BY StepParts DEF IInv, MemoryInv
<1>2. workload' \in Workloads /\ JobsInv'
  BY <1>1, JobsInvStep, WorkloadStays DEF IInv
<1>3. AccountsInv'
  BY <1>1, AccountsInvStep DEF IInv
<1>4. BotOK' /\ ToldIsCurrent'
  BY BotStep, ToldStep DEF IInv, MemoryInv, AccountsInv
<1>5. OffersKept
  BY <1>1, TablesStep DEF IInv, JobsInv
<1>6. ListsOK' /\ DeletedStaysAway' /\ DeletedIsGone'
  BY <1>1, <1>5, ListsStepOK, DeletedStep, GoneStep DEF IInv, MemoryInv, JobsInv
<1>. QED BY <1>2, <1>3, <1>4, <1>6 DEF IInv, MemoryInv

\* The inductive invariant holds in every reachable state.
THEOREM Invariance == Spec => []IInv
BY IInvInit, IInvStep, PTL DEF Spec

\* One at most has a chat, one at most has a code.
LEMMA AtMostOne ==
  ASSUME NEW S, \A x, y \in S : x = y
  PROVE  Cardinality(S) <= 1
<1>1. CASE S = {}
  BY <1>1, FS_EmptySet
<1>2. ASSUME NEW x \in S PROVE Cardinality(S) <= 1
  <2>1. S = {x}
    BY <1>2
  <2>. QED BY <2>1, FS_Singleton
<1>. QED BY <1>1, <1>2

\* The tables keep their types, the index over chats and the one over codes hold, and
\* pages and answers are about jobs and users that are there.
THEOREM TypeCorrect == Spec => []TypeOK
<1>1. IInv => TypeOK
  <2>. SUFFICES ASSUME IInv PROVE TypeOK
    OBVIOUS
  <2>1. JobsTypeOK
    BY JobsTypes DEF IInv
  <2>2. ListsTypeOK
    BY DEF IInv, MemoryInv, ListsOK, PagerOK, ListsTypeOK
  <2>3. LinksOK /\ RowsOK
    BY DEF IInv, AccountsInv
  <2>4. ASSUME NEW c \in Chats PROVE Cardinality(LinkedTo(c)) <= 1
    <3>1. \A x, y \in LinkedTo(c) : x = y
      BY <2>3, AccountAssumption DEF LinksOK, LinkedTo
    <3>. QED BY <3>1, AtMostOne
  <2>5. ASSUME NEW k \in Codes PROVE Cardinality(WithCode(k)) <= 1
    <3>1. \A x, y \in WithCode(k) : x = y
      BY <2>3, AccountAssumption DEF LinksOK, WithCode
    <3>. QED BY <3>1, AtMostOne
  <2>6. \A u \in Accounts : prefs[u] = Null \/ prefs[u].version \in CVs
    BY <2>3 DEF RowsOK, RowOK
  <2>7. UsersTypeOK
    BY <2>3, <2>4, <2>5, <2>6 DEF UsersTypeOK, LinksOK
  <2>. QED BY <2>1, <2>2, <2>7 DEF IInv, MemoryInv, BotOK, TypeOK
<1>. QED BY <1>1, Invariance, PTL

\* What clients are answered for a link is an offering of the link's identity, and
\* all of them get the same one as long as it is not deleted.
THEOREM IdentitiesAreOfferings == Spec => []OfferingsMatchIdentities
<1>1. IInv => OfferingsMatchIdentities
  BY OfferingsMatch DEF IInv
<1>. QED BY <1>1, Invariance, PTL

\* The report of statuses ends with the status that is there, and the last update of
\* a title is the title unless updates have overlapped, whatever requests are served
\* at one time.
THEOREM HistoryIsTrue == Spec => []HistoryTellsState
<1>1. IInv => HistoryTellsState
  BY HistoryTells DEF IInv
<1>. QED BY <1>1, Invariance, PTL

\* A client of a history meets no entry twice and misses those only that lie within one
\* unit of a page's end; a client of a list misses no more jobs than have left it, or have
\* come between the count and the last page, and is shown no more again than have come,
\* for pages of any size and lists that change in any way.
THEOREM PagesAreComplete == Spec => []PagesMissNothing
<1>1. Init => PagesOK
  BY DEF Init, ListsInit, NoPager, PagesOK
<1>2. IInv /\ PagesOK /\ [Next]_vars => PagesOK'
  <2>. SUFFICES ASSUME IInv, PagesOK, [Next]_vars PROVE PagesOK'
    OBVIOUS
  <2>1. JobsStep /\ ListsStep /\ TablesOK /\ ListsOK
    BY StepParts DEF IInv, MemoryInv, JobsInv
  <2>2. OffersKept
    BY <2>1, TablesStep DEF IInv, JobsInv
  <2>. QED BY <2>1, <2>2, PagesStep
<1>3. IInv /\ PagesOK => PagesMissNothing
  <2>. SUFFICES ASSUME IInv, PagesOK PROVE PagesMissNothing
    OBVIOUS
  <2>1. HistoryIsRead
    BY HistoryRead DEF IInv
  <2>2. PICK n \in Nat : Jobs = 1 .. n
    BY JobsAreCounted DEF IInv, JobsInv
  <2>3. ASSUME pager.pc # "none" PROVE PagesShown(Jobs, pager)
    BY <2>3 DEF PagesOK
  <2>4. ASSUME pager.pc \in {"turn", "select", "put"} PROVE pager.twice <= pager.came
    <3>1. PagesShown(Jobs, pager) /\ Going(pager)
      BY <2>3, <2>4 DEF PagesShown
    <3>2. pager.shown \cap Ahead(pager.view, pager.last, pager.offset) \in SUBSET (1 .. n)
      BY <2>2, <3>1 DEF PagesShown
    <3>3. \A R \in SUBSET (1 .. n) : Cardinality(R) \in Nat
      BY Sizes
    <3>4. Cardinality(pager.shown \cap Ahead(pager.view, pager.last, pager.offset)) \in Nat
      BY <3>2, <3>3
    <3>. QED BY <3>1, <3>4 DEF Going, PagesShown
  <2>5. ASSUME pager.pc = "over" PROVE Ended(pager)
    BY <2>3, <2>5 DEF PagesShown
  <2>6. pager.pc \in {"none", "turn", "select", "put", "over"}
    BY DEF IInv, MemoryInv, ListsOK, PagerOK
  <2>. QED BY <2>1, <2>4, <2>5, <2>6 DEF PagesMissNothing, Ended
<1>4. Spec => []PagesOK
  BY <1>1, <1>2, Invariance, PTL DEF Spec
<1>. QED BY <1>3, <1>4, Invariance, PTL

\* Both forms of a CV that is answered are of the version that is answered with them,
\* whatever is saved meanwhile.
THEOREM SnapshotsAreVersions == Spec => []SnapshotIsItsVersion
<1>1. IInv => SnapshotIsItsVersion
  BY DEF IInv, AccountsInv
<1>. QED BY <1>1, Invariance, PTL

\* The bot acts for the user whose chat it is, unless the link was taken away, and a
\* job that was deleted on the web stays out of the pages that are kept.
THEOREM CacheIsCurrent == Spec => []QuietCacheIsCurrent
<1>1. IInv => QuietCacheIsCurrent
  BY DEF IInv, MemoryInv, ToldIsCurrent, QuietCacheIsCurrent
<1>. QED BY <1>1, Invariance, PTL
=============================================================================
