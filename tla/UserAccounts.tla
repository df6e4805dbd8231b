---------------------------- MODULE UserAccounts ----------------------------
(***************************************************************************)
(* Telegram links and CVs of the Users domain.  An account takes a link    *)
(* code, its owner sends the code to the bot from a chat, and the chat is  *)
(* linked; both columns have a unique index that leaves out NULL.  A CV is *)
(* two blobs, rich and text, whose path is made of the user and of the hash*)
(* of the content, and a row that names them.  Requests read and write one *)
(* statement at a time.  A CV stands for its content, its hash and its text.*)
(***************************************************************************)
EXTENDS Workload, FiniteSets

CONSTANTS Accounts, Chats, Codes, CVs,
          Servers,      \* requests that are served at one time
          Null          \* NULL in a column, nothing found

VARIABLES
    account,     \* Users: TelegramUserId, TelegramLinkCode
    blobs,       \* folder -> path -> CV
    prefs,       \* UserPreferences: CVVersionId and the path of the blobs
    call,        \* the requests being served
    stale,       \* history: chats whose link was taken away since the bot asked
    snapshots    \* history: CV snapshots that were answered

userVars == <<account, blobs, prefs, call, stale, snapshots>>

-----------------------------------------------------------------------------
IdleCall == [pc |-> "idle"]

Calling(v, pc) == call[v].pc = pc

Done(v) == call' = [call EXCEPT ![v] = IdleCall]

LinkedTo(c) == {u \in Accounts : account[u].tg = c}     \* GET /users/by-telegram

WithCode(k) == {u \in Accounts : account[u].code = k}

UsersInit ==
    /\ \E x \in Accounts, c \in Chats :
           account = [u \in Accounts |->
               [tg |-> IF workload.linked /\ u = x THEN c ELSE Null, code |-> Null]]
    /\ blobs = [folder \in {"quill", "text"} |-> [p \in {} |-> Null]]
    /\ prefs = [u \in Accounts |-> Null]
    /\ call = [v \in Servers |-> IdleCall]
    /\ stale = {}
    /\ snapshots = {}

-----------------------------------------------------------------------------
\* GET /users/link-code: an account without a chat and without a code gets one.
LinkCode(v) ==
    \E u \in Accounts :
        /\ Take("code")
        /\ Calling(v, "idle")
        /\ account[u] = [tg |-> Null, code |-> Null]
        /\ call' = [call EXCEPT ![v] = [pc |-> "issue", user |-> u]]
        /\ UNCHANGED <<account, blobs, prefs, stale, snapshots>>

\* Mutant: a code somebody has is taken all the same.
MutantFreeCodes == Codes

FreeCodes == {k \in Codes : WithCode(k) = {}}

\* The UPDATE asks for no code yet, and not for no chat.  It fails if a code has
\* come in between; a code somebody has is tried again with another one.
IssueCode(v) ==
    LET u == call[v].user
    IN  /\ Calling(v, "issue")
        /\ IF account[u].code = Null
           THEN \E k \in FreeCodes :
                    account' = [account EXCEPT ![u].code = k]
           ELSE UNCHANGED account
        /\ Done(v)
        /\ UNCHANGED <<blobs, prefs, stale, snapshots, load>>

\* POST /users/link-telegram: the account is looked up by its code; one that has
\* a chat is left alone.
LinkTelegram(v, c) ==
    \E k \in Codes : \E u \in WithCode(k) :
        /\ Take("link")
        /\ Calling(v, "idle")
        /\ account[u].tg = Null
        /\ call' = [call EXCEPT ![v] = [pc |-> "link", user |-> u, chat |-> c]]
        /\ UNCHANGED <<account, blobs, prefs, stale, snapshots>>

Linked(u, c) == [account EXCEPT ![u] = [tg |-> c, code |-> Null]]

\* Mutant: a chat that another account has is taken from it.
MutantLinkAccount(v) ==
    LET u == call[v].user c == call[v].chat
    IN  /\ Calling(v, "link")
        /\ account' = [x \in Accounts |->
               IF x # u /\ account[x].tg = c THEN [account[x] EXCEPT !.tg = Null] ELSE Linked(u, c)[x]]
        /\ stale' = IF account[u].tg = c THEN stale ELSE stale \cup ({account[u].tg} \ {Null})
        /\ Done(v)
        /\ UNCHANGED <<blobs, prefs, snapshots, load>>

\* The UPDATE names the account and nothing else: of two requests with one code
\* the later one replaces the chat of the other.
LinkAccount(v) ==
    LET u == call[v].user c == call[v].chat
    IN  /\ Calling(v, "link")
        /\ LinkedTo(c) \subseteq {u}
        /\ account' = Linked(u, c)
        /\ stale' = IF account[u].tg = c THEN stale ELSE stale \cup ({account[u].tg} \ {Null})
        /\ Done(v)
        /\ UNCHANGED <<blobs, prefs, snapshots, load>>

Unlinked(U) ==
    /\ account' = [u \in Accounts |-> IF u \in U THEN [account[u] EXCEPT !.tg = Null] ELSE account[u]]
    /\ stale' = stale \cup ({account[u].tg : u \in U} \ {Null})
    /\ UNCHANGED <<blobs, prefs, call, snapshots>>

\* POST /users/unlink-telegram, by chat (the bot) or by account.
UnlinkChat(c) == Take("unlink") /\ Unlinked(LinkedTo(c))

UnlinkAccount == \E u \in Accounts : Take("unlink") /\ Unlinked({u})

-----------------------------------------------------------------------------
\* Mutant: one path for all CVs of a user.
MutantBlobPath(u, cv) == <<u, "cv">>

BlobPath(u, cv) == <<u, cv>>

\* POST /users/preferences: the blobs first, one after the other, then the row.
SavePreferences(v) ==
    \E u \in Accounts, cv \in CVs :
        /\ Take("save")
        /\ Calling(v, "idle")
        /\ call' = [call EXCEPT ![v] = [pc |-> "quill", user |-> u, cv |-> cv]]
        /\ UNCHANGED <<account, blobs, prefs, stale, snapshots>>

Upload(v, folder, next) ==
    LET path == BlobPath(call[v].user, call[v].cv)
        old  == blobs[folder]
    IN  /\ Calling(v, folder)
        /\ blobs' = [blobs EXCEPT ![folder] =
               [p \in DOMAIN old \cup {path} |-> IF p = path THEN call[v].cv ELSE old[p]]]
        /\ call' = [call EXCEPT ![v].pc = next]
        /\ UNCHANGED <<account, prefs, stale, snapshots, load>>

UpsertPreferences(v) ==
    LET u == call[v].user
    IN  /\ Calling(v, "upsert")
        /\ prefs' = [prefs EXCEPT ![u] = [version |-> call[v].cv, path |-> BlobPath(u, call[v].cv)]]
        /\ Done(v)
        /\ UNCHANGED <<account, blobs, stale, snapshots, load>>

\* GET /users/internal/{userId}/cv-snapshot and GET /users/preferences: the row,
\* then what its path leads to.
ReadPreferences(v) ==
    \E u \in Accounts :
        /\ Take("snapshot")
        /\ Calling(v, "idle")
        /\ prefs[u] # Null
        /\ call' = [call EXCEPT ![v] = [pc |-> "fetch", row |-> prefs[u]]]
        /\ UNCHANGED <<account, blobs, prefs, stale, snapshots>>

Download(folder, path) == IF path \in DOMAIN blobs[folder] THEN blobs[folder][path] ELSE Null

AnswerSnapshot(v) ==
    LET row == call[v].row
    IN  /\ Calling(v, "fetch")
        /\ snapshots' = snapshots \cup {[version |-> row.version, text |-> Download("text", row.path),
                                         rich |-> Download("quill", row.path)]}
        /\ Done(v)
        /\ UNCHANGED <<account, blobs, prefs, stale, load>>

\* A statement, an upload or a download fails, or the process ends.
CallFails(v) ==
    /\ ~Calling(v, "idle")
    /\ Done(v)
    /\ UNCHANGED <<account, blobs, prefs, stale, snapshots, load>>

-----------------------------------------------------------------------------
UsersNext ==
    \/ \E v \in Servers :
           \/ LinkCode(v) \/ IssueCode(v) \/ LinkAccount(v)
           \/ SavePreferences(v) \/ Upload(v, "quill", "text") \/ Upload(v, "text", "upsert")
           \/ UpsertPreferences(v) \/ ReadPreferences(v) \/ AnswerSnapshot(v) \/ CallFails(v)
    \/ UnlinkAccount

UsersTypeOK ==
    /\ account \in [Accounts -> [tg : Chats \cup {Null}, code : Codes \cup {Null}]]
    /\ \A c \in Chats : Cardinality(LinkedTo(c)) <= 1
    /\ \A k \in Codes : Cardinality(WithCode(k)) <= 1
    /\ \A u \in Accounts : prefs[u] = Null \/ prefs[u].version \in CVs
    /\ stale \subseteq Chats

\* A CV that was answered is, in both its forms, the version the answer names: the
\* enrichment that is stored with this version has been made from this text.
SnapshotIsItsVersion ==
    \A x \in snapshots : x.text = x.version /\ x.rich = x.version
=============================================================================
