---------------------------- MODULE TelegramBot ----------------------------
(***************************************************************************)
(* The Telegram bot with the two domains it calls.  The bot asks the Users *)
(* domain once whose chat it is, keeps the answer in the memory of its     *)
(* process, and sends its calls to the Jobs domain in the name of that     *)
(* user.  Updates of one chat are taken one after the other.  That is how  *)
(* Telegram delivers them to a webhook that has not answered yet, not      *)
(* something the bot sees to: it handles every request it gets.  A call    *)
(* that times out in the bot is served in the Jobs domain all the same.    *)
(***************************************************************************)
EXTENDS JobLists, UserAccounts

ASSUME AccountAssumption == Accounts = Users /\ Null \notin Users \cup Chats \cup Codes

VARIABLES
    cache,       \* _uid_cache: chat -> user
    asked        \* chat -> the command that waits for its user, and the answer

botVars == <<cache, asked>>

vars == <<load, jobVars, listVars, userVars, botVars>>

Commands == {"applied", "myjobs", "more"}

NoCommand == [command |-> "none", user |-> Null]

Init ==
    /\ LoadInit /\ JobsInit /\ ListsInit /\ UsersInit
    /\ cache = [c \in Chats |-> Null]
    /\ asked = [c \in Chats |-> NoCommand]

-----------------------------------------------------------------------------
\* mark_applied_by_url sends the job's URL, list_user_active_jobs asks for a page.
Act(command, c, u) ==
    \/ /\ command = "applied"
       /\ \E s \in Slots, l \in workload.links, to \in Statuses :
              Begin(s, Request("insert", "apply", u, l, NoJob, to))
       /\ UNCHANGED listVars
    \/ command = "myjobs" /\ OpenActive(c, u)
    \/ command = "more" /\ MoreActive(c, u)

\* /applied, /myjobs, and the button below a page.
Command(c, command) ==
    /\ asked[c] = NoCommand
    /\ Take(command)
    /\ IF cache[c] # Null
       THEN Act(command, c, cache[c]) /\ UNCHANGED asked
       ELSE /\ asked' = [asked EXCEPT ![c] = [command |-> command, user |-> Null]]
            /\ UNCHANGED <<jobVars, listVars>>
    /\ UNCHANGED <<cache, userVars>>

\* /link: the call may outlive the bot's patience.
Link(c) ==
    /\ asked[c] = NoCommand
    /\ \E v \in Servers : LinkTelegram(v, c)
    /\ UNCHANGED <<jobVars, listVars, botVars>>

\* /unlink, confirmed.  The bot's memory keeps the user.
Unlink(c) ==
    /\ asked[c] = NoCommand
    /\ UnlinkChat(c)
    /\ UNCHANGED <<jobVars, listVars, botVars>>

\* GET /users/by-telegram/{chat}; a chat that is not linked is told so.
LookUp(c) ==
    /\ asked[c].command # "none" /\ asked[c].user = Null
    /\ asked' = [asked EXCEPT ![c] =
           IF LinkedTo(c) = {} THEN NoCommand
           ELSE [@ EXCEPT !.user = CHOOSE u \in Accounts : u \in LinkedTo(c)]]
    /\ stale' = stale \ {c}
    /\ UNCHANGED <<account, blobs, prefs, call, snapshots, cache, jobVars, listVars, load>>

\* _resolve_user_id has its answer.
Resolved(c) ==
    /\ asked[c].user # Null
    /\ cache' = [cache EXCEPT ![c] = asked[c].user]
    /\ Act(asked[c].command, c, asked[c].user)
    /\ asked' = [asked EXCEPT ![c] = NoCommand]
    /\ UNCHANGED <<userVars, load>>

Restart ==
    /\ Take("restart")
    /\ cache' = [c \in Chats |-> Null]
    /\ asked' = [c \in Chats |-> NoCommand]
    /\ UNCHANGED <<jobVars, listVars, userVars>>

Next ==
    \/ JobsNext /\ UNCHANGED <<listVars, userVars, botVars>>
    \/ ListsNext /\ UNCHANGED <<userVars, botVars>>
    \/ UsersNext /\ UNCHANGED <<jobVars, listVars, botVars>>
    \/ \E c \in Chats :
           \/ Link(c) \/ Unlink(c) \/ LookUp(c) \/ Resolved(c)
           \/ \E command \in Commands : Command(c, command)
    \/ Restart

Spec == Init /\ [][Next]_vars

-----------------------------------------------------------------------------
\* Types of the tables, of the requests and of the bot's memory.
TypeOK ==
    /\ JobsTypeOK
    /\ ListsTypeOK
    /\ UsersTypeOK
    /\ cache \in [Chats -> Users \cup {Null}]
    /\ asked \in [Chats -> [command : Commands \cup {"none"}, user : Users \cup {Null}]]

\* What is remembered is current.  The user the bot acts for in the name of a chat
\* is the one whose account has this chat, unless the link was taken away (by an
\* unlink or by a second request with the same code) after the bot had asked.  And
\* a job its user has deleted on the web stays out of this user's pages there.
QuietCacheIsCurrent ==
    /\ \A c \in Chats : cache[c] # Null /\ c \notin stale => account[cache[c]].tg = c
    /\ DeletedIsGone
=============================================================================
