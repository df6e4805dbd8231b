------------------------- MODULE ProjectionAttempts -------------------------
(***************************************************************************)
(* How often a row is really posted to Jobs, which AttemptCount does not   *)
(* say: it is incremented with the outcome, in a transaction after the     *)
(* post, and a post whose outcome is never recorded is not counted.  Two   *)
(* history variables are added to ProjectionDispatch; its steps are the    *)
(* same.  They count as long as nothing is disturbed, and say nothing      *)
(* afterwards.                                                             *)
(***************************************************************************)
EXTENDS ProjectionDispatch

VARIABLES
    posts,  \* how often each row was posted
    lost    \* how many of these posts will never be recorded

history == <<posts, lost>>

NoCount == [r \in Row |-> 0]

CountInit == Init /\ posts = NoCount /\ lost = NoCount

Counted(n, r) == [n EXCEPT ![r] = @ + 1]

WhileQuiet(n) == IF disturbed' THEN NoCount ELSE n

\* The row at hand has been posted and is not marked yet.
Unrecorded(p) == pass[p] \in {"waiting", "marking"}

CountPost(p) ==
    /\ Post(p)
    /\ posts' = WhileQuiet(Counted(posts, Head(batch[p]).row))
    /\ lost' = WhileQuiet(lost)

\* The pass ends by a failing update or with its host.
CountLoss(p) ==
    /\ MarkFails(p) \/ PassDies(p)
    /\ lost' = WhileQuiet(IF Unrecorded(p) THEN Counted(lost, Head(batch[p]).row) ELSE lost)
    /\ posts' = WhileQuiet(posts)

Uncounted ==
    /\ \/ \E r \in Row : Insert(r) \/ BecomesDue(r)
       \/ \E p \in Pass : BeginPass(p) \/ Answered(p) \/ TimesOut(p) \/ Mark(p)
       \/ \E q \in Request : JobsStep(q) \/ JobsFails(q)
    /\ posts' = WhileQuiet(posts)
    /\ lost' = WhileQuiet(lost)

CountNext == Uncounted \/ \E p \in Pass : CountPost(p) \/ CountLoss(p)

CountSpec == CountInit /\ [][CountNext]_<<vars, history>>

CountFairSpec == CountSpec /\ Fairness

-----------------------------------------------------------------------------
(* Properties.                                                             *)

\* While a single pass runs and waits for its answers, Jobs gets a row at most
\* MaxAttempts times, and once more for each post whose outcome went unrecorded
\* because the update failed or the host went down before it.  A row that may be
\* retried has an attempt left by its AttemptCount, and a closed one is not selected
\* again.
QuietAttemptLimit ==
    ~disturbed => \A r \in Row :
        /\ posts[r] <= MaxAttempts + lost[r]
        /\ status[r] \in Open => attempts[r] < MaxAttempts
        /\ status[r] \in Closed => ~InDue(r)

=============================================================================
