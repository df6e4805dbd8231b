----------------------- MODULE AnalyticsDispatchProofs -----------------------
(***************************************************************************)
(* Proofs about AnalyticsDispatch, for any posts, passes, batch size and   *)
(* faults.                                                                 *)
(***************************************************************************)
EXTENDS AnalyticsDispatch, TLAPS

\* A pass that is about to record has an outcome to record.
OutcomeKnown ==
    \A p \in Pass : pass[p] = "recording" => outcome[p] \in {"ok", "retry", "refused"}

\* After a successful answer Mixpanel has the whole batch.
BatchImported ==
    \A p \in Pass : pass[p] = "recording" /\ outcome[p] = "ok" => batch[p] \subseteq imported

\* A pass works on rows that exist.
BatchIsStored == \A p \in Pass : \A e \in batch[p] : status[e] # "absent"

\* No key has two events.
OneEventPerKey ==
    \A d, e \in Post :
        /\ KeyOf[d] = KeyOf[e] /\ KeyOf[d] # NoKey
        /\ status[d] # "absent" /\ status[e] # "absent"
        => d = e

\* A post is answered with an event that is stored: its own, or one for its key.
AnswerIsStored ==
    \A e \in Post : post[e] = "answered" =>
        /\ answer[e] \in Post
        /\ status[answer[e]] # "absent"
        /\ answer[e] = e \/ (KeyOf[answer[e]] = KeyOf[e] /\ KeyOf[e] # NoKey)

\* A post that is on its way has no row yet.
NotYetStored ==
    \A e \in Post : post[e] \in {"new", "inserting", "refused"} => status[e] = "absent"

\* Without overlap a single pass runs, on rows that are not closed.
LonePassIsOpen ==
    ~disturbed => \A p \in Pass :
        /\ pass[p] # "idle" => \A o \in Pass : pass[o] # "idle" => o = p
        /\ pass[p] = "idle" => batch[p] = {}
        /\ \A e \in batch[p] : status[e] \notin Closed

\* The inductive invariant.
IInv ==
    /\ TypeOK /\ OutcomeKnown
    /\ SentWasImported /\ BatchImported
    /\ SendingIsHeld
    /\ BatchIsStored
    /\ OneEventPerKey /\ AnswerIsStored
    /\ NotYetStored /\ LonePassIsOpen

-----------------------------------------------------------------------------
LEMMA IInvInit == Init => IInv
<1>. SUFFICES ASSUME Init PROVE IInv
  OBVIOUS
<1>1. TypeOK
  <2>1. faults \in 0..MaxFaults
    BY LimitAssumption DEF Init
  <2>. QED BY <2>1 DEF Init, TypeOK, Open, Closed
<1>2. OutcomeKnown /\ BatchImported
  BY DEF Init, OutcomeKnown, BatchImported
<1>3. SentWasImported /\ SendingIsHeld /\ BatchIsStored /\ OneEventPerKey /\ AnswerIsStored
  BY DEF Init, SentWasImported, SendingIsHeld, BatchIsStored, OneEventPerKey, AnswerIsStored
<1>4. NotYetStored /\ LonePassIsOpen
  BY DEF Init, NotYetStored, LonePassIsOpen
<1>. QED BY <1>1, <1>2, <1>3, <1>4 DEF IInv

LEMMA FaultType ==
  ASSUME NEW kind, Fault(kind), faults \in 0..MaxFaults
  PROVE  faults' \in 0..MaxFaults
BY LimitAssumption DEF Fault

\* The variables keep their types.
LEMMA TypeStep ==
  ASSUME TypeOK, OutcomeKnown, [Next]_vars
  PROVE  TypeOK'
<1>. USE DEF TypeOK, Open, Closed
<1>1. CASE UNCHANGED vars
  BY <1>1 DEF vars, ingestVars, rowVars, passVars, ghosts
<1>2. ASSUME NEW e \in Post, Find(e) PROVE TypeOK'
  BY <1>2 DEF Find, Existing, Answer, rowVars, passVars, ghosts
<1>3. ASSUME NEW e \in Post, Insert(e) PROVE TypeOK'
  BY <1>3 DEF Insert, Answer, passVars, ghosts
<1>4. ASSUME NEW e \in Post, InsertRefused(e) PROVE TypeOK'
  BY <1>4 DEF InsertRefused, rowVars, passVars, ghosts
<1>5. ASSUME NEW e \in Post, FindAgain(e) PROVE TypeOK'
  BY <1>5 DEF FindAgain, Existing, Answer, rowVars, passVars, ghosts
<1>6. ASSUME NEW e \in Post, PostFails(e) PROVE TypeOK'
  <2>1. faults' \in 0..MaxFaults
    BY <1>6, FaultType DEF PostFails
  <2>. QED BY <1>6, <2>1 DEF PostFails, rowVars, passVars, ghosts
<1>7. ASSUME NEW e \in Post, BecomesDue(e) PROVE TypeOK'
  BY <1>7 DEF BecomesDue, ingestVars, passVars, ghosts
<1>8. ASSUME NEW p \in Pass, Fetch(p) PROVE TypeOK'
  BY <1>8 DEF Fetch, Due, ingestVars, rowVars
<1>9. ASSUME NEW p \in Pass, MarkUnmappable(p) PROVE TypeOK'
  BY <1>9 DEF MarkUnmappable, EndPass, ingestVars, ghosts
<1>10. ASSUME NEW p \in Pass, MarkSending(p) PROVE TypeOK'
  BY <1>10 DEF MarkSending, ingestVars, ghosts
<1>11. ASSUME NEW p \in Pass, Import(p) PROVE TypeOK'
  <2>1. faults' \in 0..MaxFaults
    BY <1>11, FaultType DEF Import
  <2>2. imported' \subseteq Post
    BY <1>11 DEF Import
  <2>. QED BY <1>11, <2>1, <2>2 DEF Import, ingestVars, rowVars, ghosts
<1>12. ASSUME NEW p \in Pass, Record(p) PROVE TypeOK'
  BY <1>12 DEF Record, EndPass, OutcomeKnown, StatusFor, ingestVars
<1>13. ASSUME NEW p \in Pass, PassFails(p) PROVE TypeOK'
  <2>1. faults' \in 0..MaxFaults
    BY <1>13, FaultType DEF PassFails
  <2>. QED BY <1>13, <2>1 DEF PassFails, EndPass, ingestVars, rowVars
<1>. QED BY <1>1, <1>2, <1>3, <1>4, <1>5, <1>6, <1>7, <1>8, <1>9, <1>10,
            <1>11, <1>12, <1>13 DEF Next, Ingest, PassStep

-----------------------------------------------------------------------------
\* An outcome is known, and its batch is imported if it is ok: only the import
\* sets an outcome, and only the end of a pass resets it.
LEMMA OutcomeStep ==
  ASSUME TypeOK, OutcomeKnown, BatchImported, [Next]_vars
  PROVE  OutcomeKnown' /\ BatchImported'
<1>. USE DEF TypeOK, OutcomeKnown, BatchImported
<1>1. CASE UNCHANGED <<passVars, imported>>
  BY <1>1 DEF passVars
<1>2. ASSUME NEW p \in Pass, Fetch(p) PROVE OutcomeKnown' /\ BatchImported'
  BY <1>2 DEF Fetch
<1>3. ASSUME NEW p \in Pass, MarkUnmappable(p) PROVE OutcomeKnown' /\ BatchImported'
  BY <1>3 DEF MarkUnmappable, EndPass
<1>4. ASSUME NEW p \in Pass, MarkSending(p) PROVE OutcomeKnown' /\ BatchImported'
  BY <1>4 DEF MarkSending
<1>5. ASSUME NEW p \in Pass, Import(p) PROVE OutcomeKnown' /\ BatchImported'
  BY <1>5 DEF Import
<1>6. ASSUME NEW p \in Pass, Record(p) \/ PassFails(p) PROVE OutcomeKnown' /\ BatchImported'
  BY <1>6 DEF Record, PassFails, EndPass
<1>7. ASSUME NEW e \in Post, Ingest(e) \/ PostFails(e) \/ BecomesDue(e)
      PROVE  UNCHANGED <<passVars, imported>>
  BY <1>7 DEF Ingest, Find, Insert, InsertRefused, FindAgain, PostFails, BecomesDue
<1>. QED BY <1>1, <1>2, <1>3, <1>4, <1>5, <1>6, <1>7 DEF Next, PassStep, vars

\* Only a pass that records an ok marks a row sent, and no import is undone.
LEMMA SentStep ==
  ASSUME TypeOK, OutcomeKnown, BatchImported, SentWasImported, [Next]_vars
  PROVE  SentWasImported'
<1>. USE DEF TypeOK, SentWasImported
<1>1. CASE UNCHANGED <<status, imported>>
  BY <1>1
<1>2. ASSUME NEW e \in Post, Insert(e) PROVE SentWasImported'
  BY <1>2 DEF Insert
<1>3. ASSUME NEW p \in Pass, MarkUnmappable(p) PROVE SentWasImported'
  BY <1>3 DEF MarkUnmappable
<1>4. ASSUME NEW p \in Pass, MarkSending(p) PROVE SentWasImported'
  BY <1>4 DEF MarkSending
<1>5. ASSUME NEW p \in Pass, Import(p) PROVE SentWasImported'
  BY <1>5 DEF Import, rowVars
<1>6. ASSUME NEW p \in Pass, Record(p) PROVE SentWasImported'
  BY <1>6 DEF Record, StatusFor, OutcomeKnown, BatchImported
<1>7. ASSUME NEW e \in Post, \/ Find(e) \/ InsertRefused(e) \/ FindAgain(e)
                             \/ PostFails(e) \/ BecomesDue(e)
      PROVE  UNCHANGED <<status, imported>>
  BY <1>7 DEF Find, InsertRefused, FindAgain, PostFails, BecomesDue, rowVars
<1>8. ASSUME NEW p \in Pass, Fetch(p) \/ PassFails(p)
      PROVE  UNCHANGED <<status, imported>>
  BY <1>8 DEF Fetch, PassFails, rowVars
<1>. QED BY <1>1, <1>2, <1>3, <1>4, <1>5, <1>6, <1>7, <1>8
         DEF Next, Ingest, PassStep, vars, rowVars

\* A pass lets go of a row in sending only by recording an outcome, which is not
\* sending, or by abandoning it.
LEMMA SendingStep ==
  ASSUME TypeOK, OutcomeKnown, SendingIsHeld, [Next]_vars
  PROVE  SendingIsHeld'
<1>. USE DEF TypeOK, SendingIsHeld
<1>1. CASE UNCHANGED <<status, pass, batch, abandoned>>
  BY <1>1
<1>2. ASSUME NEW e \in Post, Insert(e) PROVE SendingIsHeld'
  BY <1>2 DEF Insert, passVars, ghosts
<1>3. ASSUME NEW p \in Pass, Fetch(p) PROVE SendingIsHeld'
  BY <1>3 DEF Fetch, rowVars
<1>4. ASSUME NEW p \in Pass, MarkUnmappable(p) PROVE SendingIsHeld'
  BY <1>4 DEF MarkUnmappable, EndPass, ghosts
<1>5. ASSUME NEW p \in Pass, MarkSending(p) PROVE SendingIsHeld'
  BY <1>5 DEF MarkSending, ghosts
<1>6. ASSUME NEW p \in Pass, Import(p) PROVE SendingIsHeld'
  BY <1>6 DEF Import, rowVars, ghosts
<1>7. ASSUME NEW p \in Pass, Record(p) PROVE SendingIsHeld'
  BY <1>7 DEF Record, EndPass, StatusFor, OutcomeKnown
<1>8. ASSUME NEW p \in Pass, PassFails(p) PROVE SendingIsHeld'
  BY <1>8 DEF PassFails, EndPass, rowVars
<1>9. ASSUME NEW e \in Post, \/ Find(e) \/ InsertRefused(e) \/ FindAgain(e)
                             \/ PostFails(e) \/ BecomesDue(e)
      PROVE  UNCHANGED <<status, pass, batch, abandoned>>
  BY <1>9 DEF Find, InsertRefused, FindAgain, PostFails, BecomesDue, rowVars, passVars, ghosts
<1>. QED BY <1>1, <1>2, <1>3, <1>4, <1>5, <1>6, <1>7, <1>8, <1>9
         DEF Next, Ingest, PassStep, vars, rowVars, passVars, ghosts

\* A dispatch row is never deleted.
LEMMA StoredStep ==
  ASSUME TypeOK, OutcomeKnown, [Next]_vars
  PROVE  \A e \in Post : status[e] # "absent" => status'[e] # "absent"
<1>. USE DEF TypeOK
<1>1. ASSUME NEW e \in Post, Insert(e)
      PROVE  \A d \in Post : status[d] # "absent" => status'[d] # "absent"
  BY <1>1 DEF Insert
<1>2. ASSUME NEW p \in Pass, MarkUnmappable(p) \/ MarkSending(p) \/ Record(p)
      PROVE  \A d \in Post : status[d] # "absent" => status'[d] # "absent"
  BY <1>2 DEF MarkUnmappable, MarkSending, Record, StatusFor, OutcomeKnown
<1>3. ASSUME NEW e \in Post, \/ Find(e) \/ InsertRefused(e) \/ FindAgain(e)
                             \/ PostFails(e) \/ BecomesDue(e)
      PROVE  UNCHANGED status
  BY <1>3 DEF Find, InsertRefused, FindAgain, PostFails, BecomesDue, rowVars
<1>4. ASSUME NEW p \in Pass, Fetch(p) \/ Import(p) \/ PassFails(p)
      PROVE  UNCHANGED status
  BY <1>4 DEF Fetch, Import, PassFails, rowVars
<1>. QED BY <1>1, <1>2, <1>3, <1>4 DEF Next, Ingest, PassStep, vars, rowVars

\* A batch is selected among the rows that exist, and shrinks from then on.
LEMMA BatchStep ==
  ASSUME TypeOK, OutcomeKnown, BatchIsStored, [Next]_vars
  PROVE  BatchIsStored'
<1>. USE DEF TypeOK, BatchIsStored
<1>. DEFINE Goal == \A p \in Pass : \A e \in batch'[p] : e \in Post /\ status[e] # "absent"
<1>1. Goal
  <2>1. ASSUME NEW p \in Pass, Fetch(p) PROVE Goal
    BY <2>1 DEF Fetch, Due, Open
  <2>2. ASSUME NEW p \in Pass, \/ MarkUnmappable(p) \/ MarkSending(p) \/ Import(p)
                               \/ Record(p) \/ PassFails(p)
        PROVE  Goal
    BY <2>2 DEF MarkUnmappable, MarkSending, Import, Record, PassFails, EndPass
  <2>3. ASSUME NEW e \in Post, Ingest(e) \/ PostFails(e) \/ BecomesDue(e)
        PROVE  UNCHANGED batch
    BY <2>3 DEF Ingest, Find, Insert, InsertRefused, FindAgain, PostFails, BecomesDue, passVars
  <2>. QED BY <2>1, <2>2, <2>3 DEF Next, PassStep, vars, passVars
<1>. QED BY <1>1, StoredStep

\* The rows that are there after a step were there before, except for an inserted one.
LEMMA NewRow ==
  ASSUME TypeOK, BatchIsStored, [Next]_vars
  PROVE  \/ \E e \in Post : Insert(e)
         \/ \A e \in Post : status'[e] # "absent" => status[e] # "absent"
<1>. USE DEF TypeOK, BatchIsStored
<1>1. ASSUME NEW p \in Pass, MarkUnmappable(p) \/ MarkSending(p) \/ Record(p)
      PROVE  \A d \in Post : status'[d] # "absent" => status[d] # "absent"
  BY <1>1 DEF MarkUnmappable, MarkSending, Record
<1>2. ASSUME NEW e \in Post, \/ Find(e) \/ InsertRefused(e) \/ FindAgain(e)
                             \/ PostFails(e) \/ BecomesDue(e)
      PROVE  UNCHANGED status
  BY <1>2 DEF Find, InsertRefused, FindAgain, PostFails, BecomesDue, rowVars
<1>3. ASSUME NEW p \in Pass, Fetch(p) \/ Import(p) \/ PassFails(p)
      PROVE  UNCHANGED status
  BY <1>3 DEF Fetch, Import, PassFails, rowVars
<1>. QED BY <1>1, <1>2, <1>3 DEF Next, Ingest, PassStep, vars, rowVars

\* The index admits one event for a key.
LEMMA KeyStep ==
  ASSUME TypeOK, BatchIsStored, OneEventPerKey, [Next]_vars
  PROVE  OneEventPerKey'
<1>1. ASSUME NEW e \in Post, Insert(e) PROVE OneEventPerKey'
  BY <1>1 DEF TypeOK, OneEventPerKey, Insert, KeyIsFree, Existing
<1>2. CASE \A e \in Post : status'[e] # "absent" => status[e] # "absent"
  BY <1>2 DEF OneEventPerKey
<1>. QED BY <1>1, <1>2, NewRow

\* A post is answered with what it has inserted or found.
LEMMA AnswerStep ==
  ASSUME TypeOK, OutcomeKnown, AnswerIsStored, [Next]_vars
  PROVE  AnswerIsStored'
<1>. USE DEF TypeOK, AnswerIsStored
<1>1. CASE UNCHANGED ingestVars
  BY <1>1, StoredStep DEF ingestVars
<1>2. ASSUME NEW e \in Post, NEW x \in Existing(e), Answer(e, x), UNCHANGED status
      PROVE  AnswerIsStored'
  BY <1>2 DEF Answer, Existing
<1>3. ASSUME NEW e \in Post, Insert(e) PROVE AnswerIsStored'
  BY <1>3 DEF Insert, Answer
<1>4. ASSUME NEW e \in Post, Find(e) PROVE AnswerIsStored'
  BY <1>2, <1>4 DEF Find, rowVars
<1>5. ASSUME NEW e \in Post, FindAgain(e) PROVE AnswerIsStored'
  BY <1>2, <1>5 DEF FindAgain, rowVars
<1>6. ASSUME NEW e \in Post, InsertRefused(e) \/ PostFails(e) PROVE AnswerIsStored'
  BY <1>6 DEF InsertRefused, PostFails, rowVars
<1>7. ASSUME NEW e \in Post, BecomesDue(e) PROVE UNCHANGED ingestVars
  BY <1>7 DEF BecomesDue
<1>8. ASSUME NEW p \in Pass, Fetch(p) \/ PassStep(p) \/ PassFails(p)
      PROVE  UNCHANGED ingestVars
  BY <1>8 DEF Fetch, PassStep, MarkUnmappable, MarkSending, Import, Record, PassFails
<1>. QED BY <1>1, <1>3, <1>4, <1>5, <1>6, <1>7, <1>8 DEF Next, Ingest, vars

\* A row and its answer come in the same step.
LEMMA NotYetStep ==
  ASSUME TypeOK, BatchIsStored, NotYetStored, [Next]_vars
  PROVE  NotYetStored'
<1>. USE DEF TypeOK, NotYetStored
<1>1. ASSUME NEW e \in Post, Insert(e) PROVE NotYetStored'
  BY <1>1 DEF Insert, Answer
<1>2. \A e \in Post : post'[e] \in {"new", "inserting", "refused"}
                      => post[e] \in {"new", "inserting", "refused"}
  <2>1. ASSUME NEW e \in Post, Ingest(e) \/ PostFails(e) PROVE <1>2
    BY <2>1 DEF Ingest, Find, Insert, InsertRefused, FindAgain, PostFails, Answer
  <2>2. ASSUME NEW e \in Post, BecomesDue(e) PROVE UNCHANGED post
    BY <2>2 DEF BecomesDue, ingestVars
  <2>3. ASSUME NEW p \in Pass, Fetch(p) \/ PassStep(p) \/ PassFails(p)
        PROVE  UNCHANGED post
    BY <2>3 DEF Fetch, PassStep, MarkUnmappable, MarkSending, Import, Record, PassFails,
                ingestVars
  <2>. QED BY <2>1, <2>2, <2>3 DEF Next, vars, ingestVars
<1>3. CASE \A e \in Post : status'[e] # "absent" => status[e] # "absent"
  BY <1>2, <1>3
<1>. QED BY <1>1, <1>3, NewRow

\* A lone pass selects open rows, and nobody else changes them.
LEMMA LonePassStep ==
  ASSUME TypeOK, OutcomeKnown, NotYetStored, LonePassIsOpen, [Next]_vars
  PROVE  LonePassIsOpen'
<1>. USE DEF TypeOK, LonePassIsOpen, Open, Closed
<1>1. CASE UNCHANGED <<status, pass, batch, disturbed>>
  BY <1>1
<1>2. ASSUME NEW e \in Post, Insert(e) PROVE LonePassIsOpen'
  BY <1>2 DEF Insert, passVars, ghosts
<1>3. ASSUME NEW p \in Pass, Fetch(p) PROVE LonePassIsOpen'
  <2>1. PICK rows \in SUBSET Due : batch' = [batch EXCEPT ![p] = rows]
    BY <1>3 DEF Fetch
  <2>2. \A e \in rows : e \in Post /\ status[e] \notin Closed
    BY <2>1 DEF Due
  <2>3. /\ pass' = [pass EXCEPT ![p] = "mapping"]
        /\ UNCHANGED status
        /\ ~disturbed' => ~disturbed /\ \A o \in Pass : pass[o] = "idle"
    BY <1>3 DEF Fetch, rowVars
  <2>. QED BY <2>1, <2>2, <2>3
<1>4. ASSUME NEW p \in Pass, MarkUnmappable(p) PROVE LonePassIsOpen'
  BY <1>4 DEF MarkUnmappable, EndPass, ghosts
<1>5. ASSUME NEW p \in Pass, MarkSending(p) PROVE LonePassIsOpen'
  BY <1>5 DEF MarkSending, ghosts
<1>6. ASSUME NEW p \in Pass, Import(p) PROVE LonePassIsOpen'
  BY <1>6 DEF Import, rowVars, ghosts
<1>7. ASSUME NEW p \in Pass, Record(p) \/ PassFails(p) PROVE LonePassIsOpen'
  BY <1>7 DEF Record, PassFails, EndPass, rowVars
<1>8. ASSUME NEW e \in Post, \/ Find(e) \/ InsertRefused(e) \/ FindAgain(e)
                             \/ PostFails(e) \/ BecomesDue(e)
      PROVE  UNCHANGED <<status, pass, batch, disturbed>>
  BY <1>8 DEF Find, InsertRefused, FindAgain, PostFails, BecomesDue, rowVars, passVars, ghosts
<1>. QED BY <1>1, <1>2, <1>3, <1>4, <1>5, <1>6, <1>7, <1>8
         DEF Next, Ingest, PassStep, vars, rowVars, passVars, ghosts

-----------------------------------------------------------------------------
LEMMA IInvStep == IInv /\ [Next]_vars => IInv'
BY TypeStep, OutcomeStep, SentStep, SendingStep, BatchStep, KeyStep, AnswerStep,
   NotYetStep, LonePassStep DEF IInv

LEMMA Invariance == Spec => []IInv
BY IInvInit, IInvStep, PTL DEF Spec

\* Every variable of the service keeps its type.
THEOREM AnalyticsTypeCorrect == Spec => []TypeOK
<1>1. IInv => TypeOK
  BY DEF IInv
<1>. QED BY <1>1, Invariance, PTL

\* Posts with the same producerEventId are answered with the same stored event,
\* however many of them race through insert_event_with_dispatch.
THEOREM SameKeyIsSameEvent == Spec => []SameKeySameEvent
<1>1. IInv => SameKeySameEvent
  BY DEF IInv, OneEventPerKey, AnswerIsStored, SameKeySameEvent
<1>. QED BY <1>1, Invariance, PTL

\* A row is sent only if Mixpanel has stored its event, with any number of
\* overlapping passes and faults.
THEOREM SentIsImported == Spec => []SentWasImported
<1>1. IInv => SentWasImported
  BY DEF IInv
<1>. QED BY <1>1, Invariance, PTL

\* A row in sending is held by a pass or was abandoned by one: nothing else
\* leaves a row in the status that is never selected.
THEOREM NoRowIsForgotten == Spec => []SendingIsHeld
<1>1. IInv => SendingIsHeld
  BY DEF IInv
<1>. QED BY <1>1, Invariance, PTL

\* As long as passes do not overlap, a row that is sent or dead stays so.
THEOREM ClosedIsFinal == Spec => QuietClosedIsFinal
<1>1. ASSUME IInv, [Next]_vars, ~disturbed', NEW e \in Post, status[e] \in Closed
      PROVE  status'[e] = status[e]
  <2>. USE <1>1 DEF IInv, TypeOK
  <2>1. ASSUME NEW d \in Post, Insert(d) PROVE status'[e] = status[e]
    BY <2>1 DEF Insert, NotYetStored, Closed
  <2>2. ASSUME NEW p \in Pass, MarkUnmappable(p) \/ MarkSending(p) \/ Record(p)
        PROVE  status'[e] = status[e]
    BY <2>2 DEF MarkUnmappable, MarkSending, Record, LonePassIsOpen, ghosts
  <2>3. ASSUME NEW d \in Post, \/ Find(d) \/ InsertRefused(d) \/ FindAgain(d)
                               \/ PostFails(d) \/ BecomesDue(d)
        PROVE  UNCHANGED status
    BY <2>3 DEF Find, InsertRefused, FindAgain, PostFails, BecomesDue, rowVars
  <2>4. ASSUME NEW p \in Pass, Fetch(p) \/ Import(p) \/ PassFails(p)
        PROVE  UNCHANGED status
    BY <2>4 DEF Fetch, Import, PassFails, rowVars
  <2>. QED BY <2>1, <2>2, <2>3, <2>4 DEF Next, Ingest, PassStep, vars, rowVars
<1>2. IInv /\ [Next]_vars =>
        [~disturbed' => \A e \in Post : status[e] \in Closed => status'[e] = status[e]]_vars
  BY <1>1
<1>. QED BY <1>2, Invariance, PTL DEF Spec, QuietClosedIsFinal
=============================================================================
