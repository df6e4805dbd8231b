----------------------- MODULE ProjectionDispatchProofs -----------------------
(***************************************************************************)
(* Proofs about ProjectionDispatch and ProjectionAttempts, for any rows,   *)
(* subjects, calculation times, passes, requests and limits, and any       *)
(* faults.                                                                 *)
(***************************************************************************)
EXTENDS ProjectionAttempts, SequenceTheorems, WellFoundedInduction, TLAPS

-----------------------------------------------------------------------------
(* The inductive invariant: what holds whatever happens ...                *)

\* No row is due twice, and only rows that have been inserted are due.
DueOnce ==
    /\ \A i, j \in DOMAIN due : due[i] = due[j] => i = j
    /\ \A i \in DOMAIN due : status[due[i]] # "Absent"

\* A row that has not been inserted has not been tried.
Untried == \A r \in Row : status[r] = "Absent" => attempts[r] = 0

\* What a pass has in hand at each stage.
PassShape ==
    \A p \in Pass :
        /\ pass[p] = "idle" <=> batch[p] = <<>>
        /\ pass[p] = "waiting" <=> sent[p] # NoRequest
        /\ pass[p] = "marking" <=> outcome[p] # "none"
        /\ \A i \in DOMAIN batch[p] : status[batch[p][i].row] # "Absent"

\* A pass waits for a request of its own, which carries the row at hand.
RequestOfPass ==
    /\ \A p \in Pass : pass[p] = "waiting" =>
          request[sent[p]] # "free" /\ payload[sent[p]] = Head(batch[p]).row
    /\ \A p, o \in Pass : pass[p] = "waiting" /\ sent[p] = sent[o] => p = o
    /\ \A q \in Request : request[q] # "free" => payload[q] \in Row

\* ... and what holds until passes overlap or a request is given up: there is one pass,
OnePass == \A p, o \in Pass : pass[p] # "idle" /\ pass[o] # "idle" => p = o

\* Jobs works on its request only,
RequestsAreAwaited ==
    \A q \in Request : request[q] # "free" => \E p \in Pass : sent[p] = q

\* so the score that Jobs has found is the one that is shown,
FoundIsCurrent ==
    \A q \in Request : request[q] = "read" => found[q] = shown[SubjectOf[payload[q]]]

\* the row, or a result calculated no earlier, is shown when Jobs says so,
Covered(r) ==
    /\ shown[SubjectOf[r]] # NoRow
    /\ CalculatedAt[shown[SubjectOf[r]]] >= CalculatedAt[r]
AnswerIsShown ==
    /\ \A q \in Request : request[q] = "ok" => Covered(payload[q])
    /\ \A p \in Pass : outcome[p] = "delivered" => Covered(Head(batch[p]).row)
    /\ \A r \in Row : status[r] = "Delivered" => Covered(r)

\* and the rows in hand are open, are not there twice and are as they were selected, so
\* that a retry leaves an attempt.
BatchIsCurrent ==
    \A p \in Pass :
        /\ \A i \in DOMAIN batch[p] : /\ batch[p][i].seen = attempts[batch[p][i].row]
                                      /\ status[batch[p][i].row] \in Open
        /\ \A i, j \in DOMAIN batch[p] : batch[p][i].row = batch[p][j].row => i = j
        /\ outcome[p] = "retry" => Head(batch[p]).seen + 1 < MaxAttempts
AttemptsLeft ==
    \A r \in Row :
        /\ status[r] \in Open => attempts[r] < MaxAttempts
        /\ attempts[r] <= MaxAttempts
        /\ status[r] \in Closed => ~InDue(r)

Always == TypeOK /\ DueOnce /\ Untried /\ PassShape /\ RequestOfPass
Quiet == OnePass /\ RequestsAreAwaited /\ FoundIsCurrent /\ AnswerIsShown
            /\ BatchIsCurrent /\ AttemptsLeft
IInv == Always /\ (~disturbed => Quiet)

-----------------------------------------------------------------------------
(* Lemmas about the operators.                                             *)

\* A set of natural numbers has a smallest one: < is well-founded.
LEMMA Smallest ==
  ASSUME NEW T, T \subseteq Nat, T # {}
  PROVE  \E n \in T : \A m \in T : n <= m
<1>. DEFINE R == OpToRel(<, Nat)
<1>1. IsWellFoundedOn(R, Nat)
  BY NatLessThanWellFounded
<1>2. PICK n \in T : \A m \in T : <<m, n>> \notin R
  BY <1>1, WFMin
<1>3. \A m \in T : ~(m < n)
  BY <1>2 DEF OpToRel
<1>. QED BY <1>3

\* RemoveFirst takes out one position, if there is one to take out.
LEMMA RemoveFirstAt ==
  ASSUME NEW X, NEW R \in Seq(X), NEW e
  PROVE  /\ RemoveFirst(R, e) \in Seq(X)
         /\ \/ RemoveFirst(R, e) = R /\ \A i \in DOMAIN R : R[i] # e
            \/ \E k \in DOMAIN R :
                  /\ R[k] = e
                  /\ Len(RemoveFirst(R, e)) = Len(R) - 1
                  /\ \A i \in 1..Len(R)-1 :
                        RemoveFirst(R, e)[i] = IF i < k THEN R[i] ELSE R[i+1]
<1>1. CASE ~\E i \in 1..Len(R) : R[i] = e
  BY <1>1 DEF RemoveFirst
<1>2. CASE \E i \in 1..Len(R) : R[i] = e
  <2>. DEFINE I == {i \in 1..Len(R) : R[i] = e}
              k == Min(I)
  <2>1. k \in I
    <3>1. I \subseteq Nat /\ I # {}
      BY <1>2
    <3>2. \E n \in I : \A m \in I : n <= m
      BY <3>1, Smallest
    <3>. QED BY <3>2 DEF Min
  <2>2. RemoveFirst(R, e) = SubSeq(R, 1, k-1) \o SubSeq(R, k+1, Len(R))
    BY <1>2 DEF RemoveFirst, RemoveAt, SelectInSeq
  <2>3. k \in 1..Len(R) /\ R[k] = e
    BY <2>1
  <2>. HIDE DEF k
  <2>. DEFINE A == SubSeq(R, 1, k-1)
              B == SubSeq(R, k+1, Len(R))
  <2>4. /\ A \in Seq(X) /\ B \in Seq(X)
        /\ Len(A) = k-1 /\ \A i \in 1..k-1 : A[i] = R[i]
        /\ Len(B) = Len(R)-k /\ \A i \in 1..Len(R)-k : B[i] = R[k+i]
    BY <2>3
  <2>. HIDE DEF A, B
  <2>5. A \o B \in Seq(X) /\ Len(A \o B) = Len(R) - 1
    <3>1. A \o B \in Seq(X) /\ Len(A \o B) = Len(A) + Len(B)
      BY <2>4
    <3>. QED BY <2>3, <2>4, <3>1
  <2>6. ASSUME NEW i \in 1..Len(R)-1 PROVE (A \o B)[i] = IF i < k THEN R[i] ELSE R[i+1]
    <3>1. CASE i < k
      BY <2>3, <2>4, <3>1
    <3>2. CASE ~(i < k)
      <4>1. i - (k-1) \in 1..Len(R)-k /\ k + (i - (k-1)) = i + 1
        BY <2>3, <3>2
      <4>2. (A \o B)[i] = B[i - (k-1)]
        BY <2>3, <2>4, <3>2
      <4>. QED BY <2>4, <3>2, <4>1, <4>2
    <3>. QED BY <3>1, <3>2
  <2>7. RemoveFirst(R, e) = A \o B
    BY <2>2 DEF A, B
  <2>8. DOMAIN R = 1..Len(R)
    OBVIOUS
  <2>. QED BY <2>3, <2>5, <2>6, <2>7, <2>8
<1>. QED BY <1>1, <1>2

\* What is due without a row: the others, once each.
LEMMA DueWithout ==
  ASSUME due \in Seq(Row), \A i, j \in DOMAIN due : due[i] = due[j] => i = j, NEW r
  PROVE  LET Q == RemoveFirst(due, r)
         IN  /\ Q \in Seq(Row)
             /\ \A i, j \in DOMAIN Q : Q[i] = Q[j] => i = j
             /\ \A i \in DOMAIN Q : Q[i] # r /\ \E j \in DOMAIN due : Q[i] = due[j]
<1>. DEFINE Q == RemoveFirst(due, r)
<1>1. Q \in Seq(Row)
  BY RemoveFirstAt
<1>2. CASE Q = due /\ \A i \in DOMAIN due : due[i] # r
  BY <1>1, <1>2
<1>3. CASE \E k \in DOMAIN due : /\ due[k] = r /\ Len(Q) = Len(due) - 1
                                 /\ \A i \in 1..Len(due)-1 : Q[i] = IF i < k THEN due[i] ELSE due[i+1]
  <2>1. PICK k \in DOMAIN due : /\ due[k] = r /\ Len(Q) = Len(due) - 1
                                /\ \A i \in 1..Len(due)-1 : Q[i] = IF i < k THEN due[i] ELSE due[i+1]
    BY <1>3
  <2>. DEFINE at(i) == IF i < k THEN i ELSE i+1
  <2>. HIDE DEF Q
  <2>2. DOMAIN Q = 1..Len(due)-1 /\ DOMAIN due = 1..Len(due) /\ Len(due) \in Nat /\ k \in 1..Len(due)
    BY <1>1, <2>1
  <2>3. \A i \in DOMAIN Q : at(i) \in DOMAIN due /\ at(i) # k /\ Q[i] = due[at(i)]
    BY <2>1, <2>2
  <2>4. \A i, j \in DOMAIN Q : at(i) = at(j) => i = j
    BY <2>2
  <2>. HIDE DEF at
  <2>5. \A i, j \in DOMAIN Q : Q[i] = Q[j] => i = j
    BY <2>3, <2>4
  <2>6. \A i \in DOMAIN Q : Q[i] # r /\ \E j \in DOMAIN due : Q[i] = due[j]
    BY <2>1, <2>3
  <2>. QED BY <1>1, <2>5, <2>6 DEF Q
<1>. QED BY <1>2, <1>3, RemoveFirstAt

\* The row at hand and the rows left.
LEMMA BatchParts ==
  ASSUME TypeOK, NEW p \in Pass, batch[p] # <<>>
  PROVE  /\ Head(batch[p]) = batch[p][1] /\ 1 \in DOMAIN batch[p]
         /\ Head(batch[p]) \in [row : Row, seen : Nat]
         /\ Head(batch[p]).row \in Row /\ Head(batch[p]).seen \in Nat
         /\ Tail(batch[p]) \in Seq([row : Row, seen : Nat])
         /\ Tail(batch[p]) = <<>> <=> Len(batch[p]) = 1
         /\ \A i \in DOMAIN Tail(batch[p]) :
               i + 1 \in DOMAIN batch[p] /\ Tail(batch[p])[i] = batch[p][i + 1]
<1>. DEFINE E == [row : Row, seen : Nat]
            b == batch[p]
<1>1. b \in Seq(E)
  BY DEF TypeOK
<1>2. \A e \in E : e.row \in Row /\ e.seen \in Nat
  OBVIOUS
<1>. HIDE DEF E
<1>3. /\ Head(b) = b[1] /\ 1 \in DOMAIN b /\ Head(b) \in E /\ Tail(b) \in Seq(E)
      /\ Len(Tail(b)) = Len(b) - 1
      /\ \A i \in 1..Len(b)-1 : Tail(b)[i] = b[i+1]
  <2>1. b # <<>> /\ Len(b) \in Nat /\ Len(b) # 0 /\ DOMAIN b = 1..Len(b)
    BY <1>1
  <2>2. Head(b) = b[1] /\ 1 \in DOMAIN b /\ b[1] \in E
    BY <1>1, <2>1
  <2>3. /\ Tail(b) \in Seq(E) /\ Len(Tail(b)) = Len(b) - 1
        /\ \A i \in 1..Len(b)-1 : Tail(b)[i] = b[i+1]
    BY <1>1, <2>1
  <2>. QED BY <2>2, <2>3
<1>4. Tail(b) = <<>> <=> Len(b) = 1
  <2>1. Len(b) \in Nat
    BY <1>1
  <2>2. Tail(b) = <<>> <=> Len(Tail(b)) = 0
    BY <1>3, EmptySeq
  <2>. QED BY <1>3, <2>1, <2>2
<1>5. \A i \in DOMAIN Tail(b) : i + 1 \in DOMAIN b /\ Tail(b)[i] = b[i+1]
  BY <1>1, <1>3
<1>. QED BY <1>2, <1>3, <1>4, <1>5 DEF E

\* Three ways in which Jobs or a pass deals with one request.
RequestChanges(q, stages) ==
    /\ request' \in [Request -> {"free", "received", "read", "ok", "error", "refused"}]
    /\ payload' \in [Request -> Row \cup {NoRow}]
    /\ found' \in [Request -> Row \cup {NoRow}]
    /\ request'[q] \in stages
    /\ request'[q] # "free" => payload'[q] = payload[q]
    /\ \A u \in Request : u # q => /\ request'[u] = request[u]
                                   /\ payload'[u] = payload[u]
                                   /\ found'[u] = found[u]

\* A request is forgotten when it is over, and goes on otherwise.
LEMMA ForgetEffect ==
  ASSUME TypeOK, NEW q \in Request, Forget(q)
  PROVE  /\ RequestChanges(q, {"free", request[q]})
         /\ request[q] \in {"ok", "error", "refused"} => request'[q] = "free"
         /\ request'[q] # "free" => found'[q] = found[q]
BY DEF Forget, Discard, TypeOK, RequestChanges, requestVars

\* A request that ends has an answer if a pass waits for it.
LEMMA FinishEffect ==
  ASSUME TypeOK, NEW q \in Request, NEW answer \in {"ok", "error", "refused"}, Finish(q, answer)
  PROVE  /\ RequestChanges(q, {"free", answer})
         /\ (\E p \in Pass : sent[p] = q) => request'[q] = answer
BY DEF Finish, Discard, TypeOK, RequestChanges

LEMMA TypeInit == Init => TypeOK
<1>. SUFFICES ASSUME Init PROVE TypeOK
  OBVIOUS
<1>1. 0 \in 0..MaxFaults
  BY LimitAssumption
<1>2. <<>> \in Seq(Row) /\ <<>> \in Seq([row : Row, seen : Nat])
  BY EmptySeq
<1>3. /\ due \in Seq(Row) /\ faults \in 0..MaxFaults /\ disturbed \in BOOLEAN
      /\ batch \in [Pass -> Seq([row : Row, seen : Nat])]
  BY <1>1, <1>2 DEF Init
<1>. QED BY <1>3 DEF Init, TypeOK

\* Faults are counted up to the bound.
LEMMA FaultCounts ==
  ASSUME TypeOK, NEW kind, Fault(kind)
  PROVE  faults' \in 0..MaxFaults
BY LimitAssumption DEF Fault, TypeOK

LEMMA TypeStep ==
  ASSUME TypeOK, PassShape, RequestOfPass, [Next]_vars
  PROVE  TypeOK'
<1>1. CASE UNCHANGED vars
  BY <1>1 DEF TypeOK, vars, rowVars, passVars, requestVars
<1>2. ASSUME NEW r \in Row, Insert(r) \/ BecomesDue(r) PROVE TypeOK'
  <2>1. Append(due, r) \in Seq(Row)
    BY DEF TypeOK
  <2>. QED BY <1>2, <2>1 DEF Insert, BecomesDue, TypeOK, passVars, requestVars, Open
<1>3. ASSUME NEW p \in Pass, BeginPass(p) PROVE TypeOK'
  <2>. DEFINE n == IF Len(due) < BatchSize THEN Len(due) ELSE BatchSize
              b == [i \in 1..n |-> [row |-> due[i], seen |-> attempts[due[i]]]]
  <2>1. n \in Nat /\ n <= Len(due)
    BY LimitAssumption DEF TypeOK
  <2>2. \A i \in 1..n : due[i] \in Row /\ attempts[due[i]] \in Nat
    BY <2>1 DEF TypeOK
  <2>3. b \in Seq([row : Row, seen : Nat])
    <3>. DEFINE E == [row : Row, seen : Nat]
    <3>1. \A i \in 1..n : b[i] \in E
      BY <2>2
    <3>2. b = [i \in 1..n |-> b[i]]
      OBVIOUS
    <3>. HIDE DEF b, E, n
    <3>3. b \in Seq(E)
      BY <2>1, <3>1, <3>2
    <3>. QED BY <3>3 DEF E
  <2>4. /\ batch' = [batch EXCEPT ![p] = b] /\ pass' = [pass EXCEPT ![p] = "posting"]
        /\ UNCHANGED <<rowVars, sent, outcome, requestVars, shown, faults>>
    BY <1>3 DEF BeginPass
  <2>5. disturbed' \in BOOLEAN
    BY <1>3, Zenon DEF BeginPass, TypeOK
  <2>. HIDE DEF b
  <2>. QED BY <2>3, <2>4, <2>5 DEF TypeOK, rowVars, requestVars
<1>4. ASSUME NEW p \in Pass, Post(p) PROVE TypeOK'
  <2>1. PICK q \in Request : /\ request' = [request EXCEPT ![q] = "received"]
                             /\ payload' = [payload EXCEPT ![q] = Head(batch[p]).row]
                             /\ sent' = [sent EXCEPT ![p] = q]
    BY <1>4 DEF Post, Free
  <2>2. Head(batch[p]).row \in Row
    BY <1>4, BatchParts DEF Post, PassShape
  <2>3. /\ pass' = [pass EXCEPT ![p] = "waiting"]
        /\ UNCHANGED <<rowVars, batch, outcome, found, shown, faults, disturbed>>
    BY <1>4 DEF Post
  <2>. QED BY <2>1, <2>2, <2>3 DEF TypeOK, rowVars
<1>5. ASSUME NEW p \in Pass, Answered(p) \/ TimesOut(p) PROVE TypeOK'
  <2>1. sent[p] \in Request
    BY <1>5 DEF Answered, TimesOut, PassShape, TypeOK
  <2>2. RequestChanges(sent[p], {"free", request[sent[p]]})
    BY <1>5, <2>1, ForgetEffect DEF Answered, TimesOut
  <2>3. outcome' \in [Pass -> {"none", "delivered", "retry", "deadletter"}]
    <3>1. AfterFailure(p) \in {"retry", "deadletter"}
      BY DEF AfterFailure
    <3>2. CASE Answered(p)
      <4>1. AfterAnswer(p) \in {"none", "delivered", "retry", "deadletter"}
        BY <3>1, <3>2 DEF Answered, AfterAnswer
      <4>. QED BY <3>2, <4>1 DEF Answered, TypeOK
    <3>3. CASE TimesOut(p)
      BY <3>1, <3>3 DEF TimesOut, TypeOK
    <3>. QED BY <1>5, <3>2, <3>3
  <2>4. /\ pass' = [pass EXCEPT ![p] = "marking"] /\ sent' = [sent EXCEPT ![p] = NoRequest]
        /\ UNCHANGED <<rowVars, batch, shown>>
    BY <1>5 DEF Answered, TimesOut
  <2>5. disturbed' \in BOOLEAN /\ faults' \in 0..MaxFaults
    BY <1>5, FaultCounts DEF Answered, TimesOut, TypeOK
  <2>. QED BY <2>2, <2>3, <2>4, <2>5 DEF TypeOK, rowVars, RequestChanges
<1>6. ASSUME NEW p \in Pass, Mark(p) PROVE TypeOK'
  <2>1. batch[p] # <<>> /\ outcome[p] # "none"
    BY <1>6 DEF Mark, PassShape
  <2>2. status' \in [Row -> {"Absent"} \cup Open \cup Closed]
    BY <1>6, <2>1, BatchParts DEF Mark, StatusFor, TypeOK, Open, Closed
  <2>3. attempts' \in [Row -> Nat]
    BY <1>6, <2>1, BatchParts DEF Mark, TypeOK
  <2>4. due' \in Seq(Row)
    <3>1. due \in Seq(Row)
      BY DEF TypeOK
    <3>. QED BY <1>6, <3>1, RemoveFirstAt DEF Mark
  <2>5. batch' \in [Pass -> Seq([row : Row, seen : Nat])]
    BY <1>6, <2>1, BatchParts DEF Mark, TypeOK
  <2>. QED BY <1>6, <2>2, <2>3, <2>4, <2>5 DEF Mark, TypeOK, requestVars
<1>7. ASSUME NEW p \in Pass, MarkFails(p) \/ PassDies(p) PROVE TypeOK'
  <2>1. Abandon(p) /\ UNCHANGED <<rowVars, shown>> /\ faults' \in 0..MaxFaults
    BY <1>7, FaultCounts DEF MarkFails, PassDies
  <2>5. disturbed' \in BOOLEAN
    BY <1>7 DEF MarkFails, PassDies, TypeOK
  <2>2. /\ request' \in [Request -> {"free", "received", "read", "ok", "error", "refused"}]
        /\ payload' \in [Request -> Row \cup {NoRow}]
        /\ found' \in [Request -> Row \cup {NoRow}]
    <3>1. CASE UNCHANGED requestVars
      BY <3>1 DEF requestVars, TypeOK
    <3>2. CASE pass[p] = "waiting" /\ Forget(sent[p])
      <4>1. sent[p] \in Request
        BY <3>2 DEF PassShape, TypeOK
      <4>. QED BY <3>2, <4>1, ForgetEffect DEF RequestChanges
    <3>. QED BY <1>7, <3>1, <3>2 DEF MarkFails, PassDies
  <2>3. /\ pass' \in [Pass -> {"idle", "posting", "waiting", "marking"}]
        /\ batch' \in [Pass -> Seq([row : Row, seen : Nat])]
        /\ sent' \in [Pass -> Request \cup {NoRequest}]
        /\ outcome' \in [Pass -> {"none", "delivered", "retry", "deadletter"}]
    <3>1. <<>> \in Seq([row : Row, seen : Nat])
      BY EmptySeq
    <3>. QED BY <2>1, <3>1 DEF Abandon, TypeOK
  <2>. QED BY <2>1, <2>2, <2>3, <2>5 DEF TypeOK, rowVars
<1>8. ASSUME NEW q \in Request, JobsReads(q) PROVE TypeOK'
  <2>1. payload[q] \in Row
    BY <1>8 DEF JobsReads, RequestOfPass
  <2>2. shown[SubjectOf[payload[q]]] \in Row \cup {NoRow}
    BY <2>1, SubjectAssumption DEF TypeOK
  <2>. QED BY <1>8, <2>2 DEF JobsReads, TypeOK, rowVars, passVars
<1>9. ASSUME NEW q \in Request, JobsIgnores(q) \/ JobsStores(q) \/ JobsCollides(q) \/ JobsFails(q)
      PROVE  TypeOK'
  <2>1. \E answer \in {"ok", "error", "refused"} : Finish(q, answer)
    BY <1>9 DEF JobsIgnores, JobsStores, JobsCollides, JobsFails
  <2>2. payload[q] \in Row
    BY <1>9 DEF JobsIgnores, JobsStores, JobsCollides, JobsFails, RequestOfPass
  <2>3. shown' \in [Subject -> Row \cup {NoRow}]
    BY <1>9, <2>2 DEF JobsIgnores, JobsStores, JobsCollides, JobsFails, TypeOK
  <2>4. faults' \in 0..MaxFaults /\ UNCHANGED <<rowVars, passVars, disturbed>>
    <3>1. faults \in 0..MaxFaults
      BY DEF TypeOK
    <3>. QED BY <1>9, <3>1, FaultCounts DEF JobsIgnores, JobsStores, JobsCollides, JobsFails
  <2>5. \E answer \in {"ok", "error", "refused"} : RequestChanges(q, {"free", answer})
    BY <2>1, FinishEffect
  <2>. QED BY <2>3, <2>4, <2>5 DEF TypeOK, RequestChanges, rowVars, passVars
<1>. QED BY <1>1, <1>2, <1>3, <1>4, <1>5, <1>6, <1>7, <1>8, <1>9 DEF Next, PassStep, JobsStep

-----------------------------------------------------------------------------
(* What a step changes.                                                    *)

\* Rows are changed by a completion, by time and by Mark.
LEMMA RowSteps ==
  ASSUME [Next]_vars
  PROVE  \/ UNCHANGED rowVars
         \/ \E r \in Row : Insert(r) \/ BecomesDue(r)
         \/ \E p \in Pass : Mark(p)
BY DEF Next, PassStep, JobsStep, vars, BeginPass, Post, Answered, TimesOut, MarkFails, PassDies,
       JobsReads, JobsIgnores, JobsStores, JobsCollides, JobsFails

\* A pass is changed by its own steps.
LEMMA PassSteps ==
  ASSUME [Next]_vars
  PROVE  \/ UNCHANGED passVars
         \/ \E p \in Pass : \/ BeginPass(p) \/ Post(p) \/ Answered(p) \/ TimesOut(p)
                            \/ Mark(p) \/ MarkFails(p) \/ PassDies(p)
BY DEF Next, PassStep, JobsStep, vars, Insert, BecomesDue,
       JobsReads, JobsIgnores, JobsStores, JobsCollides, JobsFails

\* A pass that fails or goes down forgets what it had in hand; its request goes
\* on unless it is over.
Drops(p) ==
    /\ Abandon(p)
    /\ \/ UNCHANGED requestVars
       \/ pass[p] = "waiting" /\ Forget(sent[p]) /\ disturbed'

LEMMA PassDrops ==
  ASSUME NEW p \in Pass, MarkFails(p) \/ PassDies(p)
  PROVE  /\ Drops(p) /\ pass[p] # "idle" /\ UNCHANGED <<rowVars, shown>>
         /\ pass[p] = "waiting" => disturbed'
BY DEF MarkFails, PassDies, Drops

\* Jobs ends a request with an answer.
LEMMA JobsEnds ==
  ASSUME NEW q \in Request, JobsIgnores(q) \/ JobsStores(q) \/ JobsCollides(q) \/ JobsFails(q)
  PROVE  /\ \E answer \in {"ok", "error", "refused"} : Finish(q, answer)
         /\ request[q] \in {"received", "read"}
         /\ UNCHANGED <<rowVars, passVars, disturbed>>
BY DEF JobsIgnores, JobsStores, JobsCollides, JobsFails

\* Where a marked row is: the head of a batch that is not empty.
LEMMA MarkedRow ==
  ASSUME TypeOK, PassShape, NEW p \in Pass, Mark(p), NEW r, r = Head(batch[p]).row
  PROVE  /\ r \in Row /\ batch[p] # <<>>
         /\ status[r] # "Absent"
         /\ status' = [status EXCEPT ![r] = StatusFor[outcome[p]]]
         /\ status' \in [Row -> {"Absent"} \cup Open \cup Closed]
         /\ outcome[p] \in {"delivered", "retry", "deadletter"}
         /\ status'[r] = StatusFor[outcome[p]] /\ status'[r] \in Closed \cup {"Failed"}
         /\ \A s \in Row : s # r => status'[s] = status[s] /\ attempts'[s] = attempts[s]
         /\ attempts'[r] = attempts[r] + 1
         /\ due' = RemoveFirst(due, r)
         /\ batch' = [batch EXCEPT ![p] = Tail(batch[p])]
         /\ pass[p] = "marking" /\ sent[p] = NoRequest
<1>1. batch[p] # <<>> /\ outcome[p] # "none" /\ pass[p] = "marking" /\ sent[p] = NoRequest
  BY DEF Mark, PassShape
<1>2. r \in Row /\ r = batch[p][1].row /\ 1 \in DOMAIN batch[p]
  BY <1>1, BatchParts
<1>3. status[r] # "Absent"
  BY <1>2 DEF PassShape
<1>4. outcome[p] \in {"delivered", "retry", "deadletter"}
  BY <1>1 DEF TypeOK
<1>5. StatusFor[outcome[p]] \in Closed \cup {"Failed"}
  BY <1>4 DEF StatusFor, Closed
<1>6. /\ status' = [status EXCEPT ![r] = StatusFor[outcome[p]]]
      /\ attempts' = [attempts EXCEPT ![r] = attempts[r] + 1]
      /\ due' = RemoveFirst(due, r)
      /\ batch' = [batch EXCEPT ![p] = Tail(batch[p])]
  BY DEF Mark
<1>7. status \in [Row -> {"Absent"} \cup Open \cup Closed] /\ attempts \in [Row -> Nat]
  BY DEF TypeOK
<1>. QED BY <1>1, <1>2, <1>3, <1>4, <1>5, <1>6, <1>7 DEF Open

-----------------------------------------------------------------------------
(* What holds whatever happens is kept.                                    *)

LEMMA DueStep ==
  ASSUME TypeOK, DueOnce, PassShape, [Next]_vars
  PROVE  DueOnce'
<1>1. CASE UNCHANGED rowVars
  BY <1>1 DEF DueOnce, rowVars
<1>2. ASSUME NEW r \in Row, Insert(r) \/ BecomesDue(r) PROVE DueOnce'
  <2>1. /\ due \in Seq(Row) /\ due' = Append(due, r)
        /\ \A i \in DOMAIN due : due[i] # r
        /\ status'[r] # "Absent" /\ \A s \in Row : s # r => status'[s] = status[s]
    BY <1>2 DEF Insert, BecomesDue, InDue, DueOnce, TypeOK
  <2>2. /\ DOMAIN due' = 1..Len(due)+1 /\ due'[Len(due)+1] = r
        /\ \A i \in 1..Len(due) : due'[i] = due[i]
        /\ DOMAIN due = 1..Len(due) /\ Len(due) \in Nat
        /\ \A i \in 1..Len(due) : due[i] \in Row
    BY <2>1
  <2>3. \A i \in DOMAIN due' : i \in 1..Len(due) \/ i = Len(due)+1
    BY <2>2
  <2>4. \A i, j \in DOMAIN due' : due'[i] = due'[j] => i = j
    BY <2>1, <2>2, <2>3 DEF DueOnce
  <2>5. \A i \in DOMAIN due' : status'[due'[i]] # "Absent"
    BY <2>1, <2>2, <2>3 DEF DueOnce
  <2>. QED BY <2>4, <2>5 DEF DueOnce
<1>3. ASSUME NEW p \in Pass, Mark(p) PROVE DueOnce'
  <2>. DEFINE r == Head(batch[p]).row
  <2>1. /\ r \in Row /\ due' = RemoveFirst(due, r)
        /\ \A s \in Row : s # r => status'[s] = status[s]
    BY <1>3, MarkedRow
  <2>2. /\ due' \in Seq(Row)
        /\ \A i, j \in DOMAIN due' : due'[i] = due'[j] => i = j
        /\ \A i \in DOMAIN due' : due'[i] # r /\ \E j \in DOMAIN due : due'[i] = due[j]
    BY <2>1, DueWithout DEF DueOnce, TypeOK
  <2>3. \A i \in DOMAIN due' : due'[i] \in Row
    BY <2>2
  <2>4. \A i \in DOMAIN due' : status'[due'[i]] # "Absent"
    BY <2>1, <2>2, <2>3 DEF DueOnce
  <2>. QED BY <2>2, <2>4 DEF DueOnce
<1>. QED BY <1>1, <1>2, <1>3, RowSteps

LEMMA UntriedStep ==
  ASSUME TypeOK, Untried, PassShape, [Next]_vars
  PROVE  Untried'
<1>1. CASE UNCHANGED rowVars
  BY <1>1 DEF Untried, rowVars
<1>2. ASSUME NEW r \in Row, Insert(r) \/ BecomesDue(r) PROVE Untried'
  BY <1>2 DEF Insert, BecomesDue, Untried, TypeOK
<1>3. ASSUME NEW p \in Pass, Mark(p) PROVE Untried'
  <2>. DEFINE r == Head(batch[p]).row
  <2>1. /\ r \in Row /\ status'[r] # "Absent"
        /\ \A s \in Row : s # r => status'[s] = status[s] /\ attempts'[s] = attempts[s]
    BY <1>3, MarkedRow DEF Closed
  <2>. HIDE DEF r
  <2>. QED BY <2>1 DEF Untried
<1>. QED BY <1>1, <1>2, <1>3, RowSteps

\* The rows that a pass selects: due rows, once each, as they are.
Selected(b) ==
    /\ b # <<>> /\ DOMAIN b \subseteq DOMAIN due
    /\ \A i \in DOMAIN b : b[i].row = due[i] /\ b[i].seen = attempts[due[i]] /\ due[i] \in Row

LEMMA BeginSelects ==
  ASSUME TypeOK, PassShape, NEW p \in Pass, BeginPass(p)
  PROVE  /\ Selected(batch'[p]) /\ pass[p] = "idle"
         /\ pass' = [pass EXCEPT ![p] = "posting"]
         /\ sent[p] = NoRequest /\ outcome[p] = "none"
         /\ \A o \in Pass : o # p => batch'[o] = batch[o]
         /\ UNCHANGED <<rowVars, sent, outcome, requestVars, shown>>
<1>. DEFINE n == IF Len(due) < BatchSize THEN Len(due) ELSE BatchSize
            b == [i \in 1..n |-> [row |-> due[i], seen |-> attempts[due[i]]]]
<1>1. /\ batch' = [batch EXCEPT ![p] = b] /\ pass[p] = "idle" /\ due # <<>>
      /\ pass' = [pass EXCEPT ![p] = "posting"]
      /\ UNCHANGED <<rowVars, sent, outcome, requestVars, shown>>
  BY DEF BeginPass
<1>2. n \in Nat /\ 1 <= n /\ n <= Len(due) /\ Len(due) \in Nat /\ DOMAIN due = 1..Len(due)
  BY <1>1, LimitAssumption DEF TypeOK
<1>3. \A i \in 1..n : due[i] \in Row
  BY <1>2 DEF TypeOK
<1>4. DOMAIN b = 1..n
  OBVIOUS
<1>5. b # <<>>
  <2>1. 1 \in DOMAIN b
    BY <1>2
  <2>2. DOMAIN <<>> = 1..0
    OBVIOUS
  <2>. QED BY <2>1, <2>2
<1>6. Selected(b)
  <2>1. 1..n \subseteq DOMAIN due
    BY <1>2
  <2>2. \A i \in DOMAIN b : b[i].row = due[i] /\ b[i].seen = attempts[due[i]]
    OBVIOUS
  <2>. QED BY <1>3, <1>4, <1>5, <2>1, <2>2 DEF Selected
<1>. HIDE DEF b
<1>7. batch'[p] = b /\ \A o \in Pass : o # p => batch'[o] = batch[o]
  BY <1>1 DEF TypeOK
<1>8. sent[p] = NoRequest /\ outcome[p] = "none"
  BY <1>1 DEF PassShape
<1>. QED BY <1>1, <1>6, <1>7, <1>8

\* The rows in hand are rows.
LEMMA RowsInHand ==
  ASSUME TypeOK
  PROVE  \A p \in Pass : \A i \in DOMAIN batch[p] : batch[p][i].row \in Row
<1>. DEFINE E == [row : Row, seen : Nat]
<1>1. \A p \in Pass : batch[p] \in Seq(E)
  BY DEF TypeOK
<1>2. \A e \in E : e.row \in Row
  OBVIOUS
<1>. HIDE DEF E
<1>3. \A p \in Pass : \A i \in DOMAIN batch[p] : batch[p][i] \in E
  BY <1>1
<1>. QED BY <1>2, <1>3

\* A pass that stops waiting has an outcome.
LEMMA OutcomeGiven ==
  ASSUME TypeOK, NEW p \in Pass, Answered(p) \/ TimesOut(p)
  PROVE  outcome'[p] # "none"
<1>1. AfterFailure(p) # "none"
  BY DEF AfterFailure
<1>2. CASE Answered(p)
  BY <1>1, <1>2 DEF Answered, AfterAnswer, TypeOK
<1>3. CASE TimesOut(p)
  BY <1>1, <1>3 DEF TimesOut, TypeOK
<1>. QED BY <1>2, <1>3

\* A row that has been inserted stays so.
LEMMA InsertedStays ==
  ASSUME TypeOK, PassShape, [Next]_vars, NEW r \in Row, status[r] # "Absent"
  PROVE  status'[r] # "Absent"
<1>1. CASE UNCHANGED rowVars
  BY <1>1 DEF rowVars
<1>2. ASSUME NEW s \in Row, Insert(s) \/ BecomesDue(s) PROVE status'[r] # "Absent"
  BY <1>2 DEF Insert, BecomesDue, TypeOK
<1>3. ASSUME NEW p \in Pass, Mark(p) PROVE status'[r] # "Absent"
  <2>. DEFINE s == Head(batch[p]).row
  <2>1. /\ status'[s] \in Closed \cup {"Failed"}
        /\ \A t \in Row : t # s => status'[t] = status[t]
    BY <1>3, MarkedRow
  <2>. HIDE DEF s
  <2>. QED BY <2>1 DEF Closed
<1>. QED BY <1>1, <1>2, <1>3, RowSteps

LEMMA PassShapeStep ==
  ASSUME TypeOK, DueOnce, PassShape, RequestOfPass, [Next]_vars
  PROVE  PassShape'
<1>. DEFINE Shape(o) == /\ pass[o] = "idle" <=> batch[o] = <<>>
                        /\ pass[o] = "waiting" <=> sent[o] # NoRequest
                        /\ pass[o] = "marking" <=> outcome[o] # "none"
            Rows(o) == \A i \in DOMAIN batch[o] : batch[o][i].row \in Row /\ status[batch[o][i].row] # "Absent"
<1>1. \A o \in Pass : Shape(o) /\ Rows(o)
  <2>1. \A o \in Pass : \A i \in DOMAIN batch[o] : batch[o][i].row \in Row
    BY RowsInHand
  <2>. QED BY <2>1 DEF PassShape
<1>2. ASSUME NEW o \in Pass, batch'[o] = batch[o] PROVE Rows(o)'
  BY <1>1, <1>2, InsertedStays
<1>3. ASSUME NEW o \in Pass, /\ pass'[o] = pass[o] /\ batch'[o] = batch[o]
                             /\ sent'[o] = sent[o] /\ outcome'[o] = outcome[o]
      PROVE  Shape(o)' /\ Rows(o)'
  BY <1>1, <1>2, <1>3
<1>4. SUFFICES \A o \in Pass : Shape(o)' /\ Rows(o)'
  BY DEF PassShape
<1>5. CASE UNCHANGED passVars
  BY <1>3, <1>5 DEF passVars
<1>6. ASSUME NEW p \in Pass, BeginPass(p) PROVE \A o \in Pass : Shape(o)' /\ Rows(o)'
  <2>1. /\ Selected(batch'[p]) /\ pass' = [pass EXCEPT ![p] = "posting"]
        /\ sent[p] = NoRequest /\ outcome[p] = "none"
        /\ UNCHANGED <<rowVars, sent, outcome>>
        /\ \A o \in Pass : o # p => batch'[o] = batch[o]
    BY <1>6, BeginSelects
  <2>2. pass'[p] = "posting" /\ \A o \in Pass : o # p => pass'[o] = pass[o]
    BY <2>1 DEF TypeOK
  <2>3. Rows(p)'
    BY <2>1 DEF Selected, DueOnce, rowVars
  <2>4. Shape(p)'
    BY <2>1, <2>2 DEF Selected
  <2>. QED BY <1>3, <2>1, <2>2, <2>3, <2>4
<1>7. ASSUME NEW p \in Pass, Post(p) PROVE \A o \in Pass : Shape(o)' /\ Rows(o)'
  <2>1. /\ pass'[p] = "waiting" /\ sent'[p] \in Request /\ pass[p] = "posting"
        /\ batch' = batch /\ outcome' = outcome
        /\ \A o \in Pass : o # p => pass'[o] = pass[o] /\ sent'[o] = sent[o]
    BY <1>7 DEF Post, Free, TypeOK
  <2>2. Shape(p)'
    BY <1>1, <2>1, RequestAssumption
  <2>. QED BY <1>2, <1>3, <2>1, <2>2
<1>8. ASSUME NEW p \in Pass, Answered(p) \/ TimesOut(p)
      PROVE  \A o \in Pass : Shape(o)' /\ Rows(o)'
  <2>1. /\ pass'[p] = "marking" /\ sent'[p] = NoRequest /\ pass[p] = "waiting" /\ batch' = batch
        /\ \A o \in Pass : o # p => /\ pass'[o] = pass[o] /\ sent'[o] = sent[o]
                                    /\ outcome'[o] = outcome[o]
    BY <1>8 DEF Answered, TimesOut, TypeOK
  <2>2. outcome'[p] # "none"
    BY <1>8, OutcomeGiven
  <2>3. Shape(p)'
    BY <1>1, <2>1, <2>2
  <2>. QED BY <1>2, <1>3, <2>1, <2>3
<1>9. ASSUME NEW p \in Pass, Mark(p) PROVE \A o \in Pass : Shape(o)' /\ Rows(o)'
  <2>1. batch[p] # <<>> /\ sent[p] = NoRequest /\ batch' = [batch EXCEPT ![p] = Tail(batch[p])]
    BY <1>9, MarkedRow
  <2>2. /\ Tail(batch[p]) = <<>> <=> Len(batch[p]) = 1
        /\ \A i \in DOMAIN Tail(batch[p]) :
              i + 1 \in DOMAIN batch[p] /\ Tail(batch[p])[i] = batch[p][i + 1]
    BY <2>1, BatchParts
  <2>3. /\ batch'[p] = Tail(batch[p]) /\ sent' = sent /\ outcome'[p] = "none"
        /\ pass'[p] = IF Len(batch[p]) = 1 THEN "idle" ELSE "posting"
        /\ \A o \in Pass : o # p => /\ pass'[o] = pass[o] /\ batch'[o] = batch[o]
                                    /\ outcome'[o] = outcome[o]
    BY <1>9, <2>1 DEF Mark, TypeOK
  <2>4. Rows(p)'
    BY <1>1, <2>2, <2>3, InsertedStays
  <2>5. Shape(p)'
    BY <2>1, <2>2, <2>3
  <2>. QED BY <1>3, <2>3, <2>4, <2>5
<1>10. ASSUME NEW p \in Pass, MarkFails(p) \/ PassDies(p)
       PROVE  \A o \in Pass : Shape(o)' /\ Rows(o)'
  <2>1. Abandon(p)
    BY <1>10, PassDrops DEF Drops
  <2>2. /\ pass'[p] = "idle" /\ batch'[p] = <<>> /\ sent'[p] = NoRequest /\ outcome'[p] = "none"
        /\ \A o \in Pass : o # p => /\ pass'[o] = pass[o] /\ batch'[o] = batch[o]
                                    /\ sent'[o] = sent[o] /\ outcome'[o] = outcome[o]
    BY <2>1 DEF Abandon, TypeOK
  <2>. QED BY <1>3, <2>2
<1>. QED BY <1>5, <1>6, <1>7, <1>8, <1>9, <1>10, PassSteps

\* The request of a pass, once posted, keeps its row until it is forgotten.
LEMMA RequestOfPassStep ==
  ASSUME TypeOK, PassShape, RequestOfPass, [Next]_vars
  PROVE  RequestOfPass'
<1>1. \A o \in Pass : pass[o] = "waiting" => sent[o] \in Request
  BY DEF PassShape, TypeOK
<1>2. \A p, o \in Pass : pass[p] = "waiting" /\ p # o => sent[p] # sent[o]
  BY DEF RequestOfPass
<1>3. ASSUME UNCHANGED requestVars,
             \A o \in Pass : pass'[o] = "waiting" =>
                pass[o] = "waiting" /\ sent'[o] = sent[o] /\ batch'[o] = batch[o],
             \A o \in Pass : sent'[o] \in {sent[o], NoRequest}
      PROVE  RequestOfPass'
  BY <1>1, <1>3, RequestAssumption DEF RequestOfPass, requestVars
<1>4. CASE UNCHANGED <<passVars, requestVars>>
  BY <1>3, <1>4 DEF passVars
<1>5. ASSUME NEW p \in Pass, BeginPass(p) PROVE RequestOfPass'
  <2>1. /\ UNCHANGED <<sent, requestVars>> /\ pass'[p] # "waiting"
        /\ \A o \in Pass : o # p => batch'[o] = batch[o] /\ pass'[o] = pass[o]
    BY <1>5, BeginSelects DEF TypeOK
  <2>. QED BY <1>3, <2>1
<1>6. ASSUME NEW p \in Pass, Post(p) PROVE RequestOfPass'
  <2>1. PICK q \in Request : /\ request[q] = "free"
                             /\ request' = [request EXCEPT ![q] = "received"]
                             /\ payload' = [payload EXCEPT ![q] = Head(batch[p]).row]
                             /\ sent' = [sent EXCEPT ![p] = q]
    BY <1>6 DEF Post, Free
  <2>2. /\ pass[p] = "posting" /\ pass' = [pass EXCEPT ![p] = "waiting"] /\ batch' = batch
    BY <1>6 DEF Post
  <2>3. Head(batch[p]).row \in Row
    BY <2>2, BatchParts DEF PassShape
  <2>4. \A o \in Pass : sent[o] # q
    BY <2>1, RequestAssumption DEF PassShape, RequestOfPass
  <2>5. /\ request'[q] = "received" /\ payload'[q] = Head(batch[p]).row /\ sent'[p] = q
        /\ \A u \in Request : u # q => request'[u] = request[u] /\ payload'[u] = payload[u]
        /\ \A o \in Pass : o # p => sent'[o] = sent[o] /\ pass'[o] = pass[o]
    BY <2>1, <2>2 DEF TypeOK
  <2>. QED BY <1>1, <1>2, <2>2, <2>3, <2>4, <2>5 DEF RequestOfPass
<1>7. ASSUME NEW p \in Pass, pass[p] = "waiting", Forget(sent[p]),
             sent'[p] = NoRequest, pass'[p] # "waiting",
             \A o \in Pass : o # p => /\ pass'[o] = pass[o] /\ batch'[o] = batch[o]
                                      /\ sent'[o] = sent[o]
      PROVE  RequestOfPass'
  <2>1. RequestChanges(sent[p], {"free", request[sent[p]]})
    BY <1>1, <1>7, ForgetEffect
  <2>2. \A u \in Request : u # sent[p] => request'[u] = request[u] /\ payload'[u] = payload[u]
    BY <2>1 DEF RequestChanges
  <2>3. \A u \in Request : request'[u] # "free" => request[u] # "free" /\ payload'[u] = payload[u]
    BY <2>1, <2>2 DEF RequestChanges
  <2>4. ASSUME NEW o \in Pass, pass'[o] = "waiting"
        PROVE  /\ o # p /\ sent[o] \in Request /\ sent[o] # sent[p]
               /\ pass[o] = "waiting" /\ sent'[o] = sent[o] /\ batch'[o] = batch[o]
    BY <1>1, <1>2, <1>7, <2>4
  <2>5. \A o \in Pass : pass'[o] = "waiting" =>
           request'[sent'[o]] # "free" /\ payload'[sent'[o]] = Head(batch'[o]).row
    BY <2>2, <2>4 DEF RequestOfPass
  <2>6. \A i, o \in Pass : pass'[i] = "waiting" /\ sent'[i] = sent'[o] => i = o
    BY <1>2, <1>7, <2>4, RequestAssumption
  <2>7. \A u \in Request : request'[u] # "free" => payload'[u] \in Row
    BY <2>3 DEF RequestOfPass
  <2>. QED BY <2>5, <2>6, <2>7 DEF RequestOfPass
<1>8. ASSUME NEW p \in Pass, Answered(p) \/ TimesOut(p) PROVE RequestOfPass'
  <2>1. /\ pass[p] = "waiting" /\ Forget(sent[p]) /\ sent'[p] = NoRequest /\ pass'[p] = "marking"
        /\ \A o \in Pass : o # p => /\ pass'[o] = pass[o] /\ batch'[o] = batch[o]
                                    /\ sent'[o] = sent[o]
    BY <1>8 DEF Answered, TimesOut, TypeOK
  <2>. QED BY <1>7, <2>1
<1>9. ASSUME NEW p \in Pass, Mark(p) PROVE RequestOfPass'
  <2>1. /\ UNCHANGED <<sent, requestVars>> /\ pass'[p] # "waiting"
        /\ \A o \in Pass : o # p => batch'[o] = batch[o] /\ pass'[o] = pass[o]
    BY <1>9 DEF Mark, TypeOK
  <2>. QED BY <1>3, <2>1
<1>10. ASSUME NEW p \in Pass, MarkFails(p) \/ PassDies(p) PROVE RequestOfPass'
  <2>1. Drops(p)
    BY <1>10, PassDrops
  <2>2. /\ sent'[p] = NoRequest /\ pass'[p] = "idle"
        /\ \A o \in Pass : o # p => /\ pass'[o] = pass[o] /\ batch'[o] = batch[o]
                                    /\ sent'[o] = sent[o]
    BY <2>1 DEF Drops, Abandon, TypeOK
  <2>3. CASE UNCHANGED requestVars
    BY <1>3, <2>2, <2>3
  <2>4. CASE pass[p] = "waiting" /\ Forget(sent[p])
    BY <1>7, <2>2, <2>4
  <2>. QED BY <2>1, <2>3, <2>4 DEF Drops
<1>11. ASSUME NEW q \in Request, JobsReads(q) PROVE RequestOfPass'
  <2>1. /\ UNCHANGED <<passVars, payload>> /\ request[q] = "received"
        /\ request' = [request EXCEPT ![q] = "read"]
    BY <1>11 DEF JobsReads
  <2>2. \A u \in Request : request'[u] # "free" <=> request[u] # "free"
    BY <2>1 DEF TypeOK
  <2>. QED BY <1>1, <2>1, <2>2 DEF RequestOfPass, passVars
<1>12. ASSUME NEW q \in Request,
              JobsIgnores(q) \/ JobsStores(q) \/ JobsCollides(q) \/ JobsFails(q)
       PROVE  RequestOfPass'
  <2>1. PICK answer \in {"ok", "error", "refused"} : Finish(q, answer)
    BY <1>12, JobsEnds
  <2>2. UNCHANGED passVars /\ request[q] # "free"
    BY <1>12, JobsEnds
  <2>3. /\ RequestChanges(q, {"free", answer})
        /\ (\E p \in Pass : sent[p] = q) => request'[q] = answer
    BY <2>1, FinishEffect
  <2>4. \A u \in Request : request'[u] # "free" => request[u] # "free" /\ payload'[u] = payload[u]
    BY <2>2, <2>3 DEF RequestChanges
  <2>5. \A o \in Pass : pass[o] = "waiting" => request'[sent[o]] # "free"
    BY <1>1, <2>3 DEF RequestChanges, RequestOfPass
  <2>. QED BY <1>1, <2>2, <2>4, <2>5 DEF RequestOfPass, passVars
<1>13. UNCHANGED vars => UNCHANGED <<passVars, requestVars>>
  BY DEF vars
<1>14. \A r \in Row : Insert(r) \/ BecomesDue(r) => UNCHANGED <<passVars, requestVars>>
  BY DEF Insert, BecomesDue
<1>. QED BY <1>4, <1>5, <1>6, <1>8, <1>9, <1>10, <1>11, <1>12, <1>13, <1>14
         DEF Next, PassStep, JobsStep

-----------------------------------------------------------------------------
(* What holds until passes overlap or a request is given up is kept.       *)

\* Once disturbed, always disturbed.
LEMMA DisturbedStays ==
  ASSUME [Next]_vars, ~disturbed', disturbed \in BOOLEAN
  PROVE  ~disturbed
BY Zenon DEF Next, PassStep, JobsStep, vars, Insert, BecomesDue, BeginPass, Post, Answered, TimesOut,
       Mark, MarkFails, PassDies, requestVars, JobsReads, JobsIgnores, JobsStores, JobsCollides, JobsFails

\* Undisturbed, a pass begins alone and waits for its answer.
LEMMA Undisturbed ==
  ASSUME ~disturbed', NEW p \in Pass
  PROVE  /\ BeginPass(p) => \A o \in Pass : pass[o] = "idle"
         /\ ~TimesOut(p)
         /\ MarkFails(p) \/ PassDies(p) => pass[p] # "waiting" /\ UNCHANGED requestVars
BY DEF BeginPass, TimesOut, MarkFails, PassDies

LEMMA OnePassStep ==
  ASSUME TypeOK, PassShape, OnePass, [Next]_vars, ~disturbed'
  PROVE  OnePass'
<1>1. ASSUME \A o \in Pass : pass'[o] # "idle" => pass[o] # "idle" PROVE OnePass'
  BY <1>1 DEF OnePass
<1>2. CASE UNCHANGED passVars
  BY <1>1, <1>2 DEF passVars
<1>3. ASSUME NEW p \in Pass, BeginPass(p) PROVE OnePass'
  <2>1. \A o \in Pass : pass[o] = "idle"
    BY <1>3, Undisturbed
  <2>2. \A o \in Pass : o # p => pass'[o] = pass[o]
    BY <1>3 DEF BeginPass, TypeOK
  <2>. QED BY <2>1, <2>2 DEF OnePass
<1>4. ASSUME NEW p \in Pass, Post(p) \/ Answered(p) \/ TimesOut(p) \/ Mark(p) PROVE OnePass'
  <2>1. pass[p] # "idle" /\ \A o \in Pass : o # p => pass'[o] = pass[o]
    BY <1>4 DEF Post, Answered, TimesOut, Mark, TypeOK
  <2>. QED BY <1>1, <2>1
<1>5. ASSUME NEW p \in Pass, MarkFails(p) \/ PassDies(p) PROVE OnePass'
  <2>1. pass[p] # "idle" /\ \A o \in Pass : o # p => pass'[o] = pass[o]
    BY <1>5, PassDrops DEF Drops, Abandon, TypeOK
  <2>. QED BY <1>1, <2>1
<1>. QED BY <1>2, <1>3, <1>4, <1>5, PassSteps

\* The ways in which a request goes on while its pass waits for it.
LEMMA RequestSteps ==
  ASSUME TypeOK, PassShape, RequestOfPass, [Next]_vars, ~disturbed'
  PROVE  \/ UNCHANGED requestVars
         \/ \E p \in Pass : Post(p) \/ Answered(p)
         \/ \E q \in Request : JobsReads(q)
         \/ \E q \in Request :
               JobsIgnores(q) \/ JobsStores(q) \/ JobsCollides(q) \/ JobsFails(q)
<1>1. CASE UNCHANGED vars
  BY <1>1 DEF vars
<1>2. ASSUME NEW r \in Row, Insert(r) \/ BecomesDue(r) PROVE UNCHANGED requestVars
  BY <1>2 DEF Insert, BecomesDue
<1>3. ASSUME NEW p \in Pass, BeginPass(p) \/ Mark(p) PROVE UNCHANGED requestVars
  BY <1>3 DEF BeginPass, Mark
<1>4. ASSUME NEW p \in Pass, TimesOut(p) \/ MarkFails(p) \/ PassDies(p) PROVE UNCHANGED requestVars
  BY <1>4, Undisturbed
<1>. QED BY <1>1, <1>2, <1>3, <1>4 DEF Next, PassStep, JobsStep

\* An answer frees the request.
LEMMA AnswerFrees ==
  ASSUME TypeOK, PassShape, NEW p \in Pass, Answered(p)
  PROVE  /\ sent[p] \in Request /\ request'[sent[p]] = "free"
         /\ sent' = [sent EXCEPT ![p] = NoRequest]
         /\ \A u \in Request : u # sent[p] => /\ request'[u] = request[u]
                                              /\ payload'[u] = payload[u]
                                              /\ found'[u] = found[u]
<1>1. sent[p] \in Request
  BY DEF Answered, PassShape, TypeOK
<1>2. Forget(sent[p]) /\ request[sent[p]] \in {"ok", "error", "refused"}
  BY DEF Answered
<1>. QED BY <1>1, <1>2, ForgetEffect DEF RequestChanges, Answered

\* A new request.
LEMMA PostEffect ==
  ASSUME TypeOK, PassShape, RequestOfPass, NEW p \in Pass, Post(p)
  PROVE  \E q \in Request : /\ request'[q] = "received" /\ sent' = [sent EXCEPT ![p] = q]
                            /\ \A u \in Request : u # q => /\ request'[u] = request[u]
                                                           /\ payload'[u] = payload[u]
                            /\ sent[p] = NoRequest /\ UNCHANGED <<found, shown>>
BY DEF Post, Free, TypeOK, PassShape

LEMMA AwaitedStep ==
  ASSUME TypeOK, PassShape, RequestOfPass, RequestsAreAwaited, [Next]_vars, ~disturbed'
  PROVE  RequestsAreAwaited'
<1>1. ASSUME \A u \in Request : request'[u] # "free" => request[u] # "free",
             \A o \in Pass : sent[o] # NoRequest => sent'[o] = sent[o]
      PROVE  RequestsAreAwaited'
  BY <1>1, RequestAssumption DEF RequestsAreAwaited
<1>2. CASE UNCHANGED requestVars
  <2>1. \A o \in Pass : sent[o] # NoRequest => sent'[o] = sent[o]
    <3>1. CASE UNCHANGED passVars
      BY <3>1 DEF passVars
    <3>2. ASSUME NEW p \in Pass, BeginPass(p) \/ Mark(p)
          PROVE  \A o \in Pass : sent[o] # NoRequest => sent'[o] = sent[o]
      BY <3>2 DEF BeginPass, Mark
    <3>3. ASSUME NEW p \in Pass, Post(p) PROVE \A o \in Pass : sent[o] # NoRequest => sent'[o] = sent[o]
      BY <3>3 DEF Post, PassShape, TypeOK
    <3>4. ASSUME NEW p \in Pass, Answered(p)
          PROVE  FALSE
      <4>1. sent[p] \in Request /\ request'[sent[p]] = "free"
        BY <3>4, AnswerFrees
      <4>. QED BY <1>2, <3>4, <4>1 DEF Answered, requestVars
    <3>5. ASSUME NEW p \in Pass, MarkFails(p) \/ PassDies(p)
          PROVE  \A o \in Pass : sent[o] # NoRequest => sent'[o] = sent[o]
      <4>1. pass[p] # "waiting" /\ Abandon(p)
        BY <3>5, Undisturbed, PassDrops DEF Drops
      <4>. QED BY <4>1 DEF Abandon, PassShape, TypeOK
    <3>. QED BY <3>1, <3>2, <3>3, <3>4, <3>5, PassSteps, Undisturbed
  <2>. QED BY <1>1, <1>2, <2>1 DEF requestVars
<1>3. ASSUME NEW p \in Pass, Post(p) PROVE RequestsAreAwaited'
  <2>1. PICK q \in Request : /\ request'[q] = "received" /\ sent' = [sent EXCEPT ![p] = q]
                             /\ \A u \in Request : u # q => request'[u] = request[u]
                             /\ sent[p] = NoRequest
    BY <1>3, PostEffect
  <2>2. sent'[p] = q /\ \A o \in Pass : o # p => sent'[o] = sent[o]
    BY <2>1 DEF TypeOK
  <2>. QED BY <2>1, <2>2, RequestAssumption DEF RequestsAreAwaited
<1>4. ASSUME NEW p \in Pass, Answered(p) PROVE RequestsAreAwaited'
  <2>1. /\ request'[sent[p]] = "free" /\ sent' = [sent EXCEPT ![p] = NoRequest]
        /\ \A u \in Request : u # sent[p] => request'[u] = request[u]
    BY <1>4, AnswerFrees
  <2>2. \A o \in Pass : o # p => sent'[o] = sent[o]
    BY <2>1 DEF TypeOK
  <2>. QED BY <2>1, <2>2 DEF RequestsAreAwaited
<1>5. ASSUME NEW q \in Request, JobsReads(q) PROVE RequestsAreAwaited'
  <2>1. UNCHANGED passVars /\ request[q] = "received" /\ request' = [request EXCEPT ![q] = "read"]
    BY <1>5 DEF JobsReads
  <2>. QED BY <1>1, <2>1 DEF passVars, TypeOK
<1>6. ASSUME NEW q \in Request,
             JobsIgnores(q) \/ JobsStores(q) \/ JobsCollides(q) \/ JobsFails(q)
      PROVE  RequestsAreAwaited'
  <2>1. PICK answer \in {"ok", "error", "refused"} : Finish(q, answer)
    BY <1>6, JobsEnds
  <2>2. UNCHANGED passVars /\ request[q] # "free"
    BY <1>6, JobsEnds
  <2>3. \A u \in Request : u # q => request'[u] = request[u]
    BY <2>1, FinishEffect DEF RequestChanges
  <2>. QED BY <1>1, <2>2, <2>3 DEF passVars
<1>. QED BY <1>2, <1>3, <1>4, <1>5, <1>6, RequestSteps

\* There is one request at most, and its pass waits for it.
LEMMA OneRequest ==
  ASSUME TypeOK, PassShape, RequestOfPass, OnePass, RequestsAreAwaited,
         NEW q \in Request, request[q] # "free"
  PROVE  /\ \A u \in Request : request[u] # "free" => u = q
         /\ \E p \in Pass : sent[p] = q
<1>1. \A u \in Request : request[u] # "free" => \E p \in Pass : sent[p] = u /\ pass[p] # "idle"
  BY RequestAssumption DEF RequestsAreAwaited, PassShape
<1>. QED BY <1>1 DEF OnePass

\* Jobs replaces the score it has found by one calculated no earlier.
LEMMA StoreCovers ==
  ASSUME TypeOK, RequestOfPass, FoundIsCurrent, NEW q \in Request, JobsStores(q)
  PROVE  /\ payload[q] \in Row
         /\ shown' = [shown EXCEPT ![SubjectOf[payload[q]]] = payload[q]]
         /\ shown[SubjectOf[payload[q]]] # NoRow =>
              CalculatedAt[shown[SubjectOf[payload[q]]]] <= CalculatedAt[payload[q]]
<1>. DEFINE s == SubjectOf[payload[q]]
<1>1. /\ request[q] = "read" /\ ~FoundNewer(q)
      /\ shown' = [shown EXCEPT ![s] = payload[q]]
  BY DEF JobsStores
<1>2. payload[q] \in Row /\ found[q] = shown[s]
  BY <1>1 DEF RequestOfPass, FoundIsCurrent
<1>3. s \in Subject /\ shown[s] \in Row \cup {NoRow}
  BY <1>2, SubjectAssumption DEF TypeOK
<1>4. shown[s] # NoRow => CalculatedAt[shown[s]] \in Nat /\ CalculatedAt[payload[q]] \in Nat
  BY <1>2, <1>3, TimeAssumption
<1>. HIDE DEF s
<1>5. shown[s] # NoRow => ~(CalculatedAt[shown[s]] > CalculatedAt[payload[q]])
  BY <1>1, <1>2 DEF FoundNewer
<1>6. shown[s] # NoRow => CalculatedAt[shown[s]] <= CalculatedAt[payload[q]]
  BY <1>4, <1>5
<1>. QED BY <1>1, <1>2, <1>6 DEF s

\* No step but JobsStores changes what is shown.
LEMMA ShownSteps ==
  ASSUME [Next]_vars
  PROVE  UNCHANGED shown \/ \E q \in Request : JobsStores(q)
BY DEF Next, PassStep, JobsStep, vars, Insert, BecomesDue, BeginPass, Post, Answered, TimesOut,
       Mark, MarkFails, PassDies, JobsReads, JobsIgnores, JobsCollides, JobsFails

\* What is shown for a row stays as late.
LEMMA CoveredStays ==
  ASSUME TypeOK, RequestOfPass, FoundIsCurrent, [Next]_vars, NEW r \in Row, Covered(r)
  PROVE  Covered(r)'
<1>1. CASE UNCHANGED shown
  BY <1>1 DEF Covered
<1>2. ASSUME NEW q \in Request, JobsStores(q) PROVE Covered(r)'
  <2>. DEFINE s == SubjectOf[payload[q]]
  <2>1. /\ payload[q] \in Row /\ shown' = [shown EXCEPT ![s] = payload[q]]
        /\ shown[s] # NoRow => CalculatedAt[shown[s]] <= CalculatedAt[payload[q]]
    BY <1>2, StoreCovers
  <2>2. s \in Subject /\ SubjectOf[r] \in Subject
    BY <2>1, SubjectAssumption
  <2>3. CASE SubjectOf[r] = s
    <3>1. shown'[s] = payload[q] /\ payload[q] # NoRow
      BY <2>1, <2>2, RowAssumption DEF TypeOK
    <3>2. shown[s] \in Row
      BY <2>2, <2>3 DEF Covered, TypeOK
    <3>3. /\ CalculatedAt[shown[s]] \in Nat /\ CalculatedAt[payload[q]] \in Nat
          /\ CalculatedAt[r] \in Nat
      BY <2>1, <3>2, TimeAssumption
    <3>4. CalculatedAt[shown[s]] >= CalculatedAt[r] /\ CalculatedAt[shown[s]] <= CalculatedAt[payload[q]]
      BY <2>1, <2>3, <3>2, RowAssumption DEF Covered
    <3>5. CalculatedAt[payload[q]] >= CalculatedAt[r]
      BY <3>3, <3>4
    <3>. QED BY <2>3, <3>1, <3>5 DEF Covered
  <2>4. CASE SubjectOf[r] # s
    <3>1. shown'[SubjectOf[r]] = shown[SubjectOf[r]]
      BY <2>1, <2>2, <2>4 DEF TypeOK
    <3>. QED BY <3>1 DEF Covered
  <2>. QED BY <2>3, <2>4
<1>. QED BY <1>1, <1>2, ShownSteps

LEMMA FoundStep ==
  ASSUME TypeOK, PassShape, RequestOfPass, OnePass, RequestsAreAwaited, FoundIsCurrent,
         [Next]_vars, ~disturbed'
  PROVE  FoundIsCurrent'
<1>1. ASSUME UNCHANGED shown,
             \A u \in Request : request'[u] = "read" =>
                request[u] = "read" /\ payload'[u] = payload[u] /\ found'[u] = found[u]
      PROVE  FoundIsCurrent'
  BY <1>1 DEF FoundIsCurrent
<1>2. CASE UNCHANGED requestVars
  <2>1. CASE UNCHANGED shown
    BY <1>1, <1>2, <2>1 DEF requestVars
  <2>2. ASSUME NEW q \in Request, JobsStores(q) PROVE FALSE
    <3>1. /\ request[q] = "read" /\ Finish(q, "ok")
      BY <2>2 DEF JobsStores
    <3>2. request'[q] \in {"free", "ok"}
      BY <3>1, FinishEffect DEF RequestChanges
    <3>. QED BY <1>2, <3>1, <3>2 DEF requestVars
  <2>. QED BY <2>1, <2>2, ShownSteps
<1>3. ASSUME NEW p \in Pass, Post(p) PROVE FoundIsCurrent'
  <2>1. PICK q \in Request : /\ request'[q] = "received"
                             /\ \A u \in Request : u # q => /\ request'[u] = request[u]
                                                            /\ payload'[u] = payload[u]
                             /\ UNCHANGED <<found, shown>>
    BY <1>3, PostEffect
  <2>. QED BY <1>1, <2>1
<1>4. ASSUME NEW p \in Pass, Answered(p) PROVE FoundIsCurrent'
  <2>1. /\ request'[sent[p]] = "free"
        /\ \A u \in Request : u # sent[p] => /\ request'[u] = request[u]
                                             /\ payload'[u] = payload[u]
                                             /\ found'[u] = found[u]
    BY <1>4, AnswerFrees
  <2>2. UNCHANGED shown
    BY <1>4 DEF Answered
  <2>. QED BY <1>1, <2>1, <2>2
<1>5. ASSUME NEW q \in Request, JobsReads(q) PROVE FoundIsCurrent'
  <2>1. /\ found' = [found EXCEPT ![q] = shown[SubjectOf[payload[q]]]]
        /\ request' = [request EXCEPT ![q] = "read"]
        /\ UNCHANGED <<payload, shown>>
    BY <1>5 DEF JobsReads
  <2>2. /\ found'[q] = shown[SubjectOf[payload[q]]]
        /\ \A u \in Request : u # q => found'[u] = found[u] /\ request'[u] = request[u]
    BY <2>1 DEF TypeOK
  <2>. QED BY <2>1, <2>2 DEF FoundIsCurrent
<1>6. ASSUME NEW q \in Request,
             JobsIgnores(q) \/ JobsStores(q) \/ JobsCollides(q) \/ JobsFails(q)
      PROVE  FoundIsCurrent'
  <2>1. PICK answer \in {"ok", "error", "refused"} : Finish(q, answer)
    BY <1>6, JobsEnds
  <2>2. request[q] # "free"
    BY <1>6, JobsEnds
  <2>3. /\ request'[q] # "read"
        /\ \A u \in Request : u # q => request'[u] = request[u]
    BY <2>1, FinishEffect DEF RequestChanges
  <2>4. \A u \in Request : u # q => request[u] = "free"
    BY <2>2, OneRequest
  <2>5. \A u \in Request : request'[u] # "read"
    BY <2>3, <2>4
  <2>. QED BY <2>5 DEF FoundIsCurrent
<1>. QED BY <1>2, <1>3, <1>4, <1>5, <1>6, RequestSteps

\* Jobs says ok when the row, or a score calculated no earlier, is shown.
LEMMA OkIsShown ==
  ASSUME TypeOK, PassShape, RequestOfPass, OnePass, RequestsAreAwaited, FoundIsCurrent,
         NEW q \in Request, JobsIgnores(q) \/ JobsStores(q), NEW r, r = payload[q]
  PROVE  r \in Row /\ Covered(r)'
<1>. DEFINE s == SubjectOf[r]
<1>1. request[q] = "read"
  BY DEF JobsIgnores, JobsStores
<1>2. r \in Row /\ found[q] = shown[s] /\ CalculatedAt[r] \in Nat
  BY <1>1, TimeAssumption DEF RequestOfPass, FoundIsCurrent
<1>3. s \in Subject
  BY <1>2, SubjectAssumption
<1>4. CASE JobsIgnores(q)
  <2>1. FoundNewer(q) /\ shown' = shown
    BY <1>4 DEF JobsIgnores
  <2>2. shown[s] \in Row /\ shown[s] # NoRow
    BY <1>2, <1>3, <2>1 DEF FoundNewer, TypeOK
  <2>3. CalculatedAt[shown[s]] \in Nat /\ CalculatedAt[shown[s]] > CalculatedAt[r]
    BY <1>2, <2>1, <2>2, TimeAssumption DEF FoundNewer
  <2>4. CalculatedAt[shown[s]] >= CalculatedAt[r]
    BY <1>2, <2>3
  <2>. QED BY <1>2, <2>1, <2>2, <2>4 DEF Covered
<1>5. CASE JobsStores(q)
  <2>1. shown' = [shown EXCEPT ![s] = r]
    BY <1>5, StoreCovers
  <2>2. shown'[s] = r /\ r # NoRow
    BY <1>2, <1>3, <2>1, RowAssumption DEF TypeOK
  <2>3. CalculatedAt[r] >= CalculatedAt[r]
    BY <1>2
  <2>. QED BY <1>2, <2>2, <2>3 DEF Covered
<1>. QED BY <1>4, <1>5

LEMMA AnswerStep ==
  ASSUME TypeOK, PassShape, RequestOfPass, OnePass, RequestsAreAwaited, FoundIsCurrent,
         AnswerIsShown, [Next]_vars, ~disturbed', TypeOK', RequestOfPass', PassShape'
  PROVE  AnswerIsShown'
<1>. DEFINE Oks == \A q \in Request : request[q] = "ok" => Covered(payload[q])
            Outs == \A p \in Pass : outcome[p] = "delivered" => Covered(Head(batch[p]).row)
            Dels == \A r \in Row : status[r] = "Delivered" => Covered(r)
<1>1. Oks /\ Outs /\ Dels
  BY DEF AnswerIsShown
<1>2. \A r \in Row : Covered(r) => Covered(r)'
  BY CoveredStays
<1>3. \A q \in Request : request[q] # "free" => payload[q] \in Row
  BY DEF RequestOfPass
<1>4. \A p \in Pass : outcome[p] # "none" => Head(batch[p]).row \in Row
  BY BatchParts DEF PassShape
<1>5. Oks'
  <2>1. ASSUME \A u \in Request : request'[u] = "ok" =>
                  request[u] = "ok" /\ payload'[u] = payload[u]
        PROVE  Oks'
    <3>1. ASSUME NEW u \in Request, request'[u] = "ok" PROVE Covered(payload[u])'
      <4>1. request[u] = "ok" /\ payload'[u] = payload[u] /\ payload[u] \in Row
        BY <1>3, <2>1, <3>1
      <4>2. \A r \in Row : r = payload[u] => Covered(r)'
        BY <1>1, <1>2, <4>1
      <4>. QED BY <4>1, <4>2 DEF Covered
    <3>. QED BY <3>1
  <2>2. CASE UNCHANGED requestVars
    BY <2>1, <2>2 DEF requestVars
  <2>3. ASSUME NEW p \in Pass, Post(p) PROVE Oks'
    <3>1. PICK q \in Request : /\ request'[q] = "received"
                               /\ \A u \in Request : u # q => /\ request'[u] = request[u]
                                                              /\ payload'[u] = payload[u]
      BY <2>3, PostEffect
    <3>. QED BY <2>1, <3>1
  <2>4. ASSUME NEW p \in Pass, Answered(p) PROVE Oks'
    <3>1. /\ request'[sent[p]] = "free"
          /\ \A u \in Request : u # sent[p] => request'[u] = request[u] /\ payload'[u] = payload[u]
      BY <2>4, AnswerFrees
    <3>. QED BY <2>1, <3>1
  <2>5. ASSUME NEW q \in Request, JobsReads(q) PROVE Oks'
    <3>1. request' = [request EXCEPT ![q] = "read"] /\ payload' = payload
      BY <2>5 DEF JobsReads
    <3>. QED BY <2>1, <3>1 DEF TypeOK
  <2>6. ASSUME NEW q \in Request,
               JobsIgnores(q) \/ JobsStores(q) \/ JobsCollides(q) \/ JobsFails(q)
        PROVE  Oks'
    <3>1. CASE JobsIgnores(q) \/ JobsStores(q)
      <4>1. Finish(q, "ok")
        BY <3>1 DEF JobsIgnores, JobsStores
      <4>2. RequestChanges(q, {"free", "ok"})
        BY <4>1, FinishEffect
      <4>3. payload[q] \in Row /\ \A r \in Row : r = payload[q] => Covered(r)'
        BY <3>1, OkIsShown
      <4>4. ASSUME NEW u \in Request, request'[u] = "ok" PROVE Covered(payload[u])'
        <5>1. CASE u = q
          <6>1. payload'[u] = payload[q]
            BY <4>2, <4>4, <5>1 DEF RequestChanges
          <6>. QED BY <4>3, <6>1 DEF Covered
        <5>2. CASE u # q
          <6>1. request[u] = "ok" /\ payload'[u] = payload[u] /\ payload[u] \in Row
            BY <1>3, <4>2, <4>4, <5>2 DEF RequestChanges
          <6>2. \A r \in Row : r = payload[u] => Covered(r)'
            BY <1>1, <1>2, <6>1
          <6>. QED BY <6>1, <6>2 DEF Covered
        <5>. QED BY <5>1, <5>2
      <4>. QED BY <4>4
    <3>2. CASE JobsCollides(q) \/ JobsFails(q)
      <4>1. PICK answer \in {"error", "refused"} : Finish(q, answer)
        BY <3>2 DEF JobsCollides, JobsFails
      <4>2. RequestChanges(q, {"free", answer})
        BY <4>1, FinishEffect
      <4>. QED BY <2>1, <4>2 DEF RequestChanges
    <3>. QED BY <2>6, <3>1, <3>2
  <2>. QED BY <2>2, <2>3, <2>4, <2>5, <2>6, RequestSteps
<1>6. Outs'
  <2>1. ASSUME \A o \in Pass : outcome'[o] = "delivered" =>
                  outcome[o] = "delivered" /\ batch'[o] = batch[o]
        PROVE  Outs'
    <3>1. ASSUME NEW o \in Pass, outcome'[o] = "delivered" PROVE Covered(Head(batch[o]).row)'
      <4>. DEFINE h == Head(batch[o]).row
      <4>1. outcome[o] = "delivered" /\ batch'[o] = batch[o] /\ h \in Row
        BY <1>4, <2>1, <3>1
      <4>2. h' = h
        BY <4>1
      <4>. HIDE DEF h
      <4>3. \A r \in Row : r = h => Covered(r)'
        BY <1>1, <1>2, <4>1 DEF h
      <4>4. Covered(h)'
        BY <4>1, <4>2, <4>3 DEF Covered
      <4>. QED BY <4>4 DEF h
    <3>. QED BY <3>1
  <2>2. CASE UNCHANGED passVars
    BY <2>1, <2>2 DEF passVars
  <2>3. ASSUME NEW p \in Pass, BeginPass(p) PROVE Outs'
    <3>1. /\ outcome[p] = "none" /\ outcome' = outcome
          /\ \A o \in Pass : o # p => batch'[o] = batch[o]
      BY <2>3, BeginSelects
    <3>. QED BY <2>1, <3>1
  <2>4. ASSUME NEW p \in Pass, Post(p) PROVE Outs'
    BY <2>1, <2>4 DEF Post
  <2>5. ASSUME NEW p \in Pass, Answered(p) PROVE Outs'
    <3>1. /\ outcome' = [outcome EXCEPT ![p] = AfterAnswer(p)] /\ batch' = batch
          /\ shown' = shown /\ pass[p] = "waiting" /\ request[sent[p]] \in {"ok", "error", "refused"}
      BY <2>5 DEF Answered
    <3>2. sent[p] \in Request /\ payload[sent[p]] = Head(batch[p]).row
      BY <3>1 DEF PassShape, RequestOfPass, TypeOK
    <3>3. outcome'[p] = "delivered" => request[sent[p]] = "ok"
      BY <3>1 DEF AfterAnswer, AfterFailure, TypeOK
    <3>4. outcome'[p] = "delivered" => Covered(Head(batch[p]).row)
      BY <1>1, <3>2, <3>3
    <3>5. \A o \in Pass : o # p => outcome'[o] = outcome[o]
      BY <3>1 DEF TypeOK
    <3>. QED BY <1>1, <3>1, <3>4, <3>5 DEF Covered
  <2>6. ASSUME NEW p \in Pass, Mark(p) PROVE Outs'
    <3>1. /\ outcome' = [outcome EXCEPT ![p] = "none"]
          /\ batch' = [batch EXCEPT ![p] = Tail(batch[p])]
      BY <2>6 DEF Mark
    <3>2. outcome'[p] = "none" /\ \A o \in Pass : o # p => /\ outcome'[o] = outcome[o]
                                                           /\ batch'[o] = batch[o]
      BY <3>1 DEF TypeOK
    <3>. QED BY <2>1, <3>2
  <2>7. ASSUME NEW p \in Pass, MarkFails(p) \/ PassDies(p) PROVE Outs'
    <3>1. Abandon(p)
      BY <2>7, PassDrops DEF Drops
    <3>2. outcome'[p] = "none" /\ \A o \in Pass : o # p => /\ outcome'[o] = outcome[o]
                                                           /\ batch'[o] = batch[o]
      BY <3>1 DEF Abandon, TypeOK
    <3>. QED BY <2>1, <3>2
  <2>. QED BY <2>2, <2>3, <2>4, <2>5, <2>6, <2>7, PassSteps, Undisturbed
<1>7. Dels'
  <2>1. ASSUME \A r \in Row : status'[r] = "Delivered" => status[r] = "Delivered" PROVE Dels'
    BY <1>1, <1>2, <2>1
  <2>2. CASE UNCHANGED rowVars
    BY <2>1, <2>2 DEF rowVars
  <2>3. ASSUME NEW r \in Row, Insert(r) \/ BecomesDue(r) PROVE Dels'
    BY <2>1, <2>3 DEF Insert, BecomesDue, TypeOK
  <2>4. ASSUME NEW p \in Pass, Mark(p) PROVE Dels'
    <3>. DEFINE r == Head(batch[p]).row
    <3>1. /\ r \in Row /\ status'[r] = StatusFor[outcome[p]]
          /\ outcome[p] \in {"delivered", "retry", "deadletter"}
          /\ \A s \in Row : s # r => status'[s] = status[s]
      BY <2>4, MarkedRow
    <3>2. status'[r] = "Delivered" => Covered(r)
      BY <1>1, <3>1 DEF StatusFor
    <3>. HIDE DEF r
    <3>. QED BY <1>1, <1>2, <3>1, <3>2
  <2>. QED BY <2>2, <2>3, <2>4, RowSteps
<1>. QED BY <1>5, <1>6, <1>7 DEF AnswerIsShown

\* The batch of the only pass keeps up with the rows.
LEMMA BatchStep ==
  ASSUME TypeOK, DueOnce, PassShape, RequestOfPass, OnePass, BatchIsCurrent, AttemptsLeft,
         [Next]_vars, ~disturbed'
  PROVE  BatchIsCurrent'
<1>. DEFINE Rows(o) == \A i \in DOMAIN batch[o] : /\ batch[o][i].seen = attempts[batch[o][i].row]
                                                  /\ status[batch[o][i].row] \in Open
            Once(o) == \A i, j \in DOMAIN batch[o] : batch[o][i].row = batch[o][j].row => i = j
            Left(o) == outcome[o] = "retry" => Head(batch[o]).seen + 1 < MaxAttempts
<1>1. \A o \in Pass : Rows(o) /\ Once(o) /\ Left(o)
  BY DEF BatchIsCurrent
<1>2. SUFFICES \A o \in Pass : Rows(o)' /\ Once(o)' /\ Left(o)'
  BY DEF BatchIsCurrent
<1>3. \A o \in Pass : \A i \in DOMAIN batch[o] : batch[o][i].row \in Row
  BY RowsInHand
<1>4. ASSUME UNCHANGED rowVars, NEW o \in Pass, batch'[o] = batch[o],
             outcome'[o] = "retry" => outcome[o] = "retry"
      PROVE  Rows(o)' /\ Once(o)' /\ Left(o)'
  BY <1>1, <1>4 DEF rowVars
<1>5. ASSUME NEW o \in Pass, batch'[o] = <<>>, outcome'[o] = "none"
      PROVE  Rows(o)' /\ Once(o)' /\ Left(o)'
  <2>1. DOMAIN batch'[o] = {}
    BY <1>5
  <2>. QED BY <1>5, <2>1
<1>6. CASE UNCHANGED <<rowVars, passVars>>
  BY <1>4, <1>6 DEF passVars
<1>7. ASSUME NEW r \in Row, Insert(r) \/ BecomesDue(r)
      PROVE  \A o \in Pass : Rows(o)' /\ Once(o)' /\ Left(o)'
  <2>1. /\ attempts' = attempts /\ batch' = batch /\ outcome' = outcome
        /\ \A s \in Row : status[s] # "Absent" => status'[s] = status[s]
    BY <1>7 DEF Insert, BecomesDue, TypeOK, passVars
  <2>2. \A o \in Pass : Rows(o)'
    BY <1>1, <1>3, <2>1 DEF PassShape
  <2>. QED BY <1>1, <2>1, <2>2
<1>8. ASSUME NEW p \in Pass, BeginPass(p)
      PROVE  \A o \in Pass : Rows(o)' /\ Once(o)' /\ Left(o)'
  <2>1. /\ Selected(batch'[p]) /\ outcome[p] = "none"
        /\ UNCHANGED <<rowVars, outcome>>
        /\ \A o \in Pass : o # p => batch'[o] = batch[o]
    BY <1>8, BeginSelects
  <2>2. /\ DOMAIN batch'[p] \subseteq DOMAIN due
        /\ \A i \in DOMAIN batch'[p] : /\ batch'[p][i].row = due[i]
                                       /\ batch'[p][i].seen = attempts[due[i]]
                                       /\ due[i] \in Row
    BY <2>1 DEF Selected
  <2>3. \A i \in DOMAIN batch'[p] : status[due[i]] \in Open
    BY <2>2 DEF DueOnce, AttemptsLeft, InDue, TypeOK
  <2>4. Rows(p)'
    BY <2>1, <2>2, <2>3 DEF rowVars
  <2>5. Once(p)'
    BY <2>2 DEF DueOnce
  <2>6. Left(p)'
    BY <2>1
  <2>. QED BY <1>4, <2>1, <2>4, <2>5, <2>6
<1>9. ASSUME NEW p \in Pass, Post(p)
      PROVE  \A o \in Pass : Rows(o)' /\ Once(o)' /\ Left(o)'
  BY <1>4, <1>9 DEF Post
<1>10. ASSUME NEW p \in Pass, Answered(p)
       PROVE  \A o \in Pass : Rows(o)' /\ Once(o)' /\ Left(o)'
  <2>1. /\ UNCHANGED rowVars /\ batch' = batch
        /\ outcome'[p] = AfterAnswer(p) /\ \A o \in Pass : o # p => outcome'[o] = outcome[o]
        /\ pass[p] = "waiting" /\ request[sent[p]] \in {"ok", "error", "refused"}
    BY <1>10 DEF Answered, TypeOK
  <2>2. batch[p] # <<>>
    BY <2>1 DEF PassShape
  <2>3. Head(batch[p]).seen \in Nat
    BY <2>2, BatchParts
  <2>4. AfterFailure(p) = "retry" => Head(batch[p]).seen + 1 < MaxAttempts
    BY <2>3, LimitAssumption DEF AfterFailure
  <2>5. AfterAnswer(p) = "retry" => AfterFailure(p) = "retry"
    BY <2>1 DEF AfterAnswer
  <2>6. Left(p)'
    BY <2>1, <2>4, <2>5
  <2>7. Rows(p)' /\ Once(p)'
    BY <1>1, <2>1 DEF rowVars
  <2>. QED BY <1>4, <2>1, <2>6, <2>7
<1>11. ASSUME NEW p \in Pass, Mark(p)
       PROVE  \A o \in Pass : Rows(o)' /\ Once(o)' /\ Left(o)'
  <2>. DEFINE r == Head(batch[p]).row
  <2>1. /\ r \in Row /\ batch[p] # <<>> /\ pass[p] = "marking"
        /\ \A s \in Row : s # r => status'[s] = status[s] /\ attempts'[s] = attempts[s]
        /\ batch' = [batch EXCEPT ![p] = Tail(batch[p])]
    BY <1>11, MarkedRow
  <2>2. /\ batch'[p] = Tail(batch[p]) /\ outcome'[p] = "none"
        /\ \A o \in Pass : o # p => batch'[o] = batch[o] /\ outcome'[o] = outcome[o]
    BY <1>11, <2>1 DEF Mark, TypeOK
  <2>3. /\ r = batch[p][1].row /\ 1 \in DOMAIN batch[p]
        /\ \A i \in DOMAIN batch'[p] :
              i + 1 \in DOMAIN batch[p] /\ batch'[p][i] = batch[p][i + 1]
    <3>1. /\ Head(batch[p]) = batch[p][1] /\ 1 \in DOMAIN batch[p]
          /\ \A i \in DOMAIN Tail(batch[p]) :
                i + 1 \in DOMAIN batch[p] /\ Tail(batch[p])[i] = batch[p][i + 1]
      BY <2>1, BatchParts
    <3>2. batch'[p] = Tail(batch[p])
      BY <2>2
    <3>. HIDE DEF Rows, Once, Left
    <3>. QED BY <3>1, <3>2
  <2>4. \A i \in DOMAIN batch'[p] : i \in Nat \ {0}
    <3>1. batch'[p] \in Seq([row : Row, seen : Nat])
      BY <2>1, <2>2, BatchParts
    <3>2. DOMAIN batch'[p] = 1..Len(batch'[p]) /\ Len(batch'[p]) \in Nat
      BY <3>1
    <3>. QED BY <3>2
  <2>. HIDE DEF r
  <2>5. \A i \in DOMAIN batch'[p] : i + 1 # 1
    BY <2>4
  <2>6. \A i \in DOMAIN batch'[p] : batch[p][i + 1].row # r /\ batch[p][i + 1].row \in Row
    BY <1>1, <1>3, <2>3, <2>5
  <2>7. Rows(p)'
    <3>1. ASSUME NEW i \in DOMAIN batch'[p]
          PROVE  /\ batch'[p][i].seen = attempts'[batch'[p][i].row]
                 /\ status'[batch'[p][i].row] \in Open
      <4>1. /\ i + 1 \in DOMAIN batch[p] /\ batch'[p][i] = batch[p][i + 1]
            /\ batch[p][i + 1].row # r /\ batch[p][i + 1].row \in Row
        BY <2>3, <2>6
      <4>2. /\ batch[p][i + 1].seen = attempts[batch[p][i + 1].row]
            /\ status[batch[p][i + 1].row] \in Open
        BY <1>1, <4>1
      <4>3. /\ status'[batch[p][i + 1].row] = status[batch[p][i + 1].row]
            /\ attempts'[batch[p][i + 1].row] = attempts[batch[p][i + 1].row]
        BY <2>1, <4>1
      <4>. QED BY <4>1, <4>2, <4>3
    <3>. QED BY <3>1 DEF Open
  <2>8. \A i, j \in DOMAIN batch'[p] : i + 1 = j + 1 => i = j
    BY <2>4
  <2>9. Once(p)'
    BY <1>1, <2>3, <2>8
  <2>10. Left(p)'
    BY <2>2
  <2>11. ASSUME NEW o \in Pass, o # p PROVE batch'[o] = <<>> /\ outcome'[o] = "none"
    BY <2>1, <2>2, <2>11 DEF OnePass, PassShape
  <2>. QED BY <1>5, <2>7, <2>9, <2>10, <2>11
<1>12. ASSUME NEW p \in Pass, MarkFails(p) \/ PassDies(p)
       PROVE  \A o \in Pass : Rows(o)' /\ Once(o)' /\ Left(o)'
  <2>1. Abandon(p) /\ UNCHANGED rowVars
    BY <1>12, PassDrops DEF Drops
  <2>2. batch'[p] = <<>> /\ outcome'[p] = "none"
        /\ \A o \in Pass : o # p => outcome'[o] = outcome[o] /\ batch'[o] = batch[o]
    BY <2>1 DEF Abandon, TypeOK
  <2>. QED BY <1>4, <1>5, <2>1, <2>2
<1>13. \/ UNCHANGED <<rowVars, passVars>>
       \/ \E r \in Row : Insert(r) \/ BecomesDue(r)
       \/ \E p \in Pass : \/ BeginPass(p) \/ Post(p) \/ Answered(p) \/ TimesOut(p)
                          \/ Mark(p) \/ MarkFails(p) \/ PassDies(p)
  BY RowSteps, PassSteps
<1>. QED BY <1>6, <1>7, <1>8, <1>9, <1>10, <1>11, <1>12, <1>13, Undisturbed

LEMMA AttemptsStep ==
  ASSUME TypeOK, DueOnce, Untried, PassShape, BatchIsCurrent, AttemptsLeft, [Next]_vars
  PROVE  AttemptsLeft'
<1>1. CASE UNCHANGED rowVars
  BY <1>1 DEF AttemptsLeft, rowVars, InDue
<1>2. ASSUME NEW r \in Row, Insert(r) \/ BecomesDue(r) PROVE AttemptsLeft'
  <2>1. /\ due \in Seq(Row) /\ due' = Append(due, r) /\ attempts' = attempts
        /\ status'[r] \in Open /\ \A s \in Row : s # r => status'[s] = status[s]
    BY <1>2 DEF Insert, BecomesDue, TypeOK, Open
  <2>2. \A i \in DOMAIN due' : due'[i] = r \/ (i \in DOMAIN due /\ due'[i] = due[i])
    <3>1. /\ DOMAIN due' = 1..Len(due)+1 /\ due'[Len(due)+1] = r
          /\ \A i \in 1..Len(due) : due'[i] = due[i]
          /\ DOMAIN due = 1..Len(due) /\ Len(due) \in Nat
      BY <2>1
    <3>. QED BY <3>1
  <2>3. attempts[r] < MaxAttempts
    <3>1. CASE status[r] = "Absent"
      BY <3>1, LimitAssumption DEF Untried
    <3>2. CASE status[r] # "Absent"
      BY <1>2, <3>2 DEF Insert, BecomesDue, AttemptsLeft, Open
    <3>. QED BY <3>1, <3>2
  <2>4. attempts[r] <= MaxAttempts
    BY DEF AttemptsLeft
  <2>5. \A s \in Row : status'[s] \in Closed => s # r
    BY <2>1 DEF Open, Closed
  <2>. QED BY <2>1, <2>2, <2>3, <2>4, <2>5 DEF AttemptsLeft, InDue
<1>3. ASSUME NEW p \in Pass, Mark(p) PROVE AttemptsLeft'
  <2>. DEFINE r == Head(batch[p]).row
  <2>1. /\ r \in Row /\ batch[p] # <<>> /\ due' = RemoveFirst(due, r)
        /\ attempts'[r] = attempts[r] + 1
        /\ status'[r] = StatusFor[outcome[p]]
        /\ outcome[p] \in {"delivered", "retry", "deadletter"}
        /\ \A s \in Row : s # r => status'[s] = status[s] /\ attempts'[s] = attempts[s]
    BY <1>3, MarkedRow
  <2>2. Head(batch[p]) = batch[p][1] /\ 1 \in DOMAIN batch[p]
    BY <2>1, BatchParts
  <2>3. Head(batch[p]).seen = attempts[r] /\ status[r] \in Open
    BY <2>2 DEF BatchIsCurrent
  <2>4. attempts[r] \in Nat /\ attempts[r] < MaxAttempts
    BY <2>1, <2>3 DEF AttemptsLeft, TypeOK
  <2>5. attempts'[r] <= MaxAttempts
    BY <2>1, <2>4, LimitAssumption
  <2>6. status'[r] \in Open => attempts'[r] < MaxAttempts
    <3>1. status'[r] \in Open => outcome[p] = "retry"
      BY <2>1 DEF StatusFor, Open
    <3>2. outcome[p] = "retry" => attempts[r] + 1 < MaxAttempts
      BY <2>3 DEF BatchIsCurrent
    <3>. QED BY <2>1, <3>1, <3>2
  <2>7. \A i \in DOMAIN due' : due'[i] # r /\ \E j \in DOMAIN due : due'[i] = due[j]
    BY <2>1, DueWithout DEF DueOnce, TypeOK
  <2>8. \A s \in Row : InDue(s)' => s # r /\ InDue(s)
    BY <2>7 DEF InDue
  <2>. HIDE DEF r
  <2>. QED BY <2>1, <2>5, <2>6, <2>8 DEF AttemptsLeft
<1>. QED BY <1>1, <1>2, <1>3, RowSteps

-----------------------------------------------------------------------------
(* The theorems.                                                           *)

LEMMA IInvInit == Init => IInv
<1>. SUFFICES ASSUME Init PROVE IInv
  OBVIOUS
<1>1. TypeOK
  BY TypeInit
<1>2. DOMAIN due = {} /\ \A p \in Pass : DOMAIN batch[p] = {} /\ batch[p] = <<>>
  BY DEF Init
<1>3. DueOnce /\ Untried
  BY <1>2 DEF DueOnce, Untried, Init
<1>4. PassShape /\ RequestOfPass
  BY <1>2 DEF PassShape, RequestOfPass, Init
<1>5. OnePass /\ RequestsAreAwaited /\ FoundIsCurrent /\ AnswerIsShown
  BY DEF Init, OnePass, RequestsAreAwaited, FoundIsCurrent, AnswerIsShown
<1>6. BatchIsCurrent
  BY <1>2 DEF Init, BatchIsCurrent
<1>7. AttemptsLeft
  BY LimitAssumption DEF Init, AttemptsLeft, Open, Closed
<1>. QED BY <1>1, <1>3, <1>4, <1>5, <1>6, <1>7 DEF IInv, Always, Quiet

LEMMA IInvStep == IInv /\ [Next]_vars => IInv'
<1>. SUFFICES ASSUME IInv, [Next]_vars PROVE IInv'
  OBVIOUS
<1>1. TypeOK /\ DueOnce /\ Untried /\ PassShape /\ RequestOfPass
  BY DEF IInv, Always
<1>2. Always'
  BY <1>1, TypeStep, DueStep, UntriedStep, PassShapeStep, RequestOfPassStep DEF Always
<1>3. ASSUME ~disturbed' PROVE Quiet'
  <2>1. disturbed \in BOOLEAN
    BY <1>1 DEF TypeOK
  <2>2. ~disturbed
    BY <1>3, <2>1, DisturbedStays
  <2>3. /\ OnePass /\ RequestsAreAwaited /\ FoundIsCurrent /\ AnswerIsShown
        /\ BatchIsCurrent /\ AttemptsLeft
    BY <2>2 DEF IInv, Quiet
  <2>4. OnePass' /\ RequestsAreAwaited' /\ FoundIsCurrent'
    BY <1>1, <1>3, <2>3, OnePassStep, AwaitedStep, FoundStep
  <2>5. AnswerIsShown'
    BY <1>1, <1>2, <1>3, <2>3, AnswerStep DEF Always
  <2>6. BatchIsCurrent' /\ AttemptsLeft'
    BY <1>1, <1>3, <2>3, BatchStep, AttemptsStep
  <2>. QED BY <2>4, <2>5, <2>6 DEF Quiet
<1>. QED BY <1>2, <1>3 DEF IInv

\* The inductive invariant holds in every reachable state.
THEOREM Invariance == Spec => []IInv
BY IInvInit, IInvStep, PTL DEF Spec

\* Rows, passes and requests keep their shape: a request that a pass forgets or
\* Jobs discards leaves nothing behind.
THEOREM TypeCorrect == Spec => []TypeOK
<1>1. IInv => TypeOK
  BY DEF IInv, Always
<1>. QED BY <1>1, Invariance, PTL

\* While a single pass runs and waits for its answers, a row is marked Delivered
\* only when the user sees it, or a result calculated no earlier.
THEOREM DeliveredIsShown == Spec => []QuietDeliveredIsShown
<1>1. IInv => QuietDeliveredIsShown
  BY DEF IInv, Quiet, AnswerIsShown, Covered, QuietDeliveredIsShown
<1>. QED BY <1>1, Invariance, PTL

\* Nor does the score that is shown give way to one calculated earlier.
THEOREM ScoreOnlyAdvances == Spec => QuietScoreNeverRegresses
<1>1. IInv /\ [Next]_vars => [~disturbed' => \A s \in Subject : ~Regresses(s)]_vars
  <2>. SUFFICES ASSUME IInv, Next, ~disturbed', NEW s \in Subject, Regresses(s) PROVE FALSE
    OBVIOUS
  <2>1. TypeOK /\ RequestOfPass
    BY DEF IInv, Always
  <2>2. FoundIsCurrent
    BY <2>1, DisturbedStays DEF IInv, Quiet, TypeOK
  <2>3. shown[s] # NoRow /\ CalculatedAt[shown'[s]] < CalculatedAt[shown[s]]
    BY DEF Regresses
  <2>4. shown[s] \in Row /\ CalculatedAt[shown[s]] \in Nat
    BY <2>1, <2>3, TimeAssumption DEF TypeOK
  <2>5. CASE shown' = shown
    BY <2>3, <2>4, <2>5
  <2>6. ASSUME NEW q \in Request, JobsStores(q) PROVE FALSE
    <3>1. /\ payload[q] \in Row
          /\ shown' = [shown EXCEPT ![SubjectOf[payload[q]]] = payload[q]]
          /\ shown[SubjectOf[payload[q]]] # NoRow =>
               CalculatedAt[shown[SubjectOf[payload[q]]]] <= CalculatedAt[payload[q]]
      BY <2>1, <2>2, <2>6, StoreCovers
    <3>2. CASE s = SubjectOf[payload[q]]
      <4>1. shown'[s] = payload[q] /\ CalculatedAt[payload[q]] \in Nat
        BY <2>1, <3>1, <3>2, TimeAssumption DEF TypeOK
      <4>2. CalculatedAt[shown[s]] <= CalculatedAt[payload[q]]
        BY <2>3, <3>1, <3>2
      <4>3. CalculatedAt[payload[q]] < CalculatedAt[shown[s]]
        BY <2>3, <4>1
      <4>. QED BY <2>4, <4>1, <4>2, <4>3
    <3>3. CASE s # SubjectOf[payload[q]]
      <4>1. shown'[s] = shown[s]
        BY <2>1, <3>1, <3>3 DEF TypeOK
      <4>. QED BY <2>3, <2>4, <4>1
    <3>. QED BY <3>2, <3>3
  <2>. QED BY <2>5, <2>6, ShownSteps
<1>. QED BY <1>1, Invariance, PTL DEF Spec, QuietScoreNeverRegresses

-----------------------------------------------------------------------------
(* What is posted.  Every post is recorded in AttemptCount, is lost, or is *)
(* the one at hand.                                                        *)

AtHand(p, r) == Unrecorded(p) /\ Head(batch[p]).row = r

CountTypeOK == posts \in [Row -> Nat] /\ lost \in [Row -> Nat]

PostsRecorded ==
    \A r \in Row :
        /\ posts[r] <= attempts[r] + lost[r] + 1
        /\ (\A p \in Pass : ~AtHand(p, r)) => posts[r] <= attempts[r] + lost[r]

CountInv == IInv /\ CountTypeOK /\ (~disturbed => PostsRecorded)

\* The history variables do not change the steps.
LEMMA CountRefines == [CountNext]_<<vars, history>> => [Next]_vars
BY DEF CountNext, Uncounted, CountPost, CountLoss, Next, PassStep

\* While nothing is disturbed the count goes on.
LEMMA CountGoesOn ==
  ASSUME ~disturbed'
  PROVE  /\ Uncounted => UNCHANGED history
         /\ \A p \in Pass : CountPost(p) =>
               posts' = Counted(posts, Head(batch[p]).row) /\ lost' = lost
         /\ \A p \in Pass : CountLoss(p) =>
               /\ lost' = IF Unrecorded(p) THEN Counted(lost, Head(batch[p]).row) ELSE lost
               /\ posts' = posts
BY DEF Uncounted, CountPost, CountLoss, WhileQuiet, history

\* The row at hand is a row, and open as long as passes do not overlap.
LEMMA RowAtHand ==
  ASSUME TypeOK, PassShape, NEW p \in Pass, pass[p] # "idle", NEW r, r = Head(batch[p]).row
  PROVE  r \in Row /\ (BatchIsCurrent => status[r] \in Open)
<1>1. batch[p] # <<>>
  BY DEF PassShape
<1>2. r \in Row /\ r = batch[p][1].row /\ 1 \in DOMAIN batch[p]
  BY <1>1, BatchParts
<1>. QED BY <1>2 DEF BatchIsCurrent

LEMMA CountTypeStep ==
  ASSUME TypeOK, PassShape, CountTypeOK, [CountNext]_<<vars, history>>
  PROVE  CountTypeOK'
<1>1. CASE disturbed' /\ CountNext
  <2>1. posts' = NoCount /\ lost' = NoCount
    BY <1>1 DEF CountNext, Uncounted, CountPost, CountLoss, WhileQuiet
  <2>. QED BY <2>1 DEF NoCount, CountTypeOK
<1>2. CASE UNCHANGED history
  BY <1>2 DEF CountTypeOK, history
<1>3. ASSUME NEW p \in Pass, CountPost(p), ~disturbed' PROVE CountTypeOK'
  <2>1. Head(batch[p]).row \in Row
    BY <1>3, RowAtHand DEF CountPost, Post
  <2>. QED BY <1>3, <2>1, CountGoesOn DEF CountTypeOK, Counted
<1>4. ASSUME NEW p \in Pass, CountLoss(p), ~disturbed' PROVE CountTypeOK'
  <2>1. Head(batch[p]).row \in Row
    BY <1>4, PassDrops, RowAtHand DEF CountLoss
  <2>2. posts' = posts /\ lost' \in {Counted(lost, Head(batch[p]).row), lost}
    BY <1>4, CountGoesOn
  <2>. QED BY <2>1, <2>2 DEF CountTypeOK, Counted
<1>. QED BY <1>1, <1>2, <1>3, <1>4, CountGoesOn DEF CountNext, history

\* A post of row r, if it is not the one at hand, is recorded or lost.
LEMMA PostsStep ==
  ASSUME TypeOK, TypeOK', PassShape, OnePass, CountTypeOK, CountTypeOK', PostsRecorded,
         ~disturbed', [CountNext]_<<vars, history>>
  PROVE  PostsRecorded'
<1>. DEFINE Hand(r) == \E p \in Pass : AtHand(p, r)
<1>1. \A r \in Row : /\ posts[r] <= attempts[r] + lost[r] + 1
                     /\ ~Hand(r) => posts[r] <= attempts[r] + lost[r]
  BY DEF PostsRecorded
<1>2. \A r \in Row : /\ posts[r] \in Nat /\ posts'[r] \in Nat /\ lost[r] \in Nat /\ lost'[r] \in Nat
                     /\ attempts[r] \in Nat /\ attempts'[r] \in Nat
  BY DEF CountTypeOK, TypeOK
<1>3. SUFFICES \A r \in Row : /\ posts'[r] <= attempts'[r] + lost'[r] + 1
                              /\ ~Hand(r)' => posts'[r] <= attempts'[r] + lost'[r]
  BY DEF PostsRecorded
<1>4. ASSUME NEW r \in Row, posts'[r] = posts[r], attempts'[r] = attempts[r], lost'[r] = lost[r],
             Hand(r) => Hand(r)'
      PROVE  /\ posts'[r] <= attempts'[r] + lost'[r] + 1
             /\ ~Hand(r)' => posts'[r] <= attempts'[r] + lost'[r]
  <2>. HIDE DEF Hand
  <2>. QED BY <1>1, <1>4
<1>5. ASSUME UNCHANGED <<attempts, pass, batch, history>>
      PROVE  \A r \in Row : /\ posts'[r] = posts[r] /\ attempts'[r] = attempts[r]
                            /\ lost'[r] = lost[r] /\ (Hand(r) => Hand(r)')
  BY <1>5 DEF history, AtHand, Unrecorded
<1>6. CASE UNCHANGED <<attempts, pass, batch, history>>
  <2>. HIDE DEF Hand
  <2>. QED BY <1>4, <1>5, <1>6
<1>7. ASSUME NEW p \in Pass, BeginPass(p) \/ Answered(p) \/ TimesOut(p), UNCHANGED history
      PROVE  \A r \in Row : /\ posts'[r] = posts[r] /\ attempts'[r] = attempts[r]
                            /\ lost'[r] = lost[r] /\ (Hand(r) => Hand(r)')
  <2>1. UNCHANGED <<attempts, posts, lost>>
    BY <1>7 DEF BeginPass, Answered, TimesOut, rowVars, history
  <2>2. \A o \in Pass : o # p => pass'[o] = pass[o] /\ batch'[o] = batch[o]
    BY <1>7 DEF BeginPass, Answered, TimesOut, TypeOK
  <2>3. CASE BeginPass(p)
    BY <2>1, <2>2, <2>3 DEF BeginPass, AtHand, Unrecorded
  <2>4. CASE Answered(p) \/ TimesOut(p)
    <3>1. pass'[p] = "marking" /\ batch'[p] = batch[p]
      BY <2>4 DEF Answered, TimesOut, TypeOK
    <3>. QED BY <2>1, <2>2, <3>1 DEF AtHand, Unrecorded
  <2>. QED BY <1>7, <2>3, <2>4
\* The post at hand is recorded, or lost.
<1>8. ASSUME NEW p \in Pass, Unrecorded(p), pass'[p] \in {"idle", "posting"},
             \A o \in Pass : o # p => pass'[o] = pass[o] /\ batch'[o] = batch[o],
             NEW r \in Row, r = Head(batch[p]).row, posts' = posts,
             attempts'[r] + lost'[r] = attempts[r] + lost[r] + 1,
             \A s \in Row : s # r => attempts'[s] = attempts[s] /\ lost'[s] = lost[s]
      PROVE  \A s \in Row : /\ posts'[s] <= attempts'[s] + lost'[s] + 1
                            /\ ~Hand(s)' => posts'[s] <= attempts'[s] + lost'[s]
  <2>1. \A s \in Row : s # r => (Hand(s) => Hand(s)')
    BY <1>8 DEF AtHand, Unrecorded
  <2>. HIDE DEF Hand
  <2>2. posts'[r] <= attempts'[r] + lost'[r]
    BY <1>1, <1>2, <1>8
  <2>3. posts'[r] <= attempts'[r] + lost'[r] + 1
    BY <1>2, <2>2
  <2>. QED BY <1>4, <1>8, <2>1, <2>2, <2>3
<1>9. ASSUME NEW p \in Pass, Mark(p), UNCHANGED history
      PROVE  \A s \in Row : /\ posts'[s] <= attempts'[s] + lost'[s] + 1
                            /\ ~Hand(s)' => posts'[s] <= attempts'[s] + lost'[s]
  <2>1. PICK r \in Row : r = Head(batch[p]).row
    BY <1>9, RowAtHand DEF Mark
  <2>2. /\ attempts'[r] = attempts[r] + 1 /\ pass[p] = "marking"
        /\ \A s \in Row : s # r => attempts'[s] = attempts[s]
    BY <1>9, <2>1, MarkedRow
  <2>3. /\ pass'[p] \in {"idle", "posting"}
        /\ \A o \in Pass : o # p => pass'[o] = pass[o] /\ batch'[o] = batch[o]
    BY <1>9 DEF Mark, TypeOK
  <2>4. posts' = posts /\ lost' = lost /\ Unrecorded(p)
    BY <1>9, <2>2 DEF history, Unrecorded
  <2>. HIDE DEF Hand
  <2>5. attempts'[r] + lost'[r] = attempts[r] + lost[r] + 1
    BY <1>2, <2>2, <2>4
  <2>. QED BY <1>8, <2>1, <2>2, <2>3, <2>4, <2>5
<1>10. ASSUME NEW p \in Pass, CountLoss(p)
       PROVE  \A s \in Row : /\ posts'[s] <= attempts'[s] + lost'[s] + 1
                             /\ ~Hand(s)' => posts'[s] <= attempts'[s] + lost'[s]
  <2>1. /\ pass[p] # "idle" /\ pass'[p] = "idle" /\ posts' = posts /\ attempts' = attempts
        /\ \A o \in Pass : o # p => pass'[o] = pass[o] /\ batch'[o] = batch[o]
    <3>1. Abandon(p) /\ pass[p] # "idle" /\ UNCHANGED rowVars
      BY <1>10, PassDrops DEF CountLoss, Drops
    <3>. QED BY <1>10, <3>1, CountGoesOn DEF Abandon, TypeOK, rowVars
  <2>2. PICK r \in Row : r = Head(batch[p]).row
    BY <2>1, RowAtHand
  <2>3. lost' = IF Unrecorded(p) THEN Counted(lost, r) ELSE lost
    BY <1>10, <2>2, CountGoesOn
  <2>4. CASE Unrecorded(p)
    <3>1. lost'[r] = lost[r] + 1 /\ \A s \in Row : s # r => lost'[s] = lost[s]
      BY <2>2, <2>3, <2>4 DEF Counted, CountTypeOK
    <3>2. attempts'[r] + lost'[r] = attempts[r] + lost[r] + 1
      BY <1>2, <2>1, <2>2, <3>1
    <3>. HIDE DEF Hand
    <3>. QED BY <1>8, <2>1, <2>2, <2>4, <3>1, <3>2
  <2>5. CASE ~Unrecorded(p)
    <3>1. \A s \in Row : Hand(s) => Hand(s)'
      BY <2>1, <2>5 DEF AtHand, Unrecorded
    <3>. HIDE DEF Hand
    <3>. QED BY <1>4, <2>1, <2>3, <2>5, <3>1
  <2>. QED BY <2>4, <2>5
\* A new post becomes the one at hand: no other is, as there is one pass.
<1>11. ASSUME NEW p \in Pass, CountPost(p)
       PROVE  \A s \in Row : /\ posts'[s] <= attempts'[s] + lost'[s] + 1
                             /\ ~Hand(s)' => posts'[s] <= attempts'[s] + lost'[s]
  <2>1. PICK r \in Row : r = Head(batch[p]).row
    BY <1>11, RowAtHand DEF CountPost, Post
  <2>2. /\ pass[p] = "posting" /\ pass'[p] = "waiting" /\ batch' = batch
        /\ attempts' = attempts /\ lost' = lost /\ posts' = Counted(posts, r)
        /\ \A o \in Pass : o # p => pass'[o] = pass[o]
    <3>1. lost' = lost /\ posts' = Counted(posts, r)
      BY <1>11, <2>1, CountGoesOn
    <3>. QED BY <1>11, <3>1 DEF CountPost, Post, TypeOK, rowVars
  <2>3. ~Hand(r) /\ Hand(r)' /\ \A s \in Row : Hand(s) => Hand(s)'
    <3>1. \A o \in Pass : ~Unrecorded(o)
      BY <2>2 DEF OnePass, Unrecorded
    <3>2. AtHand(p, r)'
      BY <2>1, <2>2 DEF AtHand, Unrecorded
    <3>. QED BY <3>1, <3>2 DEF AtHand
  <2>. HIDE DEF Hand
  <2>4. posts'[r] = posts[r] + 1 /\ \A s \in Row : s # r => posts'[s] = posts[s]
    BY <2>2 DEF Counted, CountTypeOK
  <2>5. posts'[r] <= attempts'[r] + lost'[r] + 1
    BY <1>1, <1>2, <2>2, <2>3, <2>4
  <2>6. ASSUME NEW s \in Row, s # r
        PROVE  /\ posts'[s] = posts[s] /\ attempts'[s] = attempts[s] /\ lost'[s] = lost[s]
               /\ (Hand(s) => Hand(s)')
    BY <2>2, <2>3, <2>4, <2>6
  <2>. QED BY <1>4, <2>3, <2>5, <2>6
<1>12. ASSUME NEW r \in Row, Insert(r) \/ BecomesDue(r), UNCHANGED history
       PROVE  UNCHANGED <<attempts, pass, batch, history>>
  BY <1>12 DEF Insert, BecomesDue, passVars
<1>13. ASSUME NEW q \in Request, JobsStep(q) \/ JobsFails(q), UNCHANGED history
       PROVE  UNCHANGED <<attempts, pass, batch, history>>
  BY <1>13 DEF JobsStep, JobsReads, JobsIgnores, JobsStores, JobsCollides, JobsFails, rowVars, passVars
<1>14. UNCHANGED <<vars, history>> => UNCHANGED <<attempts, pass, batch, history>>
  BY DEF vars, rowVars, passVars
<1>15. CASE (\E p \in Pass : BeginPass(p) \/ Answered(p) \/ TimesOut(p)) /\ UNCHANGED history
  <2>. HIDE DEF Hand
  <2>. QED BY <1>4, <1>7, <1>15
<1>. HIDE DEF Hand
<1>16. Uncounted => UNCHANGED history
  BY CountGoesOn
<1>. QED BY <1>6, <1>9, <1>10, <1>11, <1>12, <1>13, <1>14, <1>15, <1>16 DEF CountNext, Uncounted

LEMMA CountInvInit == CountInit => CountInv
<1>. SUFFICES ASSUME CountInit PROVE CountInv
  OBVIOUS
<1>1. IInv
  BY IInvInit DEF CountInit
<1>2. CountTypeOK
  BY DEF CountInit, NoCount, CountTypeOK
<1>3. PostsRecorded
  BY DEF CountInit, NoCount, Init, PostsRecorded
<1>. QED BY <1>1, <1>2, <1>3 DEF CountInv

LEMMA CountInvStep == CountInv /\ [CountNext]_<<vars, history>> => CountInv'
<1>. SUFFICES ASSUME CountInv, [CountNext]_<<vars, history>> PROVE CountInv'
  OBVIOUS
<1>1. IInv /\ TypeOK /\ PassShape /\ CountTypeOK
  BY DEF CountInv, IInv, Always
<1>2. [Next]_vars
  BY CountRefines
<1>3. IInv'
  BY <1>1, <1>2, IInvStep
<1>4. CountTypeOK'
  BY <1>1, CountTypeStep
<1>5. ASSUME ~disturbed' PROVE PostsRecorded'
  <2>1. ~disturbed
    BY <1>1, <1>2, <1>5, DisturbedStays DEF TypeOK
  <2>2. OnePass /\ PostsRecorded /\ TypeOK'
    BY <1>1, <1>3, <2>1 DEF IInv, Always, Quiet, CountInv
  <2>. QED BY <1>1, <1>4, <1>5, <2>2, PostsStep
<1>. QED BY <1>3, <1>4, <1>5 DEF CountInv

\* While a single pass runs and waits for its answers, Jobs gets a row at most
\* MaxAttempts times and once more for each post whose outcome went unrecorded; a row
\* that may be retried has an attempt left, and a closed one is not selected again.
THEOREM AttemptLimit == CountSpec => []QuietAttemptLimit
<1>1. CountInv => QuietAttemptLimit
  <2>. SUFFICES ASSUME CountInv, ~disturbed, NEW r \in Row
                PROVE  /\ posts[r] <= MaxAttempts + lost[r]
                       /\ status[r] \in Open => attempts[r] < MaxAttempts
                       /\ status[r] \in Closed => ~InDue(r)
    BY DEF QuietAttemptLimit
  <2>1. TypeOK /\ PassShape /\ BatchIsCurrent /\ AttemptsLeft /\ PostsRecorded /\ CountTypeOK
    BY DEF CountInv, IInv, Always, Quiet
  <2>2. posts[r] \in Nat /\ lost[r] \in Nat /\ attempts[r] \in Nat /\ MaxAttempts \in Nat
    BY <2>1, LimitAssumption DEF TypeOK, CountTypeOK
  <2>3. /\ status[r] \in Open => attempts[r] < MaxAttempts
        /\ status[r] \in Closed => ~InDue(r)
        /\ attempts[r] <= MaxAttempts
    BY <2>1 DEF AttemptsLeft
  <2>4. CASE \E p \in Pass : AtHand(p, r)
    <3>1. status[r] \in Open
      BY <2>1, <2>4, RowAtHand DEF AtHand, Unrecorded
    <3>2. attempts[r] < MaxAttempts /\ posts[r] <= attempts[r] + lost[r] + 1
      BY <2>1, <2>3, <3>1 DEF PostsRecorded
    <3>. QED BY <2>2, <2>3, <3>2
  <2>5. CASE ~\E p \in Pass : AtHand(p, r)
    <3>1. posts[r] <= attempts[r] + lost[r]
      BY <2>1, <2>5 DEF PostsRecorded
    <3>. QED BY <2>2, <2>3, <3>1
  <2>. QED BY <2>4, <2>5
<1>. QED BY <1>1, CountInvInit, CountInvStep, PTL DEF CountSpec
=============================================================================
