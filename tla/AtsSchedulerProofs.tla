------------------------- MODULE AtsSchedulerProofs -------------------------
(***************************************************************************)
(* Proofs about AtsScheduler, for any tasks, slot lengths and policies,    *)
(* any number of processes, activations and faults.                        *)
(***************************************************************************)
EXTENDS AtsScheduler, SequenceTheorems, FiniteSetTheorems, WellFoundedInduction, TLAPS

\* A process that has started has a number.
NumberIsGiven == \A p \in Procs : pc[p] # "idle" => job[p].n # 0

\* The processes that are inside the "with lock" block.
Inside(p) == pc[p] \in {"decide", "launch", "scanning", "record"}

\* Manual scans count as forced, and only a task decides about a slot.
JobIsKnown ==
    \A p \in Procs : /\ job[p].kind = "manual" => job[p].force = TRUE
                     /\ pc[p] = "decide" => job[p].kind = "task"
                     /\ pc[p] # "idle" => job[p].kind # "none"

\* The lock names the one process that is inside.
HolderIsInside == \A p \in Procs : Inside(p) <=> lock = p

\* A process that has counted its attempt.
Working(p) == pc[p] \in {"launch", "scanning", "record"} /\ job[p].kind = "task"

\* What it has loaded and changed is still the file, and the file is about its slot.
MemoryIsCurrent ==
    \A p \in Procs : Working(p) => mem[p] = file /\ file[Task(p)].slot = ThisSlot(p)

\* As long as nobody has left a scanner behind, there is one scanner at most and the
\* process that waits for it has its number ...
ScannerIsAwaited ==
    ~orphaned =>
        /\ \A s \in scanners : \E p \in Procs : pc[p] = "scanning" /\ job[p].n = s.n
        /\ \A r, s \in scanners : r = s

\* ... so a run that appears while a process waits is the run of its scanner.
NewRunIsOwn ==
    ~orphaned =>
        \A p \in Procs : pc[p] \in {"scanning", "record"} =>
            \A i \in DOMAIN runs : runs[i] \in before[p] \cup {job[p].n}

\* As long as no process acts on a slot that is over: the scans of a slot are counted in
\* the file, the one that is about to start as well ...
ScansAreCounted ==
    ~late =>
        /\ \A s \in SlotIds :
              /\ file[s[1]].slot < s[2] => tries[s] = 0
              /\ file[s[1]].slot = s[2] => tries[s] <= file[s[1]].attempts
        /\ \A p \in Procs : pc[p] = "launch" /\ ~job[p].force =>
              /\ tries[<<Task(p), ThisSlot(p)>>] < file[Task(p)].attempts
              /\ tries[<<Task(p), ThisSlot(p)>>] <= MaxRetries

\* ... and the file names the latest slot that is completed.
CompletedIsLatest ==
    ~late =>
        /\ \A s \in done : s[2] <= file[s[1]].completed
        /\ \A t \in Tasks : file[t].completed <= file[t].slot
        /\ \A p \in Procs : pc[p] \in {"launch", "scanning"} /\ ~job[p].force =>
              <<Task(p), ThisSlot(p)>> \notin done

-----------------------------------------------------------------------------
(* Lemmas about the operators.                                             *)

\* A set of natural numbers has a smallest one: < is well-founded.
LEMMA Smallest ==
  ASSUME NEW T, T \subseteq Nat, T # {}
  PROVE  \E n \in T : \A m \in T : n <= m
<1>. DEFINE R == OpToRel(<, Nat)
<1>1. IsWellFoundedOn(R, Nat)
  BY NatLessThanWellFounded
<1>2. PICK n \in T : \A m \in T : <<m, n>> \notin R
  BY <1>1, WFMin
<1>3. \A m \in T : ~(m < n)
  BY <1>2 DEF OpToRel
<1>. QED BY <1>3

\* The mirror image: a bounded set has a largest number.
LEMMA Largest ==
  ASSUME NEW T, NEW b \in Nat, T \subseteq 1..b, T # {}
  PROVE  \E n \in T : \A m \in T : m <= n
<1>. DEFINE U == {b - n : n \in T}
<1>1. U \subseteq Nat
  OBVIOUS
<1>2. U # {}
  <2>. PICK n \in T : TRUE
    OBVIOUS
  <2>. b - n \in U
    OBVIOUS
  <2>. QED OBVIOUS
<1>3. PICK u \in U : \A v \in U : u <= v
  BY <1>1, <1>2, Smallest
<1>4. PICK n \in T : u = b - n
  BY <1>3
<1>5. ASSUME NEW m \in T PROVE m <= n
  <2>1. b - n <= b - m
    BY <1>3, <1>4
  <2>. QED BY <2>1
<1>. QED BY <1>5

\* Removing an entry from a sequence leaves entries of that sequence.
LEMMA RemoveFirstEntries ==
  ASSUME NEW X, NEW R \in Seq(X), NEW e
  PROVE  /\ RemoveFirst(R, e) \in Seq(X)
         /\ \A i \in DOMAIN RemoveFirst(R, e) : \E k \in DOMAIN R : RemoveFirst(R, e)[i] = R[k]
<1>1. CASE ~\E i \in 1..Len(R) : R[i] = e
  BY <1>1 DEF RemoveFirst
<1>2. CASE \E i \in 1..Len(R) : R[i] = e
  <2>. DEFINE I == {i \in 1..Len(R) : R[i] = e}
              k == Min(I)
  <2>1. k \in I
    <3>1. I \subseteq Nat /\ I # {}
      BY <1>2
    <3>2. \E n \in I : \A m \in I : n <= m
      BY <3>1, Smallest
    <3>. QED BY <3>2 DEF Min
  <2>2. RemoveFirst(R, e) = SubSeq(R, 1, k-1) \o SubSeq(R, k+1, Len(R))
    BY <1>2 DEF RemoveFirst, RemoveAt, SelectInSeq
  <2>. HIDE DEF k
  <2>3. k \in 1..Len(R)
    BY <2>1
  <2>4. SubSeq(R, 1, k-1) \in Seq(X) /\ SubSeq(R, k+1, Len(R)) \in Seq(X)
    BY <2>3
  <2>. DEFINE A == SubSeq(R, 1, k-1)
              B == SubSeq(R, k+1, Len(R))
  <2>5. /\ Len(A) = k-1 /\ \A i \in 1..Len(A) : A[i] = R[i]
        /\ Len(B) = Len(R)-k /\ \A i \in 1..Len(B) : B[i] = R[k+i]
    BY <2>3
  <2>6. A \in Seq(X) /\ B \in Seq(X)
    BY <2>4
  <2>. HIDE DEF A, B
  <2>7. A \o B \in Seq(X)
    BY <2>6
  <2>8. ASSUME NEW i \in DOMAIN (A \o B) PROVE \E j \in DOMAIN R : (A \o B)[i] = R[j]
    <3>1. i \in 1..Len(A) + Len(B)
      BY <2>6
    <3>2. CASE i <= Len(A)
      BY <2>3, <2>5, <2>6, <3>1, <3>2
    <3>3. CASE i > Len(A)
      <4>1. (A \o B)[i] = B[i - Len(A)] /\ i - Len(A) \in 1..Len(B)
        BY <2>6, <3>1, <3>3
      <4>2. k + (i - Len(A)) \in DOMAIN R
        BY <2>3, <2>5, <4>1
      <4>. QED BY <2>5, <4>1, <4>2
    <3>. QED BY <2>6, <3>1, <3>2, <3>3
  <2>. QED BY <2>2, <2>7, <2>8 DEF A, B
<1>. QED BY <1>1, <1>2

\* The metadata adds its run and takes none away.
LEMMA WriteMetadataEntries ==
  ASSUME NEW X, NEW R \in Seq(X), NEW run \in X \cup {None}
  PROVE  /\ WriteMetadata(R, run) \in Seq(X)
         /\ \A i \in DOMAIN WriteMetadata(R, run) :
               \/ WriteMetadata(R, run)[i] = run /\ run # None
               \/ \E k \in DOMAIN R : WriteMetadata(R, run)[i] = R[k]
<1>1. CASE run = None
  BY <1>1 DEF WriteMetadata
<1>2. CASE run # None
  <2>. DEFINE Q == RemoveFirst(R, run)
  <2>1. /\ Q \in Seq(X)
        /\ \A i \in DOMAIN Q : \E k \in DOMAIN R : Q[i] = R[k]
    BY RemoveFirstEntries
  <2>2. WriteMetadata(R, run) = Append(Q, run) /\ run \in X
    BY <1>2 DEF WriteMetadata
  <2>. HIDE DEF Q
  <2>. QED BY <1>2, <2>1, <2>2, AppendProperties
<1>. QED BY <1>1, <1>2

\* The retention adds nothing.
LEMMA RetainedEntries ==
  ASSUME NEW X, NEW R \in Seq(X), NEW Q \in Retained(R)
  PROVE  /\ Q \in Seq(X)
         /\ \A i \in DOMAIN Q : \E k \in DOMAIN R : Q[i] = R[k]
<1>1. PICK n \in 0..Len(R) : \E kept \in [1..n -> DOMAIN R] :
               Q = [k \in DOMAIN kept |-> R[kept[k]]]
  BY DEF Retained
<1>. PICK kept \in [1..n -> DOMAIN R] : Q = [k \in DOMAIN kept |-> R[kept[k]]]
  BY <1>1
<1>2. Q = [k \in 1..n |-> R[kept[k]]]
  OBVIOUS
<1>3. \A k \in 1..n : kept[k] \in DOMAIN R
  OBVIOUS
<1>. QED BY <1>2, <1>3

\* The directory that is found is one that has appeared since.
LEMMA NewRunIsFound ==
  ASSUME NEW X, runs \in Seq(X), NEW p
  PROVE  \/ FindNewRun(p) = None
         \/ \E i \in DOMAIN runs : FindNewRun(p) = runs[i] /\ runs[i] \notin before[p]
<1>. DEFINE new == {i \in DOMAIN runs : runs[i] \notin before[p]}
<1>1. CASE Task(p) # Daily \/ new = {}
  BY <1>1 DEF FindNewRun
<1>2. CASE Task(p) = Daily /\ new # {}
  <2>1. Len(runs) \in Nat /\ new \subseteq 1..Len(runs)
    OBVIOUS
  <2>2. \E i \in new : \A k \in new : k <= i
    BY <1>2, <2>1, Largest
  <2>3. FindNewRun(p) = runs[CHOOSE i \in new : \A k \in new : k <= i]
    BY <1>2 DEF FindNewRun
  <2>. HIDE DEF new
  <2>4. (CHOOSE i \in new : \A k \in new : k <= i) \in new
    BY <2>2
  <2>. QED BY <2>3, <2>4 DEF new
<1>. QED BY <1>1, <1>2

\* Division respects the order.
LEMMA DivMonotone ==
  ASSUME NEW a \in Nat, NEW b \in Nat, NEW d \in Nat \ {0}, a <= b
  PROVE  a \div d \in 0 .. (b \div d)
OBVIOUS

\* The number of a slot is at most the time.
LEMMA DivBound ==
  ASSUME NEW a \in Nat, NEW d \in Nat \ {0}
  PROVE  a \div d \in 0 .. a
OBVIOUS

\* The slot of a process is a slot of its task.
LEMMA SlotType ==
  ASSUME TypeOK, NEW p \in Procs
  PROVE  /\ Task(p) \in Tasks
         /\ ThisSlot(p) \in 0..MaxTime
         /\ <<Task(p), ThisSlot(p)>> \in SlotIds
         /\ job[p].now \in 0..MaxTime
<1>. DEFINE t == Task(p)
            a == job[p].now
            d == Period[t]
<1>1. /\ job[p] \in [kind : {"none", "task", "manual"}, task : Tasks, force : BOOLEAN,
                     now : 0 .. MaxTime, n : 0 .. activations]
  BY DEF TypeOK
<1>2. t \in Tasks /\ a \in 0..MaxTime
  BY <1>1 DEF Task
<1>3. d \in Nat \ {0} /\ MaxTime \in Nat /\ a \in Nat
  BY <1>2, TaskAssumption, PolicyAssumption
<1>4. ThisSlot(p) = a \div d /\ LatestSlot(t, MaxTime) = MaxTime \div d
  BY DEF ThisSlot, LatestSlot
<1>. HIDE DEF t, a, d
<1>5. a \div d \in 0..a /\ a \div d \in 0..(MaxTime \div d)
  BY <1>2, <1>3, DivMonotone, DivBound
<1>6. ThisSlot(p) \in 0..MaxTime
  BY <1>2, <1>3, <1>4, <1>5
<1>7. <<t, ThisSlot(p)>> \in SlotIds
  <2>1. <<t, ThisSlot(p)>> \in {t} \X (0 .. LatestSlot(t, MaxTime))
    BY <1>4, <1>5
  <2>. QED BY <1>2, <2>1 DEF SlotIds
<1>. QED BY <1>2, <1>6, <1>7 DEF t, a

\* What the functions on the record of a task return.
LEMMA TaskStateType ==
  ASSUME NEW s \in TaskStates, NEW slot \in 0..MaxTime, NEW now \in 0..MaxTime,
         NEW run \in {None} \cup (1 .. MaxActivations)
  PROVE  /\ ResetForSlot(s, slot) \in TaskStates
         /\ ResetForSlot(s, slot).slot = slot
         /\ ResetForSlot(s, slot).completed = s.completed
         /\ s.slot = slot => ResetForSlot(s, slot) = s
         /\ MarkCompleted(s, slot, now, run) \in TaskStates
         /\ MarkCompleted(s, slot, now, run).completed = slot
         /\ MarkCompleted(s, slot, now, run).slot = s.slot
         /\ MarkCompleted(s, slot, now, run).attempts = s.attempts
         /\ MarkFailed(s, run) \in TaskStates
         /\ MarkFailed(s, run).completed = s.completed
         /\ MarkFailed(s, run).slot = s.slot
         /\ MarkFailed(s, run).attempts = s.attempts
         /\ Counted(s, now) \in TaskStates
         /\ Counted(s, now).completed = s.completed
         /\ Counted(s, now).slot = s.slot
         /\ Counted(s, now).attempts = s.attempts + 1
<1>. USE DEF TaskStates, Times
<1>1. /\ ResetForSlot(s, slot) \in TaskStates
      /\ ResetForSlot(s, slot).slot = slot
      /\ ResetForSlot(s, slot).completed = s.completed
      /\ s.slot = slot => ResetForSlot(s, slot) = s
  BY DEF ResetForSlot
<1>2. /\ MarkCompleted(s, slot, now, run) \in TaskStates
      /\ MarkCompleted(s, slot, now, run).completed = slot
      /\ MarkCompleted(s, slot, now, run).slot = s.slot
      /\ MarkCompleted(s, slot, now, run).attempts = s.attempts
  BY DEF MarkCompleted
<1>3. /\ MarkFailed(s, run) \in TaskStates
      /\ MarkFailed(s, run).completed = s.completed
      /\ MarkFailed(s, run).slot = s.slot
      /\ MarkFailed(s, run).attempts = s.attempts
  BY DEF MarkFailed
<1>4. /\ Counted(s, now) \in TaskStates
      /\ Counted(s, now).completed = s.completed
      /\ Counted(s, now).slot = s.slot
      /\ Counted(s, now).attempts = s.attempts + 1
  <2>. DEFINE f == IF s.first = None THEN now ELSE s.first
  <2>1. f \in Times /\ s.attempts + 1 \in Nat
    OBVIOUS
  <2>2. Counted(s, now) = [s EXCEPT !.first = f, !.attempts = s.attempts + 1]
    BY DEF Counted
  <2>. HIDE DEF f
  <2>. QED BY <2>1, <2>2
<1>. QED BY <1>1, <1>2, <1>3, <1>4

\* The loaded state is the file, with the record of the task turned to the slot.
LEMMA LoadedType ==
  ASSUME TypeOK, NEW p \in Procs
  PROVE  /\ Loaded(p) \in [Tasks -> TaskStates]
         /\ Loaded(p)[Task(p)] = ResetForSlot(file[Task(p)], ThisSlot(p))
         /\ Loaded(p)[Task(p)].slot = ThisSlot(p)
         /\ Loaded(p)[Task(p)].completed = file[Task(p)].completed
         /\ \A t \in Tasks : t # Task(p) => Loaded(p)[t] = file[t]
<1>1. file \in [Tasks -> TaskStates]
  BY DEF TypeOK
<1>2. Task(p) \in Tasks /\ ThisSlot(p) \in 0..MaxTime /\ job[p].now \in 0..MaxTime
  BY SlotType
<1>3. file[Task(p)] \in TaskStates
  BY <1>1, <1>2
<1>4. None \in {None} \cup (1 .. MaxActivations)
  OBVIOUS
<1>5. LET s == ResetForSlot(file[Task(p)], ThisSlot(p))
      IN  s \in TaskStates /\ s.slot = ThisSlot(p) /\ s.completed = file[Task(p)].completed
  BY <1>2, <1>3, <1>4, TaskStateType
<1>. QED BY <1>1, <1>2, <1>5 DEF Loaded

\* What is written keeps the type of the file.
LEMMA PersistType ==
  ASSUME TypeOK, NEW p \in Procs, NEW state \in [Tasks -> TaskStates], Persist(p, state)
  PROVE  /\ file' \in [Tasks -> TaskStates]
         /\ truth' \in [Tasks -> TaskStates]
         /\ readable' \in BOOLEAN
<1>1. Task(p) \in Tasks
  BY SlotType
<1>2. truth \in [Tasks -> TaskStates]
  BY DEF TypeOK
<1>. QED BY <1>1, <1>2 DEF Persist

\* A process that ends is ready to be another one.
LEMMA EndsType ==
  ASSUME TypeOK, NEW p \in Procs, Ends(p), activations' = activations
  PROVE  /\ pc' \in [Procs -> {"idle", "acquire", "decide", "launch", "scanning", "record"}]
         /\ job' \in [Procs -> [kind : {"none", "task", "manual"}, task : Tasks,
                                force : BOOLEAN, now : 0 .. MaxTime, n : 0 .. activations']]
         /\ mem' \in [Procs -> [Tasks -> TaskStates]]
         /\ before' \in [Procs -> SUBSET (1 .. activations')]
         /\ code' \in [Procs -> ExitCodes \cup {NotLaunched}]
<1>. USE DEF TypeOK
<1>1. NoJob \in [kind : {"none", "task", "manual"}, task : Tasks, force : BOOLEAN,
                 now : 0 .. MaxTime, n : 0 .. activations]
  BY TaskAssumption, PolicyAssumption DEF NoJob
<1>2. EmptyState \in [Tasks -> TaskStates]
  BY DEF EmptyState, EmptyTaskState, TaskStates, Times
<1>3. pc' \in [Procs -> {"idle", "acquire", "decide", "launch", "scanning", "record"}]
  BY DEF Ends
<1>4. job' \in [Procs -> [kind : {"none", "task", "manual"}, task : Tasks,
                          force : BOOLEAN, now : 0 .. MaxTime, n : 0 .. activations']]
  BY <1>1, Zenon DEF Ends
<1>5. mem' \in [Procs -> [Tasks -> TaskStates]]
  BY <1>2 DEF Ends
<1>6. before' \in [Procs -> SUBSET (1 .. activations')]
  BY DEF Ends
<1>7. code' \in [Procs -> ExitCodes \cup {NotLaunched}]
  BY DEF Ends, ExitCodes
<1>. QED BY <1>3, <1>4, <1>5, <1>6, <1>7

\* The initial values have their types.
LEMMA TypeInit == Init => TypeOK
<1>. SUFFICES ASSUME Init PROVE TypeOK
  OBVIOUS
<1>1. EmptyState \in [Tasks -> TaskStates]
  BY DEF EmptyState, EmptyTaskState, TaskStates, Times
<1>2. NoJob \in [kind : {"none", "task", "manual"}, task : Tasks, force : BOOLEAN,
                 now : 0 .. MaxTime, n : 0 .. activations]
  BY TaskAssumption, PolicyAssumption DEF NoJob, Init
<1>3. clock \in 0..MaxTime /\ activations \in 0 .. MaxActivations /\ faults \in 0 .. MaxFaults
  BY PolicyAssumption DEF Init
<1>4. job \in [Procs -> [kind : {"none", "task", "manual"}, task : Tasks, force : BOOLEAN,
                          now : 0 .. MaxTime, n : 0 .. activations]]
  BY <1>2 DEF Init
<1>5. file \in [Tasks -> TaskStates] /\ truth \in [Tasks -> TaskStates]
      /\ mem \in [Procs -> [Tasks -> TaskStates]]
  BY <1>1 DEF Init
<1>6. tries \in [SlotIds -> Nat] /\ runs \in Seq(1 .. activations) /\ done \subseteq SlotIds
  BY DEF Init
<1>7. /\ pc \in [Procs -> {"idle", "acquire", "decide", "launch", "scanning", "record"}]
      /\ before \in [Procs -> SUBSET (1 .. activations)]
      /\ code \in [Procs -> ExitCodes \cup {NotLaunched}]
      /\ scanners \subseteq [n : 1 .. activations, task : Tasks, published : BOOLEAN]
      /\ lock \in Procs \cup {Nobody}
  BY DEF Init, ExitCodes
<1>8. readable \in BOOLEAN /\ late \in BOOLEAN /\ orphaned \in BOOLEAN
  BY DEF Init
<1>. QED BY <1>3, <1>4, <1>5, <1>6, <1>7, <1>8 DEF TypeOK

\* A fault is within the bound of the model.
LEMMA FaultType ==
  ASSUME faults \in 0..MaxFaults, faults < MaxFaults, faults' = faults + 1
  PROVE  faults' \in 0..MaxFaults
BY PolicyAssumption

\* The step that starts a process raises the count of activations.
LEMMA StartType ==
  ASSUME TypeOK, NEW p \in Procs, NEW kind \in {"task", "manual"}, NEW t \in Tasks,
         NEW force \in BOOLEAN, Start(p, kind, t, force)
  PROVE  TypeOK'
<1>. USE DEF TypeOK, Start, history
<1>1. activations' \in 0..MaxActivations /\ activations' = activations + 1
  BY PolicyAssumption
<1>2. /\ 1..activations \subseteq 1..activations'
      /\ 0..activations \subseteq 0..activations'
      /\ activations + 1 \in 0..activations'
  BY <1>1
<1>3. job' \in [Procs -> [kind : {"none", "task", "manual"}, task : Tasks, force : BOOLEAN,
                          now : 0 .. MaxTime, n : 0 .. activations']]
  <2>1. [kind |-> kind, task |-> t, force |-> force, now |-> clock, n |-> activations + 1]
           \in [kind : {"none", "task", "manual"}, task : Tasks, force : BOOLEAN,
                now : 0 .. MaxTime, n : 0 .. activations']
    BY <1>2
  <2>2. ASSUME NEW q \in Procs
        PROVE  job[q] \in [kind : {"none", "task", "manual"}, task : Tasks, force : BOOLEAN,
                           now : 0 .. MaxTime, n : 0 .. activations']
    <3>1. job[q] \in [kind : {"none", "task", "manual"}, task : Tasks, force : BOOLEAN,
                      now : 0 .. MaxTime, n : 0 .. activations]
      OBVIOUS
    <3>. QED BY <1>2, <3>1
  <2>3. job' = [q \in Procs |-> IF q = p
                   THEN [kind |-> kind, task |-> t, force |-> force, now |-> clock,
                         n |-> activations + 1]
                   ELSE job[q]]
    BY Zenon
  <2>. QED BY <2>1, <2>2, <2>3, Zenon
<1>4. before' \in [Procs -> SUBSET (1 .. activations')]
  BY <1>2
<1>5. scanners' \subseteq [n : 1 .. activations', task : Tasks, published : BOOLEAN]
  BY <1>2
<1>6. runs' \in Seq(1 .. activations')
  BY <1>2, SeqMonotonic
<1>7. pc' \in [Procs -> {"idle", "acquire", "decide", "launch", "scanning", "record"}]
  OBVIOUS
<1>. QED BY <1>1, <1>3, <1>4, <1>5, <1>6, <1>7

\* The record of one task is replaced by what such a function returns.
LEMMA UpdateType ==
  ASSUME NEW F \in [Tasks -> TaskStates], NEW t \in Tasks, NEW slot \in 0..MaxTime,
         NEW now \in 0..MaxTime, NEW run \in {None} \cup (1 .. MaxActivations)
  PROVE  /\ [F EXCEPT ![t] = MarkCompleted(@, slot, now, run)] \in [Tasks -> TaskStates]
         /\ [F EXCEPT ![t] = MarkFailed(@, run)] \in [Tasks -> TaskStates]
         /\ [F EXCEPT ![t] = Counted(@, now)] \in [Tasks -> TaskStates]
<1>1. F[t] \in TaskStates
  OBVIOUS
<1>2. /\ MarkCompleted(F[t], slot, now, run) \in TaskStates
      /\ MarkFailed(F[t], run) \in TaskStates
      /\ Counted(F[t], now) \in TaskStates
  BY <1>1, TaskStateType
<1>. QED BY <1>2

\* The outcome of a scan.
LEMMA RecordType ==
  ASSUME TypeOK, NEW p \in Procs, Record(p)
  PROVE  TypeOK' /\ FindNewRun(p) \in {None} \cup (1 .. activations)
<1>. DEFINE run == FindNewRun(p)
            ok == Succeeds(p, run)
            state == [mem[p] EXCEPT ![Task(p)] =
                         IF ok THEN MarkCompleted(@, ThisSlot(p), clock, run)
                         ELSE MarkFailed(@, run)]
<1>1. run \in {None} \cup (1 .. activations)
  <2>1. \A i \in DOMAIN runs : runs[i] \in 1..activations
    BY DEF TypeOK
  <2>. QED BY <2>1, NewRunIsFound DEF TypeOK
<1>2. run \in {None} \cup (1 .. MaxActivations)
  BY <1>1, PolicyAssumption DEF TypeOK
<1>3. /\ Ends(p) /\ activations' = activations /\ lock' = Nobody
      /\ Persist(p, state)
      /\ done' = IF ok THEN done \cup {<<Task(p), ThisSlot(p)>>} ELSE done
      /\ runs' \in Retained(WriteMetadata(runs, run))
      /\ UNCHANGED <<clock, scanners, faults, tries, late, orphaned>>
  BY DEF Record, Release
<1>4. Task(p) \in Tasks /\ ThisSlot(p) \in 0..MaxTime /\ <<Task(p), ThisSlot(p)>> \in SlotIds
  BY SlotType
<1>5. mem[p] \in [Tasks -> TaskStates] /\ clock \in 0..MaxTime
  BY DEF TypeOK
<1>. HIDE DEF run, ok
<1>6. state \in [Tasks -> TaskStates]
  <2>1. CASE ok
    BY <1>2, <1>4, <1>5, <2>1, UpdateType
  <2>2. CASE ~ok
    BY <1>2, <1>4, <1>5, <2>2, UpdateType
  <2>. QED BY <2>1, <2>2
<1>. HIDE DEF state
<1>7. done' \subseteq SlotIds
  BY <1>3, <1>4 DEF TypeOK
<1>8. runs' \in Seq(1 .. activations)
  <2>1. runs \in Seq(1 .. activations)
    BY DEF TypeOK
  <2>2. WriteMetadata(runs, run) \in Seq(1 .. activations)
    BY <1>1, <2>1, WriteMetadataEntries
  <2>. QED BY <1>3, <2>2, RetainedEntries
<1>. QED BY <1>1, <1>3, <1>6, <1>7, <1>8, EndsType, PersistType DEF TypeOK, run

\* The variables keep their types.
LEMMA TypeStep ==
  ASSUME TypeOK, NumberIsGiven, [Next]_vars
  PROVE  TypeOK'
<1>1. CASE UNCHANGED vars
  BY <1>1 DEF vars, history, TypeOK
<1>2. ASSUME NEW p \in Procs, NEW t \in Tasks, NEW force \in BOOLEAN, RunTask(p, t, force)
      PROVE  TypeOK'
  BY <1>2, StartType DEF RunTask
<1>3. ASSUME NEW p \in Procs, ManualScan(p) PROVE TypeOK'
  BY <1>3, StartType, TaskAssumption DEF ManualScan
<1>4. ASSUME NEW p \in Procs, AcquireLock(p) PROVE TypeOK'
  BY <1>4 DEF AcquireLock, TypeOK, history
<1>5. ASSUME NEW p \in Procs, LockBusy(p) PROVE TypeOK'
  <2>1. Ends(p) /\ activations' = activations
    BY <1>5 DEF LockBusy
  <2>. QED BY <1>5, <2>1, EndsType DEF LockBusy, TypeOK, history
<1>6. ASSUME NEW p \in Procs, StateError(p) \/ SkipCompleted(p) \/ EndManualScan(p) \/ WriteFails(p)
      PROVE  TypeOK'
  <2>1. Ends(p) /\ activations' = activations /\ lock' = Nobody
    BY <1>6 DEF StateError, SkipCompleted, EndManualScan, WriteFails, Release
  <2>2. faults' \in 0..MaxFaults
    BY <1>6, FaultType DEF StateError, SkipCompleted, EndManualScan, WriteFails, TypeOK
  <2>3. UNCHANGED <<clock, file, readable, scanners, runs, history>>
    BY <1>6 DEF StateError, SkipCompleted, EndManualScan, WriteFails
  <2>. QED BY <2>1, <2>2, <2>3, EndsType DEF TypeOK, history
<1>7. ASSUME NEW p \in Procs, Collapse(p) PROVE TypeOK'
  <2>. DEFINE state == [Loaded(p) EXCEPT ![Task(p)] =
                          MarkCompleted(@, ThisSlot(p), job[p].now, None)]
  <2>1. state \in [Tasks -> TaskStates]
    BY LoadedType, SlotType, UpdateType
  <2>2. /\ Ends(p) /\ activations' = activations /\ lock' = Nobody
        /\ Persist(p, state)
        /\ done' = done \cup {<<Task(p), ThisSlot(p)>>}
        /\ late' = (late \/ IsLate(p))
        /\ UNCHANGED <<clock, scanners, runs, faults, tries, orphaned>>
    BY <1>7 DEF Collapse, Release
  <2>. HIDE DEF state
  <2>3. done' \subseteq SlotIds
    BY <2>2, SlotType DEF TypeOK
  <2>4. late' \in BOOLEAN
    BY <2>2
  <2>. QED BY <2>1, <2>2, <2>3, <2>4, EndsType, PersistType DEF TypeOK
<1>8. ASSUME NEW p \in Procs, Exhausted(p) PROVE TypeOK'
  <2>. DEFINE state == [Loaded(p) EXCEPT ![Task(p)] = MarkFailed(@, None)]
  <2>1. state \in [Tasks -> TaskStates]
    BY LoadedType, SlotType, UpdateType
  <2>2. /\ Ends(p) /\ activations' = activations /\ lock' = Nobody
        /\ Persist(p, state)
        /\ late' = (late \/ IsLate(p))
        /\ UNCHANGED <<clock, scanners, runs, faults, tries, done, orphaned>>
    BY <1>8 DEF Exhausted, Release
  <2>. HIDE DEF state
  <2>3. late' \in BOOLEAN
    BY <2>2
  <2>. QED BY <2>1, <2>2, <2>3, EndsType, PersistType DEF TypeOK
<1>9. ASSUME NEW p \in Procs, CountAttempt(p) PROVE TypeOK'
  <2>. DEFINE state == [Loaded(p) EXCEPT ![Task(p)] = Counted(@, job[p].now)]
  <2>1. state \in [Tasks -> TaskStates]
    BY LoadedType, SlotType, UpdateType
  <2>2. /\ mem' = [mem EXCEPT ![p] = state]
        /\ Persist(p, mem'[p])
        /\ late' = (late \/ IsLate(p))
        /\ pc' = [pc EXCEPT ![p] = "launch"]
        /\ UNCHANGED <<clock, lock, job, before, code, scanners, runs, activations,
                       faults, tries, done, orphaned>>
    BY <1>9 DEF CountAttempt
  <2>. HIDE DEF state
  <2>3. mem' \in [Procs -> [Tasks -> TaskStates]] /\ mem'[p] = state
    BY <2>1, <2>2 DEF TypeOK
  <2>4. late' \in BOOLEAN
    BY <2>2
  <2>5. pc' \in [Procs -> {"idle", "acquire", "decide", "launch", "scanning", "record"}]
    BY <2>2 DEF TypeOK
  <2>. QED BY <2>1, <2>2, <2>3, <2>4, <2>5, PersistType DEF TypeOK
<1>10. ASSUME NEW p \in Procs, BackupFails(p) PROVE TypeOK'
  <2>. DEFINE state == [mem[p] EXCEPT ![Daily] = MarkFailed(@, None)]
  <2>1. state \in [Tasks -> TaskStates]
    BY SlotType, UpdateType, TaskAssumption DEF TypeOK
  <2>2. /\ Ends(p) /\ activations' = activations /\ lock' = Nobody
        /\ Persist(p, state)
        /\ UNCHANGED <<clock, scanners, runs, tries, done, late, orphaned>>
    BY <1>10 DEF BackupFails, Release
  <2>. HIDE DEF state
  <2>3. faults' \in 0..MaxFaults
    BY <1>10, FaultType DEF BackupFails, TypeOK
  <2>. QED BY <2>1, <2>2, <2>3, EndsType, PersistType DEF TypeOK
<1>11. ASSUME NEW p \in Procs, Launch(p) PROVE TypeOK'
  <2>1. <<Task(p), ThisSlot(p)>> \in SlotIds /\ Task(p) \in Tasks
    BY SlotType
  <2>2. tries' \in [SlotIds -> Nat]
    <3>1. CASE job[p].force
      BY <1>11, <3>1 DEF Launch, TypeOK
    <3>2. CASE ~job[p].force
      BY <1>11, <3>2, <2>1 DEF Launch, TypeOK
    <3>. QED BY <3>1, <3>2
  <2>3. job[p].n \in 1..activations
    <3>1. job[p].n # 0
      BY <1>11 DEF Launch, NumberIsGiven
    <3>2. job[p].n \in 0..activations /\ activations \in Nat
      BY DEF TypeOK
    <3>. QED BY <3>1, <3>2
  <2>4. scanners' \subseteq [n : 1 .. activations, task : Tasks, published : BOOLEAN]
    <3>1. [n |-> job[p].n, task |-> Task(p), published |-> FALSE]
             \in [n : 1 .. activations, task : Tasks, published : BOOLEAN]
      BY <2>1, <2>3
    <3>2. scanners \subseteq [n : 1 .. activations, task : Tasks, published : BOOLEAN]
      BY DEF TypeOK
    <3>3. scanners' = scanners \cup {[n |-> job[p].n, task |-> Task(p), published |-> FALSE]}
      BY <1>11 DEF Launch
    <3>. QED BY <3>1, <3>2, <3>3
  <2>5. RunIds \in SUBSET (1 .. activations)
    BY DEF RunIds, TypeOK
  <2>6. before' \in [Procs -> SUBSET (1 .. activations)]
    BY <1>11, <2>5 DEF Launch, TypeOK
  <2>7. pc' \in [Procs -> {"idle", "acquire", "decide", "launch", "scanning", "record"}]
    BY <1>11 DEF Launch, TypeOK
  <2>. QED BY <1>11, <2>2, <2>4, <2>6, <2>7 DEF Launch, TypeOK
<1>12. ASSUME NEW p \in Procs, LaunchFails(p) PROVE TypeOK'
  <2>1. RunIds \in SUBSET (1 .. activations)
    BY DEF RunIds, TypeOK
  <2>2. before' \in [Procs -> SUBSET (1 .. activations)]
    BY <1>12, <2>1 DEF LaunchFails, TypeOK
  <2>3. faults' \in 0..MaxFaults
    BY <1>12, FaultType DEF LaunchFails, TypeOK
  <2>4. pc' \in [Procs -> {"idle", "acquire", "decide", "launch", "scanning", "record"}]
    BY <1>12 DEF LaunchFails, TypeOK
  <2>5. code' \in [Procs -> ExitCodes \cup {NotLaunched}]
    BY <1>12 DEF LaunchFails, TypeOK
  <2>. QED BY <1>12, <2>2, <2>3, <2>4, <2>5 DEF LaunchFails, TypeOK, history
<1>13. ASSUME NEW p \in Procs, Record(p) PROVE TypeOK'
  BY <1>13, RecordType
<1>14. ASSUME NEW p \in Procs, NEW scannerToo \in BOOLEAN, Dies(p, scannerToo) PROVE TypeOK'
  <2>1. Ends(p) /\ activations' = activations
    BY <1>14 DEF Dies
  <2>2. faults' \in 0..MaxFaults
    BY <1>14, FaultType DEF Dies, TypeOK
  <2>3. scanners' \subseteq scanners
    BY <1>14 DEF Dies
  <2>4. lock' \in Procs \cup {Nobody}
    BY <1>14 DEF Dies, TypeOK
  <2>5. orphaned' \in BOOLEAN
    BY <1>14 DEF Dies
  <2>6. UNCHANGED <<clock, file, readable, runs, truth, tries, done, late>>
    BY <1>14 DEF Dies
  <2>. QED BY <2>1, <2>2, <2>3, <2>4, <2>5, <2>6, EndsType DEF TypeOK
<1>15. ASSUME NEW s \in scanners, Publish(s) PROVE TypeOK'
  <2>1. s \in [n : 1 .. activations, task : Tasks, published : BOOLEAN]
    BY DEF TypeOK
  <2>2. [s EXCEPT !.published = TRUE] \in [n : 1 .. activations, task : Tasks, published : BOOLEAN]
    BY <2>1
  <2>3. scanners' \subseteq [n : 1 .. activations, task : Tasks, published : BOOLEAN]
    BY <1>15, <2>2 DEF Publish, TypeOK
  <2>4. runs' \in Seq(1 .. activations)
    BY <1>15, <2>1, AppendProperties DEF Publish, TypeOK
  <2>. QED BY <1>15, <2>3, <2>4 DEF Publish, TypeOK, history
<1>16. ASSUME NEW s \in scanners, NEW c \in ExitCodes, ScannerExits(s, c) PROVE TypeOK'
  <2>1. scanners' \subseteq scanners
    BY <1>16 DEF ScannerExits
  <2>2. pc' \in [Procs -> {"idle", "acquire", "decide", "launch", "scanning", "record"}]
    BY <1>16 DEF ScannerExits, TypeOK
  <2>3. code' \in [Procs -> ExitCodes \cup {NotLaunched}]
    BY <1>16 DEF ScannerExits, TypeOK
  <2>. QED BY <1>16, <2>1, <2>2, <2>3 DEF ScannerExits, TypeOK, history
<1>17. ASSUME Prune PROVE TypeOK'
  <2>1. runs' \in Seq(1 .. activations)
    BY <1>17, RetainedEntries DEF Prune, TypeOK
  <2>. QED BY <1>17, <2>1 DEF Prune, TypeOK, history
<1>18. ASSUME FileBreaks \/ FileRepaired \/ Tick PROVE TypeOK'
  <2>1. faults' \in 0..MaxFaults
    BY <1>18, FaultType DEF FileBreaks, FileRepaired, Tick, TypeOK
  <2>3. clock' \in 0..MaxTime
    BY <1>18, PolicyAssumption DEF FileBreaks, FileRepaired, Tick, TypeOK
  <2>4. readable' \in BOOLEAN
    BY <1>18 DEF FileBreaks, FileRepaired, Tick, TypeOK
  <2>2. /\ UNCHANGED <<file, lock, pc, job, mem, before, code, scanners, runs>>
        /\ UNCHANGED <<activations, history>>
    BY <1>18 DEF FileBreaks, FileRepaired, Tick
  <2>. QED BY <2>1, <2>2, <2>3, <2>4 DEF TypeOK, history
<1>. QED BY <1>1, <1>2, <1>3, <1>4, <1>5, <1>6, <1>7, <1>8, <1>9, <1>10, <1>11,
            <1>12, <1>13, <1>14, <1>15, <1>16, <1>17, <1>18 DEF Next


-----------------------------------------------------------------------------
(* The lock.                                                               *)

\* A process that ends, or that goes on within the block.
LEMMA EndsEffect ==
  ASSUME TypeOK, NEW p \in Procs, Ends(p)
  PROVE  /\ pc'[p] = "idle" /\ job'[p] = NoJob
         /\ \A q \in Procs : q # p => /\ pc'[q] = pc[q] /\ job'[q] = job[q]
                                      /\ mem'[q] = mem[q] /\ before'[q] = before[q]
                                      /\ code'[q] = code[q]
<1>1. pc'[p] = "idle" /\ \A q \in Procs : q # p => pc'[q] = pc[q]
  BY DEF Ends, TypeOK
<1>2. job'[p] = NoJob /\ \A q \in Procs : q # p => job'[q] = job[q]
  <2>1. p \in DOMAIN job /\ DOMAIN job = Procs
    BY DEF TypeOK
  <2>. QED BY <2>1, Zenon DEF Ends
<1>3. \A q \in Procs : q # p => mem'[q] = mem[q] /\ before'[q] = before[q] /\ code'[q] = code[q]
  BY DEF Ends, TypeOK
<1>. QED BY <1>1, <1>2, <1>3

\* A process that starts has its job, and the others keep theirs.
LEMMA StartEffect ==
  ASSUME TypeOK, NEW p \in Procs, NEW kind \in {"task", "manual"}, NEW t \in Tasks,
         NEW force \in BOOLEAN, Start(p, kind, t, force)
  PROVE  /\ pc[p] = "idle" /\ pc'[p] = "acquire"
         /\ job'[p].kind = kind /\ job'[p].force = force /\ job'[p].n = activations + 1
         /\ \A q \in Procs : q # p => pc'[q] = pc[q] /\ job'[q] = job[q]
<1>1. job' = [job EXCEPT ![p] = [kind |-> kind, task |-> t, force |-> force, now |-> clock,
                                 n |-> activations + 1]]
  BY DEF Start
<1>2. p \in DOMAIN job /\ DOMAIN job = Procs
  BY DEF TypeOK
<1>3. /\ job'[p] = [kind |-> kind, task |-> t, force |-> force, now |-> clock,
                    n |-> activations + 1]
      /\ \A q \in Procs : q # p => job'[q] = job[q]
  BY <1>1, <1>2, Zenon
<1>4. job'[p].kind = kind /\ job'[p].force = force /\ job'[p].n = activations + 1
  BY <1>3
<1>5. pc[p] = "idle" /\ pc'[p] = "acquire" /\ \A q \in Procs : q # p => pc'[q] = pc[q]
  BY DEF Start, TypeOK
<1>. QED BY <1>3, <1>4, <1>5

\* The jobs of the processes that go on inside, and the steps that leave the lock alone.
LEMMA JobStep ==
  ASSUME TypeOK, NumberIsGiven, JobIsKnown, [Next]_vars
  PROVE  NumberIsGiven' /\ JobIsKnown'
<1>. USE DEF NumberIsGiven, JobIsKnown
<1>1. ASSUME NEW p \in Procs, NEW kind \in {"task", "manual"}, NEW t \in Tasks,
             NEW force \in BOOLEAN, Start(p, kind, t, force), kind = "manual" => force = TRUE
      PROVE  NumberIsGiven' /\ JobIsKnown'
  <2>1. activations + 1 # 0
    BY DEF TypeOK
  <2>2. /\ pc'[p] = "acquire"
        /\ job'[p].kind = kind /\ job'[p].force = force /\ job'[p].n # 0
        /\ \A q \in Procs : q # p => pc'[q] = pc[q] /\ job'[q] = job[q]
    BY <1>1, <2>1, StartEffect
  <2>. QED BY <1>1, <2>2
<1>2. ASSUME NEW p \in Procs, Ends(p) PROVE NumberIsGiven' /\ JobIsKnown'
  <2>1. /\ pc'[p] = "idle" /\ job'[p] = NoJob
        /\ \A q \in Procs : q # p => pc'[q] = pc[q] /\ job'[q] = job[q]
    BY <1>2, EndsEffect
  <2>2. job'[p].kind = "none"
    BY <2>1 DEF NoJob
  <2>. QED BY <2>1, <2>2
<1>3. ASSUME NEW p \in Procs, AcquireLock(p) PROVE NumberIsGiven' /\ JobIsKnown'
  BY <1>3 DEF AcquireLock, TypeOK
<1>4. ASSUME NEW p \in Procs, CountAttempt(p) \/ Launch(p) \/ LaunchFails(p)
      PROVE  NumberIsGiven' /\ JobIsKnown'
  BY <1>4 DEF CountAttempt, Launch, LaunchFails, Decides, TypeOK
<1>5. ASSUME NEW s \in scanners, NEW c \in ExitCodes, ScannerExits(s, c)
      PROVE  NumberIsGiven' /\ JobIsKnown'
  BY <1>5 DEF ScannerExits, TypeOK
<1>6. CASE UNCHANGED <<pc, job>>
  BY <1>6
<1>7. ASSUME NEW s \in scanners, Publish(s) PROVE UNCHANGED <<pc, job>>
  BY <1>7 DEF Publish
<1>8. ASSUME Prune \/ FileBreaks \/ FileRepaired \/ Tick PROVE UNCHANGED <<pc, job>>
  BY <1>8 DEF Prune, FileBreaks, FileRepaired, Tick
<1>9. ASSUME NEW p \in Procs,
             \/ LockBusy(p) \/ StateError(p) \/ SkipCompleted(p) \/ Collapse(p) \/ Exhausted(p)
             \/ BackupFails(p) \/ Record(p) \/ EndManualScan(p) \/ WriteFails(p)
             \/ \E scannerToo \in BOOLEAN : Dies(p, scannerToo)
      PROVE  Ends(p)
  BY <1>9 DEF LockBusy, StateError, SkipCompleted, Collapse, Exhausted, BackupFails, Record,
              EndManualScan, WriteFails, Dies, Release
<1>10. ASSUME NEW p \in Procs, NEW t \in Tasks, NEW force \in BOOLEAN,
              RunTask(p, t, force) \/ ManualScan(p)
       PROVE  NumberIsGiven' /\ JobIsKnown'
  BY <1>1, <1>10, TaskAssumption DEF RunTask, ManualScan
<1>11. ASSUME UNCHANGED vars PROVE UNCHANGED <<pc, job>>
  BY <1>11 DEF vars
<1>. QED BY <1>2, <1>3, <1>4, <1>5, <1>6, <1>7, <1>8, <1>9, <1>10, <1>11, TaskAssumption DEF Next

\* The lock is taken before a process is inside, and it is freed as the process leaves.
LEMMA LockStep ==
  ASSUME TypeOK, HolderIsInside, [Next]_vars
  PROVE  HolderIsInside'
<1>. USE DEF HolderIsInside, Inside
<1>1. ASSUME NEW p \in Procs, NEW kind \in {"task", "manual"}, NEW t \in Tasks,
             NEW force \in BOOLEAN, Start(p, kind, t, force)
      PROVE  HolderIsInside'
  BY <1>1, StartEffect DEF Start
<1>2. ASSUME NEW p \in Procs, AcquireLock(p) PROVE HolderIsInside'
  <2>1. /\ \A q \in Procs : ~Inside(q)
        /\ lock' = p /\ pc'[p] \in {"decide", "launch"}
        /\ \A q \in Procs : q # p => pc'[q] = pc[q]
    BY <1>2, TaskAssumption DEF AcquireLock, TypeOK
  <2>. QED BY <2>1
<1>3. ASSUME NEW p \in Procs, LockBusy(p) PROVE HolderIsInside'
  <2>1. pc[p] = "acquire" /\ lock' = lock /\ Ends(p)
    BY <1>3 DEF LockBusy
  <2>. QED BY <2>1, EndsEffect
<1>4. ASSUME NEW p \in Procs, Inside(p), Release(p) PROVE HolderIsInside'
  <2>1. Ends(p) /\ lock' = Nobody /\ lock = p
    BY <1>4 DEF Release
  <2>. QED BY <2>1, EndsEffect, TaskAssumption
<1>5. ASSUME NEW p \in Procs,
             \/ StateError(p) \/ SkipCompleted(p) \/ Collapse(p) \/ Exhausted(p)
             \/ BackupFails(p) \/ Record(p) \/ EndManualScan(p) \/ WriteFails(p)
      PROVE  Inside(p) /\ Release(p)
  BY <1>5 DEF StateError, SkipCompleted, Collapse, Exhausted, BackupFails, Record,
              EndManualScan, WriteFails, Decides
<1>6. ASSUME NEW p \in Procs, CountAttempt(p) \/ Launch(p) \/ LaunchFails(p)
      PROVE  HolderIsInside'
  BY <1>6 DEF CountAttempt, Launch, LaunchFails, Decides, TypeOK
<1>7. ASSUME NEW s \in scanners, NEW c \in ExitCodes, ScannerExits(s, c) PROVE HolderIsInside'
  BY <1>7 DEF ScannerExits, TypeOK
<1>8. ASSUME NEW p \in Procs, NEW scannerToo \in BOOLEAN, Dies(p, scannerToo)
      PROVE  HolderIsInside'
  <2>1. Ends(p) /\ lock' = IF lock = p THEN Nobody ELSE lock
    BY <1>8 DEF Dies
  <2>. QED BY <2>1, EndsEffect, TaskAssumption
<1>9. CASE UNCHANGED <<pc, lock>>
  BY <1>9
<1>10. ASSUME \/ \E s \in scanners : Publish(s)
              \/ Prune \/ FileBreaks \/ FileRepaired \/ Tick
              \/ UNCHANGED vars
       PROVE  UNCHANGED <<pc, lock>>
  BY <1>10 DEF Publish, Prune, FileBreaks, FileRepaired, Tick, vars
<1>11. ASSUME NEW p \in Procs, NEW t \in Tasks, NEW force \in BOOLEAN,
              RunTask(p, t, force) \/ ManualScan(p)
       PROVE  HolderIsInside'
  BY <1>1, <1>11, TaskAssumption DEF RunTask, ManualScan
<1>. QED BY <1>2, <1>3, <1>4, <1>5, <1>6, <1>7, <1>8, <1>9, <1>10, <1>11, TaskAssumption
         DEF Next

-----------------------------------------------------------------------------
(* The state file.                                                         *)

\* No two processes are inside.
LEMMA OneInside ==
  ASSUME HolderIsInside, NEW p \in Procs, NEW q \in Procs, Inside(p), Inside(q)
  PROVE  p = q
BY DEF HolderIsInside

\* A process with the same job has the same slot.
LEMMA SameJob ==
  ASSUME NEW q, job'[q] = job[q]
  PROVE  Task(q)' = Task(q) /\ ThisSlot(q)' = ThisSlot(q)
BY DEF Task, ThisSlot, LatestSlot

\* While a process works on a task, its copy is the file and nobody else writes it.
LEMMA FileStep ==
  ASSUME TypeOK, HolderIsInside, JobIsKnown, MemoryIsCurrent, NoLostUpdate, [Next]_vars
  PROVE  MemoryIsCurrent' /\ NoLostUpdate'
<1>. USE DEF MemoryIsCurrent, NoLostUpdate
<1>1. ASSUME NEW p \in Procs, Inside(p), Ends(p) PROVE MemoryIsCurrent'
  <2>1. ASSUME NEW q \in Procs, Working(q)' PROVE FALSE
    <3>1. CASE q = p
      BY <1>1, <2>1, <3>1, EndsEffect DEF Working
    <3>2. CASE q # p
      <4>1. pc'[q] = pc[q]
        BY <1>1, <3>2, EndsEffect
      <4>2. Inside(q)
        BY <2>1, <4>1 DEF Working, Inside
      <4>. QED BY <1>1, <3>2, <4>2, OneInside
    <3>. QED BY <3>1, <3>2
  <2>. QED BY <2>1
<1>2. ASSUME NEW p \in Procs, NEW state \in [Tasks -> TaskStates], Persist(p, state),
             \A t \in Tasks : t # Task(p) => state[t] = file[t]
      PROVE  NoLostUpdate'
  <2>1. file \in [Tasks -> TaskStates] /\ truth \in [Tasks -> TaskStates]
    BY DEF TypeOK
  <2>2. file' = state /\ truth' = [truth EXCEPT ![Task(p)] = state[Task(p)]]
    BY <1>2 DEF Persist
  <2>3. \A t \in Tasks : truth'[t] = state[t]
    BY <1>2, <2>1, <2>2
  <2>. QED BY <2>1, <2>2, <2>3
<1>3. ASSUME NEW p \in Procs, Collapse(p) PROVE MemoryIsCurrent' /\ NoLostUpdate'
  <2>. DEFINE state == [Loaded(p) EXCEPT ![Task(p)] =
                          MarkCompleted(@, ThisSlot(p), job[p].now, None)]
  <2>1. /\ state \in [Tasks -> TaskStates]
        /\ \A t \in Tasks : t # Task(p) => state[t] = file[t]
    BY LoadedType, SlotType, UpdateType
  <2>2. Persist(p, state) /\ Ends(p) /\ Inside(p)
    BY <1>3 DEF Collapse, Release, Decides, Inside
  <2>. HIDE DEF state
  <2>. QED BY <1>1, <1>2, <2>1, <2>2
<1>4. ASSUME NEW p \in Procs, Exhausted(p) PROVE MemoryIsCurrent' /\ NoLostUpdate'
  <2>. DEFINE state == [Loaded(p) EXCEPT ![Task(p)] = MarkFailed(@, None)]
  <2>1. /\ state \in [Tasks -> TaskStates]
        /\ \A t \in Tasks : t # Task(p) => state[t] = file[t]
    BY LoadedType, SlotType, UpdateType
  <2>2. Persist(p, state) /\ Ends(p) /\ Inside(p)
    BY <1>4 DEF Exhausted, Release, Decides, Inside
  <2>. HIDE DEF state
  <2>. QED BY <1>1, <1>2, <2>1, <2>2
<1>5. ASSUME NEW p \in Procs, CountAttempt(p) PROVE MemoryIsCurrent' /\ NoLostUpdate'
  <2>. DEFINE state == [Loaded(p) EXCEPT ![Task(p)] = Counted(@, job[p].now)]
  <2>1. /\ state \in [Tasks -> TaskStates]
        /\ \A t \in Tasks : t # Task(p) => state[t] = file[t]
    BY LoadedType, SlotType, UpdateType
  <2>2. state[Task(p)].slot = ThisSlot(p)
    <3>1. /\ Loaded(p)[Task(p)] \in TaskStates /\ Loaded(p)[Task(p)].slot = ThisSlot(p)
          /\ Task(p) \in Tasks /\ job[p].now \in 0..MaxTime
      BY LoadedType, SlotType
    <3>2. None \in {None} \cup (1 .. MaxActivations) /\ ThisSlot(p) \in 0..MaxTime
      BY SlotType
    <3>3. Counted(Loaded(p)[Task(p)], job[p].now).slot = ThisSlot(p)
      BY <3>1, <3>2, TaskStateType
    <3>4. state[Task(p)] = Counted(Loaded(p)[Task(p)], job[p].now)
      BY <3>1, LoadedType
    <3>. QED BY <3>3, <3>4
  <2>3. /\ mem' = [mem EXCEPT ![p] = state] /\ Persist(p, mem'[p])
        /\ job' = job /\ pc[p] = "decide" /\ pc' = [pc EXCEPT ![p] = "launch"]
    BY <1>5 DEF CountAttempt, Decides
  <2>. HIDE DEF state
  <2>4. mem'[p] = state
    BY <2>3 DEF TypeOK
  <2>5. NoLostUpdate'
    BY <1>2, <2>1, <2>3, <2>4
  <2>6. file' = state
    BY <2>3, <2>4 DEF Persist
  <2>7. ASSUME NEW q \in Procs, Working(q)'
        PROVE  mem'[q] = file' /\ file'[Task(q)'].slot = ThisSlot(q)'
    <3>1. CASE q = p
      BY <2>2, <2>3, <2>4, <2>6, <3>1, SameJob
    <3>2. CASE q # p
      <4>1. Inside(q) /\ Inside(p)
        BY <2>3, <2>7, <3>2 DEF Inside, Working, TypeOK
      <4>. QED BY <3>2, <4>1, OneInside
    <3>. QED BY <3>1, <3>2
  <2>. QED BY <2>5, <2>7
<1>6. ASSUME NEW p \in Procs, BackupFails(p) PROVE MemoryIsCurrent' /\ NoLostUpdate'
  <2>. DEFINE state == [mem[p] EXCEPT ![Daily] = MarkFailed(@, None)]
  <2>1. mem[p] = file /\ Task(p) = Daily
    BY <1>6 DEF BackupFails, Working
  <2>2. state \in [Tasks -> TaskStates]
    BY SlotType, UpdateType, TaskAssumption DEF TypeOK
  <2>3. \A t \in Tasks : t # Task(p) => state[t] = file[t]
    BY <2>1 DEF TypeOK
  <2>4. Persist(p, state) /\ Ends(p) /\ Inside(p)
    BY <1>6 DEF BackupFails, Release, Inside
  <2>. HIDE DEF state
  <2>. QED BY <1>1, <1>2, <2>2, <2>3, <2>4
<1>7. ASSUME NEW p \in Procs, Record(p) PROVE MemoryIsCurrent' /\ NoLostUpdate'
  <2>. DEFINE run == FindNewRun(p)
              new == IF Succeeds(p, run) THEN MarkCompleted(mem[p][Task(p)], ThisSlot(p), clock, run)
                     ELSE MarkFailed(mem[p][Task(p)], run)
              state == [mem[p] EXCEPT ![Task(p)] = new]
  <2>1. mem[p] = file
    BY <1>7 DEF Record, Working
  <2>2. Persist(p, state) /\ Ends(p) /\ Inside(p)
    BY <1>7 DEF Record, Release, Inside
  <2>. HIDE DEF new
  <2>3. \A t \in Tasks : t # Task(p) => state[t] = file[t]
    BY <2>1 DEF TypeOK
  <2>4. state \in [Tasks -> TaskStates]
    <3>1. file' \in [Tasks -> TaskStates]
      BY <1>7, RecordType DEF TypeOK
    <3>. QED BY <2>2, <3>1 DEF Persist
  <2>. HIDE DEF state
  <2>. QED BY <1>1, <1>2, <2>2, <2>3, <2>4
<1>8. CASE /\ UNCHANGED <<file, truth>>
           /\ \A q \in Procs : Working(q)' => Working(q) /\ mem'[q] = mem[q] /\ job'[q] = job[q]
  BY <1>8, SameJob
<1>9. ASSUME NEW p \in Procs, NEW kind \in {"task", "manual"}, NEW t \in Tasks,
             NEW force \in BOOLEAN, Start(p, kind, t, force)
      PROVE  MemoryIsCurrent' /\ NoLostUpdate'
  <2>1. \A q \in Procs : Working(q)' => Working(q) /\ mem'[q] = mem[q] /\ job'[q] = job[q]
    BY <1>9, StartEffect DEF Start, Working
  <2>. QED BY <1>8, <1>9, <2>1 DEF Start, history
<1>10. ASSUME NEW p \in Procs, AcquireLock(p) PROVE MemoryIsCurrent' /\ NoLostUpdate'
  <2>1. \A q \in Procs : Working(q)' => Working(q) /\ mem'[q] = mem[q] /\ job'[q] = job[q]
    BY <1>10 DEF AcquireLock, Working, TypeOK
  <2>. QED BY <1>8, <1>10, <2>1 DEF AcquireLock, history
<1>11. ASSUME NEW p \in Procs, Ends(p), UNCHANGED <<file, truth>>
       PROVE  MemoryIsCurrent' /\ NoLostUpdate'
  <2>1. \A q \in Procs : Working(q)' => Working(q) /\ mem'[q] = mem[q] /\ job'[q] = job[q]
    BY <1>11, EndsEffect DEF Working
  <2>. QED BY <1>8, <1>11, <2>1
<1>12. ASSUME NEW p \in Procs,
              \/ LockBusy(p) \/ StateError(p) \/ SkipCompleted(p) \/ EndManualScan(p)
              \/ WriteFails(p) \/ \E scannerToo \in BOOLEAN : Dies(p, scannerToo)
       PROVE  Ends(p) /\ UNCHANGED <<file, truth>>
  BY <1>12 DEF LockBusy, StateError, SkipCompleted, EndManualScan, WriteFails, Dies, Release,
               history
<1>13. ASSUME NEW p \in Procs, Launch(p) \/ LaunchFails(p)
       PROVE  MemoryIsCurrent' /\ NoLostUpdate'
  <2>1. \A q \in Procs : Working(q)' => Working(q) /\ mem'[q] = mem[q] /\ job'[q] = job[q]
    BY <1>13 DEF Launch, LaunchFails, Working, TypeOK
  <2>. QED BY <1>8, <1>13, <2>1 DEF Launch, LaunchFails, history
<1>14. ASSUME NEW s \in scanners, NEW c \in ExitCodes, ScannerExits(s, c)
       PROVE  MemoryIsCurrent' /\ NoLostUpdate'
  <2>1. \A q \in Procs : Working(q)' => Working(q) /\ mem'[q] = mem[q] /\ job'[q] = job[q]
    BY <1>14 DEF ScannerExits, Working, TypeOK
  <2>. QED BY <1>8, <1>14, <2>1 DEF ScannerExits, history
<1>15. CASE UNCHANGED <<file, truth, pc, job, mem>>
  BY <1>8, <1>15 DEF Working
<1>16. ASSUME \/ \E s \in scanners : Publish(s)
              \/ Prune \/ FileBreaks \/ FileRepaired \/ Tick
              \/ UNCHANGED vars
       PROVE  UNCHANGED <<file, truth, pc, job, mem>>
  BY <1>16 DEF Publish, Prune, FileBreaks, FileRepaired, Tick, vars, history
<1>17. ASSUME NEW p \in Procs, NEW t \in Tasks, NEW force \in BOOLEAN,
              RunTask(p, t, force) \/ ManualScan(p)
       PROVE  MemoryIsCurrent' /\ NoLostUpdate'
  BY <1>9, <1>17, TaskAssumption DEF RunTask, ManualScan
<1>. QED BY <1>3, <1>4, <1>5, <1>6, <1>7, <1>10, <1>11, <1>12, <1>13, <1>14,
            <1>15, <1>16, <1>17, TaskAssumption DEF Next

-----------------------------------------------------------------------------
(* The scanner.                                                            *)

\* When a process inside ends, nobody is inside.
LEMMA EndsInside ==
  ASSUME TypeOK, HolderIsInside, NEW p \in Procs, Inside(p), Ends(p)
  PROVE  \A q \in Procs : ~Inside(q)'
<1>1. ASSUME NEW q \in Procs, Inside(q)' PROVE FALSE
  <2>1. CASE q = p
    BY <1>1, <2>1, EndsEffect DEF Inside
  <2>2. CASE q # p
    <3>1. Inside(q)
      BY <1>1, <2>2, EndsEffect DEF Inside
    <3>. QED BY <2>2, <3>1, OneInside
  <2>. QED BY <2>1, <2>2
<1>. QED BY <1>1

\* A scanner runs only while a process waits for it, which is inside alone; so a scanner
\* is launched when there is none.
LEMMA ScannerStep ==
  ASSUME TypeOK, HolderIsInside, ScannerIsAwaited, [Next]_vars
  PROVE  ScannerIsAwaited'
<1>. USE DEF ScannerIsAwaited
<1>1. CASE /\ scanners' \subseteq scanners
           /\ orphaned' = orphaned
           /\ \A q \in Procs : pc[q] = "scanning" => pc'[q] = "scanning" /\ job'[q] = job[q]
  BY <1>1
<1>2. ASSUME NEW p \in Procs, NEW kind \in {"task", "manual"}, NEW t \in Tasks,
             NEW force \in BOOLEAN, Start(p, kind, t, force)
      PROVE  ScannerIsAwaited'
  <2>1. \A q \in Procs : pc[q] = "scanning" => pc'[q] = "scanning" /\ job'[q] = job[q]
    BY <1>2, StartEffect
  <2>. QED BY <1>1, <1>2, <2>1 DEF Start, history
<1>3. ASSUME NEW p \in Procs, pc[p] # "scanning", Ends(p), UNCHANGED <<scanners, orphaned>>
      PROVE  ScannerIsAwaited'
  <2>1. \A q \in Procs : pc[q] = "scanning" => pc'[q] = "scanning" /\ job'[q] = job[q]
    BY <1>3, EndsEffect
  <2>. QED BY <1>1, <1>3, <2>1
<1>4. ASSUME NEW p \in Procs,
             \/ LockBusy(p) \/ StateError(p) \/ SkipCompleted(p) \/ Collapse(p) \/ Exhausted(p)
             \/ BackupFails(p) \/ Record(p) \/ EndManualScan(p) \/ WriteFails(p)
      PROVE  pc[p] # "scanning" /\ Ends(p) /\ UNCHANGED <<scanners, orphaned>>
  BY <1>4 DEF LockBusy, StateError, SkipCompleted, Collapse, Exhausted, BackupFails, Record,
              EndManualScan, WriteFails, Decides, Release, history
<1>5. ASSUME NEW p \in Procs, AcquireLock(p) \/ CountAttempt(p) \/ LaunchFails(p)
      PROVE  ScannerIsAwaited'
  <2>1. \A q \in Procs : pc[q] = "scanning" => pc'[q] = "scanning" /\ job'[q] = job[q]
    BY <1>5 DEF AcquireLock, CountAttempt, LaunchFails, Decides, TypeOK
  <2>. QED BY <1>1, <1>5, <2>1 DEF AcquireLock, CountAttempt, LaunchFails, history
<1>6. ASSUME NEW p \in Procs, Launch(p) PROVE ScannerIsAwaited'
  <2>. SUFFICES ASSUME ~orphaned PROVE ScannerIsAwaited'
    BY <1>6 DEF Launch
  <2>1. scanners = {}
    <3>1. ASSUME NEW s \in scanners PROVE FALSE
      <4>1. PICK q \in Procs : pc[q] = "scanning" /\ job[q].n = s.n
        OBVIOUS
      <4>2. pc[p] = "launch"
        BY <1>6 DEF Launch
      <4>. QED BY <4>1, <4>2, OneInside DEF Inside
    <3>. QED BY <3>1
  <2>2. scanners' = {[n |-> job[p].n, task |-> Task(p), published |-> FALSE]}
    BY <1>6, <2>1 DEF Launch
  <2>3. pc'[p] = "scanning" /\ job'[p] = job[p]
    BY <1>6 DEF Launch, TypeOK
  <2>. QED BY <2>2, <2>3
<1>7. ASSUME NEW p \in Procs, NEW scannerToo \in BOOLEAN, Dies(p, scannerToo)
      PROVE  ScannerIsAwaited'
  <2>. SUFFICES ASSUME ~orphaned, pc[p] # "scanning" \/ scannerToo PROVE ScannerIsAwaited'
    BY <1>7 DEF Dies
  <2>1. \A q \in Procs : q # p => pc'[q] = pc[q] /\ job'[q] = job[q]
    BY <1>7, EndsEffect DEF Dies
  <2>2. /\ scanners' \subseteq scanners
        /\ \A s \in scanners' : pc[p] = "scanning" => s.n # job[p].n
    BY <1>7 DEF Dies
  <2>3. ASSUME NEW s \in scanners' PROVE \E q \in Procs : pc'[q] = "scanning" /\ job'[q].n = s.n
    <3>1. PICK q \in Procs : pc[q] = "scanning" /\ job[q].n = s.n
      BY <2>2
    <3>2. q # p
      BY <2>2, <3>1
    <3>. QED BY <2>1, <3>1, <3>2
  <2>. QED BY <2>2, <2>3
<1>8. ASSUME NEW s \in scanners, Publish(s) PROVE ScannerIsAwaited'
  <2>. SUFFICES ASSUME ~orphaned PROVE ScannerIsAwaited'
    BY <1>8 DEF Publish, history
  <2>1. scanners = {s}
    OBVIOUS
  <2>2. scanners' = {[s EXCEPT !.published = TRUE]}
    BY <1>8, <2>1 DEF Publish
  <2>3. [s EXCEPT !.published = TRUE].n = s.n
    BY DEF TypeOK
  <2>4. PICK q \in Procs : pc[q] = "scanning" /\ job[q].n = s.n
    OBVIOUS
  <2>5. pc' = pc /\ job' = job
    BY <1>8 DEF Publish
  <2>. QED BY <2>2, <2>3, <2>4, <2>5
<1>9. ASSUME NEW s \in scanners, NEW c \in ExitCodes, ScannerExits(s, c)
      PROVE  ScannerIsAwaited'
  <2>. SUFFICES ASSUME ~orphaned PROVE ScannerIsAwaited'
    BY <1>9 DEF ScannerExits, history
  <2>1. scanners' = {}
    BY <1>9 DEF ScannerExits
  <2>. QED BY <2>1
<1>10. ASSUME Prune \/ FileBreaks \/ FileRepaired \/ Tick \/ UNCHANGED vars
       PROVE  UNCHANGED <<pc, job, scanners, orphaned>>
  BY <1>10 DEF Prune, FileBreaks, FileRepaired, Tick, vars, history
<1>11. CASE UNCHANGED <<pc, job, scanners, orphaned>>
  BY <1>1, <1>11
<1>12. ASSUME NEW p \in Procs, NEW t \in Tasks, NEW force \in BOOLEAN,
              RunTask(p, t, force) \/ ManualScan(p)
       PROVE  ScannerIsAwaited'
  BY <1>2, <1>12, TaskAssumption DEF RunTask, ManualScan
<1>. QED BY <1>3, <1>4, <1>5, <1>6, <1>7, <1>8, <1>9, <1>10, <1>11, <1>12, TaskAssumption
         DEF Next

\* A run appears only by the scanner that the process inside waits for.
LEMMA NewRunStep ==
  ASSUME TypeOK, HolderIsInside, ScannerIsAwaited, NewRunIsOwn, [Next]_vars
  PROVE  NewRunIsOwn'
<1>. USE DEF NewRunIsOwn
<1>1. CASE \A q \in Procs : ~Inside(q)'
  BY <1>1 DEF Inside
<1>2. CASE /\ \A i \in DOMAIN runs' : \E k \in DOMAIN runs : runs'[i] = runs[k]
           /\ ~orphaned' => ~orphaned
           /\ \A q \in Procs : pc'[q] \in {"scanning", "record"} =>
                 /\ pc[q] \in {"scanning", "record"}
                 /\ before'[q] = before[q] /\ job'[q] = job[q]
  BY <1>2
<1>3. ASSUME NEW p \in Procs, NEW kind \in {"task", "manual"}, NEW t \in Tasks,
             NEW force \in BOOLEAN, Start(p, kind, t, force)
      PROVE  NewRunIsOwn'
  <2>1. \A q \in Procs : pc'[q] \in {"scanning", "record"} =>
           pc[q] \in {"scanning", "record"} /\ job'[q] = job[q]
    BY <1>3, StartEffect
  <2>. QED BY <1>2, <1>3, <2>1 DEF Start, history
<1>4. ASSUME NEW p \in Procs, AcquireLock(p) \/ CountAttempt(p) PROVE NewRunIsOwn'
  <2>1. \A q \in Procs : pc'[q] \in {"scanning", "record"} => pc[q] \in {"scanning", "record"}
    BY <1>4 DEF AcquireLock, CountAttempt, TypeOK
  <2>. QED BY <1>2, <1>4, <2>1 DEF AcquireLock, CountAttempt, history
<1>5. ASSUME NEW p \in Procs, Ends(p), UNCHANGED runs, ~orphaned' => ~orphaned
      PROVE  NewRunIsOwn'
  <2>1. \A q \in Procs : pc'[q] \in {"scanning", "record"} =>
           /\ pc[q] \in {"scanning", "record"}
           /\ before'[q] = before[q] /\ job'[q] = job[q]
    BY <1>5, EndsEffect
  <2>. QED BY <1>2, <1>5, <2>1
<1>6. ASSUME NEW p \in Procs,
             \/ LockBusy(p) \/ StateError(p) \/ SkipCompleted(p) \/ Collapse(p) \/ Exhausted(p)
             \/ BackupFails(p) \/ EndManualScan(p) \/ WriteFails(p)
      PROVE  Ends(p) /\ UNCHANGED runs /\ (~orphaned' => ~orphaned)
  BY <1>6 DEF LockBusy, StateError, SkipCompleted, Collapse, Exhausted, BackupFails,
              EndManualScan, WriteFails, Release, history
<1>15. ASSUME NEW p \in Procs, NEW scannerToo \in BOOLEAN, Dies(p, scannerToo)
       PROVE  Ends(p) /\ UNCHANGED runs /\ (~orphaned' => ~orphaned)
  BY <1>15 DEF Dies
<1>7. ASSUME NEW p \in Procs, Record(p) PROVE NewRunIsOwn'
  <2>1. Inside(p) /\ Ends(p)
    BY <1>7 DEF Record, Inside, Release
  <2>. QED BY <1>1, <2>1, EndsInside
<1>8. ASSUME NEW p \in Procs, Launch(p) \/ LaunchFails(p) PROVE NewRunIsOwn'
  <2>1. /\ pc[p] = "launch" /\ before'[p] = RunIds /\ runs' = runs
        /\ \A q \in Procs : q # p => pc'[q] = pc[q]
    BY <1>8 DEF Launch, LaunchFails, TypeOK
  <2>2. ASSUME NEW q \in Procs, q # p, pc'[q] \in {"scanning", "record"} PROVE FALSE
    BY <2>1, <2>2, OneInside DEF Inside
  <2>3. \A i \in DOMAIN runs' : runs'[i] \in before'[p]
    BY <2>1 DEF RunIds
  <2>. QED BY <2>2, <2>3
<1>9. ASSUME NEW s \in scanners, Publish(s) PROVE NewRunIsOwn'
  <2>. SUFFICES ASSUME ~orphaned, NEW p \in Procs, pc[p] \in {"scanning", "record"},
                       NEW i \in DOMAIN runs'
                PROVE  runs'[i] \in before[p] \cup {job[p].n}
    BY <1>9 DEF Publish, history
  <2>1. PICK q \in Procs : pc[q] = "scanning" /\ job[q].n = s.n
    BY DEF ScannerIsAwaited
  <2>2. p = q
    BY <2>1, OneInside DEF Inside
  <2>3. runs \in Seq(1..activations) /\ s.n \in 1..activations /\ runs' = Append(runs, s.n)
    BY <1>9 DEF Publish, TypeOK
  <2>4. runs'[i] = s.n \/ \E k \in DOMAIN runs : runs'[i] = runs[k]
    BY <2>3, AppendProperties
  <2>. QED BY <2>1, <2>2, <2>4
<1>10. ASSUME NEW s \in scanners, NEW c \in ExitCodes, ScannerExits(s, c)
       PROVE  NewRunIsOwn'
  <2>1. \A q \in Procs : pc'[q] \in {"scanning", "record"} => pc[q] \in {"scanning", "record"}
    BY <1>10 DEF ScannerExits, TypeOK
  <2>. QED BY <1>2, <1>10, <2>1 DEF ScannerExits, history
<1>11. ASSUME Prune PROVE NewRunIsOwn'
  <2>1. runs \in Seq(1..activations)
    BY DEF TypeOK
  <2>2. \A i \in DOMAIN runs' : \E k \in DOMAIN runs : runs'[i] = runs[k]
    BY <1>11, <2>1, RetainedEntries DEF Prune
  <2>. QED BY <1>2, <1>11, <2>2 DEF Prune, history
<1>12. ASSUME FileBreaks \/ FileRepaired \/ Tick \/ UNCHANGED vars
       PROVE  UNCHANGED <<pc, job, before, runs, orphaned>>
  BY <1>12 DEF FileBreaks, FileRepaired, Tick, vars, history
<1>13. CASE UNCHANGED <<pc, job, before, runs, orphaned>>
  BY <1>2, <1>13
<1>14. ASSUME NEW p \in Procs, NEW t \in Tasks, NEW force \in BOOLEAN,
              RunTask(p, t, force) \/ ManualScan(p)
       PROVE  NewRunIsOwn'
  BY <1>3, <1>14, TaskAssumption DEF RunTask, ManualScan
<1>. QED BY <1>4, <1>5, <1>6, <1>7, <1>8, <1>9, <1>10, <1>11, <1>12, <1>13, <1>14,
            <1>15, TaskAssumption DEF Next

\* With an awaited scanner there is no second one.
LEMMA AwaitedIsOne == ScannerIsAwaited => OneScanner
<1>. SUFFICES ASSUME ScannerIsAwaited, ~orphaned PROVE ~(Cardinality(scanners) > 1)
  BY DEF OneScanner
<1>1. CASE scanners = {}
  BY <1>1, FS_EmptySet
<1>2. CASE scanners # {}
  <2>1. PICK s \in scanners : TRUE
    BY <1>2
  <2>2. scanners = {s}
    BY <2>1 DEF ScannerIsAwaited
  <2>3. Cardinality({s}) = 1
    BY FS_Singleton
  <2>. QED BY <2>2, <2>3
<1>. QED BY <1>1, <1>2

\* The file of a discovery is changed by Record alone while a process is about to record.
LEMMA RecordStep ==
  ASSUME TypeOK, HolderIsInside, NewRunIsOwn, [Next]_vars,
         NEW p \in Procs, pc[p] = "record", Task(p) = Daily, file' # file, ~orphaned
  PROVE  /\ file'[Daily].run \in {mem[p][Daily].run, job[p].n}
         /\ file'[Daily].completed # mem[p][Daily].completed => file'[Daily].run = job[p].n
<1>1. Record(p)
  <2>1. ASSUME NEW q \in Procs,
               \/ Collapse(q) \/ Exhausted(q) \/ CountAttempt(q) \/ BackupFails(q)
        PROVE  FALSE
    <3>1. Inside(q) /\ pc[q] # "record"
      BY <2>1 DEF Collapse, Exhausted, CountAttempt, BackupFails, Decides, Inside
    <3>. QED BY <3>1, OneInside DEF Inside
  <2>2. ASSUME NEW q \in Procs, Record(q) PROVE q = p
    BY <2>2, OneInside DEF Record, Inside
  <2>3. ASSUME NEW q \in Procs,
               \/ \E t \in Tasks, force \in BOOLEAN : RunTask(q, t, force)
               \/ ManualScan(q) \/ AcquireLock(q) \/ LockBusy(q) \/ StateError(q)
               \/ SkipCompleted(q) \/ Launch(q) \/ LaunchFails(q) \/ EndManualScan(q)
               \/ WriteFails(q) \/ \E scannerToo \in BOOLEAN : Dies(q, scannerToo)
        PROVE  file' = file
    BY <2>3 DEF RunTask, ManualScan, Start, AcquireLock, LockBusy, StateError, SkipCompleted,
                Launch, LaunchFails, EndManualScan, WriteFails, Dies
  <2>4. ASSUME \/ \E s \in scanners : \/ Publish(s)
                                      \/ \E c \in ExitCodes : ScannerExits(s, c)
               \/ Prune \/ FileBreaks \/ FileRepaired \/ Tick \/ UNCHANGED vars
        PROVE  file' = file
    BY <2>4 DEF Publish, ScannerExits, Prune, FileBreaks, FileRepaired, Tick, vars
  <2>. QED BY <2>1, <2>2, <2>3, <2>4 DEF Next
<1>. DEFINE run == FindNewRun(p)
            old == mem[p][Daily]
            new == IF Succeeds(p, run) THEN MarkCompleted(old, ThisSlot(p), clock, run)
                   ELSE MarkFailed(old, run)
<1>2. run = None \/ run = job[p].n
  <2>1. runs \in Seq(1..activations)
    BY DEF TypeOK
  <2>. QED BY <2>1, NewRunIsFound DEF NewRunIsOwn
<1>3. old \in TaskStates /\ mem[p] \in [Tasks -> TaskStates]
  BY TaskAssumption DEF TypeOK
<1>4. file' = [mem[p] EXCEPT ![Daily] = new]
  BY <1>1 DEF Record, Persist
<1>5. file'[Daily] = new
  BY <1>3, <1>4, TaskAssumption
<1>6. CASE Succeeds(p, run)
  <2>1. run = job[p].n /\ run # None
    BY <1>2, <1>6 DEF Succeeds
  <2>2. new.run = run
    BY <1>3, <1>6, <2>1 DEF MarkCompleted, TaskStates
  <2>. QED BY <1>5, <2>1, <2>2
<1>7. CASE ~Succeeds(p, run)
  <2>1. new = MarkFailed(old, run)
    BY <1>7
  <2>2. new.completed = old.completed /\ new.run = IF run = None THEN old.run ELSE run
    BY <1>3, <2>1 DEF MarkFailed, TaskStates
  <2>. QED BY <1>2, <1>5, <2>2
<1>. QED BY <1>6, <1>7

-----------------------------------------------------------------------------
(* The budget of a slot, and its completion.                               *)

\* A decision that is written turns the file to the slot of its process: a new slot
\* starts without attempts, and only a collapsed one is completed.
LEMMA DecisionEffect ==
  ASSUME TypeOK, NEW p \in Procs, Collapse(p) \/ Exhausted(p) \/ CountAttempt(p)
  PROVE  /\ Inside(p) /\ (CountAttempt(p) \/ Ends(p))
         /\ late' = (late \/ IsLate(p)) /\ tries' = tries
         /\ \A t \in Tasks : t # Task(p) => file'[t] = file[t]
         /\ file'[Task(p)].slot = ThisSlot(p)
         /\ file'[Task(p)].attempts =
               IF CountAttempt(p) THEN Loaded(p)[Task(p)].attempts + 1
               ELSE Loaded(p)[Task(p)].attempts
         /\ file'[Task(p)].completed =
               IF Collapse(p) THEN ThisSlot(p) ELSE file[Task(p)].completed
<1>. DEFINE s == Loaded(p)[Task(p)]
<1>1. /\ Loaded(p) \in [Tasks -> TaskStates] /\ Task(p) \in Tasks
      /\ s \in TaskStates /\ s.slot = ThisSlot(p) /\ s.completed = file[Task(p)].completed
      /\ ThisSlot(p) \in 0..MaxTime /\ job[p].now \in 0..MaxTime
      /\ \A t \in Tasks : t # Task(p) => Loaded(p)[t] = file[t]
      /\ None \in {None} \cup (1 .. MaxActivations)
  BY LoadedType, SlotType
<1>2. CASE Collapse(p)
  <2>. DEFINE new == MarkCompleted(s, ThisSlot(p), job[p].now, None)
  <2>1. new.slot = ThisSlot(p) /\ new.attempts = s.attempts /\ new.completed = ThisSlot(p)
    BY <1>1, TaskStateType
  <2>2. file' = [Loaded(p) EXCEPT ![Task(p)] = new]
    BY <1>2 DEF Collapse, Persist
  <2>3. file'[Task(p)] = new /\ \A t \in Tasks : t # Task(p) => file'[t] = file[t]
    BY <1>1, <2>2
  <2>4. Inside(p) /\ Ends(p) /\ late' = (late \/ IsLate(p)) /\ tries' = tries
    BY <1>2 DEF Collapse, Decides, Inside, Release
  <2>5. ~CountAttempt(p)
    BY <1>2 DEF Collapse, CountAttempt
  <2>. HIDE DEF new
  <2>. QED BY <1>2, <2>1, <2>3, <2>4, <2>5
<1>3. CASE Exhausted(p)
  <2>. DEFINE new == MarkFailed(s, None)
  <2>1. new.slot = ThisSlot(p) /\ new.attempts = s.attempts
        /\ new.completed = file[Task(p)].completed
    BY <1>1, TaskStateType
  <2>2. file' = [Loaded(p) EXCEPT ![Task(p)] = new]
    BY <1>3 DEF Exhausted, Persist
  <2>3. file'[Task(p)] = new /\ \A t \in Tasks : t # Task(p) => file'[t] = file[t]
    BY <1>1, <2>2
  <2>4. Inside(p) /\ Ends(p) /\ late' = (late \/ IsLate(p)) /\ tries' = tries
    BY <1>3 DEF Exhausted, Decides, Inside, Release
  <2>5. ~CountAttempt(p) /\ ~Collapse(p)
    BY <1>3 DEF Collapse, CountAttempt, Exhausted
  <2>. HIDE DEF new
  <2>. QED BY <2>1, <2>3, <2>4, <2>5
<1>4. CASE CountAttempt(p)
  <2>. DEFINE new == Counted(s, job[p].now)
  <2>1. new.slot = ThisSlot(p) /\ new.attempts = s.attempts + 1
        /\ new.completed = file[Task(p)].completed
    BY <1>1, TaskStateType
  <2>2. file' = [Loaded(p) EXCEPT ![Task(p)] = new]
    BY <1>4 DEF CountAttempt, Persist, TypeOK
  <2>3. file'[Task(p)] = new /\ \A t \in Tasks : t # Task(p) => file'[t] = file[t]
    BY <1>1, <2>2
  <2>4. Inside(p) /\ late' = (late \/ IsLate(p)) /\ tries' = tries
    BY <1>4 DEF CountAttempt, Decides, Inside
  <2>5. ~Collapse(p)
    BY <1>4 DEF Collapse, CountAttempt
  <2>. HIDE DEF new
  <2>. QED BY <1>4, <2>1, <2>3, <2>4, <2>5
<1>. QED BY <1>2, <1>3, <1>4

\* An outcome that is written leaves the slot and its attempts; a success completes it.
LEMMA OutcomeEffect ==
  ASSUME TypeOK, JobIsKnown, MemoryIsCurrent, NEW p \in Procs, BackupFails(p) \/ Record(p)
  PROVE  /\ Inside(p) /\ Ends(p)
         /\ late' = late /\ tries' = tries
         /\ \A t \in Tasks : t # Task(p) => file'[t] = file[t]
         /\ file[Task(p)].slot = ThisSlot(p)
         /\ file'[Task(p)].slot = file[Task(p)].slot
         /\ file'[Task(p)].attempts = file[Task(p)].attempts
         /\ \/ file'[Task(p)].completed = file[Task(p)].completed /\ done' = done
            \/ /\ file'[Task(p)].completed = ThisSlot(p)
               /\ done' = done \cup {<<Task(p), ThisSlot(p)>>}
<1>. DEFINE s == file[Task(p)]
<1>1. /\ file \in [Tasks -> TaskStates] /\ Task(p) \in Tasks /\ s \in TaskStates
      /\ ThisSlot(p) \in 0..MaxTime /\ clock \in 0..MaxTime
      /\ None \in {None} \cup (1 .. MaxActivations)
  BY SlotType DEF TypeOK
<1>2. mem[p] = file /\ s.slot = ThisSlot(p)
  BY DEF MemoryIsCurrent, Working, BackupFails, Record
<1>3. Inside(p) /\ Ends(p) /\ late' = late /\ tries' = tries
  BY DEF BackupFails, Record, Release, Inside
<1>4. CASE BackupFails(p)
  <2>. DEFINE new == MarkFailed(s, None)
  <2>1. new.slot = s.slot /\ new.attempts = s.attempts /\ new.completed = s.completed
    BY <1>1, TaskStateType
  <2>2. file' = [file EXCEPT ![Task(p)] = new] /\ done' = done
    BY <1>2, <1>4 DEF BackupFails, Persist
  <2>3. file'[Task(p)] = new /\ \A t \in Tasks : t # Task(p) => file'[t] = file[t]
    BY <1>1, <2>2
  <2>. HIDE DEF new
  <2>. QED BY <1>2, <1>3, <2>1, <2>2, <2>3
<1>5. CASE Record(p)
  <2>. DEFINE run == FindNewRun(p)
              new == IF Succeeds(p, run) THEN MarkCompleted(s, ThisSlot(p), clock, run)
                     ELSE MarkFailed(s, run)
  <2>1. run \in {None} \cup (1 .. MaxActivations)
    <3>1. FindNewRun(p) \in {None} \cup (1 .. activations)
      BY <1>5, RecordType
    <3>2. activations \in 0..MaxActivations
      BY DEF TypeOK
    <3>. QED BY <3>1, <3>2, PolicyAssumption
  <2>2. /\ file' = [file EXCEPT ![Task(p)] = new]
        /\ done' = IF Succeeds(p, run) THEN done \cup {<<Task(p), ThisSlot(p)>>} ELSE done
    BY <1>2, <1>5 DEF Record, Persist
  <2>. HIDE DEF run
  <2>3. file'[Task(p)] = new /\ \A t \in Tasks : t # Task(p) => file'[t] = file[t]
    BY <1>1, <2>2
  <2>4. CASE Succeeds(p, run)
    <3>1. new = MarkCompleted(s, ThisSlot(p), clock, run)
      BY <2>4
    <3>2. new.slot = s.slot /\ new.attempts = s.attempts /\ new.completed = ThisSlot(p)
      BY <1>1, <2>1, <3>1, TaskStateType
    <3>. HIDE DEF new
    <3>. QED BY <1>2, <1>3, <2>2, <2>3, <2>4, <3>2
  <2>5. CASE ~Succeeds(p, run)
    <3>1. new = MarkFailed(s, run)
      BY <2>5
    <3>2. new.slot = s.slot /\ new.attempts = s.attempts /\ new.completed = s.completed
      BY <1>1, <2>1, <3>1, TaskStateType
    <3>. HIDE DEF new
    <3>. QED BY <1>2, <1>3, <2>2, <2>3, <2>5, <3>2
  <2>. QED BY <2>4, <2>5
<1>. QED BY <1>4, <1>5

\* The other steps leave the file, and no process comes to launch a scanner by them
\* that has to be within the budget.
LEMMA OtherSteps ==
  ASSUME TypeOK, JobIsKnown, [Next]_vars,
         \A p \in Procs : /\ ~Collapse(p) /\ ~Exhausted(p) /\ ~CountAttempt(p)
                          /\ ~BackupFails(p) /\ ~Record(p) /\ ~Launch(p)
  PROVE  /\ UNCHANGED <<file, tries, done, late>>
         /\ \A q \in Procs : pc'[q] = "launch" /\ ~job'[q].force =>
               pc[q] = "launch" /\ job'[q] = job[q]
         /\ \A q \in Procs : pc'[q] = "scanning" => pc[q] = "scanning" /\ job'[q] = job[q]
<1>. DEFINE Quiet == /\ UNCHANGED <<file, tries, done, late>>
                     /\ \A q \in Procs : pc'[q] = "launch" /\ ~job'[q].force =>
                           pc[q] = "launch" /\ job'[q] = job[q]
                     /\ \A q \in Procs : pc'[q] = "scanning" =>
                           pc[q] = "scanning" /\ job'[q] = job[q]
<1>1. ASSUME NEW p \in Procs, NEW kind \in {"task", "manual"}, NEW t \in Tasks,
             NEW force \in BOOLEAN, Start(p, kind, t, force)
      PROVE  Quiet
  <2>1. UNCHANGED <<file, tries, done, late>>
    BY <1>1 DEF Start, history
  <2>. QED BY <1>1, <2>1, StartEffect
<1>2. ASSUME NEW p \in Procs, NEW t \in Tasks, NEW force \in BOOLEAN,
             RunTask(p, t, force) \/ ManualScan(p)
      PROVE  Quiet
  BY <1>1, <1>2, TaskAssumption DEF RunTask, ManualScan
<1>3. ASSUME NEW p \in Procs, AcquireLock(p) PROVE Quiet
  <2>1. UNCHANGED <<file, tries, done, late, job>>
    BY <1>3 DEF AcquireLock, history
  <2>2. ASSUME NEW q \in Procs, pc'[q] = "launch", ~job'[q].force PROVE pc[q] = "launch"
    <3>1. CASE q = p
      <4>1. job[p].kind # "task"
        BY <1>3, <2>2, <3>1 DEF AcquireLock, TypeOK
      <4>2. job[p].kind = "manual"
        <5>1. job[p].kind \in {"none", "task", "manual"}
          BY DEF TypeOK
        <5>. QED BY <1>3, <4>1, <5>1 DEF JobIsKnown, AcquireLock
      <4>. QED BY <2>1, <2>2, <3>1, <4>2 DEF JobIsKnown
    <3>2. CASE q # p
      BY <1>3, <2>2, <3>2 DEF AcquireLock, TypeOK
    <3>. QED BY <3>1, <3>2
  <2>3. \A q \in Procs : pc'[q] = "scanning" => pc[q] = "scanning"
    BY <1>3 DEF AcquireLock, TypeOK
  <2>. QED BY <2>1, <2>2, <2>3
<1>4. ASSUME NEW p \in Procs,
             \/ LockBusy(p) \/ StateError(p) \/ SkipCompleted(p) \/ EndManualScan(p)
             \/ WriteFails(p) \/ \E scannerToo \in BOOLEAN : Dies(p, scannerToo)
      PROVE  Quiet
  <2>1. Ends(p)
    BY <1>4 DEF LockBusy, StateError, SkipCompleted, EndManualScan, WriteFails, Dies, Release
  <2>2. UNCHANGED <<file, tries, done, late>>
    BY <1>4 DEF LockBusy, StateError, SkipCompleted, EndManualScan, WriteFails, Dies, history
  <2>. QED BY <2>1, <2>2, EndsEffect
<1>5. ASSUME NEW p \in Procs, LaunchFails(p) PROVE Quiet
  BY <1>5 DEF LaunchFails, TypeOK, history
<1>6. ASSUME NEW s \in scanners, NEW c \in ExitCodes, ScannerExits(s, c) PROVE Quiet
  BY <1>6 DEF ScannerExits, TypeOK, history
<1>7. ASSUME \/ \E s \in scanners : Publish(s)
             \/ Prune \/ FileBreaks \/ FileRepaired \/ Tick \/ UNCHANGED vars
      PROVE  Quiet
  BY <1>7 DEF Publish, Prune, FileBreaks, FileRepaired, Tick, vars, history
<1>. HIDE DEF Quiet
<1>8. Quiet
  BY <1>2, <1>3, <1>4, <1>5, <1>6, <1>7, TaskAssumption DEF Next
<1>. QED BY <1>8 DEF Quiet

\* A decision of a process that is not late is about the slot of the file or a later one.
LEMMA NotLate ==
  ASSUME TypeOK, NEW p \in Procs, ~IsLate(p)
  PROVE  /\ ThisSlot(p) \in 0..MaxTime /\ Task(p) \in Tasks
         /\ file[Task(p)].slot \in Times /\ file[Task(p)].completed \in Times
         /\ file[Task(p)].attempts \in Nat /\ file[Task(p)].slot <= ThisSlot(p)
         /\ Loaded(p)[Task(p)].attempts =
               IF file[Task(p)].slot = ThisSlot(p) THEN file[Task(p)].attempts ELSE 0
<1>1. Task(p) \in Tasks /\ ThisSlot(p) \in 0..MaxTime
  BY SlotType
<1>2. file[Task(p)] \in TaskStates
  BY <1>1 DEF TypeOK
<1>3. /\ file[Task(p)].slot \in Times /\ file[Task(p)].completed \in Times
      /\ file[Task(p)].attempts \in Nat
  BY <1>2 DEF TaskStates
<1>4. file[Task(p)].slot \in Int /\ MaxTime \in Nat
  BY <1>3, PolicyAssumption DEF Times, None
<1>5. file[Task(p)].slot <= ThisSlot(p)
  BY <1>1, <1>4 DEF IsLate
<1>6. Loaded(p)[Task(p)] = ResetForSlot(file[Task(p)], ThisSlot(p))
  BY LoadedType
<1>7. ResetForSlot(file[Task(p)], ThisSlot(p)).attempts =
         IF file[Task(p)].slot = ThisSlot(p) THEN file[Task(p)].attempts ELSE 0
  BY <1>2 DEF ResetForSlot, TaskStates
<1>. QED BY <1>1, <1>3, <1>5, <1>6, <1>7

\* What a slot name consists of.
LEMMA SlotIdType ==
  ASSUME NEW s \in SlotIds
  PROVE  s[1] \in Tasks /\ s[2] \in Nat /\ s = <<s[1], s[2]>>
<1>1. PICK t \in Tasks : s \in {t} \X (0 .. LatestSlot(t, MaxTime))
  BY DEF SlotIds
<1>2. LatestSlot(t, MaxTime) \in Nat
  BY TaskAssumption, PolicyAssumption DEF LatestSlot
<1>. QED BY <1>1, <1>2

\* The attempt is counted in the file before its scan is counted, and what the decision
\* was taken on cannot change in between.
LEMMA BudgetStep ==
  ASSUME TypeOK, TypeOK', HolderIsInside, JobIsKnown, MemoryIsCurrent, ScansAreCounted,
         AttemptsWithinBudget, [Next]_vars
  PROVE  ScansAreCounted' /\ AttemptsWithinBudget'
<1>1. ASSUME NEW p \in Procs, Collapse(p) \/ Exhausted(p) \/ CountAttempt(p)
      PROVE  ScansAreCounted' /\ AttemptsWithinBudget'
  <2>. SUFFICES ASSUME ~late' PROVE ScansAreCounted' /\ AttemptsWithinBudget'
    BY DEF ScansAreCounted, AttemptsWithinBudget
  <2>. DEFINE T == Task(p)
              S == ThisSlot(p)
              before0 == Loaded(p)[T].attempts
  <2>1. ~late /\ ~IsLate(p) /\ tries' = tries
    BY <1>1, DecisionEffect
  <2>2. /\ S \in 0..MaxTime /\ T \in Tasks
        /\ file[T].slot \in Times /\ file[T].attempts \in Nat /\ file[T].slot <= S
        /\ before0 = IF file[T].slot = S THEN file[T].attempts ELSE 0
    BY <2>1, NotLate
  <2>3. file[T].slot \in Int
    BY <2>2, PolicyAssumption DEF Times, None
  <2>4. /\ \A t \in Tasks : t # T => file'[t] = file[t]
        /\ file'[T].slot = S
        /\ file'[T].attempts = IF CountAttempt(p) THEN before0 + 1 ELSE before0
    BY <1>1, DecisionEffect
  <2>5. AttemptsWithinBudget'
    BY <2>1 DEF AttemptsWithinBudget
  <2>6. /\ <<T, S>> \in SlotIds /\ tries \in [SlotIds -> Nat]
        /\ tries[<<T, S>>] <= before0
    <3>1. <<T, S>> \in SlotIds /\ tries \in [SlotIds -> Nat]
      BY SlotType DEF TypeOK
    <3>2. /\ file[T].slot < S => tries[<<T, S>>] = 0
          /\ file[T].slot = S => tries[<<T, S>>] <= file[T].attempts
      BY <2>1, <3>1 DEF ScansAreCounted
    <3>. HIDE DEF T, S, before0
    <3>. QED BY <2>2, <2>3, <3>1, <3>2
  <2>7. ASSUME NEW s \in SlotIds
        PROVE  /\ file'[s[1]].slot < s[2] => tries'[s] = 0
               /\ file'[s[1]].slot = s[2] => tries'[s] <= file'[s[1]].attempts
    <3>1. s[1] \in Tasks /\ s[2] \in Nat /\ s = <<s[1], s[2]>>
      BY SlotIdType
    <3>2. /\ file[s[1]].slot < s[2] => tries[s] = 0
          /\ file[s[1]].slot = s[2] => tries[s] <= file[s[1]].attempts
      BY <2>1 DEF ScansAreCounted
    <3>3. CASE s[1] # T
      <4>1. file'[s[1]] = file[s[1]]
        BY <2>4, <3>1, <3>3
      <4>. QED BY <2>1, <3>2, <4>1
    <3>4. CASE s[1] = T
      <4>. HIDE DEF T, S, before0
      <4>1. S < s[2] => tries[s] = 0
        BY <2>2, <2>3, <3>1, <3>2, <3>4
      <4>2. S = s[2] => tries[s] <= before0
        BY <2>6, <3>1, <3>4
      <4>3. before0 \in Nat /\ tries[s] \in Nat
        BY <2>2, <2>6
      <4>. QED BY <2>1, <2>4, <3>4, <4>1, <4>2, <4>3
    <3>. QED BY <3>3, <3>4
  <2>8. ASSUME NEW q \in Procs, pc'[q] = "launch", ~job'[q].force
        PROVE  /\ tries'[<<Task(q)', ThisSlot(q)'>>] < file'[Task(q)'].attempts
               /\ tries'[<<Task(q)', ThisSlot(q)'>>] <= MaxRetries
    <3>1. q = p /\ CountAttempt(p)
      <4>1. CASE CountAttempt(p)
        <5>1. pc'[q] = pc[q] \/ q = p
          BY <4>1 DEF CountAttempt, TypeOK
        <5>. QED BY <1>1, <2>8, <4>1, <5>1, DecisionEffect, OneInside DEF Inside
      <4>2. CASE ~CountAttempt(p)
        BY <1>1, <2>8, <4>2, DecisionEffect, EndsInside DEF Inside
      <4>. QED BY <4>1, <4>2
    <3>2. job' = job
      BY <3>1 DEF CountAttempt
    <3>3. Task(q)' = T /\ ThisSlot(q)' = S /\ ~job[p].force
      BY <2>8, <3>1, <3>2, SameJob
    <3>4. before0 <= MaxRetries
      <4>1. AttemptAllowed(Loaded(p)[T], job[p].now)
        BY <3>1, <3>3 DEF CountAttempt, OutOfBudget
      <4>2. before0 < MaxRetries + 1
        BY <4>1 DEF AttemptAllowed
      <4>3. before0 \in Nat /\ MaxRetries \in Nat
        BY <2>2, PolicyAssumption
      <4>. HIDE DEF before0
      <4>. QED BY <4>2, <4>3
    <3>5. before0 \in Nat /\ tries[<<T, S>>] \in Nat /\ MaxRetries \in Nat
      BY <2>2, <2>6, PolicyAssumption
    <3>. HIDE DEF T, S, before0
    <3>. QED BY <2>1, <2>4, <2>6, <3>1, <3>3, <3>4, <3>5
  <2>. QED BY <2>5, <2>7, <2>8 DEF ScansAreCounted
<1>2. ASSUME NEW p \in Procs, BackupFails(p) \/ Record(p)
      PROVE  ScansAreCounted' /\ AttemptsWithinBudget'
  <2>1. /\ Inside(p) /\ Ends(p) /\ late' = late /\ tries' = tries
        /\ \A t \in Tasks : t # Task(p) => file'[t] = file[t]
        /\ file'[Task(p)].slot = file[Task(p)].slot
        /\ file'[Task(p)].attempts = file[Task(p)].attempts
    BY <1>2, OutcomeEffect
  <2>2. \A t \in Tasks : file'[t].slot = file[t].slot /\ file'[t].attempts = file[t].attempts
    BY <2>1
  <2>3. \A q \in Procs : pc'[q] # "launch"
    BY <2>1, EndsInside DEF Inside
  <2>4. \A s \in SlotIds : s[1] \in Tasks
    BY SlotIdType
  <2>5. ScansAreCounted'
    BY <2>1, <2>2, <2>3, <2>4 DEF ScansAreCounted
  <2>. QED BY <2>1, <2>5 DEF AttemptsWithinBudget
<1>3. ASSUME NEW p \in Procs, Launch(p) PROVE ScansAreCounted' /\ AttemptsWithinBudget'
  <2>. SUFFICES ASSUME ~late PROVE ScansAreCounted' /\ AttemptsWithinBudget'
    BY <1>3 DEF Launch, ScansAreCounted, AttemptsWithinBudget
  <2>. DEFINE slot == <<Task(p), ThisSlot(p)>>
  <2>1. /\ late' = late /\ file' = file /\ job' = job
        /\ \A q \in Procs : pc'[q] = "launch" => q # p /\ pc[q] = "launch"
    BY <1>3 DEF Launch, TypeOK
  <2>2. \A q \in Procs : pc'[q] # "launch"
    <3>1. pc[p] = "launch"
      BY <1>3 DEF Launch
    <3>. QED BY <2>1, <3>1, OneInside DEF Inside
  <2>3. slot \in SlotIds /\ tries \in [SlotIds -> Nat] /\ Task(p) \in Tasks
    BY SlotType DEF TypeOK
  <2>4. CASE job[p].force
    <3>1. tries' = tries
      BY <1>3, <2>4 DEF Launch
    <3>. QED BY <2>1, <2>2, <3>1 DEF ScansAreCounted, AttemptsWithinBudget
  <2>5. CASE ~job[p].force
    <3>1. tries' = [tries EXCEPT ![slot] = @ + 1]
      BY <1>3, <2>5 DEF Launch
    <3>2. tries[slot] < file[Task(p)].attempts /\ tries[slot] <= MaxRetries
      BY <1>3, <2>5 DEF Launch, ScansAreCounted
    <3>3. file[Task(p)].slot = ThisSlot(p) /\ file[Task(p)].attempts \in Nat
      <4>1. job[p].kind = "task"
        <5>1. job[p].kind \in {"none", "task", "manual"}
          BY DEF TypeOK
        <5>. QED BY <1>3, <2>5, <5>1 DEF Launch, JobIsKnown
      <4>2. file[Task(p)].slot = ThisSlot(p)
        BY <1>3, <4>1 DEF MemoryIsCurrent, Working, Launch
      <4>. QED BY <2>3, <4>2 DEF TypeOK, TaskStates
    <3>4. slot[1] = Task(p) /\ slot[2] = ThisSlot(p) /\ ThisSlot(p) \in Nat
      <4>1. ThisSlot(p) \in 0..MaxTime
        BY SlotType
      <4>. QED BY <4>1
    <3>. HIDE DEF slot
    <3>5. ASSUME NEW s \in SlotIds
          PROVE  /\ file'[s[1]].slot < s[2] => tries'[s] = 0
                 /\ file'[s[1]].slot = s[2] => tries'[s] <= file'[s[1]].attempts
                 /\ tries'[s] <= MaxRetries + 1
      <4>1. /\ file[s[1]].slot < s[2] => tries[s] = 0
            /\ file[s[1]].slot = s[2] => tries[s] <= file[s[1]].attempts
            /\ tries[s] <= MaxRetries + 1
        BY DEF ScansAreCounted, AttemptsWithinBudget
      <4>2. CASE s # slot
        <5>1. tries'[s] = tries[s]
          BY <2>3, <3>1, <4>2
        <5>. QED BY <2>1, <4>1, <5>1
      <4>3. CASE s = slot
        <5>1. tries'[s] = tries[slot] + 1 /\ tries[slot] \in Nat
          BY <2>3, <3>1, <4>3
        <5>2. file'[s[1]].slot = s[2] /\ ~(file'[s[1]].slot < s[2])
          BY <2>1, <3>3, <3>4, <4>3
        <5>3. tries'[s] <= MaxRetries + 1 /\ tries'[s] <= file'[s[1]].attempts
          BY <2>1, <3>2, <3>3, <3>4, <4>3, <5>1, PolicyAssumption
        <5>. QED BY <5>2, <5>3
      <4>. QED BY <4>2, <4>3
    <3>. QED BY <2>2, <3>5 DEF ScansAreCounted, AttemptsWithinBudget
  <2>. QED BY <2>4, <2>5
<1>4. ASSUME \A p \in Procs : /\ ~Collapse(p) /\ ~Exhausted(p) /\ ~CountAttempt(p)
                              /\ ~BackupFails(p) /\ ~Record(p) /\ ~Launch(p)
      PROVE  ScansAreCounted' /\ AttemptsWithinBudget'
  <2>1. /\ UNCHANGED <<file, tries, done, late>>
        /\ \A q \in Procs : pc'[q] = "launch" /\ ~job'[q].force =>
              pc[q] = "launch" /\ job'[q] = job[q]
    BY <1>4, OtherSteps
  <2>2. AttemptsWithinBudget'
    BY <2>1 DEF AttemptsWithinBudget
  <2>3. ASSUME ~late, NEW q \in Procs, pc'[q] = "launch", ~job'[q].force
        PROVE  /\ tries'[<<Task(q)', ThisSlot(q)'>>] < file'[Task(q)'].attempts
               /\ tries'[<<Task(q)', ThisSlot(q)'>>] <= MaxRetries
    <3>1. Task(q)' = Task(q) /\ ThisSlot(q)' = ThisSlot(q)
      BY <2>1, <2>3, SameJob
    <3>2. pc[q] = "launch" /\ ~job[q].force
      BY <2>1, <2>3
    <3>. QED BY <2>1, <2>3, <3>1, <3>2 DEF ScansAreCounted
  <2>. QED BY <2>1, <2>2, <2>3 DEF ScansAreCounted
<1>. QED BY <1>1, <1>2, <1>3, <1>4

\* A slot is decided after every completed slot of its task, so the latest one shows
\* whether it is completed itself.
LEMMA CompletedStep ==
  ASSUME TypeOK, TypeOK', HolderIsInside, JobIsKnown, MemoryIsCurrent, CompletedIsLatest,
         [Next]_vars
  PROVE  CompletedIsLatest'
<1>1. ASSUME NEW p \in Procs, Collapse(p) \/ Exhausted(p) \/ CountAttempt(p)
      PROVE  CompletedIsLatest'
  <2>. SUFFICES ASSUME ~late' PROVE CompletedIsLatest'
    BY DEF CompletedIsLatest
  <2>. DEFINE T == Task(p)
              S == ThisSlot(p)
  <2>1. ~late /\ ~IsLate(p)
    BY <1>1, DecisionEffect
  <2>2. /\ S \in 0..MaxTime /\ T \in Tasks
        /\ file[T].slot \in Times /\ file[T].completed \in Times /\ file[T].slot <= S
    BY <2>1, NotLate
  <2>3. file[T].slot \in Int /\ file[T].completed \in Int /\ S \in Int
    BY <2>2, PolicyAssumption DEF Times, None
  <2>4. /\ \A t \in Tasks : t # T => file'[t] = file[t]
        /\ file'[T].slot = S
        /\ file'[T].completed = IF Collapse(p) THEN S ELSE file[T].completed
    BY <1>1, DecisionEffect
  <2>5. done' = IF Collapse(p) THEN done \cup {<<T, S>>} ELSE done
    BY <1>1 DEF Collapse, Exhausted, CountAttempt
  <2>6. file[T].completed <= file[T].slot
    BY <2>1, <2>2 DEF CompletedIsLatest
  <2>7. \A s \in done : s[2] <= file[s[1]].completed
    BY <2>1 DEF CompletedIsLatest
  <2>8. \A s \in done : s[1] \in Tasks /\ s[2] \in Nat
    BY SlotIdType DEF TypeOK
  <2>9. <<T, S>>[1] = T /\ <<T, S>>[2] = S
    OBVIOUS
  <2>10. ASSUME NEW q \in Procs, pc'[q] \in {"launch", "scanning"}, ~job'[q].force
         PROVE  <<Task(q)', ThisSlot(q)'>> \notin done'
    <3>1. q = p /\ CountAttempt(p)
      <4>1. CASE CountAttempt(p)
        <5>1. pc'[q] = pc[q] \/ q = p
          BY <4>1 DEF CountAttempt, TypeOK
        <5>. QED BY <1>1, <2>10, <4>1, <5>1, DecisionEffect, OneInside DEF Inside
      <4>2. CASE ~CountAttempt(p)
        BY <1>1, <2>10, <4>2, DecisionEffect, EndsInside DEF Inside
      <4>. QED BY <4>1, <4>2
    <3>2. job' = job /\ done' = done
      BY <3>1 DEF CountAttempt
    <3>3. Task(q)' = T /\ ThisSlot(q)' = S /\ ~job[p].force
      BY <2>10, <3>1, <3>2, SameJob
    <3>4. file[T].completed # S
      BY <3>1, <3>3 DEF CountAttempt, AlreadyCompleted
    <3>. HIDE DEF T, S
    <3>5. file[T].completed < S
      BY <2>2, <2>3, <2>6, <3>4
    <3>6. <<T, S>> \notin done
      BY <2>3, <2>7, <2>9, <3>5
    <3>. QED BY <3>2, <3>3, <3>6
  <2>. HIDE DEF T, S
  <2>11. ASSUME NEW s \in done' PROVE s[2] <= file'[s[1]].completed
    <3>1. CASE s \in done /\ s[1] # T
      BY <2>4, <2>7, <2>8, <3>1
    <3>2. CASE s \in done /\ s[1] = T
      BY <2>2, <2>3, <2>4, <2>6, <2>7, <2>8, <3>2
    <3>3. CASE s \notin done
      <4>1. s = <<T, S>> /\ Collapse(p)
        BY <2>5, <3>3
      <4>. QED BY <2>3, <2>4, <2>9, <4>1
    <3>. QED BY <3>1, <3>2, <3>3
  <2>12. ASSUME NEW t \in Tasks PROVE file'[t].completed <= file'[t].slot
    <3>1. CASE t # T
      BY <2>1, <2>4, <3>1 DEF CompletedIsLatest
    <3>2. CASE t = T
      BY <2>2, <2>3, <2>4, <2>6, <3>2
    <3>. QED BY <3>1, <3>2
  <2>. QED BY <2>10, <2>11, <2>12 DEF CompletedIsLatest
<1>2. ASSUME NEW p \in Procs, BackupFails(p) \/ Record(p) PROVE CompletedIsLatest'
  <2>. SUFFICES ASSUME ~late' PROVE CompletedIsLatest'
    BY DEF CompletedIsLatest
  <2>. DEFINE T == Task(p)
              S == ThisSlot(p)
  <2>1. /\ Inside(p) /\ Ends(p) /\ ~late
        /\ \A t \in Tasks : t # T => file'[t] = file[t]
        /\ file[T].slot = S /\ file'[T].slot = file[T].slot
        /\ \/ file'[T].completed = file[T].completed /\ done' = done
           \/ file'[T].completed = S /\ done' = done \cup {<<T, S>>}
    BY <1>2, OutcomeEffect
  <2>2. T \in Tasks /\ S \in Int
    <3>1. T \in Tasks /\ S \in 0..MaxTime
      BY SlotType
    <3>. QED BY <3>1
  <2>3. file[T].completed \in Int
    <3>1. file[T].completed \in Times
      BY <2>2 DEF TypeOK, TaskStates
    <3>. QED BY <3>1, PolicyAssumption DEF Times, None
  <2>4. \A q \in Procs : pc'[q] \notin {"launch", "scanning"}
    BY <2>1, EndsInside DEF Inside
  <2>5. \A s \in done : s[1] \in Tasks /\ s[2] \in Nat /\ s[2] <= file[s[1]].completed
    BY <2>1, SlotIdType DEF TypeOK, CompletedIsLatest
  <2>6. \A t \in Tasks : file[t].completed <= file[t].slot
    BY <2>1 DEF CompletedIsLatest
  <2>7. <<T, S>>[1] = T /\ <<T, S>>[2] = S
    OBVIOUS
  <2>. HIDE DEF T, S
  <2>8. ASSUME NEW s \in done' PROVE s[2] <= file'[s[1]].completed
    <3>1. CASE s \in done /\ s[1] # T
      BY <2>1, <2>5, <3>1
    <3>2. CASE s \in done /\ s[1] = T
      BY <2>1, <2>2, <2>3, <2>5, <2>6, <3>2
    <3>3. CASE s \notin done
      <4>1. s = <<T, S>> /\ file'[T].completed = S
        BY <2>1, <3>3
      <4>. QED BY <2>2, <2>7, <4>1
    <3>. QED BY <3>1, <3>2, <3>3
  <2>9. \A t \in Tasks : file'[t].completed <= file'[t].slot
    BY <2>1, <2>2, <2>6
  <2>. QED BY <2>4, <2>8, <2>9 DEF CompletedIsLatest
<1>3. ASSUME NEW p \in Procs, Launch(p) PROVE CompletedIsLatest'
  <2>1. UNCHANGED <<file, done, late, job>> /\ pc[p] = "launch"
    BY <1>3 DEF Launch
  <2>2. \A q \in Procs : pc'[q] \in {"launch", "scanning"} => pc[q] \in {"launch", "scanning"}
    BY <1>3 DEF Launch, TypeOK
  <2>3. \A q \in Procs : Task(q)' = Task(q) /\ ThisSlot(q)' = ThisSlot(q)
    BY <2>1, SameJob
  <2>. QED BY <2>1, <2>2, <2>3 DEF CompletedIsLatest
<1>4. ASSUME \A p \in Procs : /\ ~Collapse(p) /\ ~Exhausted(p) /\ ~CountAttempt(p)
                              /\ ~BackupFails(p) /\ ~Record(p) /\ ~Launch(p)
      PROVE  CompletedIsLatest'
  <2>1. /\ UNCHANGED <<file, done, late>>
        /\ \A q \in Procs : pc'[q] = "launch" /\ ~job'[q].force =>
              pc[q] = "launch" /\ job'[q] = job[q]
        /\ \A q \in Procs : pc'[q] = "scanning" => pc[q] = "scanning" /\ job'[q] = job[q]
    BY <1>4, OtherSteps
  <2>2. ASSUME ~late, NEW q \in Procs, pc'[q] \in {"launch", "scanning"}, ~job'[q].force
        PROVE  <<Task(q)', ThisSlot(q)'>> \notin done'
    <3>1. job'[q] = job[q] /\ pc[q] \in {"launch", "scanning"} /\ ~job[q].force
      BY <2>1, <2>2
    <3>2. Task(q)' = Task(q) /\ ThisSlot(q)' = ThisSlot(q)
      BY <3>1, SameJob
    <3>. QED BY <2>1, <2>2, <3>1, <3>2 DEF CompletedIsLatest
  <2>. QED BY <2>1, <2>2 DEF CompletedIsLatest
<1>. QED BY <1>1, <1>2, <1>3, <1>4

-----------------------------------------------------------------------------
\* The inductive invariant.
IInv ==
    /\ TypeOK /\ NumberIsGiven /\ JobIsKnown
    /\ HolderIsInside
    /\ MemoryIsCurrent /\ NoLostUpdate
    /\ ScannerIsAwaited /\ NewRunIsOwn
    /\ ScansAreCounted /\ AttemptsWithinBudget
    /\ CompletedIsLatest

\* It holds initially ...
LEMMA IInvInit == Init => IInv
<1>. SUFFICES ASSUME Init PROVE IInv
  OBVIOUS
<1>1. TypeOK
  BY TypeInit
<1>2. NumberIsGiven /\ HolderIsInside /\ MemoryIsCurrent /\ NoLostUpdate
  BY TaskAssumption
     DEF Init, NumberIsGiven, HolderIsInside, Inside, MemoryIsCurrent, Working, NoLostUpdate
<1>3. JobIsKnown
  <2>1. ASSUME NEW p \in Procs PROVE job[p].kind = "none" /\ pc[p] = "idle"
    BY DEF Init, NoJob
  <2>. QED BY <2>1 DEF JobIsKnown
<1>4. ScannerIsAwaited /\ NewRunIsOwn
  BY DEF Init, ScannerIsAwaited, NewRunIsOwn
<1>5. ScansAreCounted
  <2>1. \A s \in SlotIds : tries[s] = 0 /\ s[1] \in Tasks
    BY SlotIdType DEF Init
  <2>2. \A t \in Tasks : file[t].attempts = 0
    BY DEF Init, EmptyState, EmptyTaskState
  <2>3. \A p \in Procs : pc[p] # "launch"
    BY DEF Init
  <2>. QED BY <2>1, <2>2, <2>3 DEF ScansAreCounted
<1>6. AttemptsWithinBudget
  BY PolicyAssumption DEF Init, AttemptsWithinBudget
<1>7. CompletedIsLatest
  <2>1. \A t \in Tasks : file[t].completed = -1 /\ file[t].slot = -1
    BY DEF Init, EmptyState, EmptyTaskState, None
  <2>2. done = {} /\ \A p \in Procs : pc[p] = "idle"
    BY DEF Init
  <2>. QED BY <2>1, <2>2 DEF CompletedIsLatest
<1>. QED BY <1>1, <1>2, <1>3, <1>4, <1>5, <1>6, <1>7 DEF IInv

\* ... and every step preserves it, by the lemmas above.
LEMMA IInvStep ==
  ASSUME IInv, [Next]_vars
  PROVE  IInv'
<1>1. TypeOK'
  BY TypeStep DEF IInv
<1>2. NumberIsGiven' /\ JobIsKnown'
  BY JobStep DEF IInv
<1>3. HolderIsInside'
  BY LockStep DEF IInv
<1>4. MemoryIsCurrent' /\ NoLostUpdate'
  BY FileStep DEF IInv
<1>5. ScannerIsAwaited'
  BY ScannerStep DEF IInv
<1>6. NewRunIsOwn'
  BY NewRunStep DEF IInv
<1>7. ScansAreCounted' /\ AttemptsWithinBudget'
  BY <1>1, BudgetStep DEF IInv
<1>8. CompletedIsLatest'
  BY <1>1, CompletedStep DEF IInv
<1>. QED BY <1>1, <1>2, <1>3, <1>4, <1>5, <1>6, <1>7, <1>8 DEF IInv

\* So it always holds.
THEOREM Invariance == Spec => []IInv
BY IInvInit, IInvStep, PTL DEF Spec

-----------------------------------------------------------------------------
\* Every variable stays in its range, for any number of processes and tasks.
THEOREM TypeCorrect == Spec => []TypeOK
<1>1. IInv => TypeOK
  BY DEF IInv
<1>. QED BY <1>1, Invariance, PTL

\* The flock is held by exactly the process that is inside the "with lock" block, however
\* processes are refused, fail or die.
THEOREM LockHeldInside == Spec => []HolderIsInside
<1>1. IInv => HolderIsInside
  BY DEF IInv
<1>. QED BY <1>1, Invariance, PTL

\* Two scanners run at a time only after a process has died and left one behind.
THEOREM ScannersAreAlone == Spec => []OneScanner
<1>1. IInv => OneScanner
  BY AwaitedIsOne DEF IInv
<1>. QED BY <1>1, Invariance, PTL

\* The record of a task is what its own last process has written, though each process
\* writes the records of all tasks.
THEOREM RecordsAreKept == Spec => []NoLostUpdate
<1>1. IInv => NoLostUpdate
  BY DEF IInv
<1>. QED BY <1>1, Invariance, PTL

\* The retry policy bounds the unforced scans of a slot through every crash and failure.
THEOREM RetriesAreBounded == Spec => []AttemptsWithinBudget
<1>1. IInv => AttemptsWithinBudget
  BY DEF IInv
<1>. QED BY <1>1, Invariance, PTL

\* A slot recorded as completed is not scanned again without force.
THEOREM CompletedIsFinal == Spec => []CompletedNotRepeated
<1>1. IInv => CompletedNotRepeated
  BY DEF IInv, CompletedIsLatest, CompletedNotRepeated
<1>. QED BY <1>1, Invariance, PTL

\* A discovery's record names the run of its own scanner.
THEOREM OwnRunIsRecorded == Spec => RecordsOwnRun
<1>1. ASSUME IInv, [Next]_vars
      PROVE  [\A p \in Procs : pc[p] = "record" /\ Task(p) = Daily /\ file' # file /\ ~orphaned
                => /\ file'[Daily].run \in {mem[p][Daily].run, job[p].n}
                   /\ file'[Daily].completed # mem[p][Daily].completed
                         => file'[Daily].run = job[p].n]_vars
  BY <1>1, RecordStep DEF IInv
<1>. QED BY <1>1, Invariance, PTL DEF Spec, RecordsOwnRun
=============================================================================
