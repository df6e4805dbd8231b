------------------------ MODULE EnrichmentRunsProofs ------------------------
(* Proofs about EnrichmentRuns, for every set of runs, subjects, tokens and
   results. *)
EXTENDS EnrichmentRuns, TLAPS

USE DEF Active, Terminal, Invisible

\* Every step keeps the types.
LEMMA TypeStep ==
    ASSUME TypeOK, [Next]_vars
    PROVE  TypeOK'
<1> USE RunAssumption, TokenAssumption, ResultAssumption, BoundAssumption
<1> USE DEF TypeOK, runVars, projVars, txnVars
<1>1. ASSUME NEW r \in Run, CreateBegin(r) PROVE TypeOK'
  BY <1>1 DEF CreateBegin
<1>2. ASSUME NEW r \in Run, CreateCommit(r) PROVE TypeOK'
  BY <1>2 DEF CreateCommit
<1>3. ASSUME NEW r \in Run, CreateRollback(r) PROVE TypeOK'
  BY <1>3 DEF CreateRollback
<1>4. ASSUME NEW r \in Run, WriteSnapshot(r) PROVE TypeOK'
  BY <1>4 DEF WriteSnapshot
<1>5. ASSUME NEW r \in Run, MarkQueued(r) PROVE TypeOK'
  BY <1>5 DEF MarkQueued
<1>6. ASSUME NEW r \in Run, DeadlinePasses(r) PROVE TypeOK'
  BY <1>6 DEF DeadlinePasses
<1>7. ASSUME NEW t \in Token, NEW r \in Run, LeaseRead(t, r) PROVE TypeOK'
  BY <1>7 DEF LeaseRead
<1>8. ASSUME NEW t \in Token, LeaseWrite(t) PROVE TypeOK'
  BY <1>8 DEF LeaseWrite
<1>9. ASSUME NEW t \in Token, LeaseRollback(t) PROVE TypeOK'
  BY <1>9 DEF LeaseRollback
<1>10. ASSUME NEW t \in Token, NEW v \in Verdict, CompleteBegin(t, v) PROVE TypeOK'
  BY <1>10 DEF CompleteBegin
<1>11. ASSUME NEW t \in Token, CompleteIgnored(t) PROVE TypeOK'
  BY <1>11 DEF CompleteIgnored
<1>12. ASSUME NEW t \in Token, CompleteStale(t) PROVE TypeOK'
  BY <1>12 DEF CompleteStale
<1>13. ASSUME NEW t \in Token, CompleteRequeue(t) PROVE TypeOK'
  BY <1>13 DEF CompleteRequeue
<1>14. ASSUME NEW t \in Token, CompleteFailed(t) PROVE TypeOK'
  BY <1>14 DEF CompleteFailed
<1>15. ASSUME NEW t \in Token, CompleteSucceeded(t) PROVE TypeOK'
  BY <1>15 DEF CompleteSucceeded, Succeed, NeedsRow
<1>16. ASSUME NEW t \in Token, CompleteRollback(t) PROVE TypeOK'
  BY <1>16 DEF CompleteRollback
<1>17. ASSUME Cleanup PROVE TypeOK'
  BY <1>17 DEF Cleanup
<1>18. ASSUME Tick PROVE TypeOK'
  BY <1>18 DEF Tick
<1>19. ASSUME UNCHANGED vars PROVE TypeOK'
  BY <1>19 DEF vars
<1> QED
  BY <1>1, <1>2, <1>3, <1>4, <1>5, <1>6, <1>7, <1>8, <1>9, <1>10, <1>11, <1>12,
     <1>13, <1>14, <1>15, <1>16, <1>17, <1>18, <1>19 DEF Next

-----------------------------------------------------------------------------
\* Only a create and a granted lease can make a run active that was not.
LEMMA BecomesActive ==
    ASSUME TypeOK, [Next]_vars
    PROVE  \/ \E r \in Run : CreateCommit(r)
           \/ \E t \in Token : LeaseWrite(t)
           \/ \A r \in Run : status'[r] \in Active => status[r] \in Active
<1> USE DEF TypeOK, runVars, projVars, txnVars
<1>1. ASSUME NEW r \in Run, \/ CreateBegin(r) \/ CreateRollback(r) \/ WriteSnapshot(r)
                            \/ MarkQueued(r) \/ DeadlinePasses(r)
      PROVE  \A s \in Run : status'[s] \in Active => status[s] \in Active
  BY <1>1 DEF CreateBegin, CreateRollback, WriteSnapshot, MarkQueued, DeadlinePasses
<1>2. ASSUME NEW t \in Token, \/ \E r \in Run : LeaseRead(t, r)
                              \/ LeaseRollback(t)
                              \/ \E v \in Verdict : CompleteBegin(t, v)
                              \/ CompleteIgnored(t) \/ CompleteRollback(t)
      PROVE  \A s \in Run : status'[s] \in Active => status[s] \in Active
  BY <1>2 DEF LeaseRead, LeaseRollback, CompleteBegin, CompleteIgnored, CompleteRollback
<1>3. ASSUME NEW t \in Token, \/ CompleteStale(t) \/ CompleteRequeue(t)
                              \/ CompleteFailed(t) \/ CompleteSucceeded(t)
      PROVE  \A s \in Run : status'[s] \in Active => status[s] \in Active
  BY <1>3 DEF CompleteStale, CompleteRequeue, CompleteFailed, CompleteSucceeded, Succeed, NeedsRow
<1>4. ASSUME Cleanup \/ Tick \/ UNCHANGED vars
      PROVE  \A s \in Run : status'[s] \in Active => status[s] \in Active
  BY <1>4 DEF Cleanup, Tick, vars
<1> QED
  BY <1>1, <1>2, <1>3, <1>4 DEF Next

\* A create closes the runs it competes with, and the unique index keeps a
\* lease from reopening a run beside an active one.
LEMMA ActiveStep ==
    ASSUME TypeOK, TxnOnVisibleRun, OneActivePerSubject, [Next]_vars
    PROVE  OneActivePerSubject'
<1> USE SubjectAssumption DEF TypeOK, OneActivePerSubject, SameSubject, OtherActive
<1>1. CASE \A r \in Run : status'[r] \in Active => status[r] \in Active
  BY <1>1
<1>2. ASSUME NEW r \in Run, CreateCommit(r) PROVE OneActivePerSubject'
  BY <1>2 DEF CreateCommit
<1>3. ASSUME NEW t \in Token, LeaseWrite(t) PROVE OneActivePerSubject'
  BY <1>3 DEF LeaseWrite, TxnOnVisibleRun, Rows
<1> QED
  BY <1>1, <1>2, <1>3, BecomesActive

\* A row gets its token and its projection only once it is visible, and never
\* becomes invisible again.
LEMMA BlankStep ==
    ASSUME TypeOK, TxnOnVisibleRun, InvisibleIsBlank, [Next]_vars
    PROVE  InvisibleIsBlank'
<1> USE DEF TypeOK, runVars, projVars, txnVars, Rows, InvisibleIsBlank, TxnOnVisibleRun
<1>1. ASSUME NEW r \in Run, CreateBegin(r)
      PROVE  InvisibleIsBlank'
  BY <1>1 DEF CreateBegin
<1>2. ASSUME NEW r \in Run, CreateCommit(r)
      PROVE  InvisibleIsBlank'
  BY <1>2 DEF CreateCommit
<1>3. ASSUME NEW r \in Run, CreateRollback(r)
      PROVE  InvisibleIsBlank'
  BY <1>3 DEF CreateRollback
<1>4. ASSUME NEW r \in Run, WriteSnapshot(r) \/ MarkQueued(r) \/ DeadlinePasses(r)
      PROVE  InvisibleIsBlank'
  BY <1>4 DEF WriteSnapshot, MarkQueued, DeadlinePasses
<1>5. ASSUME NEW t \in Token, NEW r \in Run, LeaseRead(t, r)
      PROVE  InvisibleIsBlank'
  BY <1>5 DEF LeaseRead
<1>6. ASSUME NEW t \in Token, LeaseWrite(t)
      PROVE  InvisibleIsBlank'
  BY <1>6 DEF LeaseWrite
<1>7. ASSUME NEW t \in Token, LeaseRollback(t)
      PROVE  InvisibleIsBlank'
  BY <1>7 DEF LeaseRollback
<1>8. ASSUME NEW t \in Token, NEW v \in Verdict, CompleteBegin(t, v)
      PROVE  InvisibleIsBlank'
  BY <1>8 DEF CompleteBegin
<1>9. ASSUME NEW t \in Token, CompleteIgnored(t) \/ CompleteRollback(t)
      PROVE  InvisibleIsBlank'
  BY <1>9 DEF CompleteIgnored, CompleteRollback
<1>10. ASSUME NEW t \in Token, CompleteStale(t) \/ CompleteRequeue(t) \/ CompleteFailed(t)
      PROVE  InvisibleIsBlank'
  BY <1>10 DEF CompleteStale, CompleteRequeue, CompleteFailed
<1>11. ASSUME NEW t \in Token, CompleteSucceeded(t)
      PROVE  InvisibleIsBlank'
  BY <1>11 DEF CompleteSucceeded, Succeed, NeedsRow
<1>12. ASSUME Cleanup
      PROVE  InvisibleIsBlank'
  BY <1>12 DEF Cleanup
<1>13. ASSUME Tick \/ UNCHANGED vars
      PROVE  InvisibleIsBlank'
  BY <1>13 DEF Tick, vars
<1> QED
  BY <1>1, <1>2, <1>3, <1>4, <1>5, <1>6, <1>7, <1>8, <1>9, <1>10, <1>11, <1>12, <1>13 DEF Next

\* No step takes a visible row away.
LEMMA RowsStay ==
    ASSUME TypeOK, [Next]_vars
    PROVE  \A r \in Rows : r \in Rows'
<1> USE DEF TypeOK, runVars, projVars, txnVars, Rows
<1>1. ASSUME NEW r \in Run, \/ CreateBegin(r) \/ CreateCommit(r) \/ CreateRollback(r)
      PROVE  \A s \in Rows : s \in Rows'
  BY <1>1 DEF CreateBegin, CreateCommit, CreateRollback
<1>2. ASSUME NEW r \in Run, WriteSnapshot(r) \/ MarkQueued(r) \/ DeadlinePasses(r)
      PROVE  \A s \in Rows : s \in Rows'
  BY <1>2 DEF WriteSnapshot, MarkQueued, DeadlinePasses
<1>3. ASSUME NEW t \in Token, \/ \E r \in Run : LeaseRead(t, r)
                              \/ LeaseWrite(t) \/ LeaseRollback(t)
      PROVE  \A s \in Rows : s \in Rows'
  BY <1>3 DEF LeaseRead, LeaseWrite, LeaseRollback
<1>4. ASSUME NEW t \in Token, \/ \E v \in Verdict : CompleteBegin(t, v)
                              \/ CompleteIgnored(t) \/ CompleteRollback(t)
      PROVE  \A s \in Rows : s \in Rows'
  BY <1>4 DEF CompleteBegin, CompleteIgnored, CompleteRollback
<1>5. ASSUME NEW t \in Token, \/ CompleteStale(t) \/ CompleteRequeue(t)
                              \/ CompleteFailed(t) \/ CompleteSucceeded(t)
      PROVE  \A s \in Rows : s \in Rows'
  BY <1>5 DEF CompleteStale, CompleteRequeue, CompleteFailed, CompleteSucceeded, Succeed, NeedsRow
<1>6. ASSUME Cleanup \/ Tick \/ UNCHANGED vars
      PROVE  \A s \in Rows : s \in Rows'
  BY <1>6 DEF Cleanup, Tick, vars
<1> QED
  BY <1>1, <1>2, <1>3, <1>4, <1>5, <1>6 DEF Next

\* A transaction works on the row it has read, which stays visible.
LEMMA TxnStep ==
    ASSUME TypeOK, TxnOnVisibleRun, [Next]_vars
    PROVE  TxnOnVisibleRun'
<1> USE DEF TypeOK, runVars, projVars, txnVars, TxnOnVisibleRun
<1> DEFINE Keeps == \A t \in Token : txn'[t] # "unused" =>
                        txn[t] # "unused" /\ txnRun'[t] = txnRun[t]
<1>1. CASE Keeps
  BY <1>1, RowsStay
<1>2. ASSUME NEW t \in Token, NEW r \in Run, LeaseRead(t, r)
      PROVE  TxnOnVisibleRun'
  BY <1>2, RowsStay DEF LeaseRead, Leasable
<1>3. ASSUME NEW r \in Run, \/ CreateBegin(r) \/ CreateCommit(r) \/ CreateRollback(r)
                            \/ WriteSnapshot(r) \/ MarkQueued(r) \/ DeadlinePasses(r)
      PROVE  Keeps
  BY <1>3 DEF CreateBegin, CreateCommit, CreateRollback, WriteSnapshot, MarkQueued,
              DeadlinePasses
<1>4. ASSUME NEW t \in Token, LeaseWrite(t) \/ LeaseRollback(t)
      PROVE  Keeps
  BY <1>4 DEF LeaseWrite, LeaseRollback
<1>5. ASSUME NEW t \in Token, \/ \E v \in Verdict : CompleteBegin(t, v)
                              \/ CompleteIgnored(t) \/ CompleteRollback(t)
      PROVE  Keeps
  BY <1>5 DEF CompleteBegin, CompleteIgnored, CompleteRollback
<1>6. ASSUME NEW t \in Token, \/ CompleteStale(t) \/ CompleteRequeue(t)
                              \/ CompleteFailed(t) \/ CompleteSucceeded(t)
      PROVE  Keeps
  BY <1>6 DEF CompleteStale, CompleteRequeue, CompleteFailed, CompleteSucceeded, Succeed, NeedsRow
<1>7. ASSUME Cleanup \/ Tick \/ UNCHANGED vars
      PROVE  Keeps
  BY <1>7 DEF Cleanup, Tick, vars
<1> QED
  BY <1>1, <1>2, <1>3, <1>4, <1>5, <1>6, <1>7 DEF Next

\* Timestamps are readings of a clock that does not go back.
LEMMA TimesStep ==
    ASSUME TypeOK, PastTimes, CompletionReadsLate, [Next]_vars
    PROVE  PastTimes'
<1> USE DEF TypeOK, runVars, projVars, txnVars, Rows, PastTimes, CompletionReadsLate
<1>1. ASSUME NEW r \in Run, CreateBegin(r)
      PROVE  PastTimes'
  BY <1>1 DEF CreateBegin
<1>2. ASSUME NEW r \in Run, CreateCommit(r)
      PROVE  PastTimes'
  BY <1>2 DEF CreateCommit
<1>3. ASSUME NEW r \in Run, CreateRollback(r)
      PROVE  PastTimes'
  BY <1>3 DEF CreateRollback
<1>4. ASSUME NEW r \in Run, WriteSnapshot(r) \/ MarkQueued(r) \/ DeadlinePasses(r)
      PROVE  PastTimes'
  BY <1>4 DEF WriteSnapshot, MarkQueued, DeadlinePasses
<1>5. ASSUME NEW t \in Token, NEW r \in Run, LeaseRead(t, r)
      PROVE  PastTimes'
  BY <1>5 DEF LeaseRead
<1>6. ASSUME NEW t \in Token, LeaseWrite(t)
      PROVE  PastTimes'
  BY <1>6 DEF LeaseWrite
<1>7. ASSUME NEW t \in Token, LeaseRollback(t)
      PROVE  PastTimes'
  BY <1>7 DEF LeaseRollback
<1>8. ASSUME NEW t \in Token, NEW v \in Verdict, CompleteBegin(t, v)
      PROVE  PastTimes'
  BY <1>8 DEF CompleteBegin
<1>9. ASSUME NEW t \in Token, CompleteIgnored(t) \/ CompleteRollback(t)
      PROVE  PastTimes'
  BY <1>9 DEF CompleteIgnored, CompleteRollback
<1>10. ASSUME NEW t \in Token, CompleteStale(t) \/ CompleteRequeue(t) \/ CompleteFailed(t)
      PROVE  PastTimes'
  BY <1>10 DEF CompleteStale, CompleteRequeue, CompleteFailed
<1>11. ASSUME NEW t \in Token, CompleteSucceeded(t)
      PROVE  PastTimes'
  BY <1>11 DEF CompleteSucceeded, Succeed, NeedsRow
<1>12. ASSUME Cleanup
      PROVE  PastTimes'
  BY <1>12 DEF Cleanup
<1>13. ASSUME Tick \/ UNCHANGED vars
      PROVE  PastTimes'
  BY <1>13 DEF Tick, vars
<1> QED
  BY <1>1, <1>2, <1>3, <1>4, <1>5, <1>6, <1>7, <1>8, <1>9, <1>10, <1>11, <1>12, <1>13 DEF Next

\* A token is bound to its run before the run is Leased under it, and a run that
\* goes back to the queue loses it.
LEMMA HolderStep ==
    ASSUME TypeOK, TxnOnVisibleRun, InvisibleIsBlank, TokenNamesHolder, [Next]_vars
    PROVE  TokenNamesHolder'
<1> USE TokenAssumption DEF TypeOK, runVars, projVars, txnVars, Rows, TokenNamesHolder, TxnOnVisibleRun, InvisibleIsBlank
<1>1. ASSUME NEW r \in Run, CreateBegin(r)
      PROVE  TokenNamesHolder'
  BY <1>1 DEF CreateBegin
<1>2. ASSUME NEW r \in Run, CreateCommit(r)
      PROVE  TokenNamesHolder'
  BY <1>2 DEF CreateCommit
<1>3. ASSUME NEW r \in Run, CreateRollback(r)
      PROVE  TokenNamesHolder'
  BY <1>3 DEF CreateRollback
<1>4. ASSUME NEW r \in Run, WriteSnapshot(r) \/ MarkQueued(r) \/ DeadlinePasses(r)
      PROVE  TokenNamesHolder'
  BY <1>4 DEF WriteSnapshot, MarkQueued, DeadlinePasses
<1>5. ASSUME NEW t \in Token, NEW r \in Run, LeaseRead(t, r)
      PROVE  TokenNamesHolder'
  BY <1>5 DEF LeaseRead
<1>6. ASSUME NEW t \in Token, LeaseWrite(t)
      PROVE  TokenNamesHolder'
  BY <1>6 DEF LeaseWrite
<1>7. ASSUME NEW t \in Token, LeaseRollback(t)
      PROVE  TokenNamesHolder'
  BY <1>7 DEF LeaseRollback
<1>8. ASSUME NEW t \in Token, NEW v \in Verdict, CompleteBegin(t, v)
      PROVE  TokenNamesHolder'
  BY <1>8 DEF CompleteBegin
<1>9. ASSUME NEW t \in Token, CompleteIgnored(t) \/ CompleteRollback(t)
      PROVE  TokenNamesHolder'
  BY <1>9 DEF CompleteIgnored, CompleteRollback
<1>10. ASSUME NEW t \in Token, CompleteStale(t) \/ CompleteRequeue(t) \/ CompleteFailed(t)
      PROVE  TokenNamesHolder'
  BY <1>10 DEF CompleteStale, CompleteRequeue, CompleteFailed
<1>11. ASSUME NEW t \in Token, CompleteSucceeded(t)
      PROVE  TokenNamesHolder'
  BY <1>11 DEF CompleteSucceeded, Succeed, NeedsRow
<1>12. ASSUME Cleanup
      PROVE  TokenNamesHolder'
  BY <1>12 DEF Cleanup
<1>13. ASSUME Tick \/ UNCHANGED vars
      PROVE  TokenNamesHolder'
  BY <1>13 DEF Tick, vars
<1> QED
  BY <1>1, <1>2, <1>3, <1>4, <1>5, <1>6, <1>7, <1>8, <1>9, <1>10, <1>11, <1>12, <1>13 DEF Next

\* A success inserts its dispatch row in the same transaction.
LEMMA SuccessStep ==
    ASSUME TypeOK, PastTimes, TxnOnVisibleRun, InvisibleIsBlank, CompletionReadsLate, SuccessIsProjected, [Next]_vars
    PROVE  SuccessIsProjected'
<1> USE DEF TypeOK, runVars, projVars, txnVars, Rows, PastTimes, SuccessIsProjected, TxnOnVisibleRun, InvisibleIsBlank, CompletionReadsLate
<1>1. ASSUME NEW r \in Run, CreateBegin(r)
      PROVE  SuccessIsProjected'
  BY <1>1 DEF CreateBegin
<1>2. ASSUME NEW r \in Run, CreateCommit(r)
      PROVE  SuccessIsProjected'
  BY <1>2 DEF CreateCommit
<1>3. ASSUME NEW r \in Run, CreateRollback(r)
      PROVE  SuccessIsProjected'
  BY <1>3 DEF CreateRollback
<1>4. ASSUME NEW r \in Run, WriteSnapshot(r) \/ MarkQueued(r) \/ DeadlinePasses(r)
      PROVE  SuccessIsProjected'
  BY <1>4 DEF WriteSnapshot, MarkQueued, DeadlinePasses
<1>5. ASSUME NEW t \in Token, NEW r \in Run, LeaseRead(t, r)
      PROVE  SuccessIsProjected'
  BY <1>5 DEF LeaseRead
<1>6. ASSUME NEW t \in Token, LeaseWrite(t)
      PROVE  SuccessIsProjected'
  BY <1>6 DEF LeaseWrite
<1>7. ASSUME NEW t \in Token, LeaseRollback(t)
      PROVE  SuccessIsProjected'
  BY <1>7 DEF LeaseRollback
<1>8. ASSUME NEW t \in Token, NEW v \in Verdict, CompleteBegin(t, v)
      PROVE  SuccessIsProjected'
  BY <1>8 DEF CompleteBegin
<1>9. ASSUME NEW t \in Token, CompleteIgnored(t) \/ CompleteRollback(t)
      PROVE  SuccessIsProjected'
  BY <1>9 DEF CompleteIgnored, CompleteRollback
<1>10. ASSUME NEW t \in Token, CompleteStale(t) \/ CompleteRequeue(t) \/ CompleteFailed(t)
      PROVE  SuccessIsProjected'
  BY <1>10 DEF CompleteStale, CompleteRequeue, CompleteFailed
<1>11. ASSUME NEW t \in Token, CompleteSucceeded(t)
      PROVE  SuccessIsProjected'
  BY <1>11 DEF CompleteSucceeded, Succeed, NeedsRow
<1>12. ASSUME Cleanup
      PROVE  SuccessIsProjected'
  BY <1>12 DEF Cleanup
<1>13. ASSUME Tick \/ UNCHANGED vars
      PROVE  SuccessIsProjected'
  BY <1>13 DEF Tick, vars
<1> QED
  BY <1>1, <1>2, <1>3, <1>4, <1>5, <1>6, <1>7, <1>8, <1>9, <1>10, <1>11, <1>12, <1>13 DEF Next

\* A projection is inserted for the latest run only, so every projection that
\* is there already belongs to an older run, and CompletionReadsLate bounds it.
LEMMA OrderStep ==
    ASSUME TypeOK, TxnOnVisibleRun, InvisibleIsBlank, CompletionReadsLate, ProjectionOrder, [Next]_vars
    PROVE  ProjectionOrder'
<1> USE DEF TypeOK, runVars, projVars, txnVars, Rows, ProjectionOrder, TxnOnVisibleRun, InvisibleIsBlank, CompletionReadsLate, SameSubject, Newer, IsLatest
<1>1. ASSUME NEW r \in Run, CreateBegin(r)
      PROVE  ProjectionOrder'
  BY <1>1 DEF CreateBegin
<1>2. ASSUME NEW r \in Run, CreateCommit(r)
      PROVE  ProjectionOrder'
  BY <1>2 DEF CreateCommit
<1>3. ASSUME NEW r \in Run, CreateRollback(r)
      PROVE  ProjectionOrder'
  BY <1>3 DEF CreateRollback
<1>4. ASSUME NEW r \in Run, WriteSnapshot(r) \/ MarkQueued(r) \/ DeadlinePasses(r)
      PROVE  ProjectionOrder'
  BY <1>4 DEF WriteSnapshot, MarkQueued, DeadlinePasses
<1>5. ASSUME NEW t \in Token, NEW r \in Run, LeaseRead(t, r)
      PROVE  ProjectionOrder'
  BY <1>5 DEF LeaseRead
<1>6. ASSUME NEW t \in Token, LeaseWrite(t)
      PROVE  ProjectionOrder'
  BY <1>6 DEF LeaseWrite
<1>7. ASSUME NEW t \in Token, LeaseRollback(t)
      PROVE  ProjectionOrder'
  BY <1>7 DEF LeaseRollback
<1>8. ASSUME NEW t \in Token, NEW v \in Verdict, CompleteBegin(t, v)
      PROVE  ProjectionOrder'
  BY <1>8 DEF CompleteBegin
<1>9. ASSUME NEW t \in Token, CompleteIgnored(t) \/ CompleteRollback(t)
      PROVE  ProjectionOrder'
  BY <1>9 DEF CompleteIgnored, CompleteRollback
<1>10. ASSUME NEW t \in Token, CompleteStale(t) \/ CompleteRequeue(t) \/ CompleteFailed(t)
      PROVE  ProjectionOrder'
  BY <1>10 DEF CompleteStale, CompleteRequeue, CompleteFailed
<1>11. ASSUME NEW t \in Token, CompleteSucceeded(t)
      PROVE  ProjectionOrder'
  BY <1>11 DEF CompleteSucceeded, Succeed, NeedsRow
<1>12. ASSUME Cleanup
      PROVE  ProjectionOrder'
  BY <1>12 DEF Cleanup
<1>13. ASSUME Tick \/ UNCHANGED vars
      PROVE  ProjectionOrder'
  BY <1>13 DEF Tick, vars
<1> QED
  BY <1>1, <1>2, <1>3, <1>4, <1>5, <1>6, <1>7, <1>8, <1>9, <1>10, <1>11, <1>12, <1>13 DEF Next

\* While a run is the latest no completion of a newer one can be under way, so
\* publishing it cannot overtake a clock already read.
LEMMA ReadsLateStep ==
    ASSUME TypeOK, PastTimes, TxnOnVisibleRun, InvisibleIsBlank, CompletionReadsLate, [Next]_vars
    PROVE  CompletionReadsLate'
<1> USE DEF TypeOK, runVars, projVars, txnVars, Rows, PastTimes, TxnOnVisibleRun, InvisibleIsBlank, CompletionReadsLate, SameSubject, Newer, IsLatest
<1>1. ASSUME NEW r \in Run, CreateBegin(r)
      PROVE  CompletionReadsLate'
  BY <1>1 DEF CreateBegin
<1>2. ASSUME NEW r \in Run, CreateCommit(r)
      PROVE  CompletionReadsLate'
  BY <1>2 DEF CreateCommit
<1>3. ASSUME NEW r \in Run, CreateRollback(r)
      PROVE  CompletionReadsLate'
  BY <1>3 DEF CreateRollback
<1>4. ASSUME NEW r \in Run, WriteSnapshot(r) \/ MarkQueued(r) \/ DeadlinePasses(r)
      PROVE  CompletionReadsLate'
  BY <1>4 DEF WriteSnapshot, MarkQueued, DeadlinePasses
<1>5. ASSUME NEW t \in Token, NEW r \in Run, LeaseRead(t, r)
      PROVE  CompletionReadsLate'
  BY <1>5 DEF LeaseRead
<1>6. ASSUME NEW t \in Token, LeaseWrite(t)
      PROVE  CompletionReadsLate'
  BY <1>6 DEF LeaseWrite
<1>7. ASSUME NEW t \in Token, LeaseRollback(t)
      PROVE  CompletionReadsLate'
  BY <1>7 DEF LeaseRollback
<1>8. ASSUME NEW t \in Token, NEW v \in Verdict, CompleteBegin(t, v)
      PROVE  CompletionReadsLate'
  BY <1>8 DEF CompleteBegin
<1>9. ASSUME NEW t \in Token, CompleteIgnored(t) \/ CompleteRollback(t)
      PROVE  CompletionReadsLate'
  BY <1>9 DEF CompleteIgnored, CompleteRollback
<1>10. ASSUME NEW t \in Token, CompleteStale(t) \/ CompleteRequeue(t) \/ CompleteFailed(t)
      PROVE  CompletionReadsLate'
  BY <1>10 DEF CompleteStale, CompleteRequeue, CompleteFailed
<1>11. ASSUME NEW t \in Token, CompleteSucceeded(t)
      PROVE  CompletionReadsLate'
  BY <1>11 DEF CompleteSucceeded, Succeed, NeedsRow
<1>12. ASSUME Cleanup
      PROVE  CompletionReadsLate'
  BY <1>12 DEF Cleanup
<1>13. ASSUME Tick \/ UNCHANGED vars
      PROVE  CompletionReadsLate'
  BY <1>13 DEF Tick, vars
<1> QED
  BY <1>1, <1>2, <1>3, <1>4, <1>5, <1>6, <1>7, <1>8, <1>9, <1>10, <1>11, <1>12, <1>13 DEF Next

-----------------------------------------------------------------------------
\* Inv is inductive.
LEMMA InvInit == Init => Inv
<1> SUFFICES ASSUME Init PROVE Inv
  OBVIOUS
<1>1. TypeOK
  BY DEF Init, TypeOK, Verdict
<1>2. InvisibleIsBlank /\ TxnOnVisibleRun /\ PastTimes /\ CompletionReadsLate
  BY DEF Init, InvisibleIsBlank, TxnOnVisibleRun, PastTimes, CompletionReadsLate
<1>3. OneActivePerSubject /\ TokenNamesHolder /\ ProjectionOrder /\ SuccessIsProjected
  BY DEF Init, OneActivePerSubject, TokenNamesHolder, ProjectionOrder, SuccessIsProjected
<1> QED
  BY <1>1, <1>2, <1>3 DEF Inv

LEMMA InvStep == Inv /\ [Next]_vars => Inv'
  BY TypeStep, BlankStep, TxnStep, TimesStep, ReadsLateStep, ActiveStep, HolderStep,
     OrderStep, SuccessStep DEF Inv

\* Every reachable state of the run store satisfies Inv.
THEOREM Invariance == Spec => []Inv
<1> USE InvInit, InvStep
<1> QED
  BY PTL DEF Spec

\* The variables keep their types.
THEOREM TypeCorrect == Spec => []TypeOK
<1>1. Inv => TypeOK
  BY DEF Inv
<1> QED
  BY <1>1, Invariance, PTL

\* However requests, leases, completions and the cleanup timer interleave, a
\* subject never has two active runs.
THEOREM OneActive == Spec => []OneActivePerSubject
<1>1. Inv => OneActivePerSubject
  BY DEF Inv
<1> QED
  BY <1>1, Invariance, PTL

\* A Leased run names the lease that was granted for it, and a waiting run none.
THEOREM HolderNamed == Spec => []TokenNamesHolder
<1>1. Inv => TokenNamesHolder
  BY DEF Inv
<1> QED
  BY <1>1, Invariance, PTL

\* Dispatch rows of a subject are ordered by calculatedAt as their runs are by
\* request, so the Jobs domain's newest-wins rule picks the latest request.
THEOREM Ordered == Spec => []ProjectionOrder
<1>1. Inv => ProjectionOrder
  BY DEF Inv
<1> QED
  BY <1>1, Invariance, PTL

\* A success has its dispatch row, and only projected subjects have one.
THEOREM Projecting == Spec => []SuccessIsProjected
<1>1. Inv => SuccessIsProjected
  BY DEF Inv
<1> QED
  BY <1>1, Invariance, PTL

-----------------------------------------------------------------------------
\* Only a success writes a dispatch row, and only where there is none.
LEMMA ProjectionStep ==
    ASSUME TypeOK, [Next]_vars, NEW r \in Run, projAt[r] # 0
    PROVE  projAt'[r] = projAt[r] /\ projResult'[r] = projResult[r]
<1> USE DEF TypeOK, runVars, projVars, txnVars
<1>1. ASSUME NEW t \in Token, CompleteSucceeded(t)
      PROVE  projAt'[r] = projAt[r] /\ projResult'[r] = projResult[r]
  BY <1>1 DEF CompleteSucceeded, Succeed, NeedsRow
<1>2. CASE UNCHANGED projVars
  BY <1>2
<1>3. ASSUME NEW s \in Run, \/ CreateBegin(s) \/ CreateCommit(s) \/ CreateRollback(s)
                            \/ WriteSnapshot(s) \/ MarkQueued(s) \/ DeadlinePasses(s)
      PROVE  UNCHANGED projVars
  BY <1>3 DEF CreateBegin, CreateCommit, CreateRollback, WriteSnapshot, MarkQueued,
              DeadlinePasses
<1>4. ASSUME NEW t \in Token, \/ \E s \in Run : LeaseRead(t, s)
                              \/ LeaseWrite(t) \/ LeaseRollback(t)
                              \/ \E v \in Verdict : CompleteBegin(t, v)
      PROVE  UNCHANGED projVars
  BY <1>4 DEF LeaseRead, LeaseWrite, LeaseRollback, CompleteBegin
<1>5. ASSUME NEW t \in Token, \/ CompleteIgnored(t) \/ CompleteStale(t)
                              \/ CompleteRequeue(t) \/ CompleteFailed(t)
                              \/ CompleteRollback(t)
      PROVE  UNCHANGED projVars
  BY <1>5 DEF CompleteIgnored, CompleteStale, CompleteRequeue, CompleteFailed,
              CompleteRollback
<1>6. ASSUME Cleanup \/ Tick \/ UNCHANGED vars
      PROVE  UNCHANGED projVars
  BY <1>6 DEF Cleanup, Tick, vars
<1> QED
  BY <1>1, <1>2, <1>3, <1>4, <1>5, <1>6 DEF Next

\* What was handed to the dispatcher for a run never changes.
THEOREM ProjectionFinal == Spec => ProjectionIsFinal
<1>1. TypeOK /\ [Next]_vars =>
        [\A r \in Run : projAt[r] # 0 =>
            projAt'[r] = projAt[r] /\ projResult'[r] = projResult[r]]_vars
  BY ProjectionStep
<1> QED
  BY <1>1, TypeCorrect, PTL DEF Spec, ProjectionIsFinal

-----------------------------------------------------------------------------
(* EnrichmentRuns implements LatestRunWins.                                *)

LEMMA PromiseInit == Init => Promise!Init
  BY DEF Init, Promise!Init, Phase, Racing, Published

\* Each transaction is one step of the promise, or a stutter.
LEMMA PromiseStep ==
    ASSUME Inv, [Next]_vars
    PROVE  [Promise!Next]_(Promise!vars)
<1> USE DEF runVars, projVars, txnVars
<1>0. TypeOK
  BY DEF Inv
<1>1. \A t \in Token : txn[t] # "unused" => txnRun[t] \in Run
  BY DEF Inv, TxnOnVisibleRun, Rows
<1>2. ASSUME NEW r \in Run, CreateCommit(r) PROVE Promise!OpenRun(r)
  BY <1>0, <1>2, SubjectAssumption
     DEF TypeOK, CreateCommit, OtherActive, SameSubject, Phase, Racing, Published,
         Promise!OpenRun, Promise!Rivals, Promise!Open
<1>3. ASSUME NEW t \in Token, NEW r \in Run, LeaseRead(t, r) PROVE Promise!BeginClaim(r)
  BY <1>0, <1>3 DEF TypeOK, LeaseRead, Leasable, Rows, Phase, Racing, Published,
                    Promise!BeginClaim
<1>4. ASSUME NEW t \in Token, LeaseWrite(t) PROVE Promise!Claim(txnRun[t])
  <2> DEFINE r == txnRun[t]
  <2>1. r \in Run
    BY <1>1, <1>4 DEF LeaseWrite
  <2>2. r \in Racing
    BY <1>4, <2>1 DEF LeaseWrite, Racing
  <2>3. Promise!Rivals(r) = {}
    BY <1>0, <1>4, <2>1 DEF TypeOK, LeaseWrite, OtherActive, SameSubject, Phase,
                           Promise!Rivals, Promise!Open
  <2>4. Phase' = [Phase EXCEPT ![r] = "working"]
    BY <1>0, <1>4, <2>1 DEF TypeOK, LeaseWrite, Phase
  <2>5. Racing' \in {Racing, Racing \ {r}}
    <3>1. \A u \in Token : u # t => txn'[u] = txn[u]
      BY <1>0, <1>4 DEF TypeOK, LeaseWrite
    <3>2. txn'[t] = "granted" /\ txnRun' = txnRun
      BY <1>0, <1>4 DEF TypeOK, LeaseWrite
    <3>3. CASE \E u \in Token \ {t} : txn[u] = "reading" /\ txnRun[u] = r
      BY <1>4, <3>1, <3>2, <3>3 DEF Racing, LeaseWrite
    <3>4. CASE ~ \E u \in Token \ {t} : txn[u] = "reading" /\ txnRun[u] = r
      BY <1>4, <3>1, <3>2, <3>4 DEF Racing, LeaseWrite
    <3> QED
      BY <3>3, <3>4
  <2>6. UNCHANGED Published
    BY <1>4 DEF LeaseWrite, Published
  <2> QED
    BY <2>2, <2>3, <2>4, <2>5, <2>6 DEF Promise!Claim
<1>5. ASSUME NEW t \in Token, LeaseRollback(t)
      PROVE  Promise!DropClaim(txnRun[t]) \/ UNCHANGED <<Phase, Racing, Published>>
  <2> DEFINE r == txnRun[t]
  <2>1. r \in Run
    BY <1>1, <1>5 DEF LeaseRollback
  <2>2. /\ txn'[t] = "unused"
        /\ \A u \in Token \ {t} : txn'[u] = txn[u] /\ txnRun'[u] = txnRun[u]
    BY <1>0, <1>5 DEF TypeOK, LeaseRollback
  <2>3. UNCHANGED <<Phase, Published>>
    BY <1>5 DEF LeaseRollback, Phase, Published
  <2>4. CASE \E u \in Token \ {t} : txn[u] = "reading" /\ txnRun[u] = r
    <3>1. Racing' = Racing
      BY <1>5, <2>2, <2>4 DEF Racing, LeaseRollback
    <3> QED
      BY <2>3, <3>1
  <2>5. CASE ~ \E u \in Token \ {t} : txn[u] = "reading" /\ txnRun[u] = r
    <3>1. Racing' = Racing \ {r}
      BY <1>5, <2>2, <2>5 DEF Racing, LeaseRollback
    <3> QED
      BY <2>3, <3>1 DEF Promise!DropClaim
  <2> QED
    BY <2>4, <2>5
<1>6. ASSUME NEW t \in Token, CompleteStale(t) PROVE Promise!Close({txnRun[t]})
  BY <1>0, <1>1, <1>6 DEF TypeOK, CompleteStale, Phase, Racing, Published,
                         Promise!Close, Promise!Open
<1>7. ASSUME NEW t \in Token, CompleteRequeue(t) PROVE Promise!GiveBack(txnRun[t])
  BY <1>0, <1>1, <1>7 DEF TypeOK, CompleteRequeue, Phase, Racing, Published,
                         Promise!GiveBack
<1>8. ASSUME NEW t \in Token, CompleteFailed(t) PROVE Promise!Finish(txnRun[t])
  BY <1>0, <1>1, <1>8 DEF TypeOK, CompleteFailed, Phase, Racing, Published,
                         Promise!Finish
<1>9. ASSUME NEW t \in Token, CompleteSucceeded(t) PROVE Promise!Finish(txnRun[t])
  <2> DEFINE r == txnRun[t]
  <2>1. r \in Run
    BY <1>1, <1>9 DEF CompleteSucceeded, Succeed, NeedsRow
  <2>2. Phase[r] = "working" /\ Phase' = [Phase EXCEPT ![r] = "closed"]
    BY <1>0, <1>9, <2>1 DEF TypeOK, CompleteSucceeded, Succeed, NeedsRow, Phase
  <2>3. UNCHANGED Racing
    BY <1>0, <1>9 DEF TypeOK, CompleteSucceeded, Succeed, NeedsRow, Racing
  <2>4. Published' \in {Published, Published \cup {r}}
    BY <1>0, <1>9, <2>1 DEF TypeOK, CompleteSucceeded, Succeed, NeedsRow, Published
  <2> QED
    BY <2>2, <2>3, <2>4 DEF Promise!Finish
<1>10. ASSUME Cleanup PROVE \E S \in SUBSET Run : Promise!Close(S)
  <2> DEFINE S == Overdue("Queued") \cup Overdue("Leased")
                  \cup (IF PendingFail THEN Overdue("Pending") ELSE {})
  <2>1. S \in SUBSET Run /\ S \subseteq Promise!Open
    BY <1>0 DEF TypeOK, Overdue, Phase, Promise!Open
  <2>2. Phase' = [r \in Run |-> IF r \in S THEN "closed" ELSE Phase[r]]
    BY <1>0, <1>10 DEF TypeOK, Cleanup, Overdue, Phase
  <2>3. UNCHANGED <<Racing, Published>>
    BY <1>10 DEF Cleanup, Racing, Published
  <2> QED
    BY <2>1, <2>2, <2>3 DEF Promise!Close
<1>11. ASSUME NEW r \in Run, \/ CreateBegin(r) \/ CreateRollback(r) \/ WriteSnapshot(r)
                             \/ MarkQueued(r) \/ DeadlinePasses(r)
       PROVE  UNCHANGED <<Phase, Racing, Published>>
  BY <1>0, <1>11 DEF TypeOK, CreateBegin, CreateRollback, WriteSnapshot, MarkQueued,
                     DeadlinePasses, Phase, Racing, Published
<1>12. ASSUME NEW t \in Token, \/ \E v \in Verdict : CompleteBegin(t, v)
                               \/ CompleteIgnored(t) \/ CompleteRollback(t)
       PROVE  UNCHANGED <<Phase, Racing, Published>>
  BY <1>0, <1>12 DEF TypeOK, CompleteBegin, CompleteIgnored, CompleteRollback, Phase,
                     Racing, Published
<1>13. ASSUME Tick \/ UNCHANGED vars PROVE UNCHANGED <<Phase, Racing, Published>>
  BY <1>13 DEF Tick, vars, Phase, Racing, Published
<1>14. ASSUME NEW t \in Token, \/ LeaseWrite(t) \/ LeaseRollback(t) \/ CompleteStale(t)
                               \/ CompleteRequeue(t) \/ CompleteFailed(t)
                               \/ CompleteSucceeded(t)
       PROVE  txnRun[t] \in Run
  BY <1>1, <1>14 DEF LeaseWrite, LeaseRollback, CompleteStale, CompleteRequeue,
                     CompleteFailed, CompleteSucceeded, Succeed, NeedsRow
<1> QED
  BY <1>2, <1>3, <1>4, <1>5, <1>6, <1>7, <1>8, <1>9, <1>10, <1>11, <1>12, <1>13, <1>14
     DEF Next, Promise!Next, Promise!vars

\* The run store implements LatestRunWins.
THEOREM Refinement == Spec => KeepsPromise
  BY PromiseInit, PromiseStep, Invariance, PTL DEF Spec, KeepsPromise, Promise!Spec
=============================================================================
