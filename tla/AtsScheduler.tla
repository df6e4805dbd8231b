---------------------------- MODULE AtsScheduler ----------------------------
(***************************************************************************)
(* The host-side scheduler of the ATS scanner (ats_scheduler.py).  systemd *)
(* timers, systemd restarts and operators start short-lived processes;     *)
(* each takes the global lock without waiting, loads the state file that   *)
(* all tasks share, decides whether the slot is still to be served, counts *)
(* the attempt, runs the scanner, and records its outcome.                 *)
(*                                                                         *)
(* Time is a number, and the slots of a task follow each other every       *)
(* Period.  Local time, weekdays and the grace after boot only decide when *)
(* an activation happens: here it may happen at any time.  Left out of the *)
(* state file are the fields nothing is decided by: the wording of the     *)
(* outcome, the trigger, and the count of consecutive failures.            *)
(***************************************************************************)
EXTENDS Integers, FiniteSets, SequencesExt

CONSTANTS Tasks,          \* the scheduler-defined tasks
          Daily,          \* the one whose scanner publishes a run directory
          Enabled,        \* the tasks that are switched on
          Procs,          \* scheduler processes that may live at one time
          Nobody,         \* the lock is free
          Period,         \* task -> length of its slots
          MaxRetries, RetryWindow, MinimumSpacing,   \* retry policy and spacing
          MinimumRuns                                \* retention of runs

CONSTANTS MaxTime, MaxActivations, MaxFaults         \* bounds of the model

ASSUME TaskAssumption ==
    /\ Daily \in Tasks
    /\ Enabled \subseteq Tasks
    /\ Period \in [Tasks -> Nat \ {0}]
    /\ Nobody \notin Procs

ASSUME PolicyAssumption ==
    {MaxRetries, RetryWindow, MinimumSpacing, MinimumRuns,
     MaxTime, MaxActivations, MaxFaults} \subseteq Nat

VARIABLES
    clock,
    file,        \* the state file: task -> its record
    readable,    \* whether the state file passes validation
    lock,        \* holder of the flock
    pc,          \* process -> where it is
    job,         \* process -> what it was started for, and when
    mem,         \* process -> the state it has loaded and changed
    before,      \* process -> the run directories it saw before its scanner
    code,        \* process -> how its scanner ended
    scanners,    \* the scanners that run, named by their activation
    runs,        \* published run directories, oldest modification first
    activations, faults

VARIABLES        \* history
    truth,       \* task -> what its last process has recorded
    tries,       \* scanners started without force, for each task and slot
    done,        \* the slots that were recorded as completed
    late,        \* a process has acted on a slot that was already over
    orphaned     \* a process has died while its scanner ran

history == <<truth, tries, done, late, orphaned>>

vars == <<clock, file, readable, lock, pc, job, mem, before, code, scanners,
          runs, activations, faults, history>>

-----------------------------------------------------------------------------
None == -1     \* null in the state file

EmptyTaskState == [slot |-> None, first |-> None, attempts |-> 0,
                   completed |-> None, completedAt |-> None, run |-> None]

NoJob == [kind |-> "none", task |-> Daily, force |-> FALSE, now |-> 0, n |-> 0]

EmptyState == [t \in Tasks |-> EmptyTaskState]

LatestSlot(t, now) == now \div Period[t]

SlotIds == UNION {{t} \X (0 .. LatestSlot(t, MaxTime)) : t \in Tasks}

Task(p) == job[p].task

ThisSlot(p) == LatestSlot(Task(p), job[p].now)

ResetForSlot(s, slot) ==
    IF s.slot = slot THEN s ELSE [s EXCEPT !.slot = slot, !.first = None, !.attempts = 0]

AttemptAllowed(s, now) ==
    /\ s.attempts < MaxRetries + 1
    /\ s.first # None => now - s.first <= RetryWindow

MarkCompleted(s, slot, now, run) ==
    [s EXCEPT !.completed = slot, !.completedAt = now,
              !.run = IF run = None THEN @ ELSE run]

MarkFailed(s, run) == [s EXCEPT !.run = IF run = None THEN @ ELSE run]

RunIds == {runs[i] : i \in DOMAIN runs}

\* Mutant: 0 for a run that was not found.
MutantFindNewRun(p) ==
    LET new == {i \in DOMAIN runs : runs[i] \notin before[p]}
    IN  IF Task(p) # Daily \/ new = {} THEN 0
        ELSE runs[CHOOSE i \in new : \A k \in new : k <= i]

\* The directory that has appeared since, the most recent one if there are several.
FindNewRun(p) ==
    LET new == {i \in DOMAIN runs : runs[i] \notin before[p]}
    IN  IF Task(p) # Daily \/ new = {} THEN None
        ELSE runs[CHOOSE i \in new : \A k \in new : k <= i]

\* The newest directories stay; of the others, any may be older than its class
\* (successful, or degraded and failed) is kept.
Retained(R) ==
    LET orders == UNION {[1 .. n -> DOMAIN R] : n \in 0 .. Len(R)}
        stays(kept) ==
            /\ \A i, k \in DOMAIN kept : i < k => kept[i] < kept[k]
            /\ \A i \in DOMAIN R : i > Len(R) - MinimumRuns =>
                  \E k \in DOMAIN kept : kept[k] = i
    IN  {[k \in DOMAIN kept |-> R[kept[k]]] : kept \in {o \in orders : stays(o)}}

\* scheduler.json goes into the run's directory, and makes it the last modified.
WriteMetadata(R, run) ==
    IF run = None THEN R ELSE Append(RemoveFirst(R, run), run)

-----------------------------------------------------------------------------
Init ==
    /\ clock = 0
    /\ file = EmptyState
    /\ readable = TRUE
    /\ lock = Nobody
    /\ pc = [p \in Procs |-> "idle"]
    /\ job = [p \in Procs |-> NoJob]
    /\ mem = [p \in Procs |-> EmptyState]
    /\ before = [p \in Procs |-> {}]
    /\ code = [p \in Procs |-> 0]
    /\ scanners = {}
    /\ runs = <<>>
    /\ activations = 0
    /\ faults = 0
    /\ truth = EmptyState
    /\ tries = [s \in SlotIds |-> 0]
    /\ done = {}
    /\ late = FALSE
    /\ orphaned = FALSE

\* A process begins.  Its clock is read before it tries the lock.
Start(p, kind, t, force) ==
    /\ pc[p] = "idle"
    /\ activations < MaxActivations
    /\ activations' = activations + 1
    /\ pc' = [pc EXCEPT ![p] = "acquire"]
    /\ job' = [job EXCEPT ![p] = [kind |-> kind, task |-> t, force |-> force,
                                  now |-> clock, n |-> activations + 1]]
    /\ UNCHANGED <<clock, file, readable, lock, mem, before, code, scanners,
                   runs, faults, history>>

RunTask(p, t, force) ==
    /\ t \in Enabled \/ force
    /\ Start(p, "task", t, force)

\* "ats-ops scanner": the scanner under the same lock, without slot or state.
ManualScan(p) == Start(p, "manual", Daily, TRUE)

\* The end of a process in all but the acquired lock.
Ends(p) ==
    /\ pc' = [pc EXCEPT ![p] = "idle"]
    /\ job' = [job EXCEPT ![p] = NoJob]
    /\ mem' = [mem EXCEPT ![p] = EmptyState]
    /\ before' = [before EXCEPT ![p] = {}]
    /\ code' = [code EXCEPT ![p] = 0]

\* Leaving the "with lock" block in any way.
Release(p) ==
    /\ lock' = Nobody
    /\ Ends(p)

\* Mutant: the result of the non-blocking flock is ignored.
MutantAcquireLock(p) ==
    /\ pc[p] = "acquire"
    /\ lock' = p
    /\ pc' = [pc EXCEPT ![p] = IF job[p].kind = "task" THEN "decide" ELSE "launch"]
    /\ UNCHANGED <<clock, file, readable, job, mem, before, code, scanners, runs,
                   activations, faults, history>>

AcquireLock(p) ==
    /\ pc[p] = "acquire"
    /\ lock = Nobody
    /\ lock' = p
    /\ pc' = [pc EXCEPT ![p] = IF job[p].kind = "task" THEN "decide" ELSE "launch"]
    /\ UNCHANGED <<clock, file, readable, job, mem, before, code, scanners, runs,
                   activations, faults, history>>

\* EXIT_TEMPORARY.  The lock is held by another process; by one that runs a task or
\* a scanner, or for an instant by a "status" command that looks whether it is held.
LockBusy(p) ==
    /\ pc[p] = "acquire"
    /\ Ends(p)
    /\ UNCHANGED <<clock, file, readable, lock, scanners, runs, activations,
                   faults, history>>

\* EXIT_STATE: a state file that does not pass validation is not replaced.
StateError(p) ==
    /\ pc[p] = "decide"
    /\ ~readable
    /\ Release(p)
    /\ UNCHANGED <<clock, file, readable, scanners, runs, activations, faults, history>>

-----------------------------------------------------------------------------
(* The decision about the slot, on the loaded state.                       *)

Loaded(p) == [file EXCEPT ![Task(p)] = ResetForSlot(@, ThisSlot(p))]

\* Mutant: off by one slot.
MutantAlreadyCompleted(p) == ~job[p].force /\ file[Task(p)].completed > ThisSlot(p)

AlreadyCompleted(p) == ~job[p].force /\ file[Task(p)].completed = ThisSlot(p)

TooRecent(p) ==
    LET last == file[Task(p)].completedAt
    IN  ~job[p].force /\ last # None /\ job[p].now - last < MinimumSpacing

OutOfBudget(p) ==
    ~job[p].force /\ ~AttemptAllowed(Loaded(p)[Task(p)], job[p].now)

Decides(p) == pc[p] = "decide" /\ readable

\* The whole state is written, with it the records of the other tasks.
Persist(p, state) ==
    /\ file' = state
    /\ readable' = TRUE
    /\ truth' = [truth EXCEPT ![Task(p)] = state[Task(p)]]

IsLate(p) == ThisSlot(p) < file[Task(p)].slot

SkipCompleted(p) ==
    /\ Decides(p)
    /\ AlreadyCompleted(p)
    /\ Release(p)
    /\ UNCHANGED <<clock, file, readable, scanners, runs, activations, faults, history>>

\* A slot that begins soon after a completed run counts as completed.
Collapse(p) ==
    /\ Decides(p)
    /\ ~AlreadyCompleted(p) /\ TooRecent(p)
    /\ Persist(p, [Loaded(p) EXCEPT ![Task(p)] =
                      MarkCompleted(@, ThisSlot(p), job[p].now, None)])
    /\ done' = done \cup {<<Task(p), ThisSlot(p)>>}
    /\ late' = (late \/ IsLate(p))
    /\ Release(p)
    /\ UNCHANGED <<clock, scanners, runs, activations, faults, tries, orphaned>>

\* EXIT_RETRY_EXHAUSTED.
Exhausted(p) ==
    /\ Decides(p)
    /\ ~AlreadyCompleted(p) /\ ~TooRecent(p) /\ OutOfBudget(p)
    /\ Persist(p, [Loaded(p) EXCEPT ![Task(p)] = MarkFailed(@, None)])
    /\ late' = (late \/ IsLate(p))
    /\ Release(p)
    /\ UNCHANGED <<clock, scanners, runs, activations, faults, tries, done, orphaned>>

Counted(s, now) ==
    [s EXCEPT !.first = IF @ = None THEN now ELSE @, !.attempts = @ + 1]

\* Mutant: the attempt is counted in memory, and on disk with the outcome.
MutantCountAttempt(p) ==
    /\ Decides(p)
    /\ ~AlreadyCompleted(p) /\ ~TooRecent(p) /\ ~OutOfBudget(p)
    /\ mem' = [mem EXCEPT ![p] = [Loaded(p) EXCEPT ![Task(p)] = Counted(@, job[p].now)]]
    /\ late' = (late \/ IsLate(p))
    /\ pc' = [pc EXCEPT ![p] = "launch"]
    /\ UNCHANGED <<clock, file, readable, lock, job, before, code, scanners, runs,
                   activations, faults, truth, tries, done, orphaned>>

\* The attempt is on disk before the scanner starts.
CountAttempt(p) ==
    /\ Decides(p)
    /\ ~AlreadyCompleted(p) /\ ~TooRecent(p) /\ ~OutOfBudget(p)
    /\ mem' = [mem EXCEPT ![p] = [Loaded(p) EXCEPT ![Task(p)] = Counted(@, job[p].now)]]
    /\ Persist(p, mem'[p])
    /\ late' = (late \/ IsLate(p))
    /\ pc' = [pc EXCEPT ![p] = "launch"]
    /\ UNCHANGED <<clock, lock, job, before, code, scanners, runs, activations,
                   faults, tries, done, orphaned>>

-----------------------------------------------------------------------------
(* The scanner.                                                            *)

\* The snapshot of the tenant state cannot be taken: the scanner is not started.
BackupFails(p) ==
    /\ pc[p] = "launch" /\ job[p].kind = "task" /\ Task(p) = Daily
    /\ faults < MaxFaults
    /\ faults' = faults + 1
    /\ Persist(p, [mem[p] EXCEPT ![Daily] = MarkFailed(@, None)])
    /\ Release(p)
    /\ UNCHANGED <<clock, scanners, runs, activations, tries, done, late, orphaned>>

\* Mutant: the lock guards the decision, and is free while the scanner runs.
MutantLaunch(p) ==
    /\ pc[p] = "launch"
    /\ before' = [before EXCEPT ![p] = RunIds]
    /\ scanners' = scanners \cup {[n |-> job[p].n, task |-> Task(p), published |-> FALSE]}
    /\ tries' = IF job[p].force THEN tries
                ELSE [tries EXCEPT ![<<Task(p), ThisSlot(p)>>] = @ + 1]
    /\ pc' = [pc EXCEPT ![p] = "scanning"]
    /\ lock' = Nobody
    /\ UNCHANGED <<clock, file, readable, job, mem, code, runs, activations, faults,
                   truth, done, late, orphaned>>

\* Mutant: the snapshot of the directories is forgotten.
MutantLaunchBlind(p) ==
    /\ pc[p] = "launch"
    /\ scanners' = scanners \cup {[n |-> job[p].n, task |-> Task(p), published |-> FALSE]}
    /\ tries' = IF job[p].force THEN tries
                ELSE [tries EXCEPT ![<<Task(p), ThisSlot(p)>>] = @ + 1]
    /\ pc' = [pc EXCEPT ![p] = "scanning"]
    /\ UNCHANGED <<clock, file, readable, lock, job, mem, before, code, runs, activations,
                   faults, truth, done, late, orphaned>>

Launch(p) ==
    /\ pc[p] = "launch"
    /\ before' = [before EXCEPT ![p] = RunIds]
    /\ scanners' = scanners \cup {[n |-> job[p].n, task |-> Task(p), published |-> FALSE]}
    /\ tries' = IF job[p].force THEN tries
                ELSE [tries EXCEPT ![<<Task(p), ThisSlot(p)>>] = @ + 1]
    /\ pc' = [pc EXCEPT ![p] = "scanning"]
    /\ UNCHANGED <<clock, file, readable, lock, job, mem, code, runs, activations,
                   faults, truth, done, late, orphaned>>

NotLaunched == 999     \* an OSError instead of an exit code

LaunchFails(p) ==
    /\ pc[p] = "launch"
    /\ faults < MaxFaults
    /\ faults' = faults + 1
    /\ before' = [before EXCEPT ![p] = RunIds]
    /\ code' = [code EXCEPT ![p] = NotLaunched]
    /\ pc' = [pc EXCEPT ![p] = "record"]
    /\ UNCHANGED <<clock, file, readable, lock, job, mem, scanners, runs,
                   activations, history>>

\* A discovery scan renames its staging directory into place, as its last act.
Publish(s) ==
    /\ s.task = Daily /\ ~s.published
    /\ runs' = Append(runs, s.n)
    /\ scanners' = (scanners \ {s}) \cup {[s EXCEPT !.published = TRUE]}
    /\ UNCHANGED <<clock, file, readable, lock, pc, job, mem, before, code,
                   activations, faults, history>>

\* 0 stands for success and for 2 (degraded), which both complete the slot, and 1 for
\* all others: 64 and 75 leave the slot due, as any failure.
ExitCodes == {0, 1}

\* An orphan ends unnoticed.
ScannerExits(s, c) ==
    /\ scanners' = scanners \ {s}
    /\ LET waiting == {p \in Procs : pc[p] = "scanning" /\ job[p].n = s.n}
       IN  /\ pc' = [p \in Procs |-> IF p \in waiting THEN "record" ELSE pc[p]]
           /\ code' = [p \in Procs |-> IF p \in waiting THEN c ELSE code[p]]
    /\ UNCHANGED <<clock, file, readable, lock, job, mem, before, runs,
                   activations, faults, history>>

\* What the exit code of a launched scanner comes to.
Succeeds(p, run) == code[p] = 0 /\ (Task(p) = Daily => run # None)

\* The outcome, the metadata of the run, the state, and the retention of runs.
Record(p) ==
    /\ pc[p] = "record" /\ job[p].kind = "task"
    /\ LET run == FindNewRun(p)
           ok  == Succeeds(p, run)
       IN  /\ Persist(p, [mem[p] EXCEPT ![Task(p)] =
                  IF ok THEN MarkCompleted(@, ThisSlot(p), clock, run)
                  ELSE MarkFailed(@, run)])
           /\ done' = IF ok THEN done \cup {<<Task(p), ThisSlot(p)>>} ELSE done
           /\ runs' \in Retained(WriteMetadata(runs, run))
    /\ Release(p)
    /\ UNCHANGED <<clock, scanners, activations, faults, tries, late, orphaned>>

EndManualScan(p) ==
    /\ pc[p] = "record" /\ job[p].kind = "manual"
    /\ Release(p)
    /\ UNCHANGED <<clock, file, readable, scanners, runs, activations, faults, history>>

-----------------------------------------------------------------------------
(* Faults, other commands, and time.                                       *)

\* The state cannot be written: the error leaves the "with lock" block.
WriteFails(p) ==
    /\ pc[p] \in {"decide", "record"}
    /\ faults < MaxFaults
    /\ faults' = faults + 1
    /\ Release(p)
    /\ UNCHANGED <<clock, file, readable, scanners, runs, activations, history>>

\* The process is killed, or the host goes down.  The kernel frees the lock; the
\* scanner's container goes on unless it is stopped as well.
Dies(p, scannerToo) ==
    /\ pc[p] # "idle"
    /\ faults < MaxFaults
    /\ faults' = faults + 1
    /\ lock' = IF lock = p THEN Nobody ELSE lock
    /\ Ends(p)
    /\ scanners' = IF scannerToo THEN {s \in scanners : s.n # job[p].n} ELSE scanners
    /\ orphaned' = (orphaned \/ (pc[p] = "scanning" /\ ~scannerToo))
    /\ UNCHANGED <<clock, file, readable, runs, activations, truth, tries, done,
                   late>>

\* "prune" takes no lock.
Prune ==
    /\ runs' \in Retained(runs)
    /\ runs' # runs
    /\ UNCHANGED <<clock, file, readable, lock, pc, job, mem, before, code,
                   scanners, activations, faults, history>>

\* Somebody edits the file, or changes the configured time zone, and repairs it.
FileBreaks ==
    /\ readable
    /\ faults < MaxFaults
    /\ faults' = faults + 1
    /\ readable' = FALSE
    /\ UNCHANGED <<clock, file, lock, pc, job, mem, before, code, scanners, runs,
                   activations, history>>

FileRepaired ==
    /\ ~readable
    /\ readable' = TRUE
    /\ UNCHANGED <<clock, file, lock, pc, job, mem, before, code, scanners, runs,
                   activations, faults, history>>

Tick ==
    /\ clock < MaxTime
    /\ clock' = clock + 1
    /\ UNCHANGED <<file, readable, lock, pc, job, mem, before, code, scanners,
                   runs, activations, faults, history>>

Next ==
    \/ \E p \in Procs :
          \/ \E t \in Tasks, force \in BOOLEAN : RunTask(p, t, force)
          \/ ManualScan(p) \/ AcquireLock(p) \/ LockBusy(p) \/ StateError(p)
          \/ SkipCompleted(p) \/ Collapse(p) \/ Exhausted(p) \/ CountAttempt(p)
          \/ BackupFails(p) \/ Launch(p) \/ LaunchFails(p)
          \/ Record(p) \/ EndManualScan(p) \/ WriteFails(p)
          \/ \E scannerToo \in BOOLEAN : Dies(p, scannerToo)
    \/ \E s \in scanners : \/ Publish(s)
                           \/ \E c \in ExitCodes : ScannerExits(s, c)
    \/ Prune \/ FileBreaks \/ FileRepaired \/ Tick

Spec == Init /\ [][Next]_vars

-----------------------------------------------------------------------------
(* Properties.                                                             *)

Times == {None} \cup (0 .. MaxTime)

TaskStates == [slot : Times, first : Times, attempts : Nat,
               completed : Times, completedAt : Times, run : {None} \cup (1 .. MaxActivations)]

\* Every variable stays in its range.
TypeOK ==
    /\ clock \in 0 .. MaxTime
    /\ file \in [Tasks -> TaskStates] /\ truth \in [Tasks -> TaskStates]
    /\ readable \in BOOLEAN /\ late \in BOOLEAN /\ orphaned \in BOOLEAN
    /\ lock \in Procs \cup {Nobody}
    /\ pc \in [Procs -> {"idle", "acquire", "decide", "launch", "scanning", "record"}]
    /\ job \in [Procs -> [kind : {"none", "task", "manual"}, task : Tasks, force : BOOLEAN,
                          now : 0 .. MaxTime, n : 0 .. activations]]
    /\ mem \in [Procs -> [Tasks -> TaskStates]]
    /\ before \in [Procs -> SUBSET (1 .. activations)]
    /\ code \in [Procs -> ExitCodes \cup {NotLaunched}]
    /\ scanners \subseteq [n : 1 .. activations, task : Tasks, published : BOOLEAN]
    /\ runs \in Seq(1 .. activations)
    /\ activations \in 0 .. MaxActivations /\ faults \in 0 .. MaxFaults
    /\ tries \in [SlotIds -> Nat]
    /\ done \subseteq SlotIds

\* Scheduled tasks and manual scans never run two scanners at a time, whatever
\* overlaps.  Only a process that dies can leave one behind beside which another
\* is started, for the lock dies with the process.
OneScanner == Cardinality(scanners) > 1 => orphaned

\* The tasks share one file and each writes all of it, long after it was loaded;
\* still no record of a task is lost or put back by a process of another one.
NoLostUpdate == file = truth

\* However often processes die, are refused or fail, a slot has no more scans
\* without force than the initial attempt and the retries.
AttemptsWithinBudget ==
    late \/ \A s \in SlotIds : tries[s] <= MaxRetries + 1

\* A slot that was recorded as completed is not scanned again without force.
CompletedNotRepeated ==
    \A p \in Procs : pc[p] = "scanning" /\ ~job[p].force /\ ~late
                        => <<Task(p), ThisSlot(p)>> \notin done

\* The run that a discovery's record names is the one its own scanner published,
\* and a slot is not completed by a scan without one.
RecordsOwnRun ==
    [][\A p \in Procs : pc[p] = "record" /\ Task(p) = Daily /\ file' # file /\ ~orphaned
          => /\ file'[Daily].run \in {mem[p][Daily].run, job[p].n}
             /\ file'[Daily].completed # mem[p][Daily].completed
                   => file'[Daily].run = job[p].n]_vars
=============================================================================
