---------------------------- MODULE FileStateLock ----------------------------
(***************************************************************************)
(* The critical section of fileHostStore.ts: runWithFileStateQueue and the *)
(* lock file of acquireFileStateLock, around one JSON state file.          *)
(*                                                                         *)
(* A task is one store call (consume, activate, touch, isRevoked, revoke)  *)
(* of a process.  The tasks of one process wait in a promise chain; the    *)
(* task at its head tries to create the lock file, and judges the lock it  *)
(* finds: a stale one is unlinked and the attempt repeated.  Every await   *)
(* of the code is a boundary between two actions here, so that what is     *)
(* judged and what is then unlinked may be different locks.                *)
(*                                                                         *)
(* Time is kept as ages that stop growing where the code stops telling     *)
(* them apart, so that no bound on the clock is needed.  The contents of   *)
(* the state file are the set of tasks whose update it holds; entries that *)
(* expire are left to HostSession.                                         *)
(***************************************************************************)
EXTENDS Naturals, Sequences, FiniteSets

CONSTANTS
  Tasks,         \* store calls; a task may run again once it has ended
  Procs,         \* processes over time; a restart is another process
  Nobody,        \* the owner of an absent lock file
  ProcOf,        \* the process of a task
  PidOf,         \* the pid the operating system gives a process
  MaxAlive,      \* how many processes share the state file at a time
  Timeout,       \* lockTimeoutMs, in ticks
  StaleAge,      \* staleLockAgeMs = max(2 * timeoutMs, 5000), in ticks
  BootIdKnown,   \* /proc/sys/kernel/random/boot_id is readable and unchanged
  TimelyBeats    \* no live process is kept from its heartbeat for StaleAge

ASSUME LockAssumption ==
  /\ Nobody \notin Tasks
  /\ ProcOf \in [Tasks -> Procs]
  /\ DOMAIN PidOf = Procs
  /\ MaxAlive \in Nat \ {0}
  /\ {Timeout, StaleAge} \subseteq Nat \ {0}
  /\ {BootIdKnown, TimelyBeats} \subseteq BOOLEAN

VARIABLES
  started,    \* processes that were started
  crashed,    \* those of them that died
  queue,      \* fileStateQueues: the waiting tasks of each process, in order
  pc,         \* where each task is
  waited,     \* Date.now() - startedAt of an attempt, at most Timeout
  lock,       \* the lock file
  file,       \* the state file
  seen,       \* what a task read from the state file
  committed   \* history: tasks whose update was acknowledged

vars == <<started, crashed, queue, pc, waited, lock, file, seen, committed>>

-----------------------------------------------------------------------------
Holding == {"opened", "locked", "working", "written"}
Places  == {"idle", "waiting", "trying", "judging", "stealing"} \cup Holding

NoLock == [owner |-> Nobody, age |-> 0, readable |-> FALSE]

\* Mutant of FreshLock: the process is taken for the owner.
FreshLockOfProcess(t) == [owner |-> ProcOf[t], age |-> 0, readable |-> FALSE]

\* The lock file as its owner has just created it, still empty.
FreshLock(t) == [owner |-> t, age |-> 0, readable |-> FALSE]

alive == started \ crashed
Live(t) == ProcOf[t] \in alive

\* process.kill(pid, 0) on the pid that the lock file names.
PidAlive(pid) == \E p \in alive : PidOf[p] = pid

\* Mutant of CanSteal: only a lock that names a dead process may be stolen.
CanStealNamed ==
  \/ lock = NoLock
  \/ lock.age >= StaleAge /\ lock.readable /\ ~PidAlive(PidOf[ProcOf[lock.owner]])

\* canStealFileLock.  When the file is gone by the time it is read, or has no
\* readable date, its last update counts as 0 and it may be stolen as well.
CanSteal ==
  \/ lock = NoLock
  \/ /\ lock.age >= StaleAge
     /\ ~(BootIdKnown /\ lock.readable /\ PidAlive(PidOf[ProcOf[lock.owner]]))

Move(t, from, to) == pc[t] = from /\ Live(t) /\ pc' = [pc EXCEPT ![t] = to]

\* Mutant of First: the promise chain is not awaited.
FirstAnyTime(t) == queue[ProcOf[t]] # <<>>

\* All calls that came before t in its process have ended.
First(t) == queue[ProcOf[t]] # <<>> /\ Head(queue[ProcOf[t]]) = t

\* releaseCurrent: the next task of the process may start.
Leave(t) == queue' = [queue EXCEPT ![ProcOf[t]] = Tail(@)]

-----------------------------------------------------------------------------
TypeOK ==
  /\ started \subseteq Procs /\ crashed \subseteq started
  /\ queue \in [Procs -> Seq(Tasks)]
  /\ pc \in [Tasks -> Places]
  /\ waited \in [Tasks -> 0..Timeout]
  /\ lock \in [owner : Tasks \cup {Nobody}, age : 0..StaleAge, readable : BOOLEAN]
  /\ file \subseteq Tasks /\ committed \subseteq Tasks
  /\ seen \in [Tasks -> SUBSET Tasks]

Init ==
  /\ started = {} /\ crashed = {}
  /\ queue = [p \in Procs |-> <<>>]
  /\ pc = [t \in Tasks |-> "idle"]
  /\ waited = [t \in Tasks |-> 0]
  /\ lock = NoLock
  /\ file = {} /\ committed = {}
  /\ seen = [t \in Tasks |-> {}]

-----------------------------------------------------------------------------
Start(p) ==
  /\ p \notin started
  /\ Cardinality(alive) < MaxAlive
  /\ started' = started \cup {p}
  /\ UNCHANGED <<crashed, queue, pc, waited, lock, file, seen, committed>>

\* The process dies wherever its tasks are; the lock file stays.
Crash(p) ==
  /\ p \in alive
  /\ crashed' = crashed \cup {p}
  /\ queue' = [queue EXCEPT ![p] = <<>>]
  /\ pc' = [t \in Tasks |-> IF ProcOf[t] = p THEN "idle" ELSE pc[t]]
  /\ UNCHANGED <<started, waited, lock, file, seen, committed>>

\* A store call enters the promise chain of its file.
Enqueue(t) ==
  /\ Move(t, "idle", "waiting")
  /\ queue' = [queue EXCEPT ![ProcOf[t]] = Append(@, t)]
  /\ UNCHANGED <<started, crashed, waited, lock, file, seen, committed>>

\* await previous: the calls before it have ended, the attempt starts.
Begin(t) ==
  /\ Move(t, "waiting", "trying")
  /\ First(t)
  /\ waited' = [waited EXCEPT ![t] = 0]
  /\ UNCHANGED <<started, crashed, queue, lock, file, seen, committed>>

\* open(lockPath, "wx") creates the file, or fails with EEXIST.
OpenLock(t) ==
  /\ lock = NoLock
  /\ Move(t, "trying", "opened")
  /\ lock' = FreshLock(t)
  /\ UNCHANGED <<started, crashed, queue, waited, file, seen, committed>>

\* The owner writes its pid and boot id into the file it created.
StampLock(t) ==
  /\ Move(t, "opened", "locked")
  /\ lock' = IF lock.owner = t THEN [lock EXCEPT !.readable = TRUE] ELSE lock
  /\ UNCHANGED <<started, crashed, queue, waited, file, seen, committed>>

FindLock(t) ==
  /\ lock # NoLock
  /\ Move(t, "trying", "judging")
  /\ UNCHANGED <<started, crashed, queue, waited, lock, file, seen, committed>>

\* canStealFileLock reads the lock; the attempt goes on, waits or gives up.
JudgeStale(t) ==
  /\ CanSteal
  /\ Move(t, "judging", "stealing")
  /\ UNCHANGED <<started, crashed, queue, waited, lock, file, seen, committed>>

KeepWaiting(t) ==
  /\ ~CanSteal
  /\ waited[t] < Timeout
  /\ Move(t, "judging", "trying")
  /\ UNCHANGED <<started, crashed, queue, waited, lock, file, seen, committed>>

\* Mutant of GiveUp: the finally block that lets the next call in is missing.
GiveUpHolding(t) ==
  /\ ~CanSteal
  /\ waited[t] = Timeout
  /\ Move(t, "judging", "idle")
  /\ UNCHANGED <<started, crashed, queue, waited, lock, file, seen, committed>>

GiveUp(t) ==
  /\ ~CanSteal
  /\ waited[t] = Timeout
  /\ Move(t, "judging", "idle")
  /\ Leave(t)
  /\ UNCHANGED <<started, crashed, waited, lock, file, seen, committed>>

\* unlink(lockPath) removes whatever lock is there by now.
Steal(t) ==
  /\ Move(t, "stealing", "trying")
  /\ lock' = NoLock
  /\ UNCHANGED <<started, crashed, queue, waited, file, seen, committed>>

\* readJsonRecord, then writeJsonRecord: the whole record is read, changed in
\* memory, and renamed over the file.
ReadState(t) ==
  /\ Move(t, "locked", "working")
  /\ seen' = [seen EXCEPT ![t] = file]
  /\ UNCHANGED <<started, crashed, queue, waited, lock, file, committed>>

\* Mutant of WriteState: the entries read are not carried over.
WriteFresh(t) ==
  /\ Move(t, "working", "written")
  /\ file' = {t}
  /\ UNCHANGED <<started, crashed, queue, waited, lock, seen, committed>>

WriteState(t) ==
  /\ Move(t, "working", "written")
  /\ file' = seen[t] \cup {t}
  /\ UNCHANGED <<started, crashed, queue, waited, lock, seen, committed>>

\* The release closes the handle and unlinks the path, whosever lock it is.
Release(t) ==
  /\ Move(t, "written", "idle")
  /\ lock' = NoLock
  /\ committed' = committed \cup {t}
  /\ Leave(t)
  /\ UNCHANGED <<started, crashed, waited, file, seen>>

\* A call that only reads, or throws, releases the lock without a write.
ReleaseUnwritten(t) ==
  /\ Move(t, "working", "idle")
  /\ lock' = NoLock
  /\ Leave(t)
  /\ UNCHANGED <<started, crashed, waited, file, seen, committed>>

\* The heartbeat truncates the file and writes at the handle's position, which is
\* past the end: from then on the lock has a fresh mtime and unreadable JSON.  On
\* a lock that was stolen it writes to the unlinked file.
Heartbeat(t) ==
  /\ pc[t] \in Holding \ {"opened"} /\ Live(t)
  /\ lock.owner = t
  /\ lock' = [lock EXCEPT !.age = 0, !.readable = FALSE]
  /\ UNCHANGED <<started, crashed, queue, pc, waited, file, seen, committed>>

AtMost(bound, n) == IF n < bound THEN n + 1 ELSE n

\* The heartbeat of a live holder is due every timeoutMs / 2, a quarter of StaleAge.
BeatDue ==
  /\ lock.owner # Nobody
  /\ Live(lock.owner) /\ pc[lock.owner] \in Holding
  /\ lock.age + 1 >= StaleAge

Tick ==
  /\ TimelyBeats => ~BeatDue
  /\ lock' = IF lock = NoLock THEN lock ELSE [lock EXCEPT !.age = AtMost(StaleAge, @)]
  /\ waited' = [t \in Tasks |->
                  IF pc[t] \in {"trying", "judging", "stealing"}
                  THEN AtMost(Timeout, waited[t]) ELSE waited[t]]
  /\ UNCHANGED <<started, crashed, queue, pc, file, seen, committed>>

\* The steps a task takes by itself.
Advance(t) ==
  \/ Begin(t) \/ OpenLock(t) \/ StampLock(t) \/ FindLock(t)
  \/ JudgeStale(t) \/ KeepWaiting(t) \/ GiveUp(t) \/ Steal(t)
  \/ ReadState(t) \/ WriteState(t) \/ Release(t) \/ ReleaseUnwritten(t)

Next ==
  \/ \E p \in Procs : Start(p) \/ Crash(p)
  \/ \E t \in Tasks : Enqueue(t) \/ Advance(t) \/ Heartbeat(t)
  \/ Tick

Spec == Init /\ [][Next]_vars

\* Promises that can settle do, and time goes on.
FairSpec ==
  /\ Spec
  /\ \A t \in Tasks : WF_vars(Advance(t))
  /\ WF_vars(Tick)

-----------------------------------------------------------------------------
\* One task at a time is inside the critical section of the state file, across
\* the tasks and the processes (acquireFileStateLock).
Exclusion ==
  \A t, u \in Tasks : pc[t] \in Holding /\ pc[u] \in Holding => t = u

\* The promise chain alone keeps the tasks of one process apart, whatever other
\* processes do to the lock file (runWithFileStateQueue).
InProcessExclusion ==
  \A t, u \in Tasks :
    ProcOf[t] = ProcOf[u] /\ pc[t] \in Holding /\ pc[u] \in Holding => t = u

\* An acknowledged update stays in the file: no later write is based on a state
\* that was read before it (consumed jtis, revocations and sessions are kept).
NoLostUpdate == committed \subseteq file

\* Every store call ends, with the lock, without it after the timeout, or with
\* its process.
CallsEnd == \A t \in Tasks : pc[t] = "waiting" ~> pc[t] = "idle"

DeadOwned == lock # NoLock /\ ProcOf[lock.owner] \in crashed

\* The lock that a dead process left behind does not stay, as long as store calls
\* keep running into it (the stale lock takeover of canStealFileLock).
DeadLockReclaimed ==
  ([]<>(\E t \in Tasks : pc[t] = "judging")) => []<>~DeadOwned
=============================================================================
