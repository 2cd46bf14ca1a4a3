------------------------- MODULE FileStateLockProofs -------------------------
(***************************************************************************)
(* The part of FileStateLock that holds for any number of tasks, processes *)
(* and any timing: the promise chain keeps the tasks of a process apart    *)
(* whatever happens to the lock file, and with one process at a time that  *)
(* is enough for the state file.  With two processes it is not: see        *)
(* FileLockLostUpdate.                                                     *)
(***************************************************************************)
EXTENDS FileStateLock, FiniteSetTheorems, TLAPS

\* A task past the promise chain is at the head of the queue of a live process.
AtHead ==
  \A t \in Tasks :
    /\ pc[t] # "idle" => Live(t)
    /\ pc[t] \notin {"idle", "waiting"} => First(t)

QueueType ==
  /\ queue \in [Procs -> Seq(Tasks)]
  /\ pc \in [Tasks -> Places]

QueueInv == QueueType /\ AtHead

LEMMA QueueInit == Init => QueueInv
BY DEF Init, QueueInv, QueueType, AtHead, First, Places

LEMMA MoveEffect ==
  ASSUME QueueInv, NEW t \in Tasks, NEW from \in Places, NEW to \in Places,
         Move(t, from, to)
  PROVE  /\ pc[t] = from /\ Live(t) /\ pc'[t] = to
         /\ pc' \in [Tasks -> Places]
         /\ \A u \in Tasks : u # t => pc'[u] = pc[u]
BY DEF Move, QueueInv, QueueType

\* Who joins a queue does not become its head.
LEMMA HeadStays ==
  ASSUME NEW S, NEW q \in Seq(S), NEW e \in S, q # <<>>
  PROVE  Append(q, e) # <<>> /\ Head(Append(q, e)) = Head(q)
<1>1. Len(q) \in Nat /\ Len(q) > 0
  OBVIOUS
<1>2. Len(Append(q, e)) = Len(q) + 1 /\ Append(q, e)[1] = q[1]
  BY <1>1
<1> QED BY <1>1, <1>2

LEMMA QueueStep == QueueInv /\ [Next]_vars => QueueInv'
<1> SUFFICES ASSUME QueueInv, [Next]_vars PROVE QueueInv'
  OBVIOUS
<1> USE LockAssumption DEF LockAssumption
<1>1. ASSUME NEW p \in Procs, Start(p) PROVE QueueInv'
  BY <1>1 DEF Start, QueueInv, QueueType, AtHead, First, Live, alive
<1>2. ASSUME NEW p \in Procs, Crash(p) PROVE QueueInv'
  <2>1. QueueType'
    BY <1>2 DEF Crash, QueueInv, QueueType, Places
  <2>2. ASSUME NEW t \in Tasks, pc'[t] # "idle" PROVE ProcOf[t] # p /\ pc'[t] = pc[t]
    BY <1>2, <2>2 DEF Crash, QueueInv, QueueType
  <2>3. AtHead'
    BY <1>2, <2>2 DEF Crash, QueueInv, QueueType, AtHead, First, Live, alive
  <2> QED
    BY <2>1, <2>3 DEF QueueInv
<1>3. ASSUME NEW t \in Tasks, Enqueue(t) PROVE QueueInv'
  <2> DEFINE p == ProcOf[t]
  <2>1. /\ pc[t] = "idle" /\ Live(t) /\ pc'[t] = "waiting"
        /\ pc' \in [Tasks -> Places]
        /\ \A u \in Tasks : u # t => pc'[u] = pc[u]
    BY <1>3, MoveEffect DEF Enqueue, Places
  <2>2. queue[p] \in Seq(Tasks) /\ p \in Procs
    BY DEF QueueInv, QueueType
  <2>3. /\ queue' \in [Procs -> Seq(Tasks)]
        /\ queue'[p] = Append(queue[p], t)
        /\ \A q \in Procs : q # p => queue'[q] = queue[q]
    BY <1>3, <2>2 DEF Enqueue, QueueInv, QueueType
  <2>4. queue[p] # <<>> => queue'[p] # <<>> /\ Head(queue'[p]) = Head(queue[p])
    <3>1. ASSUME queue[p] # <<>>
          PROVE  Append(queue[p], t) # <<>> /\ Head(Append(queue[p], t)) = Head(queue[p])
      BY <2>2, <3>1, HeadStays
    <3> QED BY <2>3, <3>1
  <2>5. ASSUME NEW u \in Tasks, pc'[u] \notin {"idle", "waiting"}
        PROVE  First(u)'
    BY <2>1, <2>3, <2>4, <2>5 DEF QueueInv, AtHead, First
  <2>6. \A u \in Tasks : pc'[u] # "idle" => Live(u)'
    BY <1>3, <2>1 DEF Enqueue, QueueInv, AtHead, First, Live, alive
  <2> QED
    BY <2>1, <2>3, <2>5, <2>6 DEF QueueInv, QueueType, AtHead, First
<1>4. ASSUME NEW t \in Tasks, Begin(t) PROVE QueueInv'
  <2>1. /\ pc[t] = "waiting" /\ Live(t) /\ pc'[t] = "trying"
        /\ pc' \in [Tasks -> Places]
        /\ \A u \in Tasks : u # t => pc'[u] = pc[u]
    BY <1>4, MoveEffect DEF Begin, Places
  <2> QED
    BY <1>4, <2>1 DEF Begin, QueueInv, QueueType, AtHead, First, Live, alive
<1>5. ASSUME NEW t \in Tasks, NEW from \in Places \ {"idle", "waiting"},
             NEW to \in Places \ {"idle", "waiting"}, Move(t, from, to),
             UNCHANGED <<started, crashed, queue>>
      PROVE  QueueInv'
  <2>1. /\ pc[t] = from /\ Live(t) /\ pc'[t] = to
        /\ pc' \in [Tasks -> Places]
        /\ \A u \in Tasks : u # t => pc'[u] = pc[u]
    BY <1>5, MoveEffect
  <2> QED
    BY <1>5, <2>1 DEF QueueInv, QueueType, AtHead, First, Live, alive
<1>6. ASSUME NEW t \in Tasks, NEW from \in Places \ {"idle", "waiting"},
             Move(t, from, "idle"), Leave(t), UNCHANGED <<started, crashed>>
      PROVE  QueueInv'
  <2> DEFINE p == ProcOf[t]
  <2>1. /\ pc[t] = from /\ Live(t) /\ pc'[t] = "idle"
        /\ pc' \in [Tasks -> Places]
        /\ \A u \in Tasks : u # t => pc'[u] = pc[u]
    BY <1>6, MoveEffect DEF Places
  <2>2. queue[p] \in Seq(Tasks) /\ queue[p] # <<>> /\ Head(queue[p]) = t /\ p \in Procs
    BY <1>6, <2>1 DEF QueueInv, QueueType, AtHead, First
  <2>3. /\ queue' \in [Procs -> Seq(Tasks)]
        /\ \A q \in Procs : q # p => queue'[q] = queue[q]
    BY <1>6, <2>2 DEF Leave, QueueInv, QueueType
  <2>4. ASSUME NEW u \in Tasks, pc'[u] \notin {"idle", "waiting"} PROVE ProcOf[u] # p
    BY <2>1, <2>2, <2>4 DEF QueueInv, AtHead, First
  <2> QED
    BY <1>6, <2>1, <2>3, <2>4 DEF QueueInv, QueueType, AtHead, First, Live, alive
<1>7. ASSUME NEW t \in Tasks, Advance(t) PROVE QueueInv'
  BY <1>4, <1>5, <1>6, <1>7
     DEF Advance, OpenLock, StampLock, FindLock, JudgeStale, KeepWaiting, GiveUp, Steal,
         ReadState, WriteState, Release, ReleaseUnwritten, Places, Holding
<1>8. ASSUME NEW t \in Tasks, Heartbeat(t) PROVE QueueInv'
  BY <1>8 DEF Heartbeat, QueueInv, QueueType, AtHead, First, Live, alive
<1>9. CASE Tick
  BY <1>9 DEF Tick, QueueInv, QueueType, AtHead, First, Live, alive
<1>10. CASE UNCHANGED vars
  BY <1>10 DEF vars, QueueInv, QueueType, AtHead, First, Live, alive
<1> QED
  BY <1>1, <1>2, <1>3, <1>7, <1>8, <1>9, <1>10 DEF Next

-----------------------------------------------------------------------------
Locks == [owner : Tasks \cup {Nobody}, age : 0..StaleAge, readable : BOOLEAN]

\* TypeOK beside QueueType.
StateType ==
  /\ started \subseteq Procs /\ crashed \subseteq started
  /\ waited \in [Tasks -> 0..Timeout]
  /\ lock \in Locks
  /\ file \subseteq Tasks /\ committed \subseteq Tasks
  /\ seen \in [Tasks -> SUBSET Tasks]

\* The ages stop at the bound from which the code tells them no longer apart.
LEMMA AtMostBound ==
  ASSUME NEW bound \in Nat, NEW n \in 0..bound
  PROVE  AtMost(bound, n) \in 0..bound
BY DEF AtMost

\* What a step may make of the lock: nothing, no lock, a new one, or the same one
\* with another age or readability.
LEMMA LockTypes ==
  ASSUME StateType
  PROVE  /\ NoLock \in Locks
         /\ \A t \in Tasks : FreshLock(t) \in Locks
         /\ [lock EXCEPT !.readable = TRUE] \in Locks
         /\ [lock EXCEPT !.age = 0, !.readable = FALSE] \in Locks
         /\ [lock EXCEPT !.age = AtMost(StaleAge, @)] \in Locks
<1>1. StaleAge \in Nat
  BY LockAssumption DEF LockAssumption
<1>2. lock.age \in 0..StaleAge /\ 0 \in 0..StaleAge
  BY <1>1 DEF StateType, Locks
<1>3. AtMost(StaleAge, lock.age) \in 0..StaleAge
  BY <1>1, <1>2, AtMostBound
<1> QED
  BY <1>2, <1>3 DEF StateType, Locks, NoLock, FreshLock

LEMMA StateInit == Init => StateType
<1> SUFFICES ASSUME Init PROVE StateType
  OBVIOUS
<1>1. 0 \in 0..StaleAge /\ 0 \in 0..Timeout
  BY LockAssumption DEF LockAssumption
<1> QED
  BY <1>1 DEF Init, StateType, Locks, NoLock

LEMMA StateStep == StateType /\ [Next]_vars => StateType'
<1> SUFFICES ASSUME StateType, [Next]_vars PROVE StateType'
  OBVIOUS
<1>0. Timeout \in Nat /\ 0 \in 0..Timeout
  BY LockAssumption DEF LockAssumption
<1>1. ASSUME NEW p \in Procs, Start(p) \/ Crash(p) PROVE StateType'
  BY <1>1 DEF Start, Crash, alive, StateType
<1>2. ASSUME NEW t \in Tasks, Enqueue(t) PROVE StateType'
  BY <1>2 DEF Enqueue, StateType
<1>3. ASSUME NEW t \in Tasks, Begin(t) PROVE StateType'
  BY <1>0, <1>3 DEF Begin, StateType
<1>4. ASSUME NEW t \in Tasks, OpenLock(t) \/ StampLock(t) \/ Steal(t) PROVE StateType'
  BY <1>4, LockTypes DEF OpenLock, StampLock, Steal, StateType
<1>5. ASSUME NEW t \in Tasks, FindLock(t) \/ JudgeStale(t) \/ KeepWaiting(t) \/ GiveUp(t)
      PROVE  StateType'
  BY <1>5 DEF FindLock, JudgeStale, KeepWaiting, GiveUp, StateType
<1>6. ASSUME NEW t \in Tasks, ReadState(t) \/ WriteState(t) PROVE StateType'
  BY <1>6 DEF ReadState, WriteState, StateType
<1>7. ASSUME NEW t \in Tasks, Release(t) \/ ReleaseUnwritten(t) PROVE StateType'
  BY <1>7, LockTypes DEF Release, ReleaseUnwritten, StateType
<1>8. ASSUME NEW t \in Tasks, Heartbeat(t) PROVE StateType'
  BY <1>8, LockTypes DEF Heartbeat, StateType
<1>9. CASE Tick
  <2>1. lock' \in Locks
    BY <1>9, LockTypes DEF Tick, StateType
  <2>2. \A t \in Tasks : AtMost(Timeout, waited[t]) \in 0..Timeout
    BY <1>0, AtMostBound DEF StateType
  <2>3. waited' \in [Tasks -> 0..Timeout]
    BY <1>9, <2>2 DEF Tick, StateType
  <2> QED
    BY <1>9, <2>1, <2>3 DEF Tick, StateType
<1>10. CASE UNCHANGED vars
  BY <1>10 DEF vars, StateType
<1> QED
  BY <1>1, <1>2, <1>3, <1>4, <1>5, <1>6, <1>7, <1>8, <1>9, <1>10 DEF Next, Advance

\* TypeOK: the lock file names a task or nobody, its age and the waiting times stay
\* within the bounds at which the code stops telling them apart.
THEOREM LockTypeCorrect == Spec => []TypeOK
<1>1. QueueInv /\ StateType => TypeOK
  BY DEF QueueInv, QueueType, StateType, Locks, TypeOK
<1> QED
  BY QueueInit, QueueStep, StateInit, StateStep, <1>1, PTL DEF Spec

-----------------------------------------------------------------------------
\* InProcessExclusion: two store calls of one process are never both inside, even
\* after their lock was stolen or unlinked by another process.
THEOREM OneTaskPerProcess == Spec => []InProcessExclusion
<1>1. QueueInv => InProcessExclusion
  BY LockAssumption DEF QueueInv, AtHead, First, InProcessExclusion, Holding, LockAssumption
<1> QED
  BY QueueInit, QueueStep, <1>1, PTL DEF Spec

-----------------------------------------------------------------------------
(* One process at a time: restarts are allowed, sharing is not.              *)

\* All live tasks are of one process, and the file holds what was acknowledged;
\* the task inside has the file in its memory.
SoleInv ==
  /\ QueueInv
  /\ IsFiniteSet(alive)
  /\ \A p, q \in alive : p = q
  /\ seen \in [Tasks -> SUBSET Tasks] /\ file \subseteq Tasks
  /\ committed \subseteq file
  /\ \A t \in Tasks : pc[t] = "working" => seen[t] = file
  /\ \A t \in Tasks : pc[t] = "written" => t \in file

LEMMA SoleExclusion == SoleInv => Exclusion
<1> SUFFICES ASSUME SoleInv, NEW t \in Tasks, NEW u \in Tasks,
                    pc[t] \in Holding, pc[u] \in Holding
             PROVE  t = u
  BY DEF Exclusion
<1>1. First(t) /\ First(u) /\ Live(t) /\ Live(u)
  BY DEF SoleInv, QueueInv, AtHead, Holding
<1>2. ProcOf[t] = ProcOf[u]
  BY <1>1 DEF SoleInv, Live
<1> QED
  BY <1>1, <1>2 DEF First

LEMMA SoleStep ==
  ASSUME MaxAlive = 1
  PROVE  SoleInv /\ [Next]_vars => SoleInv'
<1> SUFFICES ASSUME SoleInv, [Next]_vars, QueueInv' PROVE SoleInv'
  BY QueueStep DEF SoleInv
<1>0. QueueInv /\ Exclusion
  BY SoleExclusion DEF SoleInv
<1>1. ASSUME NEW p \in Procs, Start(p) PROVE SoleInv'
  <2>1. Cardinality(alive) \in Nat /\ Cardinality(alive) < 1
    BY <1>1, FS_CardinalityType DEF Start, SoleInv
  <2>2. alive = {}
    BY <2>1, FS_EmptySet DEF SoleInv
  <2>3. alive' \subseteq {p}
    BY <1>1, <2>2 DEF Start, alive
  <2>4. IsFiniteSet(alive')
    BY <2>3, FS_Singleton, FS_Subset
  <2> QED
    BY <1>1, <2>3, <2>4 DEF Start, SoleInv, QueueInv, QueueType
<1>2. ASSUME NEW p \in Procs, Crash(p) PROVE SoleInv'
  <2>1. alive' \subseteq alive
    BY <1>2 DEF Crash, alive
  <2>2. IsFiniteSet(alive')
    BY <2>1, FS_Subset DEF SoleInv
  <2> QED
    BY <1>2, <2>1, <2>2 DEF Crash, SoleInv, QueueInv, QueueType
<1>3. ASSUME NEW t \in Tasks, NEW from \in Places, NEW to \in Places \ {"working", "written"},
             Move(t, from, to), UNCHANGED <<started, crashed, file, seen>>,
             committed' = committed \/ (from = "written" /\ committed' = committed \cup {t})
      PROVE  SoleInv'
  <2>1. /\ pc[t] = from /\ pc'[t] = to
        /\ \A u \in Tasks : u # t => pc'[u] = pc[u]
    BY <1>0, <1>3, MoveEffect
  <2>2. alive' = alive
    BY <1>3 DEF alive
  <2> QED
    BY <1>3, <2>1, <2>2 DEF SoleInv
<1>4. ASSUME NEW t \in Tasks, ReadState(t) PROVE SoleInv'
  <2>1. /\ pc'[t] = "working"
        /\ \A u \in Tasks : u # t => pc'[u] = pc[u]
    BY <1>0, <1>4, MoveEffect DEF ReadState, Places, Holding
  <2>2. alive' = alive
    BY <1>4 DEF ReadState, alive
  <2> QED
    BY <1>4, <2>1, <2>2 DEF SoleInv, ReadState
<1>5. ASSUME NEW t \in Tasks, WriteState(t) PROVE SoleInv'
  <2>1. /\ pc[t] = "working" /\ pc'[t] = "written"
        /\ \A u \in Tasks : u # t => pc'[u] = pc[u]
    BY <1>0, <1>5, MoveEffect DEF WriteState, Places, Holding
  <2>2. \A u \in Tasks : u # t => pc[u] \notin Holding
    BY <1>0, <2>1 DEF Exclusion, Holding
  <2>3. alive' = alive
    BY <1>5 DEF WriteState, alive
  <2>4. file' = file \cup {t}
    BY <1>5, <2>1 DEF WriteState, SoleInv
  <2> QED
    BY <1>5, <2>1, <2>2, <2>3, <2>4 DEF SoleInv, WriteState, Holding
<1>6. ASSUME NEW t \in Tasks, Enqueue(t) PROVE SoleInv'
  BY <1>3, <1>6 DEF Enqueue, Places
<1>7. ASSUME NEW t \in Tasks, Advance(t) PROVE SoleInv'
  BY <1>3, <1>4, <1>5, <1>7
     DEF Advance, Begin, OpenLock, StampLock, FindLock, JudgeStale, KeepWaiting, GiveUp,
         Steal, Release, ReleaseUnwritten, Places, Holding
<1>8. ASSUME NEW t \in Tasks, Heartbeat(t) PROVE SoleInv'
  BY <1>8 DEF Heartbeat, SoleInv, alive
<1>9. CASE Tick
  BY <1>9 DEF Tick, SoleInv, alive
<1>10. CASE UNCHANGED vars
  BY <1>10 DEF vars, SoleInv, alive
<1> QED
  BY <1>1, <1>2, <1>6, <1>7, <1>8, <1>9, <1>10 DEF Next

LEMMA SoleInit == Init => SoleInv
BY QueueInit, FS_EmptySet DEF Init, SoleInv, alive

\* Exclusion: one task at a time is inside, over any number of crashes and
\* restarts, as long as one process at a time uses the file.
THEOREM SoleProcessExclusion ==
  ASSUME MaxAlive = 1
  PROVE  Spec => []Exclusion
BY SoleInit, SoleStep, SoleExclusion, PTL DEF Spec

\* NoLostUpdate: under the same condition an acknowledged update stays in the file.
THEOREM SoleProcessKeepsUpdates ==
  ASSUME MaxAlive = 1
  PROVE  Spec => []NoLostUpdate
<1>1. SoleInv => NoLostUpdate
  BY DEF SoleInv, NoLostUpdate
<1> QED
  BY SoleInit, SoleStep, <1>1, PTL DEF Spec
=============================================================================
