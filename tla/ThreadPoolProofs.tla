-------------------------- MODULE ThreadPoolProofs --------------------------
(***************************************************************************)
(* What holds of ThreadPool for every number of tasks, clients and         *)
(* threads.  Core is the inductive invariant: the type invariant needs the *)
(* counters to be at least as large as the sets of threads they count, or  *)
(* they could be taken below zero; that enqueue never adds a thread once   *)
(* the pool is stopped needs to know who holds mMutex; and that a new      *)
(* thread is new needs the ids above mThreadId to be unused.  Split, the   *)
(* invariant about the tasks, says in which of six places each of them is. *)
(***************************************************************************)
EXTENDS ThreadPool, FiniteSetTheorems, TLAPS

\* enqueue's critical section is entered by one actor at a time, with a task to
\* push, and not at all once the pool has been stopped.
Locking ==
  /\ \A a \in Actors : enq[a] = "locked" <=> mMutex = a
  /\ \A a \in Actors : enq[a] = "locked" => arg[a] \in Tasks
  /\ mMutex # Free => ~mStop

\* Thread ids are handed out in order, and a running thread has a task.
Threads ==
  /\ \A w \in ThreadIds : w >= mThreadId => pc[w] = "unborn"
  /\ \A w \in ThreadIds : pc[w] = "running" => job[w] \in Tasks

Counts ==
  /\ mIdleThreads >= Cardinality(Idle)
  /\ mActiveThreadNum >= Cardinality(Idle) + Cardinality(Busy)
  /\ ~mStop => /\ mIdleThreads = Cardinality(Idle)
               /\ mActiveThreadNum = Cardinality(Idle) + Cardinality(Busy)
               /\ mActiveThreadNum \in mInitThreadNum .. MaxThreadNum

Core == TypeOK /\ Locking /\ Threads /\ Counts

-----------------------------------------------------------------------------
(* Finite sets of threads and of actors *)

LEMMA InitialNumber ==
  /\ mInitThreadNum \in Nat \ {0} /\ mInitThreadNum <= MaxThreadNum
  /\ mInitThreadNum <= MaxThreadId + 1
BY PoolAssumption DEF PoolAssumption, mInitThreadNum

\* Sets of actors and of pool threads have cardinalities.
LEMMA FiniteActors ==
  ASSUME NEW S, S \subseteq Actors
  PROVE  IsFiniteSet(S) /\ Cardinality(S) \in Nat
<1>1. IsFiniteSet(ThreadIds)
  BY PoolAssumption, FS_Interval DEF PoolAssumption, ThreadIds
<1>2. IsFiniteSet(Actors)
  BY <1>1, PoolAssumption, FS_Union DEF PoolAssumption, Actors
<1>3. IsFiniteSet(S)
  BY <1>2, FS_Subset
<1> QED BY <1>3, FS_CardinalityType

\* One actor more, one actor less.
LEMMA OneMore ==
  ASSUME NEW S, S \subseteq Actors, NEW a, a \notin S
  PROVE  Cardinality(S \cup {a}) = Cardinality(S) + 1
BY FiniteActors, FS_AddElement

LEMMA OneLess ==
  ASSUME NEW S, S \subseteq Actors, NEW a \in S
  PROVE  /\ Cardinality(S \ {a}) = Cardinality(S) - 1
         /\ Cardinality(S) >= 1
<1>1. IsFiniteSet(S) /\ Cardinality(S) \in Nat
  BY FiniteActors
<1>2. Cardinality(S \ {a}) = Cardinality(S) - 1
  BY <1>1, FS_RemoveElement
<1>3. Cardinality(S \ {a}) \in Nat
  BY FiniteActors
<1> QED BY <1>1, <1>2, <1>3

LEMMA ThreadSets ==
  /\ Idle \subseteq Actors /\ Busy \subseteq Actors
  /\ Cardinality(Idle) \in Nat /\ Cardinality(Busy) \in Nat
BY FiniteActors DEF Idle, Busy, Actors


-----------------------------------------------------------------------------
(* Core is an inductive invariant *)

LEMMA CoreInit == Init => Core
<1> SUFFICES ASSUME Init PROVE Core
  OBVIOUS
<1> USE InitialNumber
<1>1. TypeOK
  <2>1. pc \in [ThreadIds -> {"unborn", "ready", "waiting", "running", "returned", "exited"}]
    BY DEF Init
  <2>2. mWorkers \subseteq ThreadIds
    BY PoolAssumption DEF Init, PoolAssumption, ThreadIds
  <2>3. mTaskQueue \in Seq(Tasks)
    BY DEF Init
  <2>4. mIdleThreads \in Nat /\ mActiveThreadNum \in Nat /\ mThreadId \in Nat
    BY DEF Init
  <2> QED BY <2>1, <2>2, <2>3, <2>4 DEF Init, TypeOK
<1>2. Locking
  BY PoolAssumption DEF Init, Locking, PoolAssumption
<1>3. Threads
  BY DEF Init, Threads, ThreadIds
<1>4. Counts
  <2>1. Idle = 0 .. mInitThreadNum - 1 /\ Busy = {}
    BY PoolAssumption DEF Init, Idle, Busy, ThreadIds, PoolAssumption
  <2>2. Cardinality(Idle) = mInitThreadNum /\ Cardinality(Busy) = 0
    BY <2>1, FS_Interval, FS_EmptySet
  <2> QED BY <2>2, PoolAssumption DEF Init, Counts, PoolAssumption
<1> QED BY <1>1, <1>2, <1>3, <1>4 DEF Core

\* Steps of enqueue and of the destructor that start and end no thread.
LEMMA CoreSameThreads ==
  ASSUME Core, UNCHANGED <<pc, job, mIdleThreads, mActiveThreadNum, mThreadId>>,
         TypeOK', Locking', mStop => mStop'
  PROVE  Core'
<1>1. Idle' = Idle /\ Busy' = Busy
  BY DEF Idle, Busy
<1>2. Threads'
  BY DEF Core, Threads
<1>3. Counts'
  BY <1>1 DEF Core, Counts
<1> QED BY <1>2, <1>3 DEF Core

\* A thread w leaves the idle ones.
LEMMA LeavesIdle ==
  ASSUME TypeOK, NEW w \in Idle, NEW s \in {"running", "returned"},
         pc' = [pc EXCEPT ![w] = s]
  PROVE  /\ Cardinality(Idle') = Cardinality(Idle) - 1 /\ Cardinality(Idle) >= 1
         /\ (s = "running" => Cardinality(Busy') = Cardinality(Busy) + 1)
         /\ (s = "returned" => Busy' = Busy)
<1>1. Idle' = Idle \ {w}
  BY DEF Idle, TypeOK
<1>2. Busy' = IF s = "running" THEN Busy \cup {w} ELSE Busy
  BY DEF Idle, Busy, TypeOK
<1>3. w \notin Busy
  BY DEF Idle, Busy
<1> QED BY <1>1, <1>2, <1>3, ThreadSets, OneMore, OneLess

\* A running thread w stops running.
LEMMA LeavesBusy ==
  ASSUME TypeOK, NEW w \in Busy, NEW s \in {"ready", "returned"},
         pc' = [pc EXCEPT ![w] = s]
  PROVE  /\ Cardinality(Busy') = Cardinality(Busy) - 1 /\ Cardinality(Busy) >= 1
         /\ (s = "ready" => Cardinality(Idle') = Cardinality(Idle) + 1)
         /\ (s = "returned" => Idle' = Idle)
<1>1. Busy' = Busy \ {w}
  BY DEF Busy, TypeOK
<1>2. Idle' = IF s = "ready" THEN Idle \cup {w} ELSE Idle
  BY DEF Idle, Busy, TypeOK
<1>3. w \notin Idle
  BY DEF Idle, Busy
<1> QED BY <1>1, <1>2, <1>3, ThreadSets, OneMore, OneLess

\* A thread moves between ready and waiting, or is gone for good.
LEMMA SameCounts ==
  ASSUME TypeOK, pc' \in [ThreadIds -> {"unborn", "ready", "waiting", "running", "returned", "exited"}],
         \A v \in ThreadIds : \/ pc'[v] = pc[v]
                              \/ pc[v] \in {"ready", "waiting"} /\ pc'[v] \in {"ready", "waiting"}
                              \/ pc[v] = "returned" /\ pc'[v] = "exited"
  PROVE  Idle' = Idle /\ Busy' = Busy
BY DEF Idle, Busy, TypeOK

LEMMA CoreSameCounts ==
  ASSUME Core, UNCHANGED <<job, mIdleThreads, mActiveThreadNum, mThreadId, mStop>>,
         TypeOK', Locking',
         \A v \in ThreadIds : \/ pc'[v] = pc[v]
                              \/ pc[v] \in {"ready", "waiting"} /\ pc'[v] \in {"ready", "waiting"}
                              \/ pc[v] = "returned" /\ pc'[v] = "exited"
  PROVE  Core'
<1>1. Idle' = Idle /\ Busy' = Busy
  BY SameCounts DEF Core, TypeOK
<1>2. Threads'
  BY DEF Core, Threads
<1>3. Counts'
  BY <1>1 DEF Core, Counts
<1> QED BY <1>2, <1>3 DEF Core

LEMMA CoreWait == ASSUME NEW w \in ThreadIds, Core, Wait(w) PROVE Core'
<1>1. TypeOK' /\ Locking'
  BY DEF Core, TypeOK, Locking, Wait, countVars, callVars, taskVars
<1>2. \A v \in ThreadIds : \/ pc'[v] = pc[v]
                           \/ pc[v] \in {"ready", "waiting"} /\ pc'[v] \in {"ready", "waiting"}
  BY DEF Core, TypeOK, Wait
<1> QED BY <1>1, <1>2, CoreSameCounts DEF Wait, countVars

LEMMA CoreSpuriousWakeup == ASSUME NEW w \in ThreadIds, Core, SpuriousWakeup(w) PROVE Core'
<1>1. TypeOK' /\ Locking'
  BY DEF Core, TypeOK, Locking, SpuriousWakeup, countVars, callVars, taskVars
<1>2. \A v \in ThreadIds : \/ pc'[v] = pc[v]
                           \/ pc[v] \in {"ready", "waiting"} /\ pc'[v] \in {"ready", "waiting"}
  BY DEF Core, TypeOK, SpuriousWakeup
<1> QED BY <1>1, <1>2, CoreSameCounts DEF SpuriousWakeup, countVars

\* A thread that returns because the pool is stopped stays in the counters.
LEMMA CoreReturnOnStop == ASSUME NEW w \in ThreadIds, Core, ReturnOnStop(w) PROVE Core'
<1>1. TypeOK' /\ Locking'
  BY DEF Core, TypeOK, Locking, ReturnOnStop, countVars, callVars, taskVars
<1>2. Threads'
  BY DEF Core, TypeOK, Threads, ReturnOnStop
<1>3. Counts'
  <2>1. w \in Idle /\ pc' = [pc EXCEPT ![w] = "returned"]
    BY DEF ReturnOnStop, Idle
  <2>2. Cardinality(Idle') = Cardinality(Idle) - 1 /\ Cardinality(Busy') = Cardinality(Busy)
    BY <2>1, LeavesIdle DEF Core
  <2> QED BY <2>2, ThreadSets DEF Core, TypeOK, Counts, ReturnOnStop, countVars
<1> QED BY <1>1, <1>2, <1>3 DEF Core

LEMMA CoreTake == ASSUME NEW w \in ThreadIds, Core, Take(w) PROVE Core'
<1>1. w \in Idle /\ pc' = [pc EXCEPT ![w] = "running"]
  BY DEF Take, Idle
<1>2. /\ Cardinality(Idle') = Cardinality(Idle) - 1 /\ Cardinality(Idle) >= 1
      /\ Cardinality(Busy') = Cardinality(Busy) + 1
  BY <1>1, LeavesIdle DEF Core
<1>3. Head(mTaskQueue) \in Tasks /\ Tail(mTaskQueue) \in Seq(Tasks)
  BY DEF Core, TypeOK, Take
<1>4. mIdleThreads' \in Nat
  BY <1>2, ThreadSets DEF Core, TypeOK, Counts, Take
<1>5. TypeOK' /\ Locking'
  BY <1>3, <1>4 DEF Core, TypeOK, Locking, Take, callVars, taskVars
<1>6. Threads'
  BY <1>3 DEF Core, TypeOK, Threads, Take
<1>7. Counts'
  BY <1>2, ThreadSets DEF Core, TypeOK, Counts, Take
<1> QED BY <1>5, <1>6, <1>7 DEF Core

\* A retiring thread leaves at least mInitThreadNum behind, all of them idle.
LEMMA CoreFinish == ASSUME NEW w \in ThreadIds, Core, Finish(w) PROVE Core'
<1>0. w \in Busy
  BY DEF Finish, Busy
<1>1. CASE Redundant(mIdleThreads + 1, Len(mTaskQueue))
  <2>1. pc' = [pc EXCEPT ![w] = "returned"]
    BY <1>1 DEF Finish
  <2>2. /\ Cardinality(Busy') = Cardinality(Busy) - 1 /\ Cardinality(Busy) >= 1
        /\ Cardinality(Idle') = Cardinality(Idle)
    BY <1>0, <2>1, LeavesBusy DEF Core
  <2>3. mActiveThreadNum' \in Nat
    BY <1>1, <2>2, ThreadSets DEF Core, TypeOK, Counts, Finish
  <2>4. TypeOK' /\ Locking'
    BY <1>1, <2>3 DEF Core, TypeOK, Locking, Threads, Finish, callVars
  <2>5. Threads'
    BY <1>1 DEF Core, TypeOK, Threads, Finish
  <2>6. Counts'
    <3>1. mIdleThreads + 1 > mInitThreadNum
      BY <1>1 DEF Redundant
    <3>2. /\ mIdleThreads' = mIdleThreads /\ mActiveThreadNum' = mActiveThreadNum - 1
          /\ mStop' = mStop
      BY <1>1 DEF Finish
    <3>3. mIdleThreads \in Nat /\ mActiveThreadNum \in Nat /\ MaxThreadNum \in Nat
      BY PoolAssumption DEF Core, TypeOK, PoolAssumption
    <3>4. Counts
      BY DEF Core
    <3>5. /\ mIdleThreads' >= Cardinality(Idle')
          /\ mActiveThreadNum' >= Cardinality(Idle') + Cardinality(Busy')
      BY <2>2, <3>2, <3>3, <3>4, ThreadSets DEF Counts
    <3>6. ASSUME ~mStop'
          PROVE  /\ mIdleThreads' = Cardinality(Idle')
                 /\ mActiveThreadNum' = Cardinality(Idle') + Cardinality(Busy')
                 /\ mActiveThreadNum' \in mInitThreadNum .. MaxThreadNum
      BY <2>2, <3>1, <3>2, <3>3, <3>4, <3>6, ThreadSets, InitialNumber DEF Counts
    <3> QED BY <3>5, <3>6 DEF Counts
  <2> QED BY <2>4, <2>5, <2>6 DEF Core
<1>2. CASE ~Redundant(mIdleThreads + 1, Len(mTaskQueue))
  <2>1. pc' = [pc EXCEPT ![w] = "ready"]
    BY <1>2 DEF Finish
  <2>2. /\ Cardinality(Busy') = Cardinality(Busy) - 1 /\ Cardinality(Busy) >= 1
        /\ Cardinality(Idle') = Cardinality(Idle) + 1
    BY <1>0, <2>1, LeavesBusy DEF Core
  <2>3. TypeOK' /\ Locking'
    BY <1>2 DEF Core, TypeOK, Locking, Threads, Finish, callVars
  <2>4. Threads'
    BY <1>2 DEF Core, TypeOK, Threads, Finish
  <2>5. Counts'
    <3>1. Counts
      BY DEF Core
    <3>2. /\ UNCHANGED <<mActiveThreadNum, mStop>>
          /\ mIdleThreads' = mIdleThreads + 1
      BY <1>2 DEF Finish
    <3> QED BY <2>2, <3>1, <3>2, ThreadSets DEF Core, TypeOK, Counts
  <2> QED BY <2>3, <2>4, <2>5 DEF Core
<1> QED BY <1>1, <1>2

LEMMA CoreExit == ASSUME NEW w \in ThreadIds, Core, Exit(w) PROVE Core'
<1>1. TypeOK' /\ Locking'
  BY DEF Core, TypeOK, Locking, Exit, countVars, callVars, taskVars
<1>2. \A v \in ThreadIds : pc'[v] = pc[v] \/ (pc[v] = "returned" /\ pc'[v] = "exited")
  BY DEF Core, TypeOK, Exit
<1> QED BY <1>1, <1>2, CoreSameCounts DEF Exit, countVars

LEMMA CoreEnqueueRefused ==
  ASSUME NEW a \in Actors, NEW t \in Tasks, Core, EnqueueRefused(a, t)
  PROVE  Core'
<1>1. TypeOK' /\ Locking'
  BY DEF Core, TypeOK, Locking, EnqueueRefused, threadVars, countVars, callVars
<1> QED BY <1>1, CoreSameThreads DEF EnqueueRefused, threadVars, countVars

LEMMA CoreEnqueueLock ==
  ASSUME NEW a \in Actors, NEW t \in Tasks, Core, EnqueueLock(a, t)
  PROVE  Core'
<1>1. TypeOK'
  BY DEF Core, TypeOK, EnqueueLock, threadVars, countVars
<1>2. Locking'
  <2>1. \A b \in Actors : enq[b] # "locked"
    BY PoolAssumption DEF Core, Locking, EnqueueLock, PoolAssumption
  <2> QED BY <2>1 DEF Core, TypeOK, Locking, EnqueueLock
<1> QED BY <1>1, <1>2, CoreSameThreads DEF EnqueueLock, threadVars, countVars

LEMMA CoreEnqueueJoin == ASSUME NEW a \in Actors, Core, EnqueueJoin(a) PROVE Core'
<1>1. TypeOK' /\ Locking'
  BY DEF Core, TypeOK, Locking, EnqueueJoin, countVars, callVars, taskVars
<1> QED BY <1>1, CoreSameThreads DEF EnqueueJoin, countVars

\* The caller that is inside enqueue holds the mutex of a pool that still runs.
LEMMA Locked ==
  ASSUME Core, NEW a \in Actors, enq[a] = "locked"
  PROVE  mMutex = a /\ ~mStop /\ arg[a] \in Tasks
BY PoolAssumption DEF Core, Locking, PoolAssumption

\* A thread added by addThread is a new one.
LEMMA ThreadAdded ==
  ASSUME Core, addThread
  PROVE  /\ mThreadId \in ThreadIds /\ pc[mThreadId] = "unborn"
         /\ Idle' = Idle \cup {mThreadId} /\ mThreadId \notin Idle /\ Busy' = Busy
<1>1. mThreadId \in ThreadIds
  BY DEF Core, TypeOK, addThread, ThreadIds
<1>2. pc[mThreadId] = "unborn"
  BY <1>1 DEF Core, TypeOK, Threads
<1> QED BY <1>1, <1>2 DEF Core, TypeOK, addThread, Idle, Busy

LEMMA CoreEnqueuePush == ASSUME NEW a \in Actors, Core, EnqueuePush(a) PROVE Core'
<1>1. mMutex = a /\ ~mStop /\ arg[a] \in Tasks
  BY Locked DEF EnqueuePush
<1>2. Locking'
  BY <1>1, PoolAssumption DEF Core, TypeOK, Locking, EnqueuePush, PoolAssumption
<1>3. mTaskQueue' \in Seq(Tasks)
  BY <1>1 DEF Core, TypeOK, EnqueuePush
<1>4. CASE NeedsThread(Len(mTaskQueue) + 1)
  <2>1. addThread
    BY <1>4 DEF EnqueuePush
  <2>2. /\ mThreadId \in ThreadIds
        /\ Idle' = Idle \cup {mThreadId} /\ mThreadId \notin Idle /\ Busy' = Busy
    BY <2>1, ThreadAdded
  <2>3. TypeOK'
    BY <1>3, <2>1, <2>2 DEF Core, TypeOK, EnqueuePush, addThread, taskVars
  <2>4. Threads'
    BY <2>1 DEF Core, TypeOK, Threads, EnqueuePush, addThread, ThreadIds
  <2>5. Cardinality(Idle') = Cardinality(Idle) + 1
    BY <2>2, ThreadSets, OneMore
  <2>6. Counts'
    <3>1. mActiveThreadNum < MaxThreadNum
      BY <1>4 DEF NeedsThread
    <3>2. mIdleThreads' = Cardinality(Idle') /\ mActiveThreadNum' = Cardinality(Idle') + Cardinality(Busy')
      BY <1>1, <2>1, <2>2, <2>5, ThreadSets DEF Core, Counts, addThread
    <3>3. mActiveThreadNum' \in mInitThreadNum .. MaxThreadNum
      BY <1>1, <2>1, <3>1, InitialNumber, PoolAssumption
         DEF Core, Counts, addThread, PoolAssumption
    <3>4. Cardinality(Idle') \in Nat /\ Cardinality(Busy') \in Nat
      BY <2>2, <2>5, ThreadSets
    <3> QED BY <3>2, <3>3, <3>4 DEF Counts
  <2> QED BY <1>2, <2>3, <2>4, <2>6 DEF Core
<1>5. CASE ~NeedsThread(Len(mTaskQueue) + 1)
  <2>1. UNCHANGED <<pc, job, mIdleThreads, mActiveThreadNum, mThreadId, mWorkers, mStop>>
    BY <1>5 DEF EnqueuePush, countVars
  <2>2. TypeOK'
    BY <1>3, <2>1 DEF Core, TypeOK, EnqueuePush, taskVars
  <2> QED BY <1>2, <2>1, <2>2, CoreSameThreads
<1> QED BY <1>4, <1>5

LEMMA CoreEnqueueNotify == ASSUME NEW a \in Actors, Core, EnqueueNotify(a) PROVE Core'
<1>1. \A v \in ThreadIds : \/ pc'[v] = pc[v]
                           \/ pc[v] \in {"ready", "waiting"} /\ pc'[v] \in {"ready", "waiting"}
  BY DEF Core, TypeOK, EnqueueNotify, Waiting
<1>2. pc' \in [ThreadIds -> {"unborn", "ready", "waiting", "running", "returned", "exited"}]
  BY DEF Core, TypeOK, EnqueueNotify, Waiting
<1>3. TypeOK' /\ Locking'
  BY <1>2 DEF Core, TypeOK, Locking, EnqueueNotify, countVars, taskVars
<1> QED BY <1>1, <1>3, CoreSameCounts DEF EnqueueNotify, countVars

LEMMA CoreDestroy == ASSUME Core, Destroy PROVE Core'
<1>1. CASE DestroyStop
  <2>1. TypeOK' /\ Locking'
    BY <1>1, PoolAssumption
       DEF Core, TypeOK, Locking, DestroyStop, threadVars, countVars, callVars, taskVars
  <2> QED BY <1>1, <2>1, CoreSameThreads DEF DestroyStop, threadVars, countVars
<1>2. CASE DestroyNotifyAll
  <2>1. TypeOK' /\ Locking'
    BY <1>2 DEF Core, TypeOK, Locking, DestroyNotifyAll, countVars, callVars, taskVars
  <2>2. \A v \in ThreadIds : \/ pc'[v] = pc[v]
                             \/ pc[v] \in {"ready", "waiting"} /\ pc'[v] \in {"ready", "waiting"}
    BY <1>2 DEF DestroyNotifyAll
  <2> QED BY <1>2, <2>1, <2>2, CoreSameCounts DEF DestroyNotifyAll, countVars
<1>3. CASE DestroyJoined
  <2>1. TypeOK' /\ Locking'
    BY <1>3 DEF Core, TypeOK, Locking, DestroyJoined, countVars, callVars, taskVars
  <2> QED BY <1>3, <2>1, CoreSameThreads DEF DestroyJoined, countVars
<1> QED BY <1>1, <1>2, <1>3 DEF Destroy

LEMMA CoreStutter == ASSUME Core, UNCHANGED vars PROVE Core'
<1>1. TypeOK' /\ Locking'
  BY DEF Core, TypeOK, Locking, vars, threadVars, countVars, callVars, taskVars
<1> QED BY <1>1, CoreSameThreads DEF vars, threadVars, countVars

LEMMA CoreNext == ASSUME Core, [Next]_vars PROVE Core'
<1>1. ASSUME NEW w \in ThreadIds, Loop(w) \/ SpuriousWakeup(w) PROVE Core'
  BY <1>1, CoreWait, CoreReturnOnStop, CoreTake, CoreFinish, CoreExit, CoreSpuriousWakeup
     DEF Loop
<1>2. ASSUME NEW a \in Actors, Enqueue(a) PROVE Core'
  BY <1>2, CoreEnqueueRefused, CoreEnqueueLock, CoreEnqueueJoin, CoreEnqueuePush,
     CoreEnqueueNotify DEF Enqueue
<1> QED BY <1>1, <1>2, CoreDestroy, CoreStutter DEF Next

LEMMA CoreAlways == Safe => []Core
BY CoreInit, CoreNext, PTL DEF Safe

-----------------------------------------------------------------------------
(* The properties of the runs, for every value of the constants *)

\* Every reachable state is well typed; above all, neither counter of the pool
\* ever goes below zero, not even while the pool is being destroyed.
THEOREM TypeCorrect == Spec => []TypeOK
<1>1. Core => TypeOK
  BY DEF Core
<1> QED BY <1>1, CoreAlways, PTL DEF Spec

\* While the pool runs its two counters are the numbers of idle threads and of
\* all threads, and the pool has at least its initial and at most its maximal
\* number of threads.
THEOREM CountersAreExact == Spec => []CountersExact
<1>1. Core => CountersExact
  <2> SUFFICES ASSUME Core, ~mStop PROVE CountersExact
    BY DEF CountersExact
  <2>1. IsFiniteSet(Idle) /\ IsFiniteSet(Busy) /\ Idle \cap Busy = {}
    BY ThreadSets, FiniteActors DEF Idle, Busy
  <2>2. Cardinality(Idle \cup Busy) = Cardinality(Idle) + Cardinality(Busy)
    BY <2>1, ThreadSets, FS_Union, FS_EmptySet
  <2> QED BY <2>2 DEF Core, Counts, CountersExact
<1> QED BY <1>1, CoreAlways, PTL DEF Spec

-----------------------------------------------------------------------------
(* Growing and shrinking *)

LEMMA TakesFromQueue ==
  ASSUME Core, mTaskQueue # <<>>
  PROVE  Len(mTaskQueue) \in Nat /\ Len(Tail(mTaskQueue)) = Len(mTaskQueue) - 1
BY DEF Core, TypeOK

LEMMA IdleThreadsInit == Init => EveryTaskHasAnIdleThread
BY InitialNumber DEF Init, EveryTaskHasAnIdleThread

LEMMA IdleThreadsNext ==
  ASSUME Core, EveryTaskHasAnIdleThread, [Next]_vars
  PROVE  EveryTaskHasAnIdleThread'
<1> USE DEF EveryTaskHasAnIdleThread
<1>0. /\ Len(mTaskQueue) \in Nat /\ mIdleThreads \in Nat /\ mActiveThreadNum \in Nat
      /\ MaxThreadNum \in Nat
  BY PoolAssumption DEF Core, TypeOK, PoolAssumption
<1>1. CASE UNCHANGED <<countVars, mTaskQueue>>
  BY <1>1 DEF countVars
<1>2. ASSUME NEW w \in ThreadIds, Take(w) PROVE EveryTaskHasAnIdleThread'
  BY <1>0, <1>2, TakesFromQueue DEF Take
<1>3. ASSUME NEW w \in ThreadIds, Finish(w) PROVE EveryTaskHasAnIdleThread'
  <2>1. CASE Redundant(mIdleThreads + 1, Len(mTaskQueue))
    <3>1. mIdleThreads + 1 > 2 * Len(mTaskQueue)
      BY <2>1 DEF Redundant
    <3>2. Len(mTaskQueue) <= mIdleThreads
      BY <1>0, <3>1
    <3> QED BY <1>3, <2>1, <3>2 DEF Finish
  <2>2. CASE ~Redundant(mIdleThreads + 1, Len(mTaskQueue))
    BY <1>0, <1>3, <2>2 DEF Finish
  <2> QED BY <2>1, <2>2
<1>4. ASSUME NEW a \in Actors, EnqueuePush(a) PROVE EveryTaskHasAnIdleThread'
  <2>1. arg[a] \in Tasks
    BY <1>4, Locked DEF EnqueuePush
  <2>2. Len(mTaskQueue') = Len(mTaskQueue) + 1
    BY <1>4, <2>1 DEF Core, TypeOK, EnqueuePush
  <2>3. CASE NeedsThread(Len(mTaskQueue) + 1)
    BY <1>0, <1>4, <2>2, <2>3 DEF EnqueuePush, NeedsThread, addThread
  <2>4. CASE ~NeedsThread(Len(mTaskQueue) + 1)
    BY <1>0, <1>4, <2>2, <2>4 DEF EnqueuePush, NeedsThread, countVars
  <2> QED BY <2>3, <2>4
<1> QED
  BY <1>1, <1>2, <1>3, <1>4
     DEF Next, Loop, Enqueue, Destroy, Wait, SpuriousWakeup, ReturnOnStop, Exit,
         EnqueueRefused, EnqueueLock, EnqueueJoin, EnqueueNotify,
         DestroyStop, DestroyNotifyAll, DestroyJoined, vars, countVars

\* Below the maximal size the pool always has as many idle threads as queued
\* tasks: neither the retirement rule of loop nor a burst of enqueue calls can
\* leave a task behind a running one.
THEOREM IdleThreadsSuffice == Spec => []EveryTaskHasAnIdleThread
BY CoreAlways, IdleThreadsInit, IdleThreadsNext, PTL DEF Spec, Safe

-----------------------------------------------------------------------------
(* Disposing of threads *)

LEMMA DisposalInit == Init => ThreadsDisposedSafely
BY InitialNumber DEF Init, ThreadsDisposedSafely, ThreadIds

LEMMA DisposalNext ==
  ASSUME Core, ThreadsDisposedSafely, [Next]_vars
  PROVE  ThreadsDisposedSafely'
<1> USE DEF ThreadsDisposedSafely
<1>1. CASE UNCHANGED threadVars
  BY <1>1 DEF threadVars
<1>2. ASSUME NEW w \in ThreadIds, Loop(w) \/ SpuriousWakeup(w)
      PROVE  ThreadsDisposedSafely'
  <2>1. CASE Wait(w) \/ SpuriousWakeup(w) \/ ReturnOnStop(w)
    BY <2>1 DEF Core, TypeOK, Wait, SpuriousWakeup, ReturnOnStop
  <2>2. CASE Take(w)
    BY <2>2 DEF Core, TypeOK, Take
  <2>3. CASE Finish(w)
    BY <2>3 DEF Core, TypeOK, Finish
  <2>4. CASE Exit(w)
    BY <2>4 DEF Core, TypeOK, Exit
  <2> QED BY <1>2, <2>1, <2>2, <2>3, <2>4 DEF Loop
<1>3. ASSUME NEW a \in Actors, EnqueueJoin(a) PROVE ThreadsDisposedSafely'
  BY <1>3 DEF EnqueueJoin
<1>4. ASSUME NEW a \in Actors, EnqueuePush(a) PROVE ThreadsDisposedSafely'
  <2>1. CASE addThread
    <3>1. mPendingRemoveThreadIds' = mPendingRemoveThreadIds
      BY <1>4 DEF EnqueuePush
    <3>2. mThreadId \in ThreadIds /\ pc[mThreadId] = "unborn"
      BY <2>1, ThreadAdded
    <3> QED BY <2>1, <3>1, <3>2 DEF Core, TypeOK, addThread
  <2>2. CASE UNCHANGED <<pc, mWorkers, mPendingRemoveThreadIds>>
    BY <2>2
  <2> QED BY <1>4, <2>1, <2>2 DEF EnqueuePush
<1>5. ASSUME NEW a \in Actors, EnqueueNotify(a) PROVE ThreadsDisposedSafely'
  BY <1>5 DEF Core, TypeOK, EnqueueNotify, Waiting
<1>6. CASE DestroyNotifyAll
  BY <1>6 DEF Core, TypeOK, DestroyNotifyAll
<1>7. CASE DestroyJoined
  BY <1>7 DEF DestroyJoined
<1> QED
  BY <1>1, <1>2, <1>3, <1>4, <1>5, <1>6, <1>7
     DEF Next, Enqueue, Destroy, EnqueueRefused, EnqueueLock, DestroyStop, vars

\* No std::thread object is dropped before its thread has been joined, and only
\* threads that have left loop are handed over to be joined.
THEOREM ThreadsAreDisposedSafely == Spec => []ThreadsDisposedSafely
BY CoreAlways, DisposalInit, DisposalNext, PTL DEF Spec, Safe

-----------------------------------------------------------------------------
(* Waking threads up *)

LEMMA WakeupSets ==
  /\ Ready \subseteq Actors /\ Notifying \subseteq Actors
  /\ Cardinality(Ready) \in Nat /\ Cardinality(Notifying) \in Nat
BY FiniteActors DEF Ready, Notifying, Actors

LEMMA WakeupInit == Init => NoLostWakeup
<1> SUFFICES ASSUME Init PROVE Waiting = {}
  BY DEF NoLostWakeup
<1> QED BY DEF Init, Waiting

\* A thread that becomes ready, or stops being ready.
LEMMA ReadyMore ==
  ASSUME TypeOK, NEW w \in ThreadIds, pc[w] # "ready", pc' = [pc EXCEPT ![w] = "ready"]
  PROVE  Cardinality(Ready') = Cardinality(Ready) + 1
<1>1. Ready' = Ready \cup {w} /\ w \notin Ready
  BY DEF Ready, TypeOK
<1> QED BY <1>1, WakeupSets, OneMore

LEMMA ReadyLess ==
  ASSUME TypeOK, NEW w \in ThreadIds, pc[w] = "ready", NEW s,
         pc' = [pc EXCEPT ![w] = s], s # "ready"
  PROVE  Cardinality(Ready') = Cardinality(Ready) - 1
<1>1. Ready' = Ready \ {w} /\ w \in Ready
  BY DEF Ready, TypeOK
<1> QED BY <1>1, WakeupSets, OneLess

LEMMA WakeupLoop ==
  ASSUME Core, NoLostWakeup, NEW w \in ThreadIds, Loop(w) \/ SpuriousWakeup(w)
  PROVE  NoLostWakeup'
<1> USE WakeupSets DEF NoLostWakeup
<1>0. Len(mTaskQueue) \in Nat
  BY DEF Core, TypeOK
<1>1. CASE Wait(w)
  <2>1. mTaskQueue' = <<>>
    BY <1>1 DEF Wait, HasWork
  <2>2. Cardinality(Ready') \in Nat /\ Cardinality(Notifying') \in Nat
    BY FiniteActors DEF Ready, Notifying, Actors
  <2> QED BY <2>1, <2>2
<1>2. CASE SpuriousWakeup(w)
  <2>1. Cardinality(Ready') = Cardinality(Ready) + 1 /\ w \in Waiting
    BY <1>2, ReadyMore DEF Core, SpuriousWakeup, Waiting
  <2>2. Notifying' = Notifying /\ mTaskQueue' = mTaskQueue /\ mStop' = mStop
    BY <1>2 DEF SpuriousWakeup, Notifying, callVars
  <2> QED BY <1>0, <2>1, <2>2
<1>3. CASE ReturnOnStop(w)
  BY <1>3 DEF ReturnOnStop
<1>4. CASE Take(w)
  <2>1. Cardinality(Ready') = Cardinality(Ready) - 1
    BY <1>4, ReadyLess DEF Core, Take
  <2>2. Len(mTaskQueue') = Len(mTaskQueue) - 1
    BY <1>4, TakesFromQueue DEF Take
  <2>3. Notifying' = Notifying /\ Waiting' = Waiting /\ mStop' = mStop
    BY <1>4 DEF Core, TypeOK, Take, Notifying, Waiting, callVars
  <2> QED BY <1>0, <2>1, <2>2, <2>3
<1>5. CASE Finish(w)
  <2>1. Cardinality(Ready') \in {Cardinality(Ready), Cardinality(Ready) + 1}
    <3>1. CASE pc' = [pc EXCEPT ![w] = "ready"]
      BY <1>5, <3>1, ReadyMore DEF Core, Finish
    <3>2. CASE pc' = [pc EXCEPT ![w] = "returned"]
      <4>1. Ready' = Ready
        BY <1>5, <3>2 DEF Core, TypeOK, Finish, Ready
      <4> QED BY <4>1
    <3> QED BY <1>5, <3>1, <3>2 DEF Finish
  <2>2. /\ Notifying' = Notifying /\ Waiting' = Waiting
        /\ mTaskQueue' = mTaskQueue /\ mStop' = mStop
    BY <1>5 DEF Core, TypeOK, Finish, Notifying, Waiting, callVars
  <2> QED BY <1>0, <2>1, <2>2
<1>6. CASE Exit(w)
  <2>1. Ready' = Ready /\ Waiting' = Waiting
    BY <1>6 DEF Core, TypeOK, Exit, Ready, Waiting
  <2> QED BY <1>6, <2>1 DEF Exit, Notifying, callVars
<1> QED BY <1>1, <1>2, <1>3, <1>4, <1>5, <1>6 DEF Loop

LEMMA WakeupEnqueue ==
  ASSUME Core, NoLostWakeup, NEW a \in Actors, Enqueue(a)
  PROVE  NoLostWakeup'
<1> USE WakeupSets DEF NoLostWakeup
<1>0. Len(mTaskQueue) \in Nat
  BY DEF Core, TypeOK
<1>1. ASSUME NEW t \in Tasks, EnqueueRefused(a, t) PROVE NoLostWakeup'
  BY <1>1 DEF EnqueueRefused
<1>2. ASSUME NEW t \in Tasks, EnqueueLock(a, t) PROVE NoLostWakeup'
  <2>1. Notifying' = Notifying
    BY <1>2 DEF Core, TypeOK, EnqueueLock, Notifying
  <2> QED BY <1>2, <2>1 DEF EnqueueLock, threadVars, Ready, Waiting
<1>3. CASE EnqueueJoin(a)
  BY <1>3 DEF EnqueueJoin, Ready, Waiting, Notifying, callVars
<1>4. CASE EnqueuePush(a)
  <2>1. arg[a] \in Tasks /\ enq[a] = "locked"
    BY <1>4, Locked DEF EnqueuePush
  <2>2. Len(mTaskQueue') = Len(mTaskQueue) + 1
    BY <1>4, <2>1 DEF Core, TypeOK, EnqueuePush
  <2>3. Cardinality(Notifying') = Cardinality(Notifying) + 1
    <3>1. Notifying' = Notifying \cup {a} /\ a \notin Notifying
      BY <1>4, <2>1 DEF Core, TypeOK, EnqueuePush, Notifying
    <3> QED BY <3>1, OneMore
  <2>4. /\ Waiting' = Waiting
        /\ Cardinality(Ready') \in {Cardinality(Ready), Cardinality(Ready) + 1}
    <3>1. CASE addThread
      <4>1. mThreadId \in ThreadIds /\ pc[mThreadId] = "unborn"
        BY <3>1, ThreadAdded
      <4>2. Waiting' = Waiting
        BY <3>1, <4>1 DEF Core, TypeOK, addThread, Waiting
      <4> QED BY <3>1, <4>1, <4>2, ReadyMore DEF Core, addThread
    <3>2. CASE UNCHANGED pc
      BY <3>2 DEF Ready, Waiting
    <3> QED BY <1>4, <3>1, <3>2 DEF EnqueuePush
  <2> QED BY <1>0, <1>4, <2>2, <2>3, <2>4 DEF EnqueuePush
<1>5. CASE EnqueueNotify(a)
  <2>1. CASE Waiting = {}
    <3>1. Waiting' = {}
      BY <1>5, <2>1 DEF EnqueueNotify, Waiting
    <3> QED BY <3>1
  <2>2. CASE Waiting # {}
    <3>1. PICK w \in Waiting : pc' = [pc EXCEPT ![w] = "ready"]
      BY <1>5, <2>2 DEF EnqueueNotify
    <3>2. Cardinality(Ready') = Cardinality(Ready) + 1
      BY <3>1, ReadyMore DEF Core, Waiting
    <3>3. Notifying' = Notifying \ {a} /\ a \in Notifying
      BY <1>5 DEF Core, TypeOK, EnqueueNotify, Notifying
    <3>4. Cardinality(Notifying') = Cardinality(Notifying) - 1
      BY <3>3, OneLess
    <3>5. mTaskQueue' = mTaskQueue /\ mStop' = mStop
      BY <1>5 DEF EnqueueNotify
    <3> QED BY <1>0, <2>2, <3>2, <3>4, <3>5
  <2> QED BY <2>1, <2>2
<1> QED BY <1>1, <1>2, <1>3, <1>4, <1>5 DEF Enqueue

LEMMA WakeupNext ==
  ASSUME Core, NoLostWakeup, [Next]_vars
  PROVE  NoLostWakeup'
<1> USE DEF NoLostWakeup
<1>1. CASE DestroyStop
  BY <1>1 DEF DestroyStop
<1>2. CASE DestroyNotifyAll
  <2>1. Waiting' = {}
    BY <1>2 DEF DestroyNotifyAll, Waiting
  <2> QED BY <2>1
<1>3. CASE DestroyJoined
  BY <1>3 DEF DestroyJoined, Ready, Waiting, Notifying, callVars
<1>4. CASE UNCHANGED vars
  BY <1>4 DEF vars, threadVars, callVars, Ready, Waiting, Notifying
<1> QED BY <1>1, <1>2, <1>3, <1>4, WakeupLoop, WakeupEnqueue DEF Next, Destroy

\* enqueue signals after it has unlocked, and to one thread only; still no
\* queued task is left with every thread asleep and no signal under way,
\* whatever spurious wakeups and retirements come in between.
THEOREM NoWakeupIsLost == Spec => []NoLostWakeup
BY CoreAlways, WakeupInit, WakeupNext, PTL DEF Spec, Safe

-----------------------------------------------------------------------------
(* What becomes of a task *)

\* The tasks are split among six places: not submitted yet, turned away, the
\* argument of an enqueue that still joins threads, queued, run, done.
Disjoint ==
  /\ fresh \cap (refused \cup finished \cup Entering \cup Queued \cup Running) = {}
  /\ refused \cap (finished \cup Entering \cup Queued \cup Running) = {}
  /\ finished \cap (Entering \cup Queued \cup Running) = {}
  /\ Entering \cap (Queued \cup Running) = {}
  /\ Queued \cap Running = {}

\* No task is queued twice, and no two threads run the same one.
OneCopy ==
  /\ \A i, j \in DOMAIN mTaskQueue : mTaskQueue[i] = mTaskQueue[j] => i = j
  /\ \A v, w \in Busy : job[v] = job[w] => v = w

Split ==
  /\ fresh \cup refused \cup Entering \cup Queued \cup Running \cup finished = Tasks
  /\ Disjoint
  /\ OneCopy

\* Who is inside enqueue decides what is entering.
LEMMA EnteringOne ==
  ASSUME Core
  PROVE  /\ mMutex = Free => Entering = {}
         /\ \A a \in Actors : enq[a] = "locked" => Entering = {arg[a]}
<1>1. \A a \in Actors : enq[a] = "locked" <=> mMutex = a
  BY DEF Core, Locking
<1>2. Free \notin Actors
  BY PoolAssumption DEF PoolAssumption
<1> QED BY <1>1, <1>2 DEF Entering

LEMMA SplitInit == Init => Split
<1> SUFFICES ASSUME Init PROVE Split
  OBVIOUS
<1>1. Entering = {} /\ Queued = {}
  BY DEF Init, Entering, Queued
<1>2. Busy = {}
  BY DEF Init, Busy
<1>3. Running = {}
  BY <1>2 DEF Running
<1>4. OneCopy
  BY <1>2 DEF Init, OneCopy
<1> QED BY <1>1, <1>3, <1>4 DEF Init, Split, Disjoint

\* Steps that move no task.
LEMMA SplitSame ==
  ASSUME Split, Core, UNCHANGED <<job, fresh, refused, finished, mTaskQueue, arg>>,
         Busy' = Busy, \A a \in Actors : enq'[a] = "locked" <=> enq[a] = "locked"
  PROVE  Split'
<1>1. Queued' = Queued
  BY DEF Queued
<1>2. Running' = Running
  BY DEF Running
<1>3. Entering' = Entering
  BY DEF Entering
<1>4. OneCopy'
  BY DEF Split, OneCopy
<1> QED BY <1>1, <1>2, <1>3, <1>4 DEF Split, Disjoint

LEMMA SplitTake == ASSUME NEW w \in ThreadIds, Split, Core, Take(w) PROVE Split'
<1>0. PICK q \in Seq(Tasks) : q = mTaskQueue
  BY DEF Core, TypeOK
<1>1. q # <<>> /\ mTaskQueue' = Tail(q) /\ DOMAIN q = 1 .. Len(q) /\ Len(q) \in Nat
  BY <1>0 DEF Take
<1>2. /\ Len(Tail(q)) = Len(q) - 1 /\ DOMAIN Tail(q) = 1 .. Len(q) - 1
      /\ \A i \in 1 .. Len(q) - 1 : Tail(q)[i] = q[i + 1]
      /\ Len(q) >= 1
  BY <1>1
<1>3. PICK t : t = Head(q)
  OBVIOUS
<1>4. t = q[1]
  BY <1>1, <1>3
<1>5. \A i, j \in 1 .. Len(q) : q[i] = q[j] => i = j
  BY <1>0, <1>1 DEF Split, OneCopy
<1>6. Queued = {q[i] : i \in 1 .. Len(q)}
  BY <1>0, <1>1 DEF Queued
<1>7. Queued' = {Tail(q)[i] : i \in 1 .. Len(q) - 1}
  BY <1>1, <1>2 DEF Queued
<1>8. t \in Queued
  BY <1>2, <1>1, <1>4, <1>6
<1>9. Queued' = Queued \ {t}
  <2>1. \A x \in Queued' : x \in Queued /\ x # t
    <3> SUFFICES ASSUME NEW x \in Queued' PROVE x \in Queued /\ x # t
      OBVIOUS
    <3>1. PICK i \in 1 .. Len(q) - 1 : x = Tail(q)[i]
      BY <1>7
    <3>2. x = q[i + 1] /\ i + 1 \in 1 .. Len(q) /\ i + 1 # 1 /\ 1 \in 1 .. Len(q)
      BY <1>1, <1>2, <3>1
    <3> QED BY <1>4, <1>5, <1>6, <3>2
  <2>2. \A x \in Queued : x # t => x \in Queued'
    <3> SUFFICES ASSUME NEW x \in Queued, x # t PROVE x \in Queued'
      OBVIOUS
    <3>1. PICK i \in 1 .. Len(q) : x = q[i]
      BY <1>6
    <3>2. i # 1
      BY <1>4, <3>1
    <3>3. i - 1 \in 1 .. Len(q) - 1 /\ (i - 1) + 1 = i
      BY <1>1, <3>2
    <3>4. x = Tail(q)[i - 1]
      BY <1>2, <3>1, <3>3
    <3> QED BY <1>7, <3>3, <3>4
  <2> QED BY <2>1, <2>2
<1>10. Busy' = Busy \cup {w} /\ w \notin Busy
  BY DEF Core, TypeOK, Take, Busy
<1>11. job'[w] = t /\ \A v \in ThreadIds : v # w => job'[v] = job[v]
  BY <1>0, <1>3 DEF Core, TypeOK, Take
<1>12. Busy \subseteq ThreadIds
  BY DEF Busy
<1>13. Running' = Running \cup {t}
  BY <1>10, <1>11, <1>12 DEF Running
<1>14. Entering' = Entering /\ UNCHANGED <<fresh, refused, finished>>
  BY DEF Take, Entering, callVars, taskVars
<1>15. OneCopy'
  <2>1. \A i, j \in 1 .. Len(q) - 1 : Tail(q)[i] = Tail(q)[j] => i = j
    <3> SUFFICES ASSUME NEW i \in 1 .. Len(q) - 1, NEW j \in 1 .. Len(q) - 1,
                        Tail(q)[i] = Tail(q)[j]
                 PROVE  i = j
      OBVIOUS
    <3>1. i + 1 \in 1 .. Len(q) /\ j + 1 \in 1 .. Len(q) /\ q[i + 1] = q[j + 1]
      BY <1>1, <1>2
    <3>2. i + 1 = j + 1
      BY <1>5, <3>1
    <3> QED BY <3>2
  <2>2. t \notin Running
    BY <1>8 DEF Split, Disjoint
  <2>3. \A u, v \in Busy' : job'[u] = job'[v] => u = v
    BY <1>10, <1>11, <1>12, <2>2 DEF Split, OneCopy, Running
  <2> QED BY <1>1, <1>2, <2>1, <2>3 DEF OneCopy
<1> QED BY <1>8, <1>9, <1>13, <1>14, <1>15 DEF Split, Disjoint

LEMMA SplitFinish == ASSUME NEW w \in ThreadIds, Split, Core, Finish(w) PROVE Split'
<1>0. PICK t : t = job[w]
  OBVIOUS
<1>1. w \in Busy /\ Busy' = Busy \ {w} /\ Busy \subseteq ThreadIds
  BY DEF Core, TypeOK, Finish, Busy
<1>2. \A v \in ThreadIds : v # w => job'[v] = job[v]
  BY DEF Core, TypeOK, Finish
<1>3. \A u, v \in Busy : job[u] = job[v] => u = v
  BY DEF Split, OneCopy
<1>4. t \in Running /\ Running' = Running \ {t}
  BY <1>0, <1>1, <1>2, <1>3 DEF Running
<1>5. Entering' = Entering /\ Queued' = Queued
  BY DEF Finish, Entering, Queued, callVars
<1>6. UNCHANGED <<fresh, refused>> /\ finished' = finished \cup {t}
  BY <1>0 DEF Finish
<1>7. OneCopy'
  <2>1. mTaskQueue' = mTaskQueue
    BY DEF Finish
  <2>2. \A u, v \in Busy' : job'[u] = job'[v] => u = v
    BY <1>1, <1>2, <1>3
  <2> QED BY <2>1, <2>2 DEF Split, OneCopy
<1> QED BY <1>4, <1>5, <1>6, <1>7 DEF Split, Disjoint

LEMMA SplitRefused ==
  ASSUME NEW a \in Actors, NEW t \in Tasks, Split, Core, EnqueueRefused(a, t)
  PROVE  Split'
<1>1. Busy' = Busy /\ Queued' = Queued /\ Entering' = Entering
  BY DEF EnqueueRefused, Busy, Queued, Entering, threadVars, callVars
<1>2. Running' = Running
  BY <1>1 DEF EnqueueRefused, Running, threadVars
<1>3. OneCopy'
  BY <1>1 DEF EnqueueRefused, Split, OneCopy, threadVars
<1>4. t \in fresh /\ fresh' = fresh \ {t} /\ refused' = refused \cup {t} /\ finished' = finished
  BY DEF EnqueueRefused, MaySubmit
<1> QED BY <1>1, <1>2, <1>3, <1>4 DEF Split, Disjoint

LEMMA SplitLock ==
  ASSUME NEW a \in Actors, NEW t \in Tasks, Split, Core, EnqueueLock(a, t)
  PROVE  Split'
<1>1. Busy' = Busy /\ Queued' = Queued
  BY DEF EnqueueLock, Busy, Queued, threadVars
<1>2. Running' = Running
  BY <1>1 DEF EnqueueLock, Running, threadVars
<1>3. OneCopy'
  BY <1>1 DEF EnqueueLock, Split, OneCopy, threadVars
<1>4. Entering = {}
  BY EnteringOne DEF EnqueueLock
<1>5. \A b \in Actors : enq[b] # "locked"
  BY <1>4 DEF Entering
<1>6. Entering' = {t}
  BY <1>5 DEF Core, TypeOK, EnqueueLock, Entering
<1>7. t \in fresh /\ fresh' = fresh \ {t} /\ refused' = refused /\ finished' = finished
  BY DEF EnqueueLock, MaySubmit
<1> QED BY <1>1, <1>2, <1>3, <1>4, <1>6, <1>7 DEF Split, Disjoint

LEMMA SplitPush == ASSUME NEW a \in Actors, Split, Core, EnqueuePush(a) PROVE Split'
<1>0. PICK q \in Seq(Tasks) : q = mTaskQueue
  BY DEF Core, TypeOK
<1>1. PICK t \in Tasks : t = arg[a]
  BY Locked DEF EnqueuePush
<1>2. mTaskQueue' = Append(q, t) /\ DOMAIN q = 1 .. Len(q) /\ Len(q) \in Nat
  BY <1>0, <1>1 DEF EnqueuePush
<1>3. /\ DOMAIN Append(q, t) = 1 .. Len(q) + 1
      /\ \A i \in 1 .. Len(q) : Append(q, t)[i] = q[i]
      /\ Append(q, t)[Len(q) + 1] = t
  BY <1>2
<1>4. Entering = {t}
  BY <1>1, EnteringOne DEF EnqueuePush
<1>5. t \notin Queued
  BY <1>4 DEF Split, Disjoint
<1>6. Queued = {q[i] : i \in 1 .. Len(q)}
  BY <1>0, <1>2 DEF Queued
<1>7. Queued' = {Append(q, t)[i] : i \in 1 .. Len(q) + 1}
  BY <1>2, <1>3 DEF Queued
<1>8. Queued' = Queued \cup {t}
  <2>1. \A x \in Queued' : x \in Queued \/ x = t
    <3> SUFFICES ASSUME NEW x \in Queued', x # t PROVE x \in Queued
      OBVIOUS
    <3>1. PICK i \in 1 .. Len(q) + 1 : x = Append(q, t)[i]
      BY <1>7
    <3>2. i \in 1 .. Len(q)
      BY <1>2, <1>3, <3>1
    <3> QED BY <1>3, <1>6, <3>1, <3>2
  <2>2. t \in Queued'
    <3>1. Len(q) + 1 \in 1 .. Len(q) + 1
      BY <1>2
    <3> QED BY <1>3, <1>7, <3>1
  <2>3. \A x \in Queued : x \in Queued'
    <3> SUFFICES ASSUME NEW x \in Queued PROVE x \in Queued'
      OBVIOUS
    <3>1. PICK i \in 1 .. Len(q) : x = q[i]
      BY <1>6
    <3>2. i \in 1 .. Len(q) + 1 /\ x = Append(q, t)[i]
      BY <1>2, <1>3, <3>1
    <3> QED BY <1>7, <3>2
  <2> QED BY <2>1, <2>2, <2>3
<1>9. Entering' = {}
  <2>1. \A b \in Actors : enq[b] = "locked" => b = a
    BY Locked DEF EnqueuePush
  <2>2. \A b \in Actors : enq'[b] # "locked"
    BY <2>1 DEF Core, TypeOK, EnqueuePush
  <2> QED BY <2>2 DEF Entering
<1>10. Busy' = Busy /\ job' = job
  <2>1. CASE NeedsThread(Len(mTaskQueue) + 1)
    BY <2>1, ThreadAdded DEF EnqueuePush
  <2>2. CASE ~NeedsThread(Len(mTaskQueue) + 1)
    BY <2>2 DEF EnqueuePush, Busy
  <2> QED BY <2>1, <2>2
<1>11. Running' = Running
  BY <1>10 DEF Running
<1>12. OneCopy'
  <2>1. \A i, j \in 1 .. Len(q) + 1 : Append(q, t)[i] = Append(q, t)[j] => i = j
    <3>1. \A i, j \in 1 .. Len(q) : q[i] = q[j] => i = j
      BY <1>0, <1>2 DEF Split, OneCopy
    <3>2. \A i \in 1 .. Len(q) : q[i] # t
      BY <1>5, <1>6
    <3>3. \A i \in 1 .. Len(q) + 1 : i \in 1 .. Len(q) \/ i = Len(q) + 1
      BY <1>2
    <3> QED BY <1>3, <3>1, <3>2, <3>3
  <2> QED BY <1>2, <1>3, <1>10, <2>1 DEF Split, OneCopy
<1>13. UNCHANGED <<fresh, refused, finished>>
  BY DEF EnqueuePush, taskVars
<1> QED BY <1>4, <1>8, <1>9, <1>11, <1>12, <1>13 DEF Split, Disjoint

LEMMA SplitNext == ASSUME Core, Split, [Next]_vars PROVE Split'
<1>1. ASSUME NEW w \in ThreadIds, Wait(w) \/ ReturnOnStop(w) \/ Exit(w) \/ SpuriousWakeup(w)
      PROVE  Split'
  <2>1. UNCHANGED <<job, fresh, refused, finished, mTaskQueue, arg, enq>>
    BY <1>1 DEF Wait, ReturnOnStop, Exit, SpuriousWakeup, callVars, taskVars
  <2>2. Busy' = Busy
    BY <1>1 DEF Core, TypeOK, Wait, ReturnOnStop, Exit, SpuriousWakeup, Busy
  <2> QED BY <2>1, <2>2, SplitSame
<1>2. ASSUME NEW a \in Actors, EnqueueJoin(a) PROVE Split'
  BY <1>2, SplitSame DEF EnqueueJoin, callVars, taskVars, Busy
<1>3. ASSUME NEW a \in Actors, EnqueueNotify(a) PROVE Split'
  <2>1. UNCHANGED <<job, fresh, refused, finished, mTaskQueue, arg>>
    BY <1>3 DEF EnqueueNotify, taskVars
  <2>2. Busy' = Busy
    BY <1>3 DEF Core, TypeOK, EnqueueNotify, Busy, Waiting
  <2>3. \A b \in Actors : enq'[b] = "locked" <=> enq[b] = "locked"
    BY <1>3 DEF Core, TypeOK, EnqueueNotify
  <2> QED BY <2>1, <2>2, <2>3, SplitSame
<1>4. CASE Destroy
  <2>1. UNCHANGED <<job, fresh, refused, finished, mTaskQueue, arg, enq>>
    BY <1>4 DEF Destroy, DestroyStop, DestroyNotifyAll, DestroyJoined, threadVars, callVars,
                taskVars
  <2>2. Busy' = Busy
    BY <1>4 DEF Core, TypeOK, Destroy, DestroyStop, DestroyNotifyAll, DestroyJoined, threadVars,
                Busy
  <2> QED BY <2>1, <2>2, SplitSame
<1>5. CASE UNCHANGED vars
  BY <1>5, SplitSame DEF vars, threadVars, callVars, taskVars, Busy
<1> QED BY <1>1, <1>2, <1>3, <1>4, <1>5, SplitTake, SplitFinish, SplitRefused, SplitLock,
           SplitPush DEF Next, Loop, Enqueue

LEMMA SplitAlways == Safe => []Split
BY CoreAlways, SplitInit, SplitNext, PTL DEF Safe

\* The queue has as many entries as tasks, and there are as many busy threads
\* as running tasks.
LEMMA QueuedCount ==
  ASSUME Core, Split
  PROVE  IsFiniteSet(Queued) /\ Cardinality(Queued) = Len(mTaskQueue)
<1>1. DOMAIN mTaskQueue = 1 .. Len(mTaskQueue) /\ Len(mTaskQueue) \in Nat
  BY DEF Core, TypeOK
<1>2. mTaskQueue \in [1 .. Len(mTaskQueue) -> Queued]
  BY <1>1 DEF Core, TypeOK, Queued
<1>3. \A t \in Queued : \E i \in 1 .. Len(mTaskQueue) : mTaskQueue[i] = t
  BY <1>1 DEF Queued
<1>4. \A i, j \in 1 .. Len(mTaskQueue) : mTaskQueue[i] = mTaskQueue[j] => i = j
  BY <1>1 DEF Split, OneCopy
<1>5. ExistsBijection(1 .. Len(mTaskQueue), Queued)
  BY <1>2, <1>3, <1>4
     DEF ExistsBijection, Bijection, Injection, Surjection, IsInjective
<1>6. /\ IsFiniteSet(1 .. Len(mTaskQueue))
      /\ Cardinality(1 .. Len(mTaskQueue)) = Len(mTaskQueue)
  <2>1. PICK n \in Nat : n = Len(mTaskQueue)
    BY <1>1
  <2>2. IsFiniteSet(1 .. n) /\ Cardinality(1 .. n) = n
    BY FS_Interval
  <2> QED BY <2>1, <2>2
<1> QED BY <1>5, <1>6, FS_Bijection

LEMMA RunningCount ==
  ASSUME Core, Split
  PROVE  IsFiniteSet(Running) /\ Cardinality(Running) = Cardinality(Busy)
<1>1. IsFiniteSet(Busy)
  BY ThreadSets, FiniteActors
<1> DEFINE f == [w \in Busy |-> job[w]]
<1>2. f \in [Busy -> Running] /\ \A t \in Running : \E w \in Busy : f[w] = t
  BY DEF Running
<1>3. \A v, w \in Busy : f[v] = f[w] => v = w
  BY DEF Split, OneCopy
<1> HIDE DEF f
<1>4. ExistsBijection(Busy, Running)
  BY <1>2, <1>3 DEF ExistsBijection, Bijection, Injection, Surjection, IsInjective
<1> QED BY <1>1, <1>4, FS_Bijection

LEMMA DisjointSum ==
  ASSUME NEW S, NEW T, IsFiniteSet(S), IsFiniteSet(T), S \cap T = {}
  PROVE  /\ IsFiniteSet(S \cup T)
         /\ Cardinality(S \cup T) = Cardinality(S) + Cardinality(T)
         /\ Cardinality(S) \in Nat /\ Cardinality(T) \in Nat
<1>1. Cardinality(S) \in Nat /\ Cardinality(T) \in Nat
  BY FS_CardinalityType
<1>2. Cardinality(S \cap T) = 0
  BY FS_EmptySet
<1>3. /\ IsFiniteSet(S \cup T)
      /\ Cardinality(S \cup T) = Cardinality(S) + Cardinality(T) - Cardinality(S \cap T)
  BY FS_Union
<1> QED BY <1>1, <1>2, <1>3

LEMMA DisjointSumOfSix ==
  ASSUME NEW A, NEW B, NEW C, NEW D, NEW E, NEW F,
         IsFiniteSet(A), IsFiniteSet(B), IsFiniteSet(C),
         IsFiniteSet(D), IsFiniteSet(E), IsFiniteSet(F),
         A \cap (B \cup F \cup C \cup D \cup E) = {},
         B \cap (F \cup C \cup D \cup E) = {},
         F \cap (C \cup D \cup E) = {},
         C \cap (D \cup E) = {},
         D \cap E = {}
  PROVE  Cardinality(A \cup B \cup C \cup D \cup E \cup F)
           = Cardinality(A) + Cardinality(B) + Cardinality(C)
             + Cardinality(D) + Cardinality(E) + Cardinality(F)
<1>1. /\ IsFiniteSet(A \cup B)
      /\ Cardinality(A \cup B) = Cardinality(A) + Cardinality(B)
  <2>1. A \cap B = {}
    OBVIOUS
  <2> QED BY <2>1, DisjointSum
<1>2. /\ IsFiniteSet(A \cup B \cup C)
      /\ Cardinality(A \cup B \cup C) = Cardinality(A \cup B) + Cardinality(C)
  <2>1. (A \cup B) \cap C = {}
    OBVIOUS
  <2> QED BY <1>1, <2>1, DisjointSum
<1>3. /\ IsFiniteSet(A \cup B \cup C \cup D)
      /\ Cardinality(A \cup B \cup C \cup D) = Cardinality(A \cup B \cup C) + Cardinality(D)
  <2>1. (A \cup B \cup C) \cap D = {}
    OBVIOUS
  <2> QED BY <1>2, <2>1, DisjointSum
<1>4. /\ IsFiniteSet(A \cup B \cup C \cup D \cup E)
      /\ Cardinality(A \cup B \cup C \cup D \cup E)
           = Cardinality(A \cup B \cup C \cup D) + Cardinality(E)
  <2>1. (A \cup B \cup C \cup D) \cap E = {}
    OBVIOUS
  <2> QED BY <1>3, <2>1, DisjointSum
<1>5. Cardinality(A \cup B \cup C \cup D \cup E \cup F)
        = Cardinality(A \cup B \cup C \cup D \cup E) + Cardinality(F)
  <2>1. (A \cup B \cup C \cup D \cup E) \cap F = {}
    OBVIOUS
  <2> QED BY <1>4, <2>1, DisjointSum
<1> QED BY <1>1, <1>2, <1>3, <1>4, <1>5

\* However tasks are submitted, queued, taken and run, and at whatever point the
\* pool is stopped: each task is in exactly one place, in one copy.  That the
\* tasks are finitely many is only needed to count them; Split, which needs no
\* such assumption, is the same fact in terms of sets.
THEOREM TasksAreConserved == IsFiniteSet(Tasks) => (Spec => []TasksConserved)
<1> SUFFICES ASSUME IsFiniteSet(Tasks) PROVE Spec => []TasksConserved
  OBVIOUS
<1>1. Core /\ Split => TasksConserved
  <2> SUFFICES ASSUME Core, Split PROVE TasksConserved
    OBVIOUS
  <2>0. fresh \cup refused \cup Entering \cup Queued \cup Running \cup finished = Tasks
    BY DEF Split
  <2>1. IsFiniteSet(fresh) /\ IsFiniteSet(refused) /\ IsFiniteSet(Entering) /\ IsFiniteSet(finished)
    BY <2>0, FS_Subset
  <2>2. /\ IsFiniteSet(Queued) /\ Cardinality(Queued) = Len(mTaskQueue)
        /\ IsFiniteSet(Running) /\ Cardinality(Running) = Cardinality(Busy)
    BY QueuedCount, RunningCount
  <2>3. Cardinality(fresh \cup refused \cup Entering \cup Queued \cup Running \cup finished)
          = Cardinality(fresh) + Cardinality(refused) + Cardinality(Entering)
            + Cardinality(Queued) + Cardinality(Running) + Cardinality(finished)
    <3>1. Disjoint
      BY DEF Split
    <3> QED BY <2>1, <2>2, <3>1, DisjointSumOfSix DEF Disjoint
  <2> QED BY <2>0, <2>2, <2>3 DEF TasksConserved
<1> QED BY <1>1, CoreAlways, SplitAlways, PTL DEF Spec

=============================================================================
