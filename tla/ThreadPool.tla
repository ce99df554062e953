----------------------------- MODULE ThreadPool -----------------------------
(***************************************************************************)
(* The worker pool of mialgoengine (ThreadPool.cpp and ThreadPool.h),      *)
(* the single pool on which every session runs its pipelines and nodes.    *)
(*                                                                         *)
(* A task may itself put tasks on the pool and wait for them (a pipeline's *)
(* postProcTask does so with the tasks of its nodes): Children[t] is the   *)
(* set of tasks that t submits and whose end it awaits.  The critical      *)
(* sections of mMutex are atomic steps, except enqueue's: it joins retired *)
(* threads while it holds the mutex, so the holder is a variable.          *)
(***************************************************************************)
EXTENDS Integers, FiniteSets, Sequences

CONSTANTS
  Tasks,          \* closures handed to the pool, each of them once
  Children,       \* Children[t]: tasks that t submits and waits for
  Clients,        \* threads outside the pool that call enqueue
  InitThreads,    \* constructor's argument
  MaxThreadNum,   \* mMaxThreadNum, 32 in the code
  MaxThreadId,    \* bound on the thread ids handed out
  Destroyable,    \* whether the pool's owner ever destroys it
  NoTask, Free    \* "no task" and "mMutex is not held"

ThreadIds == 0 .. MaxThreadId
Actors == Clients \cup ThreadIds

\* mInitThreadNum: the constructor cuts its argument to the maximum.
mInitThreadNum == IF InitThreads > MaxThreadNum THEN MaxThreadNum ELSE InitThreads

ASSUME PoolAssumption ==
  /\ InitThreads \in Nat \ {0} /\ MaxThreadNum \in Nat \ {0}
  /\ MaxThreadId \in Nat /\ mInitThreadNum <= MaxThreadId + 1
  /\ Children \in [Tasks -> SUBSET Tasks]
  /\ IsFiniteSet(Clients) /\ Clients \cap ThreadIds = {}
  /\ NoTask \notin Tasks /\ Free \notin Actors
  /\ Destroyable \in BOOLEAN

VARIABLES
  pc,             \* where each pool thread is
  job,            \* the task a running thread runs
  mWorkers,       \* ids whose std::thread object is in the map
  mPendingRemoveThreadIds,  \* retired ids that still have to be joined
  mTaskQueue, mStop, mIdleThreads, mActiveThreadNum, mThreadId,
  mMutex,         \* the actor inside enqueue's critical section, or Free
  enq, arg,       \* each actor's progress through enqueue, and its argument
  dtor,           \* progress of the destructor
  fresh, finished, refused  \* tasks not submitted yet, done, turned away

threadVars == <<pc, job, mWorkers, mPendingRemoveThreadIds, mThreadId>>
countVars  == <<mIdleThreads, mActiveThreadNum>>
callVars   == <<mMutex, enq, arg>>
taskVars   == <<fresh, finished, refused>>
vars == <<threadVars, countVars, callVars, taskVars, mTaskQueue, mStop, dtor>>

TypeOK ==
  /\ pc \in [ThreadIds -> {"unborn", "ready", "waiting", "running", "returned", "exited"}]
  /\ job \in [ThreadIds -> Tasks \cup {NoTask}]
  /\ mWorkers \subseteq ThreadIds /\ mPendingRemoveThreadIds \subseteq ThreadIds
  /\ mTaskQueue \in Seq(Tasks)
  /\ mStop \in BOOLEAN
  /\ mIdleThreads \in Nat /\ mActiveThreadNum \in Nat /\ mThreadId \in Nat
  /\ mMutex \in Actors \cup {Free}
  /\ enq \in [Actors -> {"none", "locked", "notify"}]
  /\ arg \in [Actors -> Tasks \cup {NoTask}]
  /\ dtor \in {"alive", "stopped", "joining", "destroyed"}
  /\ fresh \subseteq Tasks /\ finished \subseteq Tasks /\ refused \subseteq Tasks

Idle    == {w \in ThreadIds : pc[w] \in {"ready", "waiting"}}
Busy    == {w \in ThreadIds : pc[w] = "running"}
Waiting == {w \in ThreadIds : pc[w] = "waiting"}
Ready   == {w \in ThreadIds : pc[w] = "ready"}

-----------------------------------------------------------------------------
(* Tests of loop and enqueue *)

\* The predicate of loop's wait.
HasWork == mStop \/ mTaskQueue # <<>>

\* Mutant: the initial number is not kept.
RedundantAnyTime(idle, taskNum) == idle > 2 * taskNum

\* A thread that has just become idle retires: more idle threads than the
\* initial number, and more than twice the tasks that are left.
Redundant(idle, taskNum) == idle > mInitThreadNum /\ idle > 2 * taskNum

\* Mutants: one task is left without an idle thread; busy threads are taken for
\* idle ones.
NeedsThreadLate(taskNums) == mActiveThreadNum < MaxThreadNum /\ taskNums > mIdleThreads + 1
NeedsThreadByActive(taskNums) == mActiveThreadNum < MaxThreadNum /\ taskNums > mActiveThreadNum

\* enqueue adds a thread for a queue of taskNums tasks.
NeedsThread(taskNums) == mActiveThreadNum < MaxThreadNum /\ taskNums > mIdleThreads

-----------------------------------------------------------------------------
(* The constructor: addThread() mInitThreadNum times. *)

Init ==
  /\ pc = [w \in ThreadIds |-> IF w < mInitThreadNum THEN "ready" ELSE "unborn"]
  /\ job = [w \in ThreadIds |-> NoTask]
  /\ mWorkers = 0 .. mInitThreadNum - 1
  /\ mPendingRemoveThreadIds = {}
  /\ mTaskQueue = <<>>
  /\ mStop = FALSE
  /\ mIdleThreads = mInitThreadNum
  /\ mActiveThreadNum = mInitThreadNum
  /\ mThreadId = mInitThreadNum
  /\ mMutex = Free
  /\ enq = [a \in Actors |-> "none"]
  /\ arg = [a \in Actors |-> NoTask]
  /\ dtor = "alive"
  /\ fresh = Tasks /\ finished = {} /\ refused = {}

-----------------------------------------------------------------------------
(* loop(): what a pool thread does *)

\* Predicate false: the thread goes to sleep on mCond.
Wait(w) ==
  /\ pc[w] = "ready" /\ mMutex = Free
  /\ ~HasWork
  /\ pc' = [pc EXCEPT ![w] = "waiting"]
  /\ UNCHANGED <<job, mWorkers, mPendingRemoveThreadIds, mThreadId, countVars,
                 callVars, taskVars, mTaskQueue, mStop, dtor>>

\* A condition variable may wake a waiter for no reason.
SpuriousWakeup(w) ==
  /\ pc[w] = "waiting"
  /\ pc' = [pc EXCEPT ![w] = "ready"]
  /\ UNCHANGED <<job, mWorkers, mPendingRemoveThreadIds, mThreadId, countVars,
                 callVars, taskVars, mTaskQueue, mStop, dtor>>

\* Stopped and drained: loop returns.
ReturnOnStop(w) ==
  /\ pc[w] = "ready" /\ mMutex = Free
  /\ mStop /\ mTaskQueue = <<>>
  /\ pc' = [pc EXCEPT ![w] = "returned"]
  /\ UNCHANGED <<job, mWorkers, mPendingRemoveThreadIds, mThreadId, countVars,
                 callVars, taskVars, mTaskQueue, mStop, dtor>>

\* Mutant: the task stays in the queue.
TakeWithoutPop(w) ==
  /\ pc[w] = "ready" /\ mMutex = Free
  /\ mTaskQueue # <<>>
  /\ pc' = [pc EXCEPT ![w] = "running"]
  /\ job' = [job EXCEPT ![w] = Head(mTaskQueue)]
  /\ mIdleThreads' = mIdleThreads - 1
  /\ UNCHANGED <<mWorkers, mPendingRemoveThreadIds, mThreadId, mActiveThreadNum,
                 callVars, taskVars, mTaskQueue, mStop, dtor>>

\* Pop the front task, count the thread busy, unlock.
Take(w) ==
  /\ pc[w] = "ready" /\ mMutex = Free
  /\ mTaskQueue # <<>>
  /\ pc' = [pc EXCEPT ![w] = "running"]
  /\ job' = [job EXCEPT ![w] = Head(mTaskQueue)]
  /\ mTaskQueue' = Tail(mTaskQueue)
  /\ mIdleThreads' = mIdleThreads - 1
  /\ UNCHANGED <<mWorkers, mPendingRemoveThreadIds, mThreadId, mActiveThreadNum,
                 callVars, taskVars, mStop, dtor>>

\* task() has returned; the thread locks, counts itself idle and either goes
\* round the loop or retires.
Finish(w) ==
  /\ pc[w] = "running" /\ enq[w] = "none" /\ mMutex = Free
  /\ Children[job[w]] \subseteq finished
  /\ finished' = finished \cup {job[w]}
  /\ job' = [job EXCEPT ![w] = NoTask]
  /\ IF Redundant(mIdleThreads + 1, Len(mTaskQueue))
     THEN /\ pc' = [pc EXCEPT ![w] = "returned"]
          /\ mActiveThreadNum' = mActiveThreadNum - 1
          /\ mPendingRemoveThreadIds' = mPendingRemoveThreadIds \cup {w}
          /\ UNCHANGED mIdleThreads
     ELSE /\ pc' = [pc EXCEPT ![w] = "ready"]
          /\ mIdleThreads' = mIdleThreads + 1
          /\ UNCHANGED <<mActiveThreadNum, mPendingRemoveThreadIds>>
  /\ UNCHANGED <<mWorkers, mThreadId, callVars, fresh, refused, mTaskQueue, mStop, dtor>>

\* The thread is gone: a join on it returns.
Exit(w) ==
  /\ pc[w] = "returned"
  /\ pc' = [pc EXCEPT ![w] = "exited"]
  /\ UNCHANGED <<job, mWorkers, mPendingRemoveThreadIds, mThreadId, countVars,
                 callVars, taskVars, mTaskQueue, mStop, dtor>>

-----------------------------------------------------------------------------
(* enqueue(), called by a client or by the task a pool thread runs *)

\* Tasks that only another task submits.
Nested == UNION {Children[t] : t \in Tasks}

MaySubmit(a, t) ==
  /\ t \in fresh
  /\ IF a \in Clients
     THEN t \notin Nested
     ELSE pc[a] = "running" /\ t \in Children[job[a]]

\* A stopped pool answers -1.
EnqueueRefused(a, t) ==
  /\ enq[a] = "none" /\ MaySubmit(a, t) /\ dtor # "destroyed"
  /\ mMutex = Free /\ mStop
  /\ fresh' = fresh \ {t} /\ refused' = refused \cup {t}
  /\ UNCHANGED <<threadVars, countVars, callVars, finished, mTaskQueue, mStop, dtor>>

EnqueueLock(a, t) ==
  /\ enq[a] = "none" /\ MaySubmit(a, t) /\ dtor # "destroyed"
  /\ mMutex = Free /\ ~mStop
  /\ mMutex' = a
  /\ enq' = [enq EXCEPT ![a] = "locked"]
  /\ arg' = [arg EXCEPT ![a] = t]
  /\ fresh' = fresh \ {t}
  /\ UNCHANGED <<threadVars, countVars, finished, refused, mTaskQueue, mStop, dtor>>

\* Mutant: the std::thread is dropped without a join.
EnqueueDrop(a) ==
  /\ enq[a] = "locked"
  /\ \E w \in mPendingRemoveThreadIds :
       /\ mWorkers' = mWorkers \ {w}
       /\ mPendingRemoveThreadIds' = mPendingRemoveThreadIds \ {w}
  /\ UNCHANGED <<pc, job, mThreadId, countVars, callVars, taskVars, mTaskQueue, mStop, dtor>>

\* Join a retired thread, with mMutex held, and drop its std::thread.  The
\* order in which the pending ids are joined is left open.
EnqueueJoin(a) ==
  /\ enq[a] = "locked"
  /\ \E w \in mPendingRemoveThreadIds :
       /\ w \in mWorkers => pc[w] = "exited"
       /\ mWorkers' = mWorkers \ {w}
       /\ mPendingRemoveThreadIds' = mPendingRemoveThreadIds \ {w}
  /\ UNCHANGED <<pc, job, mThreadId, countVars, callVars, taskVars, mTaskQueue, mStop, dtor>>

addThread ==
  /\ mThreadId <= MaxThreadId
  /\ pc' = [pc EXCEPT ![mThreadId] = "ready"]
  /\ mWorkers' = mWorkers \cup {mThreadId}
  /\ mThreadId' = mThreadId + 1
  /\ mIdleThreads' = mIdleThreads + 1
  /\ mActiveThreadNum' = mActiveThreadNum + 1

\* Nothing left to join: push the task, add a thread if one is missing, unlock.
EnqueuePush(a) ==
  /\ enq[a] = "locked" /\ mPendingRemoveThreadIds = {}
  /\ mTaskQueue' = Append(mTaskQueue, arg[a])
  /\ IF NeedsThread(Len(mTaskQueue) + 1)
     THEN addThread
     ELSE UNCHANGED <<pc, mWorkers, mThreadId, countVars>>
  /\ mMutex' = Free
  /\ enq' = [enq EXCEPT ![a] = "notify"]
  /\ arg' = [arg EXCEPT ![a] = NoTask]
  /\ UNCHANGED <<job, mPendingRemoveThreadIds, taskVars, mStop, dtor>>

\* Mutant: only the first task of a queue is announced.
EnqueueNotifyFirst(a) ==
  /\ enq[a] = "notify"
  /\ IF Waiting = {} \/ Len(mTaskQueue) > 1
     THEN UNCHANGED pc
     ELSE \E w \in Waiting : pc' = [pc EXCEPT ![w] = "ready"]
  /\ enq' = [enq EXCEPT ![a] = "none"]
  /\ UNCHANGED <<job, mWorkers, mPendingRemoveThreadIds, mThreadId, countVars,
                 mMutex, arg, taskVars, mTaskQueue, mStop, dtor>>

\* mCond.notify_one(), after the mutex has been released.
EnqueueNotify(a) ==
  /\ enq[a] = "notify"
  /\ IF Waiting = {}
     THEN UNCHANGED pc
     ELSE \E w \in Waiting : pc' = [pc EXCEPT ![w] = "ready"]
  /\ enq' = [enq EXCEPT ![a] = "none"]
  /\ UNCHANGED <<job, mWorkers, mPendingRemoveThreadIds, mThreadId, countVars,
                 mMutex, arg, taskVars, mTaskQueue, mStop, dtor>>

-----------------------------------------------------------------------------
(* The destructor *)

DestroyStop ==
  /\ Destroyable /\ dtor = "alive" /\ mMutex = Free
  /\ mStop' = TRUE
  /\ dtor' = "stopped"
  /\ UNCHANGED <<threadVars, countVars, callVars, taskVars, mTaskQueue>>

\* Mutant: one sleeping thread is woken, not all of them.
DestroyNotifyOne ==
  /\ dtor = "stopped"
  /\ IF Waiting = {}
     THEN UNCHANGED pc
     ELSE \E w \in Waiting : pc' = [pc EXCEPT ![w] = "ready"]
  /\ dtor' = "joining"
  /\ UNCHANGED <<job, mWorkers, mPendingRemoveThreadIds, mThreadId, countVars,
                 callVars, taskVars, mTaskQueue, mStop>>

DestroyNotifyAll ==
  /\ dtor = "stopped"
  /\ pc' = [w \in ThreadIds |-> IF pc[w] = "waiting" THEN "ready" ELSE pc[w]]
  /\ dtor' = "joining"
  /\ UNCHANGED <<job, mWorkers, mPendingRemoveThreadIds, mThreadId, countVars,
                 callVars, taskVars, mTaskQueue, mStop>>

\* Every std::thread left in the map has been joined, and no client is inside
\* enqueue (which C++ asks of whoever destroys the object).
DestroyJoined ==
  /\ dtor = "joining"
  /\ \A w \in mWorkers : pc[w] = "exited"
  /\ \A c \in Clients : enq[c] = "none"
  /\ dtor' = "destroyed"
  /\ mWorkers' = {}
  /\ UNCHANGED <<pc, job, mPendingRemoveThreadIds, mThreadId, countVars,
                 callVars, taskVars, mTaskQueue, mStop>>

-----------------------------------------------------------------------------
Enqueue(a) ==
  \/ \E t \in Tasks : EnqueueRefused(a, t) \/ EnqueueLock(a, t)
  \/ EnqueueJoin(a)
  \/ EnqueuePush(a)
  \/ EnqueueNotify(a)

Loop(w) == Wait(w) \/ ReturnOnStop(w) \/ Take(w) \/ Finish(w) \/ Exit(w)

Destroy == DestroyStop \/ DestroyNotifyAll \/ DestroyJoined

Next ==
  \/ \E w \in ThreadIds : Loop(w) \/ SpuriousWakeup(w)
  \/ \E a \in Actors : Enqueue(a)
  \/ Destroy

Safe == Init /\ [][Next]_vars

\* Every thread that can run is scheduled, tasks submit their children, and a
\* client that has entered enqueue goes through it.  Clients need not call, and
\* the owner need not destroy the pool.
Fairness ==
  /\ \A w \in ThreadIds : WF_vars(Loop(w)) /\ WF_vars(Enqueue(w))
  /\ \A c \in Clients : WF_vars(EnqueueJoin(c) \/ EnqueuePush(c) \/ EnqueueNotify(c))
  /\ WF_vars(DestroyNotifyAll \/ DestroyJoined)

Spec == Safe /\ Fairness

-----------------------------------------------------------------------------
(* Properties *)

\* The two counters that steer growing and shrinking never drift from the
\* threads they count, whatever the order of takes, retirements and additions,
\* and the pool stays between its initial and its maximal size.
CountersExact ==
  ~mStop => /\ mIdleThreads = Cardinality(Idle)
            /\ mActiveThreadNum = Cardinality(Idle \cup Busy)
            /\ mActiveThreadNum \in mInitThreadNum .. MaxThreadNum

\* Below the maximal size no queued task has to wait for a running one to end:
\* there are as many idle threads as queued tasks.  A pipeline task that waits
\* for its nodes' tasks relies on it.
EveryTaskHasAnIdleThread ==
  mActiveThreadNum < MaxThreadNum => Len(mTaskQueue) <= mIdleThreads

Notifying == {a \in Actors : enq[a] = "notify"}

\* No wakeup is lost although notify_one comes after the unlock: as long as a
\* thread sleeps, each queued task has an awake idle thread or a notification
\* that is still to come.
NoLostWakeup ==
  ~mStop => \/ Waiting = {}
            \/ Len(mTaskQueue) <= Cardinality(Ready) + Cardinality(Notifying)

Queued   == {mTaskQueue[i] : i \in DOMAIN mTaskQueue}
Running  == {job[w] : w \in Busy}
Entering == {arg[a] : a \in {b \in Actors : enq[b] = "locked"}}

\* A task that was accepted is queued, running or done, in exactly one copy:
\* none is dropped and none is run twice.
TasksConserved ==
  /\ fresh \cup refused \cup Entering \cup Queued \cup Running \cup finished = Tasks
  /\ Cardinality(fresh) + Cardinality(refused) + Cardinality(Entering)
       + Len(mTaskQueue) + Cardinality(Busy) + Cardinality(finished)
     = Cardinality(Tasks)

\* The thread objects are disposed of safely: a thread that is not joined yet
\* stays in the map (else ~std::thread terminates the process), and only
\* threads that have left loop() are handed over to be joined, so that enqueue,
\* which joins with the mutex held, never waits for a thread that needs it.
ThreadsDisposedSafely ==
  /\ \A w \in ThreadIds : pc[w] \in {"ready", "waiting", "running", "returned"} => w \in mWorkers
  /\ \A w \in mPendingRemoveThreadIds : pc[w] \in {"returned", "exited"}

\* Every task that enqueue accepted is run to its end.
AcceptedTasksFinish ==
  \A t \in Tasks : t \in Queued ~> t \in finished

\* Once the destructor has set mStop it returns.
DestructionEnds == mStop ~> dtor = "destroyed"
=============================================================================
