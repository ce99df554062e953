---------------------------- MODULE BufferQueue ----------------------------
(***************************************************************************)
(* The queue of internal images of one format: BufferQueueWrapper and the  *)
(* session's acquireOutputBuffer, releaseBuffer and memoryMonitor          *)
(* (MiaOfflineSession.cpp), with the counting of MiaBufferManager.         *)
(*                                                                         *)
(* Node threads acquire images for their output and release them later;    *)
(* one image may be handed to several nodes, so it has a use count.  The   *)
(* memory monitor (a timer thread or a caller of postProcess, one at a     *)
(* time under mBufferReclaimMutex) frees images that nobody uses.  A step  *)
(* is what the code does under one of the queue's own short locks.         *)
(***************************************************************************)
EXTENDS Integers, FiniteSets, Sequences

CONSTANTS
  Threads,          \* node threads
  Needs,            \* images a thread acquires before it releases any
  InitDepth,        \* mInitBufferQueueDepth, DEFAULT_BUFFER_QUEUE_DEPTH = 2
  MaxDepth,         \* MAX_BUFFER_QUEUE_DEPTH, 20 in the code
  MinDepth,         \* MINIMUM_BUFFER_QUEUE_DEPTH = 1
  mThresholdValue,  \* the number of images above which the monitor frees
  AllocMayFail,     \* whether allocateIonBuffer may fail
  Free              \* "mAcquireBufferMutex is not held"

ASSUME QueueAssumption ==
  /\ IsFiniteSet(Threads) /\ Free \notin Threads
  /\ Needs \in Nat \ {0}
  /\ MinDepth \in Nat /\ InitDepth \in Nat \ {0} /\ MaxDepth \in Nat
  /\ InitDepth <= MaxDepth
  /\ mThresholdValue \in Nat /\ AllocMayFail \in BOOLEAN

\* Names for images; a freed name is used again.
Images == 1 .. MaxDepth

VARIABLES
  mBufferQueue,     \* the free images, in order
  mNumBuffers,      \* the buffer manager's count
  mUseCount,        \* of each image
  live,             \* images whose memory is allocated
  holding,          \* images each thread holds a reference to
  pc,               \* each thread: idle, releasing, or inside acquireOutputBuffer
  mAcquireBufferMutex,
  monitor, victim   \* progress of memoryMonitor and the image it has popped

vars == <<mBufferQueue, mNumBuffers, mUseCount, live, holding, pc, mAcquireBufferMutex,
          monitor, victim>>

TypeOK ==
  /\ mBufferQueue \in Seq(Images) /\ mNumBuffers \in Nat
  /\ mUseCount \in [Images -> Nat]
  /\ live \subseteq Images /\ victim \subseteq Images
  /\ holding \in [Threads -> SUBSET Images]
  /\ pc \in [Threads -> {"idle", "check", "increase", "push", "pop", "using", "releasing"}]
  /\ mAcquireBufferMutex \in Threads \cup {Free}
  /\ monitor \in {"idle", "size", "pop", "free", "count"}

\* create: InitDepth images, all free.
Init ==
  /\ mBufferQueue = [i \in 1 .. InitDepth |-> i]
  /\ mNumBuffers = InitDepth
  /\ mUseCount = [i \in Images |-> 0]
  /\ live = 1 .. InitDepth
  /\ holding = [t \in Threads |-> {}]
  /\ pc = [t \in Threads |-> "idle"]
  /\ mAcquireBufferMutex = Free
  /\ monitor = "idle" /\ victim = {}

Goto(t, l) == pc' = [pc EXCEPT ![t] = l]

-----------------------------------------------------------------------------
(* acquireOutputBuffer and, inside it, dequeueBuffer *)

Acquire(t) ==
  /\ pc[t] = "idle" /\ Cardinality(holding[t]) < Needs
  /\ mAcquireBufferMutex = Free
  /\ mAcquireBufferMutex' = t
  /\ Goto(t, "check")
  /\ UNCHANGED <<mBufferQueue, mNumBuffers, mUseCount, live, holding, monitor, victim>>

\* isEmpty: is more memory needed?
CheckEmpty(t) ==
  /\ pc[t] = "check"
  /\ Goto(t, IF mBufferQueue = <<>> THEN "increase" ELSE "pop")
  /\ UNCHANGED <<mBufferQueue, mNumBuffers, mUseCount, live, holding, mAcquireBufferMutex,
                 monitor, victim>>

\* Mutant: one image too many.
BeyondTheCap == mNumBuffers > MaxDepth

AtTheCap == mNumBuffers >= MaxDepth

\* increaseImageQueue at the cap, or without memory: go and wait.
CannotIncrease(t) ==
  /\ pc[t] = "increase"
  /\ AtTheCap \/ AllocMayFail
  /\ Goto(t, "pop")
  /\ UNCHANGED <<mBufferQueue, mNumBuffers, mUseCount, live, holding, mAcquireBufferMutex,
                 monitor, victim>>

\* increaseImageQueue: allocateMoreBuffers counts the new buffer ...
Increase(t) ==
  /\ pc[t] = "increase"
  /\ ~AtTheCap
  /\ mNumBuffers' = mNumBuffers + 1
  /\ Goto(t, "push")
  /\ UNCHANGED <<mBufferQueue, mUseCount, live, holding, mAcquireBufferMutex, monitor, victim>>

\* ... and a new image that owns it goes to the queue.
PushNew(t) ==
  /\ pc[t] = "push"
  /\ \E i \in Images \ live :
       /\ live' = live \cup {i}
       /\ mUseCount' = [mUseCount EXCEPT ![i] = 0]
       /\ mBufferQueue' = Append(mBufferQueue, i)
  /\ Goto(t, "pop")
  /\ UNCHANGED <<mNumBuffers, holding, mAcquireBufferMutex, monitor, victim>>

\* waitAndPop, and the use count goes from 0 to 1.  On an empty queue the thread
\* waits here, with mAcquireBufferMutex.
Pop(t) ==
  /\ pc[t] = "pop"
  /\ mBufferQueue # <<>>
  /\ LET i == Head(mBufferQueue)
     IN /\ mUseCount' = [mUseCount EXCEPT ![i] = @ + 1]
        /\ holding' = [holding EXCEPT ![t] = @ \cup {i}]
  /\ mBufferQueue' = Tail(mBufferQueue)
  /\ mAcquireBufferMutex' = Free
  /\ Goto(t, IF Cardinality(holding[t]) + 1 < Needs THEN "idle" ELSE "using")
  /\ UNCHANGED <<mNumBuffers, live, monitor, victim>>

-----------------------------------------------------------------------------
(* Use and release *)

\* A node that passes an image on gives it to one more user.
Share(t, u) ==
  /\ pc[t] = "using" /\ pc[u] \in {"idle", "using", "releasing"} /\ t # u
  /\ \E i \in holding[t] \ holding[u] :
       /\ mUseCount' = [mUseCount EXCEPT ![i] = @ + 1]
       /\ holding' = [holding EXCEPT ![u] = @ \cup {i}]
  /\ pc' = [pc EXCEPT ![t] = "releasing", ![u] = "releasing"]
  /\ UNCHANGED <<mBufferQueue, mNumBuffers, live, mAcquireBufferMutex, monitor, victim>>

\* Mutant: the count is looked at before it is taken down.
NoUser(i) == mUseCount[i] = 0

LastUser(i) == mUseCount[i] - 1 = 0

\* releaseBuffer: the last user puts the image back into the queue.
Release(t) ==
  /\ pc[t] \in {"using", "releasing"}
  /\ \E i \in holding[t] :
       /\ mUseCount' = [mUseCount EXCEPT ![i] = @ - 1]
       /\ mBufferQueue' = IF LastUser(i) THEN Append(mBufferQueue, i) ELSE mBufferQueue
       /\ holding' = [holding EXCEPT ![t] = @ \ {i}]
  /\ Goto(t, IF holding'[t] = {} THEN "idle" ELSE "releasing")
  /\ UNCHANGED <<mNumBuffers, live, mAcquireBufferMutex, monitor, victim>>

-----------------------------------------------------------------------------
(* memoryMonitor, and inside it clearOutThresholdBuffer *)

AboveThreshold == mNumBuffers > mThresholdValue

\* Mutant: the last spare image is freed, too.
AnyFree == Len(mBufferQueue) >= MinDepth

SparesFree == Len(mBufferQueue) > MinDepth

MonitorStart ==
  /\ monitor = "idle" /\ AboveThreshold
  /\ monitor' = "size"
  /\ UNCHANGED <<mBufferQueue, mNumBuffers, mUseCount, live, holding, pc,
                 mAcquireBufferMutex, victim>>

MonitorSize ==
  /\ monitor = "size"
  /\ monitor' = IF SparesFree THEN "pop" ELSE "idle"
  /\ UNCHANGED <<mBufferQueue, mNumBuffers, mUseCount, live, holding, pc,
                 mAcquireBufferMutex, victim>>

\* tryPop takes an image if there still is one.
MonitorPop ==
  /\ monitor = "pop"
  /\ IF mBufferQueue # <<>>
     THEN /\ victim' = {Head(mBufferQueue)}
          /\ mBufferQueue' = Tail(mBufferQueue)
          /\ monitor' = "free"
     ELSE monitor' = "size" /\ UNCHANGED <<victim, mBufferQueue>>
  /\ UNCHANGED <<mNumBuffers, mUseCount, live, holding, pc, mAcquireBufferMutex>>

\* frame.clear(): the last reference goes and the memory is freed ...
MonitorFree ==
  /\ monitor = "free"
  /\ live' = live \ victim
  /\ victim' = {}
  /\ monitor' = "count"
  /\ UNCHANGED <<mBufferQueue, mNumBuffers, mUseCount, holding, pc, mAcquireBufferMutex>>

\* ... and then the buffer manager takes it off its count.
MonitorCount ==
  /\ monitor = "count"
  /\ mNumBuffers' = mNumBuffers - 1
  /\ monitor' = "size"
  /\ UNCHANGED <<mBufferQueue, mUseCount, live, holding, pc, mAcquireBufferMutex, victim>>

memoryMonitor == MonitorStart \/ MonitorSize \/ MonitorPop \/ MonitorFree \/ MonitorCount

-----------------------------------------------------------------------------
acquireOutputBuffer(t) ==
  CheckEmpty(t) \/ CannotIncrease(t) \/ Increase(t) \/ PushNew(t) \/ Pop(t)

Next ==
  \/ \E t \in Threads : Acquire(t) \/ acquireOutputBuffer(t) \/ Release(t)
  \/ \E t, u \in Threads : Share(t, u)
  \/ memoryMonitor

Safe == Init /\ [][Next]_vars

\* Node threads run, a node ends and releases what it holds, and the monitor,
\* once it runs, goes on; when it starts is up to its timer.
Fairness ==
  /\ \A t \in Threads : WF_vars(acquireOutputBuffer(t)) /\ WF_vars(Release(t))
  /\ WF_vars(MonitorSize \/ MonitorPop \/ MonitorFree \/ MonitorCount)

Spec == Safe /\ Fairness

-----------------------------------------------------------------------------
(* Properties *)

FreeImages == {mBufferQueue[i] : i \in DOMAIN mBufferQueue}
Users(i) == {t \in Threads : i \in holding[t]}
Growing == {t \in Threads : pc[t] = "push"}
Shrinking == IF monitor = "count" THEN 1 ELSE 0

\* An image is in the queue, in use, or being freed, and its use count is the
\* number of its users: it is never queued twice, never handed to two acquirers,
\* never freed under a user, and an image nobody uses is not lost.
UseCountsExact ==
  /\ \A i \in live : mUseCount[i] = Cardinality(Users(i))
  /\ \A i \in live : (i \in FreeImages \/ i \in victim) <=> Users(i) = {}
  /\ Len(mBufferQueue) = Cardinality(FreeImages)
  /\ FreeImages \cap victim = {}
  /\ (UNION {holding[t] : t \in Threads}) \cup FreeImages \cup victim = live

\* The count that steers growing and shrinking is the number of images, although
\* it is taken up before an image exists and taken down after it is gone; the
\* cap holds.
CountsMatchMemory ==
  /\ mNumBuffers = Cardinality(live) + Cardinality(Growing) + Shrinking
  /\ mNumBuffers <= MaxDepth

\* A thread that asks for an image gets one.
AcquireReturns == \A t \in Threads : pc[t] = "check" ~> pc[t] \in {"idle", "using"}

=============================================================================
