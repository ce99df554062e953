----------------------------- MODULE SerialNode -----------------------------
(***************************************************************************)
(* A node that serves one pipeline at a time: SigframeNode and OtherNode   *)
(* of MiaNode.cpp (an OtherNode is the case Frames = 1), together with the *)
(* plugin gate, quick finishes of its pipelines, and the mutexes that      *)
(* these paths take in different orders.                                   *)
(*                                                                         *)
(* Each pipeline contributes three actors: the thread of its postProcTask, *)
(* which starts its nodes; a caller of Pipeline::quickFinish; and the      *)
(* detached thread that MiaNode::quickFinish may create.  The node's       *)
(* process threads are tasks on the pool.  A critical section that takes   *)
(* no other mutex is one step.                                             *)
(***************************************************************************)
EXTENDS PluginGate, FiniteSets, Sequences

CONSTANTS
  Pipelines,
  Priority,         \* getFIFOPriority or getLIFOPriority of each pipeline
  Frames,           \* getMergeInputNumber: frames merged for a request
  EveryFrameOutput, \* SIGGETOUTPUT_MODE
  ReleaseEachFrame, \* SIGRELEASEINPUT_MODE or SIGRELEASEOUTPUT_MODE
  NoPipeline

ASSUME NodeAssumption ==
  /\ IsFiniteSet(Pipelines) /\ NoPipeline \notin Pipelines
  /\ Priority \in [Pipelines -> Int]
  /\ \A p, q \in Pipelines : p # q => Priority[p] # Priority[q]
  /\ Frames \in Nat \ {0}
  /\ EveryFrameOutput \in BOOLEAN /\ ReleaseEachFrame \in BOOLEAN

\* A pipeline is enqueued once, so no more process threads than this start.
Threads == 1 .. Cardinality(Pipelines)

VARIABLES
  mRequestQueue, mPipeline, mHasProcessThread, mInputFrameNum, mProcessLock,
  mNodeThreadNum,     \* the session's count, kept by increaseUsingThreadNum
  started,            \* number of process threads put on the pool so far
  thr,                \* each process thread: pc, its pipeline, process result
  pluginFrames,       \* frames the plugin holds, by the pipeline they are of
  main, qf, det,      \* progress of each pipeline's three other actors
  mLock, mRecordProcessNodeLock,  \* holders of the two pipeline mutexes
  current,            \* whether the node is in mCurrentProcessNodes
  mFlushStatus, notified  \* notified: calls of notifyNextNode for the node

nodeVars == <<mRequestQueue, mPipeline, mHasProcessThread, mInputFrameNum, mNodeThreadNum, started>>
pipeVars == <<current, mFlushStatus, notified>>
lockVars == <<mLock, mRecordProcessNodeLock, mProcessLock, mQuickFinishMux>>
vars == <<nodeVars, pipeVars, lockVars, mInPluginThreadNum, thr, pluginFrames, main, qf, det>>

\* Actors, as holders of mutexes.
Main(p) == <<"main", p>>
Quick(p) == <<"qf", p>>
Thr(i) == <<"thr", i>>
Holders == {<<k, p>> : k \in {"main", "qf"}, p \in Pipelines} \cup {Thr(i) : i \in Threads}

ASSUME FreeAssumption == Free \notin Holders

TypeOK ==
  /\ mRequestQueue \subseteq Pipelines
  /\ mPipeline \in Pipelines \cup {NoPipeline}
  /\ mHasProcessThread \in BOOLEAN
  /\ mInputFrameNum \in 0 .. Frames
  /\ mInPluginThreadNum \in 0 .. 2
  /\ mNodeThreadNum \in 0 .. Cardinality(Pipelines)
  /\ started \in 0 .. Cardinality(Pipelines)
  /\ thr \in [Threads -> [pc : {"new", "fetch", "work", "call", "plugin", "gate", "asleep", "left",
                                "release", "notify", "notifying", "next", "leaving", "gone"},
                          p : Pipelines \cup {NoPipeline}, ok : BOOLEAN]]
  /\ pluginFrames \in [Pipelines -> 0 .. Frames]
  /\ main \in [Pipelines -> {"pop", "record", "post", "pop again", "record again", "done"}]
  /\ qf \in [Pipelines -> {"none", "forced", "mux", "name", "match", "done"}]
  /\ det \in [Pipelines -> {"none", "flush", "count", "notify", "gone"}]
  /\ mLock \in [Pipelines -> Holders \cup {Free}]
  /\ mRecordProcessNodeLock \in [Pipelines -> Holders \cup {Free}]
  /\ mProcessLock \in Holders \cup {Free}
  /\ mQuickFinishMux \in Holders \cup {Free}
  /\ current \in [Pipelines -> BOOLEAN]
  /\ mFlushStatus \in [Pipelines -> {"NoFlush", "Expediting", "ForcedFlush"}]
  /\ notified \in [Pipelines -> Nat]

Init ==
  /\ mRequestQueue = {} /\ mPipeline = NoPipeline
  /\ mHasProcessThread = FALSE /\ mInputFrameNum = 0
  /\ mNodeThreadNum = 0 /\ started = 0
  /\ mInPluginThreadNum = 0
  /\ thr = [i \in Threads |-> [pc |-> "new", p |-> NoPipeline, ok |-> TRUE]]
  /\ pluginFrames = [p \in Pipelines |-> 0]
  /\ main = [p \in Pipelines |-> "pop"]
  /\ qf = [p \in Pipelines |-> "none"]
  /\ det = [p \in Pipelines |-> "none"]
  /\ mLock = [p \in Pipelines |-> Free]
  /\ mRecordProcessNodeLock = [p \in Pipelines |-> Free]
  /\ mProcessLock = Free /\ mQuickFinishMux = Free
  /\ current = [p \in Pipelines |-> FALSE]
  /\ mFlushStatus = [p \in Pipelines |-> "NoFlush"]
  /\ notified = [p \in Pipelines |-> 0]

-----------------------------------------------------------------------------
(* The request queue *)

Top(queue) == CHOOSE p \in queue : \A q \in queue : Priority[q] <= Priority[p]

\* The queue's head becomes the pipeline being served.
ServeTop(queue) ==
  /\ mPipeline' = Top(queue)
  /\ mRequestQueue' = queue \ {Top(queue)}

\* Mutant: what is being served does not count.
HighestInQueue(p) == p = Top(mRequestQueue \cup {p})

\* Nothing is being served and the newcomer p is the head of the queue.
HighestPriorityRequest(p) ==
  mPipeline = NoPipeline /\ p = Top(mRequestQueue \cup {p})

\* Mutant: the thread is not counted by the one who starts it.
StartUncounted ==
  /\ mHasProcessThread' = TRUE
  /\ UNCHANGED mNodeThreadNum
  /\ started' = started + 1
  /\ thr' = [thr EXCEPT ![started + 1].pc = "fetch"]

\* increaseUsingThreadNum(1) and processTask put on the pool.
StartProcessThread ==
  /\ mHasProcessThread' = TRUE
  /\ mNodeThreadNum' = mNodeThreadNum + 1
  /\ started' = started + 1
  /\ thr' = [thr EXCEPT ![started + 1].pc = "fetch"]

enqueueTask(p) ==
  /\ mProcessLock = Free
  /\ IF HighestPriorityRequest(p)
     THEN ServeTop(mRequestQueue \cup {p})
     ELSE mRequestQueue' = mRequestQueue \cup {p} /\ UNCHANGED mPipeline
  /\ IF ~mHasProcessThread /\ HighestPriorityRequest(p)
     THEN StartProcessThread
     ELSE UNCHANGED <<mHasProcessThread, mNodeThreadNum, started, thr>>

-----------------------------------------------------------------------------
(* postProcTask of pipeline p, as far as this node sees it: it takes the    *)
(* node from the run sequence, records it, posts it, and later takes        *)
(* another node from the run sequence in the same way.                      *)

MainLock(p) ==
  /\ main[p] \in {"pop", "pop again"} /\ mLock[p] = Free
  /\ mLock' = [mLock EXCEPT ![p] = Main(p)]
  /\ main' = [main EXCEPT ![p] = IF @ = "pop" THEN "record" ELSE "record again"]
  /\ UNCHANGED <<nodeVars, pipeVars, mRecordProcessNodeLock, mProcessLock, mQuickFinishMux,
                 mInPluginThreadNum, thr, pluginFrames, qf, det>>

MainRecord(p) ==
  /\ main[p] \in {"record", "record again"} /\ mRecordProcessNodeLock[p] = Free
  /\ current' = [current EXCEPT ![p] = @ \/ main[p] = "record"]
  /\ mLock' = [mLock EXCEPT ![p] = Free]
  /\ main' = [main EXCEPT ![p] = IF @ = "record" THEN "post" ELSE "done"]
  /\ UNCHANGED <<nodeVars, mFlushStatus, notified, mRecordProcessNodeLock, mProcessLock,
                 mQuickFinishMux, mInPluginThreadNum, thr, pluginFrames, qf, det>>

MainPost(p) ==
  /\ main[p] = "post"
  /\ enqueueTask(p)
  /\ main' = [main EXCEPT ![p] = "pop again"]
  /\ UNCHANGED <<mInputFrameNum, pipeVars, lockVars, mInPluginThreadNum, pluginFrames, qf, det>>

-----------------------------------------------------------------------------
(* processTask, run by process thread i *)

At(i, l) == thr[i].pc = l
Goto(i, l) == thr' = [thr EXCEPT ![i].pc = l]

\* sp<Pipeline> pipeline = mPipeline, read without mProcessLock.
Fetch(i) ==
  /\ At(i, "fetch")
  /\ thr' = [thr EXCEPT ![i] = [pc |-> "work", p |-> mPipeline, ok |-> TRUE]]
  /\ UNCHANGED <<nodeVars, pipeVars, lockVars, mInPluginThreadNum, pluginFrames, main, qf, det>>

\* Mutant: a single frame is forgotten.
PluginHasSeveralFrames == mInputFrameNum > 1

\* Frames of the request were handed to the plugin before.
PluginHasFrames == mInputFrameNum > 0

NeedGetOutBufferThisTime == EveryFrameOutput \/ mInputFrameNum = 0

\* Input is there, and the pipeline is not being flushed so far.
TaskEffective(i) ==
  /\ At(i, "work")
  /\ mFlushStatus[thr[i].p] # "ForcedFlush"
  /\ Goto(i, "call")
  /\ UNCHANGED <<nodeVars, pipeVars, lockVars, mInPluginThreadNum, pluginFrames, main, qf, det>>

\* The output buffers, if this frame needs any, were acquired: the plugin is
\* called.
CallPlugin(i) ==
  /\ At(i, "call")
  /\ CountIn
  /\ mInputFrameNum' = mInputFrameNum + 1
  /\ Goto(i, "plugin")
  /\ UNCHANGED <<mRequestQueue, mPipeline, mHasProcessThread, mNodeThreadNum, started,
                 pipeVars, lockVars, pluginFrames, main, qf, det>>

\* acquireOutputBuffer returned no image.
GetOutputFails(i) ==
  /\ At(i, "call")
  /\ NeedGetOutBufferThisTime
  /\ mInputFrameNum' = 0
  /\ thr' = [thr EXCEPT ![i].pc = "notify", ![i].ok = FALSE]
  /\ UNCHANGED <<mRequestQueue, mPipeline, mHasProcessThread, mNodeThreadNum, started,
                 pipeVars, lockVars, mInPluginThreadNum, pluginFrames, main, qf, det>>

\* checkTaskEffectiveness finds the pipeline in ForcedFlush: what the plugin has
\* got so far is flushed out of it.
FlushTask(i) ==
  /\ At(i, "work")
  /\ mFlushStatus[thr[i].p] = "ForcedFlush"
  /\ pluginFrames' = IF PluginHasFrames THEN [p \in Pipelines |-> 0] ELSE pluginFrames
  /\ mInputFrameNum' = 0
  /\ thr' = [thr EXCEPT ![i].pc = "notify", ![i].ok = FALSE]
  /\ UNCHANGED <<mRequestQueue, mPipeline, mHasProcessThread, mNodeThreadNum, started,
                 pipeVars, lockVars, mInPluginThreadNum, main, qf, det>>

\* getInputBuffer fails since the pipeline expedites: with frames in the plugin
\* it is told to finish with them, without any the request is in error.
ExpeditedInputFails(i) ==
  /\ At(i, "work")
  /\ mFlushStatus[thr[i].p] = "Expediting"
  /\ IF PluginHasFrames
     THEN /\ pluginFrames' = [p \in Pipelines |-> 0]
          /\ Goto(i, "notify")
          /\ UNCHANGED mInputFrameNum
     ELSE /\ mInputFrameNum' = 0
          /\ thr' = [thr EXCEPT ![i].pc = "notify", ![i].ok = FALSE]
          /\ UNCHANGED pluginFrames
  /\ UNCHANGED <<mRequestQueue, mPipeline, mHasProcessThread, mNodeThreadNum, started,
                 pipeVars, lockVars, mInPluginThreadNum, main, qf, det>>

\* The plugin takes a frame: it keeps it, or gives the merged result with the
\* last one, or drops what it holds and fails.  The last one is the one the node
\* counts as the last, whatever a flush has taken out before it.
PluginReturns(i) ==
  LET p == thr[i].p
  IN /\ At(i, "plugin")
     /\ \E ok \in BOOLEAN :
          /\ thr' = [thr EXCEPT ![i].pc = "gate", ![i].ok = ok]
          /\ pluginFrames' =
               IF ok /\ mInputFrameNum < Frames
               THEN [pluginFrames EXCEPT ![p] = @ + 1]
               ELSE [pluginFrames EXCEPT ![p] = 0]
     /\ UNCHANGED <<nodeVars, pipeVars, lockVars, mInPluginThreadNum, main, qf, det>>

\* The wait on mQuickFinishCond: leave the gate or go to sleep.
PassGate(i) ==
  /\ At(i, "gate")
  /\ EvaluateGate
  /\ Goto(i, IF GateOpen(mInPluginThreadNum) THEN "left" ELSE "asleep")
  /\ UNCHANGED <<nodeVars, pipeVars, lockVars, pluginFrames, main, qf, det>>

SpuriousWakeup(i) ==
  /\ At(i, "asleep")
  /\ Goto(i, "gate")
  /\ UNCHANGED <<nodeVars, pipeVars, lockVars, mInPluginThreadNum, pluginFrames, main, qf, det>>

\* After the plugin: an error ends the request, so does its last frame.
Leave(i) ==
  /\ At(i, "left")
  /\ IF ~thr[i].ok
     THEN mInputFrameNum' = 0 /\ Goto(i, "notify")
     ELSE /\ UNCHANGED mInputFrameNum
          /\ IF mInputFrameNum = Frames
             THEN Goto(i, "notify")
             ELSE Goto(i, "release")
  /\ UNCHANGED <<mRequestQueue, mPipeline, mHasProcessThread, mNodeThreadNum, started,
                 pipeVars, lockVars, mInPluginThreadNum, pluginFrames, main, qf, det>>

\* Not the last frame: with mProcessLock held, releaseInput- or
\* releaseOutputAndTryNotifyNextNode takes the pipeline's mLock.
ReleaseLock(i) ==
  /\ At(i, "release") /\ mProcessLock = Free
  /\ IF ReleaseEachFrame
     THEN mProcessLock' = Thr(i) /\ UNCHANGED thr
     ELSE Goto(i, "fetch") /\ UNCHANGED mProcessLock
  /\ UNCHANGED <<nodeVars, pipeVars, mLock, mRecordProcessNodeLock, mQuickFinishMux,
                 mInPluginThreadNum, pluginFrames, main, qf, det>>

ReleaseFrame(i) ==
  /\ At(i, "release") /\ mProcessLock = Thr(i)
  /\ mLock[mPipeline] = Free
  /\ mProcessLock' = Free
  /\ Goto(i, "fetch")
  /\ UNCHANGED <<nodeVars, pipeVars, mLock, mRecordProcessNodeLock, mQuickFinishMux,
                 mInPluginThreadNum, pluginFrames, main, qf, det>>

\* notifyNextNode, first part: the node leaves mCurrentProcessNodes.
NotifyRecord(i) ==
  LET p == thr[i].p
  IN /\ At(i, "notify") /\ mRecordProcessNodeLock[p] = Free
     /\ current' = [current EXCEPT ![p] = FALSE]
     /\ Goto(i, "notifying")
     /\ UNCHANGED <<nodeVars, mFlushStatus, notified, lockVars, mInPluginThreadNum,
                    pluginFrames, main, qf, det>>

\* notifyNextNode, last part: with mLock, the pipeline counts the node finished.
NotifyDone(i) ==
  LET p == thr[i].p
  IN /\ At(i, "notifying") /\ mLock[p] = Free
     /\ notified' = [notified EXCEPT ![p] = @ + 1]
     /\ Goto(i, "next")
     /\ UNCHANGED <<nodeVars, current, mFlushStatus, lockVars, mInPluginThreadNum,
                    pluginFrames, main, qf, det>>

\* Serve the next pipeline, or give the thread back.
TakeNext(i) ==
  /\ At(i, "next") /\ mProcessLock = Free
  /\ mInputFrameNum' = 0
  /\ IF mRequestQueue # {}
     THEN /\ ServeTop(mRequestQueue)
          /\ Goto(i, "fetch")
          /\ UNCHANGED mHasProcessThread
     ELSE /\ mPipeline' = NoPipeline
          /\ mHasProcessThread' = FALSE
          /\ Goto(i, "leaving")
          /\ UNCHANGED mRequestQueue
  /\ UNCHANGED <<mNodeThreadNum, started, pipeVars, lockVars, mInPluginThreadNum,
                 pluginFrames, main, qf, det>>

\* increaseUsingThreadNum(-1)
ThreadGone(i) ==
  /\ At(i, "leaving")
  /\ mNodeThreadNum' = mNodeThreadNum - 1
  /\ Goto(i, "gone")
  /\ UNCHANGED <<mRequestQueue, mPipeline, mHasProcessThread, mInputFrameNum, started,
                 pipeVars, lockVars, mInPluginThreadNum, pluginFrames, main, qf, det>>

processTask(i) ==
  \/ Fetch(i) \/ TaskEffective(i) \/ CallPlugin(i) \/ GetOutputFails(i) \/ FlushTask(i)
  \/ ExpeditedInputFails(i) \/ PluginReturns(i) \/ PassGate(i) \/ Leave(i)
  \/ ReleaseLock(i) \/ ReleaseFrame(i) \/ NotifyRecord(i) \/ NotifyDone(i)
  \/ TakeNext(i) \/ ThreadGone(i)

-----------------------------------------------------------------------------
(* Pipeline::quickFinish(p), and the part of MiaNode::quickFinish in it *)

\* quickFinish(true): the flag, whatever it was, and the source queues, no call of
\* the node.  It waits for a forced flush of p that holds mQuickFinishLock.
Expedite(p) ==
  /\ qf[p] \in {"none", "done"}
  /\ mFlushStatus' = [mFlushStatus EXCEPT ![p] = "Expediting"]
  /\ UNCHANGED <<nodeVars, current, notified, lockVars, mInPluginThreadNum, thr,
                 pluginFrames, main, qf, det>>

\* quickFinish(false), once for a pipeline: the flag, ...
ForceFlush(p) ==
  /\ qf[p] = "none"
  /\ mFlushStatus' = [mFlushStatus EXCEPT ![p] = "ForcedFlush"]
  /\ qf' = [qf EXCEPT ![p] = "forced"]
  /\ UNCHANGED <<nodeVars, current, notified, lockVars, mInPluginThreadNum, thr,
                 pluginFrames, main, det>>

\* ... then, holding mRecordProcessNodeLock, the nodes that are working on p.
QuickRecord(p) ==
  /\ qf[p] = "forced" /\ mRecordProcessNodeLock[p] = Free
  /\ IF current[p]
     THEN /\ mRecordProcessNodeLock' = [mRecordProcessNodeLock EXCEPT ![p] = Quick(p)]
          /\ qf' = [qf EXCEPT ![p] = "mux"]
     ELSE /\ qf' = [qf EXCEPT ![p] = "done"]
          /\ UNCHANGED mRecordProcessNodeLock
  /\ UNCHANGED <<nodeVars, pipeVars, mLock, mProcessLock, mQuickFinishMux,
                 mInPluginThreadNum, thr, pluginFrames, main, det>>

\* MiaNode::quickFinish locks the gate's mutex and reads the count.
QuickMux(p) ==
  /\ qf[p] = "mux" /\ mQuickFinishMux = Free
  /\ IF OneInPlugin
     THEN /\ mQuickFinishMux' = Quick(p)
          /\ qf' = [qf EXCEPT ![p] = "name"]
          /\ UNCHANGED mRecordProcessNodeLock
     ELSE /\ mRecordProcessNodeLock' = [mRecordProcessNodeLock EXCEPT ![p] = Free]
          /\ qf' = [qf EXCEPT ![p] = "done"]
          /\ UNCHANGED mQuickFinishMux
  /\ UNCHANGED <<nodeVars, pipeVars, mLock, mProcessLock, mInPluginThreadNum, thr,
                 pluginFrames, main, det>>

\* Mutant: any pipeline will do.
SomePipeline(p) == mPipeline # NoPipeline

\* isCurrentPipeline: with mProcessLock, compare with the pipeline being served.
IsCurrentPipeline(p) == mPipeline = p

QuickName(p) ==
  /\ qf[p] = "name" /\ mProcessLock = Free
  /\ IF IsCurrentPipeline(p)
     THEN /\ qf' = [qf EXCEPT ![p] = "match"]
          /\ UNCHANGED <<mQuickFinishMux, mRecordProcessNodeLock>>
     ELSE /\ qf' = [qf EXCEPT ![p] = "done"]
          /\ mQuickFinishMux' = Free
          /\ mRecordProcessNodeLock' = [mRecordProcessNodeLock EXCEPT ![p] = Free]
  /\ UNCHANGED <<nodeVars, pipeVars, mLock, mProcessLock, mInPluginThreadNum, thr,
                 pluginFrames, main, det>>

\* The flush counts itself in and runs on a detached thread; the caller returns.
QuickSpawn(p) ==
  /\ qf[p] = "match"
  /\ CountIn
  /\ mQuickFinishMux' = Free
  /\ mRecordProcessNodeLock' = [mRecordProcessNodeLock EXCEPT ![p] = Free]
  /\ det' = [det EXCEPT ![p] = "flush"]
  /\ qf' = [qf EXCEPT ![p] = "done"]
  /\ UNCHANGED <<nodeVars, pipeVars, mLock, mProcessLock, thr, pluginFrames, main>>

quickFinish(p) == QuickRecord(p) \/ QuickMux(p) \/ QuickName(p) \/ QuickSpawn(p)

\* The detached thread: flush(true) and reset of the plugin, the count, and the
\* notification under the gate's mutex.
DetachedFlush(p) ==
  /\ det[p] = "flush"
  /\ pluginFrames' = [q \in Pipelines |-> 0]
  /\ det' = [det EXCEPT ![p] = "count"]
  /\ UNCHANGED <<nodeVars, pipeVars, lockVars, mInPluginThreadNum, thr, main, qf>>

DetachedCount(p) ==
  /\ det[p] = "count"
  /\ CountOut
  /\ det' = [det EXCEPT ![p] = "notify"]
  /\ UNCHANGED <<nodeVars, pipeVars, lockVars, thr, pluginFrames, main, qf>>

DetachedNotify(p) ==
  /\ det[p] = "notify" /\ mQuickFinishMux = Free
  /\ det' = [det EXCEPT ![p] = "gone"]
  /\ thr' = [i \in Threads |-> IF At(i, "asleep") THEN [thr[i] EXCEPT !.pc = "gate"] ELSE thr[i]]
  /\ UNCHANGED <<nodeVars, pipeVars, lockVars, mInPluginThreadNum, pluginFrames, main, qf>>

detached(p) == DetachedFlush(p) \/ DetachedCount(p) \/ DetachedNotify(p)

-----------------------------------------------------------------------------
Next ==
  \/ \E p \in Pipelines : \/ MainLock(p) \/ MainRecord(p) \/ MainPost(p)
                          \/ Expedite(p) \/ ForceFlush(p) \/ quickFinish(p) \/ detached(p)
  \/ \E i \in Threads : processTask(i) \/ SpuriousWakeup(i)

\* Threads that run are scheduled; whether a pipeline is flushed is up to the
\* session.
Fairness ==
  /\ \A p \in Pipelines : /\ WF_vars(MainLock(p) \/ MainRecord(p) \/ MainPost(p))
                          /\ WF_vars(quickFinish(p)) /\ WF_vars(detached(p))
  /\ \A i \in Threads : WF_vars(processTask(i))

Safe == Init /\ [][Next]_vars
Spec == Safe /\ Fairness

-----------------------------------------------------------------------------
(* Properties *)

\* A pipeline handed to the node is never stranded and never served by two
\* threads: whenever mProcessLock is free, a request is being served exactly if
\* a process thread exists, exactly one is then at work, and without one the
\* queue is empty (enqueueTask would not look at what is left in it).
Working == {i \in Threads : thr[i].pc \notin {"new", "leaving", "gone"}}
OneThreadServes ==
  /\ mPipeline = NoPipeline <=> ~mHasProcessThread
  /\ mPipeline = NoPipeline => mRequestQueue = {}
  /\ Cardinality(Working) = IF mHasProcessThread THEN 1 ELSE 0
  /\ \A i \in Working : thr[i].pc # "fetch" => thr[i].p = mPipeline

\* A detached flush only ever reaches the plugin while the plugin works for the
\* pipeline that was quick-finished, and that call cannot leave processRequest
\* before the flush has ended; isCurrentPipeline never reads a null mPipeline.
FlushHitsItsPipeline ==
  \A p \in Pipelines :
    /\ det[p] \in {"flush", "count"} =>
         \E i \in Threads : thr[i].p = p /\ thr[i].pc \in {"plugin", "gate", "asleep"}
    /\ qf[p] = "name" => mPipeline # NoPipeline

\* Frames of two requests never meet in the plugin, and a request finds there all
\* the frames it has put in unless it was discarded by a forced flush at some time,
\* even if its pipeline was expedited after that.
RequestsNeverMix ==
  \A i \in Threads : At(i, "plugin") =>
    /\ \A q \in Pipelines \ {thr[i].p} : pluginFrames[q] = 0
    /\ qf[thr[i].p] = "none" => pluginFrames[thr[i].p] = mInputFrameNum - 1

\* The session may tear the node down when it has seen mNodeThreadNum = 0: then
\* no process thread is left, and every request that was posted is answered.
QuietWhenUncounted ==
  mNodeThreadNum = 0 =>
    /\ Working = {} /\ mRequestQueue = {}
    /\ \A p \in Pipelines : main[p] \in {"pop again", "record again", "done"} => notified[p] = 1

\* No interleaving of posts, process threads and quick finishes, whose mutexes
\* are nested in opposite orders (mProcessLock inside mQuickFinishMux inside
\* mRecordProcessNodeLock inside mLock, and mLock inside mProcessLock), blocks
\* for ever: every request posted to the node is answered ...
RequestsAnswered ==
  \A p \in Pipelines : main[p] = "post" ~> notified[p] = 1

\* ... and every quick finish returns.
QuickFinishReturns == \A p \in Pipelines : qf[p] = "forced" ~> qf[p] = "done"
=============================================================================
