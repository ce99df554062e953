--------------------------- MODULE OfflineSession ---------------------------
(***************************************************************************)
(* An offline session (MiaOfflineSession.cpp): it makes a pipeline of the  *)
(* first frame of a request, hands later frames on, knows which pipelines  *)
(* are busy and how many threads its nodes use, and is flushed or told to  *)
(* finish a request by other threads meanwhile.                            *)
(*                                                                         *)
(* Of a pipeline's run only what the session sees is kept: node tasks, one *)
(* after the other, the first of which needs all source frames or a closed *)
(* source queue, the others images of the nodes before them, and each of   *)
(* which leaves its node only after it has told the pipeline (Pipeline has *)
(* the rest).  Sections under mBusyLock are atomic, except flush's, which  *)
(* holds it while it flushes the pipelines.                                *)
(***************************************************************************)
EXTENDS Integers, FiniteSets

CONSTANTS
  Requests,      \* by image name; no name is a prefix of another
  totalReqNum,   \* [Requests -> frames of the request]
  NodeNum,       \* node tasks of a pipeline
  Flushers,      \* threads that call flush
  QuickCalls,    \* number of quickFinish calls
  NoRequest, Free

ASSUME SessionAssumption ==
  /\ IsFiniteSet(Requests) /\ NoRequest \notin Requests /\ Free \notin Flushers
  /\ totalReqNum \in [Requests -> Nat \ {0}]
  /\ NodeNum \in Nat \ {0} /\ QuickCalls \in Nat

VARIABLES
  app,                \* postProcess: step, request
  mInputNotEnoughPipe,  \* frames of each request that have not come
  mBusyPipelines, mBusyLock,
  named,              \* pipelines whose name has been set
  pipe,               \* each pipeline: where its task is
  mFlushStatus, closed,  \* closed: its source queues are released
  images,             \* source images its queues have taken
  left, working,      \* node tasks still to start, pipelines with one at work
  inner,              \* the inner queue of each pipeline's node at work
  leaving,            \* node tasks on their way out: <<request, number>>
  mNodeThreadNum,
  mFlushLock, flushing, toFlush,  \* progress of each flush
  quickCalls,
  owed                \* history: requests that were open when flush was called

appVars == <<app, mInputNotEnoughPipe, named>>
pipeVars == <<mFlushStatus, closed>>
nodeVars == <<left, working, inner, leaving, mNodeThreadNum>>
flushVars == <<mFlushLock, flushing, toFlush, owed>>
vars == <<appVars, pipe, images, pipeVars, nodeVars, flushVars, quickCalls,
          mBusyPipelines, mBusyLock>>

TypeOK ==
  /\ app \in [step : {"idle", "insert", "name", "start", "image"}, r : Requests \cup {NoRequest}]
  /\ mInputNotEnoughPipe \in [Requests -> Nat]
  /\ mBusyPipelines \subseteq Requests /\ named \subseteq Requests
  /\ mBusyLock \in Flushers \cup {Free} /\ mFlushLock \in Flushers \cup {Free}
  /\ pipe \in [Requests -> {"none", "made", "queued", "running", "moving", "ended"}]
  /\ mFlushStatus \in [Requests -> {"NoFlush", "Expediting", "ForcedFlush"}]
  /\ closed \subseteq Requests
  /\ images \in [Requests -> Nat]
  /\ left \in [Requests -> 0 .. NodeNum] /\ working \subseteq Requests
  /\ inner \in [Requests -> {"open", "starved", "released"}]
  /\ leaving \subseteq Requests \X (1 .. NodeNum) /\ mNodeThreadNum \in Nat
  /\ flushing \in [Flushers -> {"none", "called", "pipelines", "busy", "busy asleep",
                                "nodes", "nodes asleep", "returned"}]
  /\ toFlush \in SUBSET Requests /\ owed \in [Flushers -> SUBSET Requests]
  /\ quickCalls \in 0 .. QuickCalls

Init ==
  /\ app = [step |-> "idle", r |-> NoRequest]
  /\ mInputNotEnoughPipe = [r \in Requests |-> 0]
  /\ mBusyPipelines = {} /\ mBusyLock = Free /\ named = {}
  /\ pipe = [r \in Requests |-> "none"]
  /\ mFlushStatus = [r \in Requests |-> "NoFlush"] /\ closed = {}
  /\ images = [r \in Requests |-> 0]
  /\ left = [r \in Requests |-> 0] /\ working = {} /\ leaving = {}
  /\ inner = [r \in Requests |-> "open"]
  /\ mNodeThreadNum = 0
  /\ mFlushLock = Free /\ flushing = [f \in Flushers |-> "none"] /\ toFlush = {}
  /\ quickCalls = 0
  /\ owed = [f \in Flushers |-> {}]

-----------------------------------------------------------------------------
(* postProcess, which the owner calls for one frame after the other *)

\* The first frame of a request: the frames that follow are remembered.
NewRequest(r) ==
  /\ app.step = "idle" /\ pipe[r] = "none"
  /\ mInputNotEnoughPipe' = [mInputNotEnoughPipe EXCEPT ![r] = totalReqNum[r] - 1]
  /\ app' = [step |-> "insert", r |-> r]
  /\ UNCHANGED <<named, pipe, images, pipeVars, nodeVars, flushVars, quickCalls,
                 mBusyPipelines, mBusyLock>>

\* The new pipeline is busy from here on, before it has its name.
Insert ==
  /\ app.step = "insert" /\ mBusyLock = Free
  /\ mBusyPipelines' = mBusyPipelines \cup {app.r}
  /\ pipe' = [pipe EXCEPT ![app.r] = "made"]
  /\ app' = [app EXCEPT !.step = "name"]
  /\ UNCHANGED <<mInputNotEnoughPipe, named, images, pipeVars, nodeVars, flushVars,
                 quickCalls, mBusyLock>>

SetName ==
  /\ app.step = "name"
  /\ named' = named \cup {app.r}
  /\ app' = [app EXCEPT !.step = "start"]
  /\ UNCHANGED <<mInputNotEnoughPipe, pipe, images, pipeVars, nodeVars, flushVars,
                 quickCalls, mBusyPipelines, mBusyLock>>

\* start(): postProcTask is put on the pool.
StartPipeline ==
  /\ app.step = "start"
  /\ pipe' = [pipe EXCEPT ![app.r] = "queued"]
  /\ app' = [app EXCEPT !.step = "image"]
  /\ UNCHANGED <<mInputNotEnoughPipe, named, images, pipeVars, nodeVars, flushVars,
                 quickCalls, mBusyPipelines, mBusyLock>>

\* A later frame goes to the remembered pipeline, which may have ended.
NextFrame(r) ==
  /\ app.step = "idle" /\ mInputNotEnoughPipe[r] > 0
  /\ mInputNotEnoughPipe' = [mInputNotEnoughPipe EXCEPT ![r] = @ - 1]
  /\ app' = [step |-> "image", r |-> r]
  /\ UNCHANGED <<named, pipe, images, pipeVars, nodeVars, flushVars, quickCalls,
                 mBusyPipelines, mBusyLock>>

\* enqueueSourceImage: a closed queue refuses the image (it is given back).
EnqueueImage ==
  /\ app.step = "image"
  /\ images' = IF app.r \in closed THEN images ELSE [images EXCEPT ![app.r] = @ + 1]
  /\ app' = [step |-> "idle", r |-> NoRequest]
  /\ UNCHANGED <<mInputNotEnoughPipe, named, pipe, pipeVars, nodeVars, flushVars,
                 quickCalls, mBusyPipelines, mBusyLock>>

postProcess == Insert \/ SetName \/ StartPipeline \/ EnqueueImage

-----------------------------------------------------------------------------
(* The pipeline's task and its nodes' tasks *)

\* releaseUnusedBuffer, after which the pipeline is given back to the session.
EndRun(r) ==
  /\ pipe' = [pipe EXCEPT ![r] = "moving"]
  /\ closed' = closed \cup {r}

Run(r) ==
  /\ pipe[r] = "queued"
  /\ IF mFlushStatus[r] = "ForcedFlush"
     THEN EndRun(r) /\ UNCHANGED left
     ELSE /\ pipe' = [pipe EXCEPT ![r] = "running"]
          /\ left' = [left EXCEPT ![r] = NodeNum]
          /\ UNCHANGED closed
  /\ UNCHANGED <<appVars, images, mFlushStatus, working, inner, leaving, mNodeThreadNum, flushVars,
                 quickCalls, mBusyPipelines, mBusyLock>>

\* enqueueTask of the next node: increaseUsingThreadNum(1).
StartNode(r) ==
  /\ pipe[r] = "running" /\ r \notin working /\ left[r] > 0
  /\ working' = working \cup {r}
  /\ inner' = [inner EXCEPT ![r] = "open"]
  /\ left' = [left EXCEPT ![r] = @ - 1]
  /\ mNodeThreadNum' = mNodeThreadNum + 1
  /\ UNCHANGED <<appVars, pipe, images, pipeVars, leaving, flushVars, quickCalls,
                 mBusyPipelines, mBusyLock>>

\* Inner queues are not closed when a pipeline expedites: a node after the first
\* may wait for an image that the nodes before it, cut short, do not deliver.
NodeStarves(r) ==
  /\ r \in working /\ left[r] + 1 < NodeNum
  /\ mFlushStatus[r] = "Expediting" /\ inner[r] = "open"
  /\ inner' = [inner EXCEPT ![r] = "starved"]
  /\ UNCHANGED <<appVars, pipe, images, pipeVars, left, working, leaving, mNodeThreadNum,
                 flushVars, quickCalls, mBusyPipelines, mBusyLock>>

\* notifyNextNode: the node has done its work, or an error ends the request.
NodeNotifies(r) ==
  /\ r \in working /\ inner[r] # "starved"
  /\ images[r] = totalReqNum[r] \/ r \in closed
  /\ working' = working \ {r}
  /\ leaving' = leaving \cup {<<r, left[r] + 1>>}
  /\ \E ok \in BOOLEAN : left' = IF ok THEN left ELSE [left EXCEPT ![r] = 0]
  /\ UNCHANGED <<appVars, pipe, images, pipeVars, inner, mNodeThreadNum, flushVars, quickCalls,
                 mBusyPipelines, mBusyLock>>

\* increaseUsingThreadNum(-1), which tells a waiting flush of the last thread.
NodeLeaves(r) ==
  /\ \E k \in 1 .. NodeNum : <<r, k>> \in leaving /\ leaving' = leaving \ {<<r, k>>}
  /\ mNodeThreadNum' = mNodeThreadNum - 1
  /\ flushing' = [f \in Flushers |-> IF flushing[f] = "nodes asleep" /\ mNodeThreadNum = 1
                                     THEN "nodes" ELSE flushing[f]]
  /\ UNCHANGED <<appVars, pipe, images, pipeVars, left, working, inner, mFlushLock, toFlush,
                 owed, quickCalls, mBusyPipelines, mBusyLock>>

\* Mutant: the last node is not waited for.
RunEndsEarly(r) ==
  /\ pipe[r] = "running" /\ left[r] = 0
  /\ EndRun(r)
  /\ UNCHANGED <<appVars, images, mFlushStatus, nodeVars, flushVars, quickCalls,
                 mBusyPipelines, mBusyLock>>

RunEnds(r) ==
  /\ pipe[r] = "running" /\ r \notin working /\ left[r] = 0
  /\ EndRun(r)
  /\ UNCHANGED <<appVars, images, mFlushStatus, nodeVars, flushVars, quickCalls,
                 mBusyPipelines, mBusyLock>>


\* moveToIdleQueue: the last busy pipeline tells a waiting flush.
moveToIdleQueue(r) ==
  /\ pipe[r] = "moving" /\ mBusyLock = Free
  /\ mBusyPipelines' = mBusyPipelines \ {r}
  /\ pipe' = [pipe EXCEPT ![r] = "ended"]
  /\ flushing' = [f \in Flushers |-> IF flushing[f] = "busy asleep" /\ mBusyPipelines' = {}
                                     THEN "busy" ELSE flushing[f]]
  /\ UNCHANGED <<appVars, images, pipeVars, nodeVars, mFlushLock, toFlush, owed, quickCalls,
                 mBusyLock>>

postProcTask(r) == Run(r) \/ StartNode(r) \/ RunEnds(r) \/ moveToIdleQueue(r)

-----------------------------------------------------------------------------
\* Pipeline::quickFinish: the flag, whatever it was, the source queues and, of a
\* pipeline that is given up, the inner queue of the node at work.
QuickFinishPipeline(r, needImageResult) ==
  /\ mFlushStatus' = [mFlushStatus EXCEPT
                        ![r] = IF needImageResult THEN "Expediting" ELSE "ForcedFlush"]
  /\ closed' = closed \cup {r}
  /\ inner' = IF needImageResult \/ r \notin working THEN inner
              ELSE [inner EXCEPT ![r] = "released"]

-----------------------------------------------------------------------------
(* flush *)

At(f, l) == flushing[f] = l
Goto(f, l) == flushing' = [flushing EXCEPT ![f] = l]

\* A request is open from the moment its pipeline is busy until the session and
\* its nodes are through with it.
RequestOver(r) == pipe[r] = "ended" /\ \A k \in 1 .. NodeNum : <<r, k>> \notin leaving
Open == {r \in Requests : pipe[r] # "none" /\ ~RequestOver(r)}

Flush(f) ==
  /\ At(f, "none")
  /\ Goto(f, "called")
  /\ owed' = [owed EXCEPT ![f] = Open]
  /\ UNCHANGED <<appVars, pipe, images, pipeVars, nodeVars, mFlushLock, toFlush, quickCalls,
                 mBusyPipelines, mBusyLock>>

\* One flush at a time; it locks mBusyLock and copies the set.
FlushLock(f) ==
  /\ At(f, "called") /\ mFlushLock = Free /\ mBusyLock = Free
  /\ mFlushLock' = f /\ mBusyLock' = f
  /\ toFlush' = mBusyPipelines
  /\ Goto(f, "pipelines")
  /\ UNCHANGED <<appVars, pipe, images, pipeVars, nodeVars, owed, quickCalls, mBusyPipelines>>

\* pipeline->flush, that is, quickFinish(false).
FlushPipeline(f) ==
  /\ At(f, "pipelines")
  /\ \E r \in toFlush : QuickFinishPipeline(r, FALSE) /\ toFlush' = toFlush \ {r}
  /\ UNCHANGED <<appVars, pipe, images, left, working, leaving, mNodeThreadNum, mFlushLock,
                 flushing, owed, quickCalls, mBusyPipelines, mBusyLock>>

FlushedAll(f) ==
  /\ At(f, "pipelines") /\ toFlush = {}
  /\ Goto(f, "busy")
  /\ mBusyLock' = Free
  /\ UNCHANGED <<appVars, pipe, images, pipeVars, nodeVars, mFlushLock, toFlush, owed,
                 quickCalls, mBusyPipelines>>

\* Wait for all busy pipelines, those that came in the meantime included, ...
WaitBusy(f) ==
  /\ At(f, "busy") /\ mBusyLock = Free
  /\ Goto(f, IF mBusyPipelines = {} THEN "nodes" ELSE "busy asleep")
  /\ UNCHANGED <<appVars, pipe, images, pipeVars, nodeVars, mFlushLock, toFlush, owed,
                 quickCalls, mBusyPipelines, mBusyLock>>

\* Mutant: node threads are not waited for.
WaitNodesNot(f) ==
  /\ At(f, "nodes")
  /\ Goto(f, "returned") /\ mFlushLock' = Free
  /\ UNCHANGED <<appVars, pipe, images, pipeVars, nodeVars, toFlush, owed,
                 quickCalls, mBusyPipelines, mBusyLock>>

\* ... and then for all node threads.
WaitNodes(f) ==
  /\ At(f, "nodes")
  /\ IF mNodeThreadNum = 0
     THEN Goto(f, "returned") /\ mFlushLock' = Free
     ELSE Goto(f, "nodes asleep") /\ UNCHANGED mFlushLock
  /\ UNCHANGED <<appVars, pipe, images, pipeVars, nodeVars, toFlush, owed,
                 quickCalls, mBusyPipelines, mBusyLock>>

flush(f) ==
  FlushLock(f) \/ FlushPipeline(f) \/ FlushedAll(f) \/ WaitBusy(f) \/ WaitNodes(f)

-----------------------------------------------------------------------------
\* quickFinish: the first busy pipeline, in no particular order, whose name
\* agrees over the shorter of the two lengths; one without a name always does.
Matches(r, fileName) == r = fileName \/ r \notin named

quickFinish(fileName, needImageResult) ==
  /\ quickCalls < QuickCalls /\ mBusyLock = Free
  /\ quickCalls' = quickCalls + 1
  /\ \E r \in mBusyPipelines :
       Matches(r, fileName) /\ QuickFinishPipeline(r, needImageResult)
  /\ UNCHANGED <<appVars, pipe, images, left, working, leaving, mNodeThreadNum, flushVars,
                 mBusyPipelines, mBusyLock>>

-----------------------------------------------------------------------------
Next ==
  \/ \E r \in Requests : NewRequest(r) \/ NextFrame(r)
  \/ postProcess
  \/ \E r \in Requests : postProcTask(r) \/ NodeStarves(r) \/ NodeNotifies(r)
                         \/ NodeLeaves(r)
  \/ \E f \in Flushers : Flush(f) \/ flush(f)
  \/ \E r \in Requests, needImageResult \in BOOLEAN : quickFinish(r, needImageResult)

Safe == Init /\ [][Next]_vars

\* Threads that run are scheduled, and the owner sends the frames that it has
\* announced.  New requests, flushes and quick finishes may never come, and a
\* node that starves has nobody to wake it but a forced flush of its pipeline.
Fairness ==
  /\ WF_vars(postProcess)
  /\ \A r \in Requests : /\ WF_vars(NextFrame(r)) /\ WF_vars(postProcTask(r))
                         /\ WF_vars(NodeNotifies(r)) /\ WF_vars(NodeLeaves(r))
  /\ \A f \in Flushers : WF_vars(flush(f))

Spec == Safe /\ Fairness

-----------------------------------------------------------------------------
(* Properties *)

\* What a flush counts on when it sees mNodeThreadNum = 0: every task of a node
\* is counted from before it can tell the pipeline anything until after its last
\* use of it, and a pipeline that left the busy set has no node at work.
NodeThreadsCounted ==
  /\ mNodeThreadNum = Cardinality(working) + Cardinality(leaving)
  /\ \A r \in working : pipe[r] = "running" /\ r \in mBusyPipelines

\* The session keeps what SessionCalls promises: no flush returns while a
\* request that was open at its call is being worked on.
Promise == INSTANCE SessionCalls WITH
  request <- [r \in Requests |-> IF pipe[r] = "none" THEN "unknown"
                                 ELSE IF RequestOver(r) THEN "over" ELSE "open"],
  call <- [f \in Flushers |-> CASE flushing[f] = "none" -> "none"
                                [] flushing[f] = "returned" -> "returned"
                                [] OTHER -> "called"]

KeepsPromise == Promise!Spec

\* Every flush returns, although pipelines are added while it waits and quick
\* finishes change how a flushed pipeline is to end, unless a pipeline starves for
\* good and to expedite it was the last that was done to it.  One that starves
\* when the flush gets to it is freed.
Stranded(r) == inner[r] = "starved" /\ mFlushStatus[r] = "Expediting"

=============================================================================
