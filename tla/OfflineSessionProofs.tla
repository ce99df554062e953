------------------------ MODULE OfflineSessionProofs ------------------------
(***************************************************************************)
(* What holds of OfflineSession for every number of requests, frames, node *)
(* tasks and flushes: node threads are counted, and the session keeps what *)
(* SessionCalls promises its owner.  Inv is the inductive invariant.  The  *)
(* promise needs to know that a flush which awaits node threads has seen   *)
(* every pipeline it owes an end leave the busy set, and the count that a  *)
(* node task on its way out is not mistaken for another one.               *)
(***************************************************************************)
EXTENDS OfflineSession, FiniteSetTheorems, TLAPS

\* The stages of postProcess, of a pipeline and of a flush, as in TypeOK.
AppSteps == {"idle", "insert", "name", "start", "image"}
Stages == {"none", "made", "queued", "running", "moving", "ended"}
FlushStages == {"none", "called", "pipelines", "busy", "busy asleep",
                "nodes", "nodes asleep", "returned"}

USE DEF AppSteps, Stages, FlushStages

\* postProcess works on a request whose pipeline is where its last step left it.
Calls ==
  /\ app.step # "idle" => app.r \in Requests
  /\ app.step = "insert" => pipe[app.r] = "none"
  /\ app.step \in {"name", "start"} => pipe[app.r] = "made"

Busy == mBusyPipelines = {r \in Requests : pipe[r] \notin {"none", "ended"}}

\* Node tasks of a request start in falling order, from NodeNum to 1: a task on its
\* way out has a number above those of the tasks to come, and of the one at work.
Tokens ==
  /\ \A r \in Requests, k \in 1 .. NodeNum : <<r, k>> \in leaving =>
       /\ k > left[r]
       /\ r \in working => k > left[r] + 1
       /\ pipe[r] \in {"running", "moving", "ended"}
  /\ \A r \in working : pipe[r] = "running" /\ left[r] < NodeNum

Counted == mNodeThreadNum = Cardinality(working) + Cardinality(leaving)

\* A flush owes an end to pipelines that exist, and all of them have left the busy
\* set when it turns to the node threads.
Owing ==
  \A f \in Flushers :
    /\ \A r \in owed[f] : pipe[r] # "none"
    /\ flushing[f] \in {"nodes", "nodes asleep"} => \A r \in owed[f] : pipe[r] = "ended"

Inv == TypeOK /\ Calls /\ Busy /\ Tokens /\ Counted /\ Owing

-----------------------------------------------------------------------------
(* Counting *)

LEMMA FiniteTasks ==
  ASSUME TypeOK
  PROVE  /\ IsFiniteSet(working) /\ Cardinality(working) \in Nat
         /\ IsFiniteSet(leaving) /\ Cardinality(leaving) \in Nat
<1>1. IsFiniteSet(Requests)
  BY SessionAssumption DEF SessionAssumption
<1>2. IsFiniteSet(1 .. NodeNum)
  BY SessionAssumption, FS_Interval DEF SessionAssumption
<1>3. IsFiniteSet(Requests \X (1 .. NodeNum))
  BY <1>1, <1>2, FS_Product
<1>4. IsFiniteSet(working) /\ IsFiniteSet(leaving)
  BY <1>1, <1>3, FS_Subset DEF TypeOK
<1> QED BY <1>4, FS_CardinalityType

-----------------------------------------------------------------------------
(* Inv is an inductive invariant *)

LEMMA InvInit == Init => Inv
<1> SUFFICES ASSUME Init PROVE Inv
  OBVIOUS
<1>1. TypeOK
  BY SessionAssumption DEF Init, TypeOK, SessionAssumption
<1>2. Calls /\ Busy /\ Tokens /\ Owing
  BY DEF Init, Calls, Busy, Tokens, Owing
<1>3. Counted
  BY FS_EmptySet DEF Init, Counted
<1> QED BY <1>1, <1>2, <1>3 DEF Inv

\* Pipelines that exist and that have ended go on to do so.
LEMMA OwingSame ==
  ASSUME Inv, UNCHANGED owed,
         \A r \in Requests : (pipe[r] # "none" => pipe'[r] # "none")
                             /\ (pipe[r] = "ended" => pipe'[r] = "ended"),
         \A f \in Flushers : flushing'[f] \in {"nodes", "nodes asleep"} =>
                                flushing[f] \in {"nodes", "nodes asleep"}
  PROVE  Owing'
<1>1. \A f \in Flushers : owed[f] \subseteq Requests
  BY DEF Inv, TypeOK
<1> QED BY <1>1 DEF Inv, Owing

\* Steps that touch neither pipelines nor node tasks.
LEMMA SamePipelines ==
  ASSUME Inv, UNCHANGED <<pipe, left, working, leaving, mNodeThreadNum, mBusyPipelines>>,
         TypeOK', Calls', Owing'
  PROVE  Inv'
BY DEF Inv, Busy, Tokens, Counted

\* What Pipeline::quickFinish leaves behind.
LEMMA QuickFinishTyped ==
  ASSUME Inv, NEW r \in Requests, NEW needImageResult \in BOOLEAN,
         QuickFinishPipeline(r, needImageResult)
  PROVE  /\ mFlushStatus' \in [Requests -> {"NoFlush", "Expediting", "ForcedFlush"}]
         /\ closed' \subseteq Requests
         /\ inner' \in [Requests -> {"open", "starved", "released"}]
BY DEF Inv, TypeOK, QuickFinishPipeline

LEMMA InvPostProcess ==
  ASSUME Inv, \/ \E r \in Requests : NewRequest(r) \/ NextFrame(r)
              \/ postProcess
  PROVE  Inv'
<1>1. ASSUME NEW r \in Requests, NewRequest(r) PROVE Inv'
  <2>1. TypeOK'
    <3>1. app' \in [step : AppSteps, r : Requests \cup {NoRequest}]
      BY <1>1 DEF NewRequest
    <3>2. mInputNotEnoughPipe' \in [Requests -> Nat]
      <4>1. totalReqNum[r] - 1 \in Nat
        BY SessionAssumption DEF SessionAssumption
      <4> QED BY <1>1, <4>1 DEF Inv, TypeOK, NewRequest
    <3> QED BY <1>1, <3>1, <3>2 DEF Inv, TypeOK, NewRequest, pipeVars, nodeVars, flushVars
  <2>2. Calls' /\ Owing'
    BY <1>1 DEF Inv, Calls, Owing, NewRequest, flushVars
  <2> QED BY <1>1, <2>1, <2>2, SamePipelines DEF NewRequest, nodeVars
<1>2. ASSUME NEW r \in Requests, NextFrame(r) PROVE Inv'
  <2>1. TypeOK'
    <3>1. app' \in [step : AppSteps, r : Requests \cup {NoRequest}]
      BY <1>2 DEF NextFrame
    <3>2. mInputNotEnoughPipe' \in [Requests -> Nat]
      <4>1. mInputNotEnoughPipe \in [Requests -> Nat]
        BY DEF Inv, TypeOK
      <4>2. mInputNotEnoughPipe[r] - 1 \in Nat
        BY <1>2, <4>1 DEF NextFrame
      <4> QED BY <1>2, <4>1, <4>2 DEF NextFrame
    <3> QED BY <1>2, <3>1, <3>2 DEF Inv, TypeOK, NextFrame, pipeVars, nodeVars, flushVars
  <2>2. Calls' /\ Owing'
    BY <1>2 DEF Inv, Calls, Owing, NextFrame, flushVars
  <2> QED BY <1>2, <2>1, <2>2, SamePipelines DEF NextFrame, nodeVars
<1>3. CASE Insert
  <2>1. app.r \in Requests /\ pipe[app.r] = "none"
    BY <1>3 DEF Inv, Calls, Insert
  <2>2. TypeOK'
    <3>1. app' \in [step : AppSteps, r : Requests \cup {NoRequest}]
      <4>1. app \in [step : AppSteps, r : Requests \cup {NoRequest}]
        BY DEF Inv, TypeOK
      <4>2. app' = [app EXCEPT !.step = "name"]
        BY <1>3 DEF Insert
      <4> QED BY <4>1, <4>2
    <3>2. pipe' \in [Requests -> Stages]
      <4>1. pipe \in [Requests -> Stages]
        BY DEF Inv, TypeOK
      <4>2. pipe' = [pipe EXCEPT ![app.r] = "made"]
        BY <1>3 DEF Insert
      <4> QED BY <4>1, <4>2
    <3>3. mBusyPipelines' \subseteq Requests
      BY <1>3, <2>1 DEF Inv, TypeOK, Insert
    <3>4. UNCHANGED <<mInputNotEnoughPipe, named, images, pipeVars, nodeVars, flushVars,
                      quickCalls, mBusyLock>>
      BY <1>3 DEF Insert
    <3>5. TypeOK
      BY DEF Inv
    <3> QED BY <3>1, <3>2, <3>3, <3>4, <3>5 DEF TypeOK, pipeVars, nodeVars, flushVars
  <2>3. Calls'
    BY <1>3, <2>1 DEF Inv, TypeOK, Calls, Insert
  <2>4. Busy'
    <3>1. pipe \in [Requests -> Stages]
      BY DEF Inv, TypeOK
    <3>2. \A q \in Requests : pipe'[q] = IF q = app.r THEN "made" ELSE pipe[q]
      BY <1>3, <3>1 DEF Insert
    <3>3. mBusyPipelines' = mBusyPipelines \cup {app.r} /\ Busy
      BY <1>3 DEF Inv, Insert
    <3> QED BY <2>1, <3>2, <3>3 DEF Busy
  <2>5. Tokens' /\ Counted'
    <3>1. \A q \in Requests \ {app.r} : pipe'[q] = pipe[q]
      BY <1>3 DEF Inv, TypeOK, Insert
    <3>2. /\ \A k \in 1 .. NodeNum : <<app.r, k>> \notin leaving
          /\ app.r \notin working
      BY <2>1 DEF Inv, Tokens
    <3>3. UNCHANGED <<left, working, leaving, mNodeThreadNum>>
      BY <1>3 DEF Insert, nodeVars
    <3>4. Tokens /\ Counted /\ working \subseteq Requests
      BY DEF Inv, TypeOK
    <3>5. Tokens'
      BY <3>1, <3>2, <3>3, <3>4 DEF Tokens
    <3>6. Counted'
      BY <3>3, <3>4 DEF Counted
    <3> QED BY <3>5, <3>6
  <2>6. Owing'
    BY <1>3, <2>1 DEF Inv, TypeOK, Owing, Insert, flushVars
  <2> QED BY <2>2, <2>3, <2>4, <2>5, <2>6 DEF Inv
<1>4. CASE SetName
  <2>1. TypeOK'
    <3>1. app' \in [step : AppSteps, r : Requests \cup {NoRequest}]
      <4>1. app \in [step : AppSteps, r : Requests \cup {NoRequest}]
        BY DEF Inv, TypeOK
      <4> QED BY <1>4, <4>1 DEF SetName
    <3>2. named' \subseteq Requests
      BY <1>4 DEF Inv, TypeOK, Calls, SetName
    <3> QED BY <1>4, <3>1, <3>2 DEF Inv, TypeOK, SetName, pipeVars, nodeVars, flushVars
  <2>2. Calls' /\ Owing'
    BY <1>4 DEF Inv, TypeOK, Calls, Owing, SetName, flushVars
  <2> QED BY <1>4, <2>1, <2>2, SamePipelines DEF SetName, nodeVars
<1>5. CASE StartPipeline
  <2>1. app.r \in Requests /\ pipe[app.r] = "made"
    BY <1>5 DEF Inv, Calls, StartPipeline
  <2>2. TypeOK'
    <3>1. app' \in [step : AppSteps, r : Requests \cup {NoRequest}]
      <4>1. app \in [step : AppSteps, r : Requests \cup {NoRequest}]
        BY DEF Inv, TypeOK
      <4>2. app' = [app EXCEPT !.step = "image"]
        BY <1>5 DEF StartPipeline
      <4> QED BY <4>1, <4>2
    <3>2. pipe' \in [Requests -> Stages]
      <4>1. pipe \in [Requests -> Stages]
        BY DEF Inv, TypeOK
      <4>2. pipe' = [pipe EXCEPT ![app.r] = "queued"]
        BY <1>5 DEF StartPipeline
      <4> QED BY <4>1, <4>2
    <3>3. UNCHANGED <<mInputNotEnoughPipe, named, images, pipeVars, nodeVars, flushVars,
                      quickCalls, mBusyPipelines, mBusyLock>>
      BY <1>5 DEF StartPipeline
    <3>4. TypeOK
      BY DEF Inv
    <3> QED BY <3>1, <3>2, <3>3, <3>4 DEF TypeOK, pipeVars, nodeVars, flushVars
  <2>3. Calls'
    BY <1>5, <2>1 DEF Inv, TypeOK, Calls, StartPipeline
  <2>4. Busy'
    <3>1. pipe \in [Requests -> Stages]
      BY DEF Inv, TypeOK
    <3>2. \A q \in Requests : pipe'[q] = IF q = app.r THEN "queued" ELSE pipe[q]
      BY <1>5, <3>1 DEF StartPipeline
    <3>3. UNCHANGED mBusyPipelines /\ Busy
      BY <1>5 DEF Inv, StartPipeline
    <3> QED BY <2>1, <3>2, <3>3 DEF Busy
  <2>5. Tokens' /\ Counted'
    <3>1. \A q \in Requests \ {app.r} : pipe'[q] = pipe[q]
      BY <1>5 DEF Inv, TypeOK, StartPipeline
    <3>2. /\ \A k \in 1 .. NodeNum : <<app.r, k>> \notin leaving
          /\ app.r \notin working
      BY <2>1 DEF Inv, Tokens
    <3>3. UNCHANGED <<left, working, leaving, mNodeThreadNum>>
      BY <1>5 DEF StartPipeline, nodeVars
    <3>4. Tokens /\ Counted /\ working \subseteq Requests
      BY DEF Inv, TypeOK
    <3>5. Tokens'
      BY <3>1, <3>2, <3>3, <3>4 DEF Tokens
    <3>6. Counted'
      BY <3>3, <3>4 DEF Counted
    <3> QED BY <3>5, <3>6
  <2>6. Owing'
    <3>1. pipe \in [Requests -> Stages]
      BY DEF Inv, TypeOK
    <3>2. \A q \in Requests : pipe'[q] = IF q = app.r THEN "queued" ELSE pipe[q]
      BY <1>5, <3>1 DEF StartPipeline
    <3>3. UNCHANGED <<owed, flushing>>
      BY <1>5 DEF StartPipeline, flushVars
    <3> QED BY <2>1, <3>2, <3>3, OwingSame
  <2> QED BY <2>2, <2>3, <2>4, <2>5, <2>6 DEF Inv
<1>6. CASE EnqueueImage
  <2>1. TypeOK'
    <3>1. app' \in [step : AppSteps, r : Requests \cup {NoRequest}]
      BY <1>6 DEF EnqueueImage
    <3>2. images' \in [Requests -> Nat]
      <4>1. images \in [Requests -> Nat]
        BY DEF Inv, TypeOK
      <4>2. app.r \in Requests
        BY <1>6 DEF Inv, Calls, EnqueueImage
      <4>3. images[app.r] + 1 \in Nat
        BY <4>1, <4>2
      <4> QED BY <1>6, <4>1, <4>3 DEF EnqueueImage
    <3> QED BY <1>6, <3>1, <3>2 DEF Inv, TypeOK, EnqueueImage, pipeVars, nodeVars, flushVars
  <2>2. Calls' /\ Owing'
    BY <1>6 DEF Inv, Calls, Owing, EnqueueImage, flushVars
  <2> QED BY <1>6, <2>1, <2>2, SamePipelines DEF EnqueueImage, nodeVars
<1> QED BY <1>1, <1>2, <1>3, <1>4, <1>5, <1>6 DEF postProcess

LEMMA InvRun ==
  ASSUME Inv, NEW r \in Requests, Run(r)
  PROVE  Inv'
<1>1. TypeOK'
  <2>1. pipe' \in [Requests -> Stages]
    <3>1. pipe \in [Requests -> Stages]
      BY DEF Inv, TypeOK
    <3> QED BY <3>1 DEF Run, EndRun
  <2>2. left' \in [Requests -> 0 .. NodeNum]
    <3>1. left \in [Requests -> 0 .. NodeNum]
      BY DEF Inv, TypeOK
    <3>2. NodeNum \in 0 .. NodeNum
      BY SessionAssumption DEF SessionAssumption
    <3>3. left' = left \/ left' = [left EXCEPT ![r] = NodeNum]
      BY DEF Run
    <3> QED BY <3>1, <3>2, <3>3
  <2>3. closed' \subseteq Requests
    <3>1. closed \subseteq Requests
      BY DEF Inv, TypeOK
    <3>2. closed' = closed \/ closed' = closed \cup {r}
      BY DEF Run, EndRun
    <3> QED BY <3>1, <3>2
  <2> QED BY <2>1, <2>2, <2>3 DEF Inv, TypeOK, Run, appVars, flushVars
<1>2. Calls'
  <2>1. Calls /\ UNCHANGED app /\ pipe[r] = "queued"
    BY DEF Inv, Run, appVars
  <2>2. \A s \in Requests \ {r} : pipe'[s] = pipe[s]
    BY DEF Inv, TypeOK, Run, EndRun
  <2> QED BY <2>1, <2>2 DEF Calls
<1>3. Busy'
  <2>1. pipe \in [Requests -> Stages]
    BY DEF Inv, TypeOK
  <2>2. \A s \in Requests : s # r => pipe'[s] = pipe[s]
    BY <2>1 DEF Run, EndRun
  <2>3. pipe[r] = "queued" /\ pipe'[r] \in {"running", "moving"}
    BY <2>1 DEF Run, EndRun
  <2>4. UNCHANGED mBusyPipelines /\ Busy
    BY DEF Inv, Run
  <2> QED BY <2>2, <2>3, <2>4 DEF Busy
<1>4. Tokens'
  <2>1. /\ \A k \in 1 .. NodeNum : <<r, k>> \notin leaving
        /\ r \notin working
    BY DEF Inv, Tokens, Run
  <2>2. /\ \A s \in Requests \ {r} : pipe'[s] = pipe[s] /\ left'[s] = left[s]
        /\ UNCHANGED <<working, leaving>>
    BY DEF Inv, TypeOK, Run, EndRun
  <2>3. Tokens /\ working \subseteq Requests
    BY DEF Inv, TypeOK
  <2> QED BY <2>1, <2>2, <2>3 DEF Tokens
<1>5. Counted'
  BY DEF Inv, Counted, Run
<1>6. Owing'
  BY OwingSame DEF Inv, TypeOK, Run, EndRun, flushVars
<1> QED BY <1>1, <1>2, <1>3, <1>4, <1>5, <1>6 DEF Inv

LEMMA InvRunEnds ==
  ASSUME Inv, NEW r \in Requests, RunEnds(r)
  PROVE  Inv'
<1>1. TypeOK'
  <2>1. pipe' \in [Requests -> Stages]
    BY DEF Inv, TypeOK, RunEnds, EndRun
  <2> QED BY <2>1 DEF Inv, TypeOK, RunEnds, EndRun, appVars, nodeVars, flushVars
<1>2. Calls'
  BY DEF Inv, TypeOK, Calls, RunEnds, EndRun, appVars
<1>3. Busy'
  BY DEF Inv, TypeOK, Busy, RunEnds, EndRun
<1>4. Tokens'
  BY DEF Inv, TypeOK, Tokens, RunEnds, EndRun, nodeVars
<1>5. Counted'
  BY DEF Inv, Counted, RunEnds, nodeVars
<1>6. Owing'
  BY OwingSame DEF Inv, TypeOK, RunEnds, EndRun, flushVars
<1> QED BY <1>1, <1>2, <1>3, <1>4, <1>5, <1>6 DEF Inv

LEMMA InvMove ==
  ASSUME Inv, NEW r \in Requests, moveToIdleQueue(r)
  PROVE  Inv'
<1>1. TypeOK'
  <2>1. pipe' \in [Requests -> Stages]
    BY DEF Inv, TypeOK, moveToIdleQueue
  <2>2. flushing' \in [Flushers -> FlushStages]
    BY DEF Inv, TypeOK, moveToIdleQueue
  <2> QED BY <2>1, <2>2 DEF Inv, TypeOK, moveToIdleQueue, appVars, pipeVars, nodeVars
<1>2. Calls'
  BY DEF Inv, TypeOK, Calls, moveToIdleQueue, appVars
<1>3. Busy'
  BY DEF Inv, TypeOK, Busy, moveToIdleQueue
<1>4. Tokens'
  BY DEF Inv, TypeOK, Tokens, moveToIdleQueue, nodeVars
<1>5. Counted'
  BY DEF Inv, Counted, moveToIdleQueue, nodeVars
<1>6. Owing'
  BY OwingSame DEF Inv, TypeOK, moveToIdleQueue
<1> QED BY <1>1, <1>2, <1>3, <1>4, <1>5, <1>6 DEF Inv

LEMMA InvStartNode ==
  ASSUME Inv, NEW r \in Requests, StartNode(r)
  PROVE  Inv'
<1>1. left \in [Requests -> 0 .. NodeNum] /\ NodeNum \in Nat
  BY SessionAssumption DEF Inv, TypeOK, SessionAssumption
<1>2. left[r] > 0 /\ left[r] - 1 \in 0 .. NodeNum /\ left[r] - 1 < NodeNum
  BY <1>1 DEF StartNode
<1>3. left' \in [Requests -> 0 .. NodeNum]
  BY <1>1, <1>2 DEF StartNode
<1>4. TypeOK'
  <2>1. mNodeThreadNum' \in Nat
    <3>1. mNodeThreadNum \in Nat
      BY DEF Inv, TypeOK
    <3> QED BY <3>1 DEF StartNode
  <2> QED BY <1>3, <2>1 DEF Inv, TypeOK, StartNode, appVars, pipeVars, flushVars
<1>5. Calls' /\ Busy' /\ Owing'
  BY DEF Inv, Calls, Busy, Owing, StartNode, appVars, flushVars
<1>6. Tokens'
  <2>1. \A q \in Requests : left'[q] = IF q = r THEN left[r] - 1 ELSE left[q]
    BY <1>1 DEF StartNode
  <2>2. ASSUME NEW q \in Requests, NEW k \in 1 .. NodeNum, <<q, k>> \in leaving'
        PROVE  /\ k > left'[q]
               /\ q \in working' => k > left'[q] + 1
               /\ pipe'[q] \in {"running", "moving", "ended"}
    <3>1. /\ k > left[q]
          /\ q \in working => k > left[q] + 1
          /\ pipe[q] \in {"running", "moving", "ended"}
      BY <2>2 DEF Inv, Tokens, StartNode
    <3>2. left[q] \in Nat
      BY <1>1
    <3>3. UNCHANGED pipe /\ working' = working \cup {r}
      BY DEF StartNode
    <3>4. CASE q = r
      <4>1. left'[q] = left[q] - 1
        BY <2>1, <3>4
      <4> QED BY <3>1, <3>2, <3>3, <4>1
    <3>5. CASE q # r
      <4>1. left'[q] = left[q] /\ (q \in working' => q \in working)
        BY <2>1, <3>3, <3>5
      <4> QED BY <3>1, <3>3, <4>1
    <3> QED BY <3>4, <3>5
  <2>3. \A q \in working' : pipe'[q] = "running" /\ left'[q] < NodeNum
    <3>1. \A q \in working : q \in Requests /\ pipe[q] = "running" /\ left[q] < NodeNum
      BY DEF Inv, TypeOK, Tokens
    <3>2. /\ working' = working \cup {r} /\ UNCHANGED pipe
          /\ pipe[r] = "running"
      BY DEF StartNode
    <3>3. left'[r] < NodeNum /\ \A q \in Requests : q # r => left'[q] = left[q]
      BY <1>2, <2>1
    <3> QED BY <3>1, <3>2, <3>3
  <2> QED BY <2>2, <2>3 DEF Tokens
<1>7. Counted'
  <2>1. Cardinality(working') = Cardinality(working) + 1
    BY FiniteTasks, FS_AddElement DEF Inv, StartNode
  <2> QED BY <2>1, FiniteTasks DEF Inv, Counted, StartNode
<1> QED BY <1>4, <1>5, <1>6, <1>7 DEF Inv

LEMMA InvNodeNotifies ==
  ASSUME Inv, NEW r \in Requests, NodeNotifies(r)
  PROVE  Inv'
<1>1. left \in [Requests -> 0 .. NodeNum] /\ NodeNum \in Nat
  BY SessionAssumption DEF Inv, TypeOK, SessionAssumption
<1>2. r \in working /\ pipe[r] = "running" /\ left[r] + 1 \in 1 .. NodeNum
  BY <1>1 DEF Inv, Tokens, NodeNotifies
<1>3. <<r, left[r] + 1>> \notin leaving
  BY <1>1, <1>2 DEF Inv, Tokens
<1>4. left' \in [Requests -> 0 .. NodeNum] /\ \A q \in Requests : left'[q] <= left[q]
  <2>1. CASE left' = left
    BY <1>1, <2>1
  <2>2. CASE left' = [left EXCEPT ![r] = 0]
    BY <1>1, <2>2
  <2> QED BY <2>1, <2>2 DEF NodeNotifies
<1>5. TypeOK'
  <2>1. leaving' \subseteq Requests \X (1 .. NodeNum)
    <3>1. leaving \subseteq Requests \X (1 .. NodeNum)
      BY DEF Inv, TypeOK
    <3> QED BY <1>2, <3>1 DEF NodeNotifies
  <2> QED BY <1>4, <2>1 DEF Inv, TypeOK, NodeNotifies, appVars, pipeVars, flushVars
<1>6. Calls' /\ Busy' /\ Owing'
  BY DEF Inv, Calls, Busy, Owing, NodeNotifies, appVars, flushVars
<1>7. Tokens'
  <2>1. ASSUME NEW q \in Requests, NEW k \in 1 .. NodeNum, <<q, k>> \in leaving'
        PROVE  /\ k > left'[q]
               /\ q \in working' => k > left'[q] + 1
               /\ pipe'[q] \in {"running", "moving", "ended"}
    <3>1. CASE q = r /\ k = left[r] + 1
      BY <1>1, <1>2, <1>4, <3>1 DEF NodeNotifies
    <3>2. CASE <<q, k>> \in leaving
      <4>1. /\ k > left[q]
            /\ q \in working => k > left[q] + 1
            /\ pipe[q] \in {"running", "moving", "ended"}
        BY <3>2 DEF Inv, Tokens
      <4> QED BY <1>1, <1>4, <4>1 DEF NodeNotifies
    <3> QED BY <2>1, <3>1, <3>2 DEF NodeNotifies
  <2>2. \A q \in working' : pipe'[q] = "running" /\ left'[q] < NodeNum
    BY <1>1, <1>4 DEF Inv, TypeOK, Tokens, NodeNotifies
  <2> QED BY <2>1, <2>2 DEF Tokens
<1>8. Counted'
  <2>1. Cardinality(working') = Cardinality(working) - 1
    BY <1>2, FiniteTasks, FS_RemoveElement DEF Inv, NodeNotifies
  <2>2. Cardinality(leaving') = Cardinality(leaving) + 1
    BY <1>3, FiniteTasks, FS_AddElement DEF Inv, NodeNotifies
  <2> QED BY <2>1, <2>2, FiniteTasks DEF Inv, Counted, NodeNotifies
<1> QED BY <1>5, <1>6, <1>7, <1>8 DEF Inv

LEMMA InvNodeLeaves ==
  ASSUME Inv, NEW r \in Requests, NodeLeaves(r)
  PROVE  Inv'
<1>1. PICK k \in 1 .. NodeNum : <<r, k>> \in leaving /\ leaving' = leaving \ {<<r, k>>}
  BY DEF NodeLeaves
<1>2. /\ Cardinality(leaving') = Cardinality(leaving) - 1
      /\ Cardinality(leaving') \in Nat
  <2>1. IsFiniteSet(leaving')
    BY <1>1, FiniteTasks, FS_Subset DEF Inv
  <2> QED BY <1>1, <2>1, FiniteTasks, FS_RemoveElement, FS_CardinalityType DEF Inv
<1>3. Counted' /\ mNodeThreadNum' \in Nat
  <2>1. /\ mNodeThreadNum' = mNodeThreadNum - 1
        /\ working' = working
    BY DEF NodeLeaves
  <2>2. Cardinality(working) \in Nat /\ Cardinality(leaving) \in Nat
    BY FiniteTasks DEF Inv
  <2>3. mNodeThreadNum = Cardinality(working) + Cardinality(leaving)
    BY DEF Inv, Counted
  <2> QED BY <1>2, <2>1, <2>2, <2>3 DEF Counted
<1>4. TypeOK'
  <2>1. flushing' \in [Flushers -> FlushStages]
    BY DEF Inv, TypeOK, NodeLeaves
  <2> QED BY <1>1, <1>3, <2>1 DEF Inv, TypeOK, NodeLeaves, appVars, pipeVars
<1>5. Calls' /\ Busy'
  BY DEF Inv, Calls, Busy, NodeLeaves, appVars
<1>6. Owing'
  BY OwingSame DEF Inv, TypeOK, NodeLeaves
<1>7. Tokens'
  BY <1>1 DEF Inv, Tokens, NodeLeaves
<1> QED BY <1>3, <1>4, <1>5, <1>6, <1>7 DEF Inv

LEMMA InvNodeStarves ==
  ASSUME Inv, NEW r \in Requests, NodeStarves(r)
  PROVE  Inv'
<1>1. TypeOK'
  BY DEF Inv, TypeOK, NodeStarves, appVars, pipeVars, flushVars
<1>2. Calls'
  BY DEF Inv, Calls, NodeStarves, appVars
<1>3. Owing'
  BY OwingSame DEF NodeStarves, flushVars
<1> QED BY <1>1, <1>2, <1>3, SamePipelines DEF NodeStarves

LEMMA InvPipeline ==
  ASSUME Inv, NEW r \in Requests,
         postProcTask(r) \/ NodeStarves(r) \/ NodeNotifies(r) \/ NodeLeaves(r)
  PROVE  Inv'
BY InvRun, InvStartNode, InvRunEnds, InvMove, InvNodeStarves, InvNodeNotifies, InvNodeLeaves
   DEF postProcTask

\* What owed refers to are pipelines that exist.
LEMMA OpenExist == Open \subseteq {r \in Requests : pipe[r] # "none"}
BY DEF Open

LEMMA InvFlush ==
  ASSUME Inv, NEW f \in Flushers, Flush(f) \/ flush(f)
  PROVE  Inv'
<1>1. flushing \in [Flushers -> FlushStages] /\ owed \in [Flushers -> SUBSET Requests]
  BY DEF Inv, TypeOK
<1>2. CASE Flush(f)
  <2>1. flushing' \in [Flushers -> FlushStages] /\ owed' \in [Flushers -> SUBSET Requests]
    BY <1>1, <1>2, OpenExist DEF Flush, Goto
  <2>2. TypeOK'
    BY <1>2, <2>1 DEF Inv, TypeOK, Flush, appVars, pipeVars, nodeVars
  <2>3. Calls'
    BY <1>2 DEF Inv, Calls, Flush, appVars
  <2>4. Owing'
    BY <1>1, <1>2, OpenExist DEF Inv, Owing, Flush, Goto
  <2> QED BY <1>2, <2>2, <2>3, <2>4, SamePipelines DEF Flush, nodeVars
<1>3. CASE FlushLock(f)
  <2>1. flushing' \in [Flushers -> FlushStages]
    BY <1>1, <1>3 DEF FlushLock, Goto
  <2>2. TypeOK'
    BY <1>3, <2>1 DEF Inv, TypeOK, FlushLock, appVars, pipeVars, nodeVars
  <2>3. Calls'
    BY <1>3 DEF Inv, Calls, FlushLock, appVars
  <2>4. Owing'
    BY <1>1, <1>3, OwingSame DEF FlushLock, Goto
  <2> QED BY <1>3, <2>2, <2>3, <2>4, SamePipelines DEF FlushLock, nodeVars
<1>4. CASE FlushPipeline(f)
  <2>1. TypeOK'
    <3>1. PICK r \in toFlush : QuickFinishPipeline(r, FALSE) /\ toFlush' = toFlush \ {r}
      BY <1>4 DEF FlushPipeline
    <3>2. r \in Requests /\ toFlush' \in SUBSET Requests
      BY <3>1 DEF Inv, TypeOK
    <3>3. /\ mFlushStatus' \in [Requests -> {"NoFlush", "Expediting", "ForcedFlush"}]
          /\ closed' \subseteq Requests
          /\ inner' \in [Requests -> {"open", "starved", "released"}]
      BY <3>1, <3>2, QuickFinishTyped
    <3> QED BY <1>4, <3>2, <3>3 DEF Inv, TypeOK, FlushPipeline, appVars
  <2>2. Calls'
    BY <1>4 DEF Inv, Calls, FlushPipeline, appVars
  <2>3. Owing'
    BY <1>4, OwingSame DEF FlushPipeline
  <2> QED BY <1>4, <2>1, <2>2, <2>3, SamePipelines DEF FlushPipeline
<1>5. CASE FlushedAll(f)
  <2>1. flushing' \in [Flushers -> FlushStages]
    BY <1>1, <1>5 DEF FlushedAll, Goto
  <2>2. TypeOK'
    BY <1>5, <2>1 DEF Inv, TypeOK, FlushedAll, appVars, pipeVars, nodeVars
  <2>3. Calls'
    BY <1>5 DEF Inv, Calls, FlushedAll, appVars
  <2>4. Owing'
    BY <1>1, <1>5, OwingSame DEF FlushedAll, Goto
  <2> QED BY <1>5, <2>2, <2>3, <2>4, SamePipelines DEF FlushedAll, nodeVars
<1>6. CASE WaitBusy(f)
  <2>1. flushing' \in [Flushers -> FlushStages]
    BY <1>1, <1>6 DEF WaitBusy, Goto
  <2>2. TypeOK'
    BY <1>6, <2>1 DEF Inv, TypeOK, WaitBusy, appVars, pipeVars, nodeVars
  <2>3. Calls'
    BY <1>6 DEF Inv, Calls, WaitBusy, appVars
  <2>4. Owing'
    <3>1. CASE mBusyPipelines = {}
      <4>1. \A r \in Requests : pipe[r] \in {"none", "ended"}
        BY <3>1 DEF Inv, Busy
      <4>2. \A r \in owed[f] : pipe[r] = "ended"
        BY <1>1, <4>1 DEF Inv, Owing
      <4> QED BY <1>1, <1>6, <4>2 DEF Inv, Owing, WaitBusy, Goto
    <3>2. CASE mBusyPipelines # {}
      BY <1>1, <1>6, <3>2, OwingSame DEF WaitBusy, Goto
    <3> QED BY <3>1, <3>2
  <2> QED BY <1>6, <2>2, <2>3, <2>4, SamePipelines DEF WaitBusy, nodeVars
<1>7. CASE WaitNodes(f)
  <2>1. flushing' \in [Flushers -> FlushStages]
    BY <1>1, <1>7 DEF WaitNodes, Goto
  <2>2. mFlushLock' \in Flushers \cup {Free}
    BY <1>7 DEF Inv, TypeOK, WaitNodes
  <2>3. TypeOK'
    BY <1>7, <2>1, <2>2 DEF Inv, TypeOK, WaitNodes, appVars, pipeVars, nodeVars
  <2>4. Calls'
    BY <1>7 DEF Inv, Calls, WaitNodes, appVars
  <2>5. Owing'
    BY <1>1, <1>7, OwingSame DEF WaitNodes, Goto, At
  <2> QED BY <1>7, <2>3, <2>4, <2>5, SamePipelines DEF WaitNodes, nodeVars
<1> QED BY <1>2, <1>3, <1>4, <1>5, <1>6, <1>7 DEF flush

LEMMA InvQuickFinish ==
  ASSUME Inv, NEW q \in Requests, NEW needImageResult \in BOOLEAN,
         quickFinish(q, needImageResult)
  PROVE  Inv'
<1>1. PICK r \in Requests : QuickFinishPipeline(r, needImageResult)
  BY DEF quickFinish, Inv, TypeOK
<1>2. TypeOK'
  <2>1. /\ mFlushStatus' \in [Requests -> {"NoFlush", "Expediting", "ForcedFlush"}]
        /\ closed' \subseteq Requests
        /\ inner' \in [Requests -> {"open", "starved", "released"}]
    BY <1>1, QuickFinishTyped
  <2>2. quickCalls' \in 0 .. QuickCalls
    <3>1. quickCalls \in 0 .. QuickCalls /\ QuickCalls \in Nat
      BY SessionAssumption DEF Inv, TypeOK, SessionAssumption
    <3> QED BY <3>1 DEF quickFinish
  <2> QED BY <2>1, <2>2 DEF Inv, TypeOK, quickFinish, appVars, flushVars
<1>3. Calls'
  BY DEF Inv, Calls, quickFinish, appVars
<1>4. Owing'
  BY OwingSame DEF quickFinish, flushVars
<1>5. UNCHANGED <<pipe, left, working, leaving, mNodeThreadNum, mBusyPipelines>>
  BY DEF quickFinish
<1> QED BY <1>2, <1>3, <1>4, <1>5, SamePipelines

LEMMA InvStutter == ASSUME Inv, UNCHANGED vars PROVE Inv'
<1> USE DEF vars, appVars, pipeVars, nodeVars, flushVars
<1>1. TypeOK'
  BY DEF Inv, TypeOK
<1>2. Calls' /\ Busy' /\ Counted'
  BY DEF Inv, Calls, Busy, Counted
<1>3. Tokens'
  BY DEF Inv, Tokens
<1>4. Owing'
  BY DEF Inv, Owing
<1> QED BY <1>1, <1>2, <1>3, <1>4 DEF Inv

LEMMA InvNext == ASSUME Inv, [Next]_vars PROVE Inv'
BY InvPostProcess, InvPipeline, InvFlush, InvQuickFinish, InvStutter DEF Next

LEMMA InvAlways == Safe => []Inv
<1>1. Init => Inv
  BY InvInit
<1>2. Inv /\ [Next]_vars => Inv'
  BY InvNext
<1> QED BY <1>1, <1>2, PTL DEF Safe

\* The type invariant.
THEOREM TypeCorrect == Spec => []TypeOK
<1>1. Inv => TypeOK
  BY DEF Inv
<1> QED BY <1>1, InvAlways, PTL DEF Spec

\* mNodeThreadNum (increaseUsingThreadNum) is the number of node tasks that are at work
\* or on their way out, and only busy pipelines have a node at work.
THEOREM ThreadsAreCounted == Spec => []NodeThreadsCounted
<1>1. Inv => NodeThreadsCounted
  BY DEF Inv, TypeOK, Busy, Tokens, Counted, NodeThreadsCounted
<1> QED BY <1>1, InvAlways, PTL DEF Spec

-----------------------------------------------------------------------------
(* The session implements SessionCalls *)

\* The values that the mapping of OfflineSession gives to SessionCalls.
requestOf(r) == IF pipe[r] = "none" THEN "unknown" ELSE IF RequestOver(r) THEN "over" ELSE "open"
callOf(f) == CASE flushing[f] = "none" -> "none"
               [] flushing[f] = "returned" -> "returned"
               [] OTHER -> "called"

LEMMA PromiseInit == Init => Promise!Init
<1> SUFFICES ASSUME Init PROVE Promise!Init
  OBVIOUS
<1> QED BY DEF Init, Promise!Init

\* A step that leaves requests as open as they are and returns from no flush.
LEMMA Stutters ==
  ASSUME \A r \in Requests : requestOf(r)' = requestOf(r),
         \A f \in Flushers : callOf(f)' = callOf(f),
         UNCHANGED owed
  PROVE  UNCHANGED Promise!vars
BY DEF Promise!vars, requestOf, callOf

\* Steps that are no concern of the owner's.
LEMMA QuietSteps ==
  ASSUME UNCHANGED <<pipe, leaving, flushing, owed>>
  PROVE  UNCHANGED Promise!vars
BY Stutters DEF requestOf, callOf, RequestOver

\* Steps within a pipeline's run: it is open before and after.
LEMMA PipelineSteps ==
  ASSUME Inv, NEW r \in Requests,
         \/ StartPipeline /\ r = app.r
         \/ Run(r) \/ StartNode(r) \/ RunEnds(r) \/ NodeNotifies(r)
  PROVE  UNCHANGED Promise!vars
<1>1. pipe \in [Requests -> Stages]
  BY DEF Inv, TypeOK
<1>2. pipe[r] \notin {"none", "ended"} /\ pipe'[r] \notin {"none", "ended"}
  <2>1. CASE StartPipeline /\ r = app.r
    BY <1>1, <2>1 DEF Inv, Calls, StartPipeline
  <2>2. CASE Run(r) \/ StartNode(r) \/ RunEnds(r)
    BY <1>1, <2>2 DEF Run, EndRun, StartNode, RunEnds
  <2>3. CASE NodeNotifies(r)
    BY <1>1, <2>3 DEF Inv, Tokens, NodeNotifies
  <2> QED BY <2>1, <2>2, <2>3
<1>3. \A q \in Requests \ {r} :
        /\ pipe'[q] = pipe[q]
        /\ \A k \in 1 .. NodeNum : <<q, k>> \in leaving' <=> <<q, k>> \in leaving
  BY <1>1 DEF StartPipeline, Run, EndRun, StartNode, RunEnds, NodeNotifies, nodeVars
<1>4. UNCHANGED <<flushing, owed>>
  BY DEF StartPipeline, Run, StartNode, RunEnds, NodeNotifies, flushVars
<1>5. \A q \in Requests : requestOf(q)' = requestOf(q)
  BY <1>2, <1>3 DEF requestOf, RequestOver
<1> QED BY <1>4, <1>5, Stutters DEF callOf

\* The first frame of a request opens it.
LEMMA InsertAccepts ==
  ASSUME Inv, Insert, NEW r \in Requests, r = app.r
  PROVE  Promise!Accept(r)
<1>1. pipe \in [Requests -> Stages]
  BY DEF Inv, TypeOK
<1>2. pipe[r] = "none"
  BY DEF Inv, Calls, Insert
<1>3. UNCHANGED <<leaving, flushing, owed>>
  BY DEF Insert, nodeVars, flushVars
<1>4. requestOf(r) = "unknown" /\ requestOf(r)' = "open"
  BY <1>1, <1>2 DEF requestOf, RequestOver, Insert
<1>5. \A q \in Requests \ {r} : requestOf(q)' = requestOf(q)
  BY <1>1, <1>2, <1>3 DEF requestOf, RequestOver, Insert
<1>6. \A f \in Flushers : callOf(f)' = callOf(f)
  BY <1>3 DEF callOf
<1> QED BY <1>3, <1>4, <1>5, <1>6 DEF Promise!Accept, requestOf, callOf

\* A request ends with the pipeline's return to the session or with its last node task,
\* whichever comes later.
LEMMA LastStepEnds ==
  ASSUME Inv, NEW r \in Requests, moveToIdleQueue(r) \/ NodeLeaves(r)
  PROVE  Promise!End(r) \/ UNCHANGED Promise!vars
<1>1. /\ pipe \in [Requests -> Stages]
      /\ flushing \in [Flushers -> FlushStages]
  BY DEF Inv, TypeOK
<1>2. \A q \in Requests \ {r} :
        /\ pipe'[q] = pipe[q]
        /\ \A k \in 1 .. NodeNum : <<q, k>> \in leaving' <=> <<q, k>> \in leaving
  BY <1>1 DEF moveToIdleQueue, NodeLeaves, nodeVars
<1>3. \A q \in Requests \ {r} : requestOf(q)' = requestOf(q)
  BY <1>2 DEF requestOf, RequestOver
<1>4. pipe[r] # "none" /\ pipe'[r] # "none"
  BY <1>1 DEF Inv, Tokens, moveToIdleQueue, NodeLeaves
<1>5. requestOf(r) = "over" => requestOf(r)' = "over"
  <2>1. pipe[r] = "ended" => pipe'[r] = "ended"
    BY <1>1 DEF moveToIdleQueue, NodeLeaves
  <2>2. leaving' \subseteq leaving
    BY DEF moveToIdleQueue, NodeLeaves, nodeVars
  <2>3. RequestOver(r) => RequestOver(r)'
    BY <2>1, <2>2 DEF RequestOver
  <2> QED BY <1>4, <2>3 DEF requestOf
<1>6. requestOf(r) \in {"open", "over"} /\ requestOf(r)' \in {"open", "over"}
  BY <1>4 DEF requestOf
<1>7. \A f \in Flushers : callOf(f)' = callOf(f)
  <2>1. \A f \in Flushers : \/ flushing'[f] = flushing[f]
                            \/ flushing[f] = "busy asleep" /\ flushing'[f] = "busy"
                            \/ flushing[f] = "nodes asleep" /\ flushing'[f] = "nodes"
    <3>1. CASE moveToIdleQueue(r)
      BY <3>1 DEF moveToIdleQueue
    <3>2. CASE NodeLeaves(r)
      BY <3>2 DEF NodeLeaves
    <3> QED BY <3>1, <3>2
  <2> QED BY <2>1 DEF callOf
<1>8. UNCHANGED owed
  BY DEF moveToIdleQueue, NodeLeaves
<1>9. CASE requestOf(r)' = requestOf(r)
  BY <1>3, <1>7, <1>8, <1>9, Stutters
<1>10. CASE requestOf(r) = "open" /\ requestOf(r)' = "over"
  BY <1>3, <1>7, <1>8, <1>10 DEF Promise!End, requestOf, callOf
<1> QED BY <1>5, <1>6, <1>9, <1>10

\* A flush is called, and owes an end to the requests that are open ...
LEMMA FlushIsCall ==
  ASSUME Inv, NEW f \in Flushers, Flush(f)
  PROVE  Promise!Call(f)
<1>1. /\ flushing \in [Flushers -> FlushStages]
      /\ owed \in [Flushers -> SUBSET Requests]
  BY DEF Inv, TypeOK
<1>2. Open = {r \in Requests : requestOf(r) = "open"}
  BY DEF Open, requestOf
<1>3. \A r \in Requests : requestOf(r)' = requestOf(r)
  BY DEF requestOf, RequestOver, Flush, nodeVars
<1>4. /\ callOf(f) = "none" /\ callOf(f)' = "called"
      /\ \A g \in Flushers \ {f} : callOf(g)' = callOf(g)
  BY <1>1 DEF callOf, Flush, At, Goto
<1>5. owed' = [owed EXCEPT ![f] = {r \in Requests : requestOf(r) = "open"}]
  BY <1>2 DEF Flush
<1> QED BY <1>1, <1>3, <1>4, <1>5 DEF Promise!Call, Promise!Open, requestOf, callOf

\* ... and when it returns, all of these are over.
LEMMA WaitNodesReturns ==
  ASSUME Inv, NEW f \in Flushers, WaitNodes(f)
  PROVE  Promise!Return(f) \/ UNCHANGED Promise!vars
<1>1. /\ flushing \in [Flushers -> FlushStages]
      /\ owed \in [Flushers -> SUBSET Requests]
  BY DEF Inv, TypeOK
<1>2. UNCHANGED <<pipe, leaving, owed>> /\ flushing[f] = "nodes"
  BY DEF WaitNodes, nodeVars, At
<1>3. \A r \in Requests : requestOf(r)' = requestOf(r)
  BY <1>2 DEF requestOf, RequestOver
<1>4. \A g \in Flushers \ {f} : callOf(g)' = callOf(g)
  BY <1>1 DEF callOf, WaitNodes, Goto
<1>5. callOf(f) = "called"
  BY <1>2 DEF callOf
<1>6. CASE mNodeThreadNum = 0
  <2>1. leaving = {}
    <3>1. /\ Cardinality(working) \in Nat /\ Cardinality(leaving) \in Nat
          /\ IsFiniteSet(leaving)
      BY FiniteTasks DEF Inv
    <3>2. Cardinality(leaving) = 0
      BY <1>6, <3>1 DEF Inv, Counted
    <3> QED BY <3>1, <3>2, FS_EmptySet
  <2>2. \A r \in owed[f] : requestOf(r) = "over"
    BY <1>2, <2>1 DEF Inv, Owing, requestOf, RequestOver
  <2>3. callOf(f)' = "returned"
    BY <1>1, <1>6 DEF callOf, WaitNodes, Goto
  <2> QED BY <1>1, <1>2, <1>3, <1>4, <1>5, <2>2, <2>3 DEF Promise!Return, requestOf, callOf
<1>7. CASE mNodeThreadNum # 0
  <2>1. callOf(f)' = "called"
    BY <1>1, <1>7 DEF callOf, WaitNodes, Goto
  <2> QED BY <1>2, <1>3, <1>4, <1>5, <2>1, Stutters
<1> QED BY <1>6, <1>7

\* The steps of a flush on its way.
LEMMA FlushSteps ==
  ASSUME Inv, NEW f \in Flushers, FlushLock(f) \/ FlushedAll(f) \/ WaitBusy(f)
  PROVE  UNCHANGED Promise!vars
<1>1. flushing \in [Flushers -> FlushStages]
  BY DEF Inv, TypeOK
<1>2. UNCHANGED <<pipe, leaving, owed>>
  BY DEF FlushLock, FlushedAll, WaitBusy, nodeVars
<1>3. \A g \in Flushers : callOf(g)' = callOf(g)
  BY <1>1 DEF callOf, FlushLock, FlushedAll, WaitBusy, At, Goto
<1> QED BY <1>2, <1>3, Stutters DEF requestOf, RequestOver

LEMMA PromiseNext ==
  ASSUME Inv, [Next]_vars
  PROVE  [Promise!Next]_(Promise!vars)
<1>1. CASE UNCHANGED vars
  BY <1>1, QuietSteps DEF vars, nodeVars, flushVars
<1>2. ASSUME NEW r \in Requests, NewRequest(r) \/ NextFrame(r)
      PROVE  UNCHANGED Promise!vars
  BY <1>2, QuietSteps DEF NewRequest, NextFrame, nodeVars, flushVars
<1>3. CASE SetName \/ EnqueueImage
  BY <1>3, QuietSteps DEF SetName, EnqueueImage, nodeVars, flushVars
<1>4. CASE Insert
  <2>1. app.r \in Requests
    BY <1>4 DEF Inv, Calls, Insert
  <2>2. \A r \in Requests : r = app.r => Promise!Accept(r)
    BY <1>4, InsertAccepts
  <2>3. PICK r \in Requests : Promise!Accept(r)
    BY <2>1, <2>2
  <2> QED BY <2>3 DEF Promise!Next
<1>5. CASE StartPipeline
  <2>1. app.r \in Requests
    BY <1>5 DEF Inv, Calls, StartPipeline
  <2> QED BY <1>5, <2>1, PipelineSteps
<1>6. ASSUME NEW r \in Requests,
             postProcTask(r) \/ NodeStarves(r) \/ NodeNotifies(r) \/ NodeLeaves(r)
      PROVE  [Promise!Next]_(Promise!vars)
  <2>1. CASE NodeStarves(r)
    BY <2>1, QuietSteps DEF NodeStarves, flushVars
  <2> QED BY <1>6, <2>1, PipelineSteps, LastStepEnds DEF postProcTask, Promise!Next
<1>7. ASSUME NEW f \in Flushers, Flush(f) \/ flush(f)
      PROVE  [Promise!Next]_(Promise!vars)
  <2>1. CASE FlushPipeline(f)
    BY <2>1, QuietSteps DEF FlushPipeline
  <2> QED BY <1>7, <2>1, FlushIsCall, FlushSteps, WaitNodesReturns DEF flush, Promise!Next
<1>8. ASSUME NEW q \in Requests, NEW needImageResult \in BOOLEAN,
             quickFinish(q, needImageResult)
      PROVE  UNCHANGED Promise!vars
  BY <1>8, QuietSteps DEF quickFinish, flushVars
<1> QED BY <1>1, <1>2, <1>3, <1>4, <1>5, <1>6, <1>7, <1>8 DEF Next, postProcess

\* The session implements SessionCalls: MiaOfflineSession::flush does not return while a
\* request that was open at its call has a pipeline or a node thread.
THEOREM SessionKeepsPromise == Spec => KeepsPromise
<1>1. Init => Promise!Init
  BY PromiseInit
<1>2. Inv /\ [Next]_vars => [Promise!Next]_(Promise!vars)
  BY PromiseNext
<1> QED BY <1>1, <1>2, InvAlways, PTL DEF Spec, Safe, KeepsPromise, Promise!Spec
=============================================================================
