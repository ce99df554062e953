---------------------------- MODULE ParallelNode ----------------------------
(***************************************************************************)
(* A node with one pool task per request: ConcurrencyNode and VirtualNode  *)
(* of MiaNode.cpp.  enqueueTask queues the pipeline and puts processTask   *)
(* on the pool; whichever task runs first takes the head of the queue.  A  *)
(* ConcurrencyNode calls its plugin through the gate of PluginGate, a      *)
(* VirtualNode has no plugin.                                              *)
(***************************************************************************)
EXTENDS PluginGate, FiniteSets

CONSTANTS
  Pipelines,
  Priority,     \* getFIFOPriority of each pipeline
  Kinds,        \* kinds of node considered: "Concurrency", "Virtual"
  NoPipeline

ASSUME ParallelNodeAssumption ==
  /\ IsFiniteSet(Pipelines) /\ NoPipeline \notin Pipelines
  /\ Priority \in [Pipelines -> Int]
  /\ \A p, q \in Pipelines : p # q => Priority[p] # Priority[q]
  /\ Kinds \subseteq {"Concurrency", "Virtual"}

\* The processTask closures put on the pool, in the order of enqueueTask.
PoolTasks == 1 .. Cardinality(Pipelines)

VARIABLES
  kind,          \* what the factory made of the node, for good
  mRequestQueue, mNodeThreadNum,
  posted,        \* number of closures put on the pool so far
  task,          \* each closure: pc, its pipeline, process result
  called,        \* pipelines whose caller has been through enqueueTask
  mFlushStatus, notified

pipeVars == <<kind, called, mFlushStatus, notified>>
gateVars == <<mInPluginThreadNum, mQuickFinishMux>>
vars == <<mRequestQueue, mNodeThreadNum, posted, task, pipeVars, gateVars>>

TypeOK ==
  /\ kind \in Kinds
  /\ mRequestQueue \subseteq Pipelines /\ called \subseteq Pipelines
  /\ mNodeThreadNum \in PoolTasks \cup {0} /\ posted \in PoolTasks \cup {0}
  /\ task \in [PoolTasks -> [pc : {"new", "take", "work", "call", "plugin", "gate", "asleep",
                                   "notify", "leaving", "gone"},
                             p : Pipelines \cup {NoPipeline}, ok : BOOLEAN]]
  /\ mFlushStatus \in [Pipelines -> {"NoFlush", "ForcedFlush"}]
  /\ notified \in [Pipelines -> Nat]
  /\ mInPluginThreadNum \in PoolTasks \cup {0} /\ mQuickFinishMux = Free

Init ==
  /\ kind \in Kinds
  /\ mRequestQueue = {} /\ mNodeThreadNum = 0 /\ posted = 0 /\ called = {}
  /\ task = [i \in PoolTasks |-> [pc |-> "new", p |-> NoPipeline, ok |-> TRUE]]
  /\ mFlushStatus = [p \in Pipelines |-> "NoFlush"]
  /\ notified = [p \in Pipelines |-> 0]
  /\ mInPluginThreadNum = 0 /\ mQuickFinishMux = Free

UsesPlugin == kind = "Concurrency"

Top(queue) == CHOOSE p \in queue : \A q \in queue : Priority[q] <= Priority[p]

At(i, l) == task[i].pc = l
Goto(i, l) == task' = [task EXCEPT ![i].pc = l]

\* Under mProcessLock: queue, count the thread, put processTask on the pool.
enqueueTask(p) ==
  /\ p \notin called
  /\ called' = called \cup {p}
  /\ mRequestQueue' = mRequestQueue \cup {p}
  /\ mNodeThreadNum' = mNodeThreadNum + 1
  /\ posted' = posted + 1
  /\ task' = [task EXCEPT ![posted + 1].pc = "take"]
  /\ UNCHANGED <<kind, mFlushStatus, notified, gateVars>>

\* The pipeline is flushed at any time.
ForceFlush(p) ==
  /\ mFlushStatus[p] = "NoFlush"
  /\ mFlushStatus' = [mFlushStatus EXCEPT ![p] = "ForcedFlush"]
  /\ UNCHANGED <<mRequestQueue, mNodeThreadNum, posted, task, kind, called, notified, gateVars>>

\* Mutant: the request stays in the queue.
TakeWithoutPop(i) ==
  /\ At(i, "take")
  /\ IF mRequestQueue # {}
     THEN task' = [task EXCEPT ![i].pc = "work", ![i].p = Top(mRequestQueue)]
     ELSE Goto(i, IF UsesPlugin THEN "gone" ELSE "leaving")
  /\ UNCHANGED <<mRequestQueue, mNodeThreadNum, posted, pipeVars, gateVars>>

\* Under mProcessLock: take the head of the queue.  On an empty queue a
\* ConcurrencyNode returns at once, a VirtualNode gives the thread back.
Take(i) ==
  /\ At(i, "take")
  /\ IF mRequestQueue # {}
     THEN /\ task' = [task EXCEPT ![i].pc = "work", ![i].p = Top(mRequestQueue)]
          /\ mRequestQueue' = mRequestQueue \ {Top(mRequestQueue)}
     ELSE /\ Goto(i, IF UsesPlugin THEN "gone" ELSE "leaving")
          /\ UNCHANGED mRequestQueue
  /\ UNCHANGED <<mNodeThreadNum, posted, pipeVars, gateVars>>

\* Getting input or output fails, or the pipeline is being discarded; a
\* VirtualNode only looks for input.
RequestFails(i) ==
  /\ At(i, "work") \/ At(i, "call")
  /\ task' = [task EXCEPT ![i].pc = "notify", ![i].ok = FALSE]
  /\ UNCHANGED <<mRequestQueue, mNodeThreadNum, posted, pipeVars, gateVars>>

\* checkTaskEffectiveness: the pipeline is not being discarded so far.
TaskEffective(i) ==
  /\ At(i, "work") /\ UsesPlugin
  /\ mFlushStatus[task[i].p] = "NoFlush"
  /\ Goto(i, "call")
  /\ UNCHANGED <<mRequestQueue, mNodeThreadNum, posted, pipeVars, gateVars>>

CallPlugin(i) ==
  /\ At(i, "call")
  /\ CountIn
  /\ Goto(i, "plugin")
  /\ UNCHANGED <<mRequestQueue, mNodeThreadNum, posted, pipeVars, mQuickFinishMux>>

\* Mutant: a flushed request is left unanswered.
PassInputOnUnlessFlushed(i) ==
  /\ At(i, "work") /\ ~UsesPlugin
  /\ Goto(i, IF mFlushStatus[task[i].p] = "NoFlush" THEN "notify" ELSE "leaving")
  /\ UNCHANGED <<mRequestQueue, mNodeThreadNum, posted, pipeVars, gateVars>>

\* A VirtualNode passes its input on.
PassInputOn(i) ==
  /\ At(i, "work") /\ ~UsesPlugin
  /\ Goto(i, "notify")
  /\ UNCHANGED <<mRequestQueue, mNodeThreadNum, posted, pipeVars, gateVars>>

PluginReturns(i) ==
  /\ At(i, "plugin")
  /\ \E ok \in BOOLEAN : task' = [task EXCEPT ![i].pc = "gate", ![i].ok = ok]
  /\ UNCHANGED <<mRequestQueue, mNodeThreadNum, posted, pipeVars, gateVars>>

PassGate(i) ==
  /\ At(i, "gate")
  /\ EvaluateGate
  /\ Goto(i, IF GateOpen(mInPluginThreadNum) THEN "notify" ELSE "asleep")
  /\ UNCHANGED <<mRequestQueue, mNodeThreadNum, posted, pipeVars, mQuickFinishMux>>

\* Waiting on mQuickFinishCond may end for no reason; nobody notifies it here,
\* since quickFinish leaves nodes in CONCURRENCY_MODE alone.
SpuriousWakeup(i) ==
  /\ At(i, "asleep")
  /\ Goto(i, "gate")
  /\ UNCHANGED <<mRequestQueue, mNodeThreadNum, posted, pipeVars, gateVars>>

notifyNextNode(i) ==
  /\ At(i, "notify")
  /\ notified' = [notified EXCEPT ![task[i].p] = @ + 1]
  /\ Goto(i, "leaving")
  /\ UNCHANGED <<mRequestQueue, mNodeThreadNum, posted, kind, called, mFlushStatus, gateVars>>

ThreadGone(i) ==
  /\ At(i, "leaving")
  /\ mNodeThreadNum' = mNodeThreadNum - 1
  /\ Goto(i, "gone")
  /\ UNCHANGED <<mRequestQueue, posted, pipeVars, gateVars>>

processTask(i) ==
  \/ Take(i) \/ RequestFails(i) \/ TaskEffective(i) \/ CallPlugin(i) \/ PassInputOn(i) \/ PluginReturns(i)
  \/ PassGate(i) \/ notifyNextNode(i) \/ ThreadGone(i)

Next ==
  \/ \E p \in Pipelines : enqueueTask(p) \/ ForceFlush(p)
  \/ \E i \in PoolTasks : processTask(i) \/ SpuriousWakeup(i)

Safe == Init /\ [][Next]_vars

\* The pool runs every task it was given.
Spec == Safe /\ \A i \in PoolTasks : WF_vars(processTask(i))

-----------------------------------------------------------------------------
(* Properties *)

Holding == {i \in PoolTasks : task[i].pc \in {"work", "call", "plugin", "gate", "asleep", "notify"}}

\* Although a task takes whatever request is at the head and not the one it was
\* posted for, tasks and requests come out even: every closure finds a request
\* (the "unknow error" branch is never taken), no two tasks have the same one,
\* and a request leaves the node exactly once.
TasksMatchRequests ==
  /\ Cardinality({i \in PoolTasks : At(i, "take")}) = Cardinality(mRequestQueue)
  /\ \A i, j \in Holding : task[i].p = task[j].p => i = j
  /\ \A p \in called : notified[p] =
       IF p \in mRequestQueue \/ \E i \in Holding : task[i].p = p THEN 0 ELSE 1

\* A node "for parallel processing": every request put to it is answered, those
\* that overlap in the plugin too.
RequestsAnswered == \A p \in Pipelines : p \in called ~> notified[p] = 1

\* Without a plugin every request is answered, flushed or not.
VirtualRequestsAnswered == ~UsesPlugin => RequestsAnswered
=============================================================================
