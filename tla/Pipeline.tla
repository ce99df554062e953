------------------------------ MODULE Pipeline ------------------------------
(***************************************************************************)
(* One request's run through its pruned graph of nodes: Pipeline           *)
(* (MiaPipeline.cpp) with the part of the nodes' processTask (MiaNode.cpp) *)
(* that works on this pipeline.                                            *)
(*                                                                         *)
(* The actors are the application, which delivers the source images of     *)
(* each port one by one; postProcTask, which starts nodes from the run     *)
(* sequence and waits for them; a thread for every node that was started;  *)
(* and callers of quickFinish.  How a node's thread comes about is left to *)
(* SerialNode and ParallelNode: here it runs once the node is enqueued.  A *)
(* step is a critical section, or code that only its actor can see.        *)
(* mSinkNumToReturn, which only decides with which sink image the exif     *)
(* results are sent, is left out.                                          *)
(***************************************************************************)
EXTENDS Integers, FiniteSets, Sequences, SequencesExt

CONSTANTS
  Nodes,
  links,        \* mPipelineInfo.links: <<[type, src, dst, num], ...>>, where a
                \* source link's src is its port, and num is the number of
                \* images it carries for the request (getMergeInputNumber)
  nodeMask,     \* [Nodes -> SUBSET Modes]
  Ports,        \* source ports of the session, pruned ones too
  FrameNum,     \* frames the application delivers to each port
  Missing,      \* nodes that getProcessNode does not find
  Failing,      \* nodes whose output or plugin may fail
  Releasing,    \* nodes whose plugin hands buffers back while it runs
  RebuildMayFail,
  QuickCalls,   \* number of quickFinish calls
  QuickKinds,   \* values of needImageResult in them
  NoNode

Modes == {"SIGFRAME", "SIGGETOUTPUT", "SIGRELEASEINPUT", "SIGRELEASEOUTPUT", "INPLACE", "VIRTUAL"}

LinkIds == DOMAIN links
Type(l) == links[l].type
InLinks == [n \in Nodes |-> {l \in LinkIds : Type(l) # "SinkLink" /\ links[l].dst = n}]
OutLinks == [n \in Nodes |-> {l \in LinkIds : Type(l) # "SourceLink" /\ links[l].src = n}]
SinkLinks == {l \in LinkIds : Type(l) = "SinkLink"}
SourceLinks == {l \in LinkIds : Type(l) = "SourceLink"}

Has(n, mode) == mode \in nodeMask[n]
MergeNum(n) == links[Min(InLinks[n])].num

isInplaceNode(n) ==
  Has(n, "INPLACE") /\ \E l \in LinkIds : OutLinks[n] = {l} /\ Type(l) # "SinkLink"

\* The node's output are its input images, not new ones.
PassesOn(n) == isInplaceNode(n) \/ Has(n, "VIRTUAL")

SourceImages == {<<"source", p, k>> : p \in Ports, k \in 1 .. FrameNum}
MadeImages == UNION {{<<Type(l), l, k>> : k \in 1 .. links[l].num} : l \in LinkIds \ SourceLinks}
Images == SourceImages \cup MadeImages
SinkImages == {i \in MadeImages : i[1] = "SinkLink"}

ASSUME PipelineAssumption ==
  /\ IsFiniteSet(Nodes) /\ NoNode \notin Nodes /\ nodeMask \in [Nodes -> SUBSET Modes]
  /\ Len(links) \in Nat /\ LinkIds = 1 .. Len(links)
  /\ \A l \in LinkIds : /\ Type(l) # "SourceLink" => links[l].src \in Nodes
                        /\ Type(l) # "SinkLink" => links[l].dst \in Nodes
  /\ \A n \in Nodes : InLinks[n] # {} /\ OutLinks[n] # {}
  /\ \A l \in SourceLinks : links[l].src \in Ports /\ links[l].num = FrameNum
  /\ \A l \in LinkIds : Type(l) \in {"SourceLink", "InternalLink", "SinkLink"} /\ links[l].num \in Nat
  /\ \A k, l \in SourceLinks : links[k].src = links[l].src /\ links[k].dst = links[l].dst => k = l
  /\ IsFiniteSet(Ports) /\ FrameNum \in Nat \ {0} /\ QuickCalls \in Nat /\ QuickKinds \subseteq BOOLEAN
  /\ Missing \subseteq Nodes /\ Failing \subseteq Nodes /\ Releasing \subseteq Nodes

VARIABLES
  toCome,           \* frames of each port that are still to be delivered
  sourceQ,          \* mSourceBufferQueueMap
  closed,           \* source ports whose queue was released
  inQ, usingQ, outQ,  \* mBuffers: inputBuffers and usingInputBuffers of a
                      \* link's dst node, outputBuffers of its src node
  inClosed,         \* links whose inputBuffers queue was released
  useCount, returned,   \* mUseCount; images handed back to the application
  mRunSequence, mDependenceNum, mRunningNodeNum, mHasProcessError,
  mCurrentProcessNodes,
  main,             \* postProcTask: pc, node, result, ports left to release
  node,             \* each node's thread: pc, frames, links left, link
  abnormalCalls,    \* abnormal callbacks, guarded by mIsCallExternal
  mFlushStatus, quick, quickCalls

sourceVars == <<toCome, sourceQ, closed>>
bufferVars == <<inQ, usingQ, outQ, inClosed>>
imageVars == <<useCount, returned>>
runVars == <<mRunSequence, mDependenceNum, mRunningNodeNum, mHasProcessError>>
flushVars == <<mFlushStatus, quick, quickCalls>>
vars == <<sourceVars, bufferVars, imageVars, runVars, flushVars,
          mCurrentProcessNodes, main, node, abnormalCalls>>

NodePcs == {"idle", "input", "check", "plugin", "release in", "depend in", "release out",
            "depend out", "notify", "release all", "links", "depend", "callback",
            "error links", "done"}
MainPcs == {"start", "prepare", "loop", "post", "count", "wait", "asleep", "release ports",
            "release rest", "finished"}

TypeOK ==
  /\ toCome \in [Ports -> 0 .. FrameNum] /\ closed \subseteq Ports /\ inClosed \subseteq LinkIds
  /\ sourceQ \in [Ports -> Seq(SourceImages)]
  /\ inQ \in [LinkIds -> Seq(Images)] /\ usingQ \in [LinkIds -> Seq(Images)]
  /\ outQ \in [LinkIds -> Seq(MadeImages)]
  /\ useCount \in [Images -> Nat] /\ returned \subseteq SourceImages \cup SinkImages
  /\ mRunSequence \in Seq(Nodes) /\ mDependenceNum \in [Nodes -> Int]
  /\ mRunningNodeNum \in Int /\ mHasProcessError \in BOOLEAN
  /\ mCurrentProcessNodes \subseteq Nodes
  /\ main \in [pc : MainPcs, node : Nodes \cup {NoNode}, ok : BOOLEAN, ports : SUBSET Ports]
  /\ node \in [Nodes -> [pc : NodePcs, frames : Nat, got : BOOLEAN, ok : BOOLEAN,
                         left : SUBSET LinkIds, link : LinkIds \cup {0}]]
  /\ abnormalCalls \in Nat
  /\ mFlushStatus \in {"NoFlush", "Expediting", "ForcedFlush"}
  /\ quick \in {"none", "ports", "nodes"} /\ quickCalls \in 0 .. QuickCalls

Init ==
  /\ toCome = [p \in Ports |-> FrameNum]
  /\ sourceQ = [p \in Ports |-> <<>>] /\ closed = {}
  /\ inQ = [l \in LinkIds |-> <<>>] /\ usingQ = inQ /\ outQ = inQ /\ inClosed = {}
  /\ useCount = [i \in Images |-> 0] /\ returned = {}
  /\ mRunSequence = <<>> /\ mDependenceNum = [n \in Nodes |-> 0]
  /\ mRunningNodeNum = 0 /\ mHasProcessError = FALSE
  /\ mCurrentProcessNodes = {}
  /\ main = [pc |-> "start", node |-> NoNode, ok |-> TRUE, ports |-> Ports]
  /\ node = [n \in Nodes |-> [pc |-> "idle", frames |-> 0, got |-> FALSE, ok |-> TRUE,
                              left |-> {}, link |-> 0]]
  /\ abnormalCalls = 0
  /\ mFlushStatus = "NoFlush" /\ quick = "none" /\ quickCalls = 0

-----------------------------------------------------------------------------
(* Helpers *)

\* How often an image occurs in a queue.
Refs(i, q) == Cardinality({k \in DOMAIN q : q[k] = i})

\* Mutant: only one of several references in q is thought of.
ReleaseBuffersSingly(q) ==
  /\ useCount' = [i \in Images |-> useCount[i] - Refs(i, q)]
  /\ returned' = returned \cup {i \in SourceImages \cup SinkImages :
                                  Refs(i, q) > 0 /\ useCount[i] = 1}

\* The session's releaseBuffer of every image of q: the last user of a source or
\* sink image hands it back to the application.
ReleaseBuffers(q) ==
  /\ useCount' = [i \in Images |-> useCount[i] - Refs(i, q)]
  /\ returned' = returned \cup {i \in SourceImages \cup SinkImages :
                                  Refs(i, q) > 0 /\ useCount[i] = Refs(i, q)}

\* Mutant: the children share one use.
MoveToChildrenUncounted(n, q) ==
  /\ inQ' = [l \in LinkIds |-> IF l \in OutLinks[n] \ inClosed THEN inQ[l] \o q ELSE inQ[l]]
  /\ UNCHANGED imageVars

\* An in-place or virtual node moves the images of q on to the queues of its
\* children; a released queue refuses them, though they have been counted.
MoveToChildren(n, q) ==
  /\ inQ' = [l \in LinkIds |-> IF l \in OutLinks[n] \ inClosed THEN inQ[l] \o q ELSE inQ[l]]
  /\ useCount' = [i \in Images |-> useCount[i] + (Cardinality(OutLinks[n]) - 1) * Refs(i, q)]
  /\ UNCHANGED returned

\* releaseOutBuffers: the first n images of an internal link, or what there is of
\* them, go to the child's input; those of a sink link go to the application,
\* always all of them.
releaseOutBuffers(l, n) ==
  LET k == Min({n, Len(outQ[l])})
  IN IF Type(l) = "SinkLink"
     THEN /\ ReleaseBuffers(outQ[l])
          /\ outQ' = [outQ EXCEPT ![l] = <<>>]
          /\ UNCHANGED inQ
     ELSE /\ outQ' = [outQ EXCEPT ![l] = SubSeq(@, k + 1, Len(@))]
          /\ inQ' = IF l \in inClosed THEN inQ ELSE [inQ EXCEPT ![l] = @ \o SubSeq(outQ[l], 1, k)]
          /\ UNCHANGED imageVars

\* With mLock held: for each link of L the child has one dependence less; a child
\* that has none left is put into the run sequence, unless a node has failed.
Depend(L) ==
  LET Count(n) == Cardinality({l \in L : links[l].dst = n})
      Ready == {n \in Nodes : Count(n) > 0 /\ mDependenceNum[n] \in 1 .. Count(n)}
  IN IF mHasProcessError
     THEN UNCHANGED <<mDependenceNum, mRunSequence>>
     ELSE /\ mDependenceNum' = [n \in Nodes |-> mDependenceNum[n] - Count(n)]
          /\ mRunSequence' = mRunSequence \o SetToSeq(Ready)

\* Mutant: nobody tells postProcTask.
NotifyNobody == UNCHANGED main

NotifyMain == main' = IF main.pc = "asleep" THEN [main EXCEPT !.pc = "wait"] ELSE main

At(n, l) == node[n].pc = l
Goto(n, l) == node' = [node EXCEPT ![n].pc = l]
MainGoto(l) == main' = [main EXCEPT !.pc = l]

-----------------------------------------------------------------------------
(* The application: enqueueSourceImage.  A released queue refuses the image,  *)
(* and the session gives it back at once.                                     *)

Deliver(p) ==
  LET image == <<"source", p, FrameNum - toCome[p] + 1>>
  IN /\ toCome[p] > 0
     /\ toCome' = [toCome EXCEPT ![p] = @ - 1]
     /\ IF p \in closed
        THEN /\ returned' = returned \cup {image}
             /\ UNCHANGED <<sourceQ, useCount>>
        ELSE /\ sourceQ' = [sourceQ EXCEPT ![p] = Append(@, image)]
             /\ useCount' = [useCount EXCEPT ![image] = 1]
             /\ UNCHANGED returned
     /\ UNCHANGED <<closed, bufferVars, runVars, flushVars,
                    mCurrentProcessNodes, main, node, abnormalCalls>>

-----------------------------------------------------------------------------
(* postProcTask *)

\* A request that was flushed before it began is only cleaned up; if the graph
\* cannot be pruned the application is told.
Start ==
  /\ main.pc = "start"
  /\ \/ /\ mFlushStatus = "ForcedFlush"
        /\ MainGoto("release ports")
        /\ UNCHANGED abnormalCalls
     \/ /\ mFlushStatus # "ForcedFlush" /\ RebuildMayFail
        /\ abnormalCalls' = abnormalCalls + 1
        /\ MainGoto("release ports")
     \/ /\ mFlushStatus # "ForcedFlush"
        /\ MainGoto("prepare")
        /\ UNCHANGED abnormalCalls
  /\ UNCHANGED <<sourceVars, bufferVars, imageVars, runVars,
                 flushVars, mCurrentProcessNodes, node>>

TopologyError == \E n \in Nodes : Has(n, "SIGFRAME") /\ Cardinality(InLinks[n]) > 1

\* Count the internal links into each node; nodes that have none, and a source
\* link, make up the first run sequence.
Prepare ==
  LET Dependence(n) == Cardinality(InLinks[n] \ SourceLinks)
      Performable == {n \in Nodes : Dependence(n) = 0}
  IN /\ main.pc = "prepare"
     /\ mDependenceNum' = [n \in Nodes |-> Dependence(n)]
     /\ IF TopologyError
        THEN MainGoto("release ports") /\ UNCHANGED mRunSequence
        ELSE MainGoto("loop") /\ mRunSequence' = SetToSeq(Performable)
     /\ UNCHANGED <<sourceVars, bufferVars, imageVars, mRunningNodeNum, mHasProcessError,
                    flushVars, mCurrentProcessNodes, node, abnormalCalls>>

\* The head of the run sequence is recorded as being processed.
Take ==
  /\ main.pc = "loop"
  /\ IF mRunSequence = <<>>
     THEN /\ MainGoto("release ports")
          /\ UNCHANGED <<mRunSequence, mCurrentProcessNodes>>
     ELSE /\ main' = [main EXCEPT !.pc = "post", !.node = Head(mRunSequence)]
          /\ mCurrentProcessNodes' = mCurrentProcessNodes \cup {Head(mRunSequence)}
          /\ mRunSequence' = Tail(mRunSequence)
  /\ UNCHANGED <<sourceVars, bufferVars, imageVars, mDependenceNum, mRunningNodeNum,
                 mHasProcessError, flushVars, node, abnormalCalls>>

\* postProcess: enqueueTask on the node, if there is one.
Post ==
  /\ main.pc = "post"
  /\ main' = [main EXCEPT !.pc = "count", !.ok = main.node \notin Missing]
  /\ IF main.node \in Missing THEN UNCHANGED node ELSE Goto(main.node, "input")
  /\ UNCHANGED <<sourceVars, bufferVars, imageVars, runVars, flushVars,
                 mCurrentProcessNodes, abnormalCalls>>

\* The node is counted only now: it may have ended already.
CountRunning ==
  /\ main.pc = "count"
  /\ mRunningNodeNum' = IF main.ok THEN mRunningNodeNum + 1 ELSE mRunningNodeNum
  /\ MainGoto(IF mRunSequence = <<>> THEN "wait" ELSE "loop")
  /\ UNCHANGED <<sourceVars, bufferVars, imageVars, mRunSequence, mDependenceNum,
                 mHasProcessError, flushVars, mCurrentProcessNodes, node, abnormalCalls>>

\* Mutant: the last node is not waited for.
SomethingOrOneToDo == mRunSequence # <<>> \/ mRunningNodeNum <= 1

\* The predicate of the wait on mCond.
SomethingToDo == mRunSequence # <<>> \/ mRunningNodeNum = 0

WaitForNodes ==
  /\ main.pc = "wait"
  /\ MainGoto(IF SomethingToDo THEN "loop" ELSE "asleep")
  /\ UNCHANGED <<sourceVars, bufferVars, imageVars, runVars, flushVars,
                 mCurrentProcessNodes, node, abnormalCalls>>

\* releaseUnusedBuffer: each source queue is closed and emptied ...
ReleasePort ==
  /\ main.pc = "release ports"
  /\ IF main.ports = {}
     THEN MainGoto("release rest") /\ UNCHANGED <<sourceQ, closed, imageVars>>
     ELSE \E p \in main.ports :
            /\ closed' = closed \cup {p}
            /\ ReleaseBuffers(sourceQ[p])
            /\ sourceQ' = [sourceQ EXCEPT ![p] = <<>>]
            /\ main' = [main EXCEPT !.ports = @ \ {p}]
  /\ UNCHANGED <<toCome, bufferVars, runVars, flushVars,
                 mCurrentProcessNodes, node, abnormalCalls>>

\* The images of some links' queues, one after the other.
Joined(Q, L) == FlattenSeq([l \in LinkIds |-> IF l \in L THEN Q[l] ELSE <<>>])

\* ... then the nodes' queues are emptied, and the session is told.
ReleaseRest ==
  /\ main.pc = "release rest"
  /\ ReleaseBuffers(Joined(inQ, LinkIds) \o Joined(usingQ, LinkIds) \o Joined(outQ, LinkIds))
  /\ inQ' = [l \in LinkIds |-> <<>>] /\ usingQ' = inQ' /\ outQ' = inQ'
  /\ MainGoto("finished")
  /\ UNCHANGED <<sourceVars, inClosed, runVars, flushVars,
                 mCurrentProcessNodes, node, abnormalCalls>>

postProcTask ==
  Start \/ Prepare \/ Take \/ Post \/ CountRunning \/ WaitForNodes \/ ReleasePort \/ ReleaseRest

-----------------------------------------------------------------------------
(* processTask of node n, as far as it works on this pipeline *)

\* getInputImage.  A frame-by-frame node takes one image, and waits for it until
\* the queue is released.  Another node takes all: it waits for the full number
\* of source images, but takes from inner links just what is there.
Source(l) == sourceQ[links[l].src]
Closed(l) == IF Type(l) = "SourceLink" THEN links[l].src \in closed ELSE l \in inClosed
InputQueue(l) == IF Type(l) = "SourceLink" THEN Source(l) ELSE inQ[l]

\* How many images node n takes from link l now.
Wanted(n, l) ==
  IF Has(n, "SIGFRAME") THEN 1
  ELSE IF Type(l) = "SourceLink" THEN FrameNum ELSE Len(inQ[l])

\* Mutant: tryPop instead of waitAndPop.
InputNotAwaited(n) == TRUE

InputComplete(n) == \A l \in InLinks[n] : Len(InputQueue(l)) >= Wanted(n, l)
InputRefused(n) == \E l \in InLinks[n] : Len(InputQueue(l)) < Wanted(n, l) /\ Closed(l)

TakeInput(n) ==
  LET Taken(l) == SubSeq(InputQueue(l), 1, Min({Wanted(n, l), Len(InputQueue(l))}))
      Rest(q, l) == SubSeq(q, Len(Taken(l)) + 1, Len(q))
      From(p) == CHOOSE l \in InLinks[n] \cap SourceLinks : links[l].src = p
  IN /\ usingQ' = [l \in LinkIds |-> IF l \in InLinks[n] THEN usingQ[l] \o Taken(l) ELSE usingQ[l]]
     /\ inQ' = [l \in LinkIds |->
                  IF l \in InLinks[n] \ SourceLinks THEN Rest(inQ[l], l) ELSE inQ[l]]
     /\ sourceQ' = [p \in Ports |->
                      IF p \in {links[l].src : l \in InLinks[n] \cap SourceLinks}
                      THEN Rest(sourceQ[p], From(p)) ELSE sourceQ[p]]

\* A virtual node has no plugin: it goes on with whatever input it got, frame by
\* frame only up to a frame that it cannot get.
AfterInput(n, got) ==
  LET frames == node[n].frames + 1
      l == IF ~Has(n, "VIRTUAL") THEN "check"
           ELSE IF ~Has(n, "SIGFRAME") \/ ~got \/ frames = MergeNum(n) THEN "notify"
           ELSE "release in"
  IN node' = [node EXCEPT ![n].pc = l, ![n].got = got,
                          ![n].ok = Has(n, "VIRTUAL") /\ Has(n, "SIGFRAME") => got,
                          ![n].frames = IF Has(n, "VIRTUAL") THEN frames ELSE @]

GetInput(n) ==
  /\ At(n, "input")
  /\ TakeInput(n)
  /\ \/ InputComplete(n) /\ AfterInput(n, TRUE)
     \/ InputRefused(n) /\ AfterInput(n, FALSE)
  /\ UNCHANGED <<toCome, closed, outQ, inClosed, imageVars, runVars, flushVars,
                 mCurrentProcessNodes, main, abnormalCalls>>

\* The request ends at this node, with or without an error.
EndRequest(n, ok) == node' = [node EXCEPT ![n].pc = "notify", ![n].ok = ok]

\* checkTaskEffectiveness: the pipeline is flushed, or there was no input.  A
\* frame-by-frame node of an expediting pipeline makes do with the frames that
\* its plugin has.
NotEffective(n) ==
  /\ At(n, "check")
  /\ \/ mFlushStatus = "ForcedFlush" /\ EndRequest(n, FALSE)
     \/ /\ mFlushStatus # "ForcedFlush" /\ ~node[n].got
        /\ EndRequest(n, Has(n, "SIGFRAME") /\ mFlushStatus = "Expediting" /\ node[n].frames > 0)
  /\ UNCHANGED <<sourceVars, bufferVars, imageVars, runVars, flushVars,
                 mCurrentProcessNodes, main, abnormalCalls>>

\* getOutputImage: new images for every outgoing link, one for each frame or all
\* of them at the first.
NeedsOutput(n) ==
  ~isInplaceNode(n) /\ (Has(n, "SIGFRAME") => Has(n, "SIGGETOUTPUT") \/ node[n].frames = 0)

NewOutput(n, l) ==
  LET first == IF Has(n, "SIGGETOUTPUT") THEN node[n].frames + 1 ELSE 1
      last  == IF Has(n, "SIGGETOUTPUT") THEN first ELSE links[l].num
  IN [k \in 1 .. last - first + 1 |-> <<Type(l), l, first + k - 1>>]

GetOutput(n) ==
  /\ At(n, "check") /\ node[n].got /\ mFlushStatus # "ForcedFlush"
  /\ IF NeedsOutput(n)
     THEN /\ outQ' = [l \in LinkIds |->
                        IF l \in OutLinks[n] THEN outQ[l] \o NewOutput(n, l) ELSE outQ[l]]
          /\ useCount' = [i \in Images |->
                            IF \E l \in OutLinks[n] : Refs(i, NewOutput(n, l)) > 0
                            THEN 1 ELSE useCount[i]]
     ELSE UNCHANGED <<outQ, useCount>>
  /\ node' = [node EXCEPT ![n].pc = "plugin", ![n].frames = @ + 1]
  /\ UNCHANGED <<sourceVars, inQ, usingQ, inClosed, returned, runVars, flushVars,
                 mCurrentProcessNodes, main, abnormalCalls>>

\* acquireOutputBuffer returned no image.
NoOutput(n) ==
  /\ At(n, "check") /\ node[n].got /\ mFlushStatus # "ForcedFlush"
  /\ n \in Failing /\ NeedsOutput(n)
  /\ EndRequest(n, FALSE)
  /\ UNCHANGED <<sourceVars, bufferVars, imageVars, runVars, flushVars,
                 mCurrentProcessNodes, main, abnormalCalls>>

PluginFails(n) ==
  /\ At(n, "plugin") /\ n \in Failing
  /\ EndRequest(n, FALSE)
  /\ UNCHANGED <<sourceVars, bufferVars, imageVars, runVars, flushVars,
                 mCurrentProcessNodes, main, abnormalCalls>>

PluginReturns(n) ==
  /\ At(n, "plugin")
  /\ IF Has(n, "SIGFRAME") /\ node[n].frames # MergeNum(n)
     THEN Goto(n, "release in")
     ELSE EndRequest(n, TRUE)
  /\ UNCHANGED <<sourceVars, bufferVars, imageVars, runVars, flushVars,
                 mCurrentProcessNodes, main, abnormalCalls>>

\* pluginReleaseUnneedBuffer, called by the plugin: an input image it needs no
\* more is released ...
PluginReleasesInput(n) ==
  /\ At(n, "plugin") /\ n \in Releasing
  /\ \E l \in InLinks[n] :
       /\ usingQ[l] # <<>>
       /\ ReleaseBuffers(<<Head(usingQ[l])>>)
       /\ usingQ' = [usingQ EXCEPT ![l] = Tail(@)]
  /\ UNCHANGED <<sourceVars, inQ, outQ, inClosed, runVars, flushVars,
                 mCurrentProcessNodes, main, node, abnormalCalls>>

\* ... or an output image is ready: it goes to the child's input, or to the sink.
PluginReleasesOutput(n) ==
  /\ At(n, "plugin") /\ n \in Releasing
  /\ \E l \in OutLinks[n] : outQ[l] # <<>> /\ releaseOutBuffers(l, 1)
  /\ UNCHANGED <<sourceVars, usingQ, inClosed, runVars, flushVars,
                 mCurrentProcessNodes, main, node, abnormalCalls>>

-----------------------------------------------------------------------------
(* Between two frames: releaseInputAndTryNotifyNextNode and then              *)
(* releaseOutputAndTryNotifyNextNode, as the node's mask says                 *)

\* releaseInputBuffers: the node is through with these images of usingQ.
ReleaseInput(n, q) == IF PassesOn(n) THEN MoveToChildren(n, q) ELSE ReleaseBuffers(q) /\ UNCHANGED inQ

ReleaseOneInput(n) ==
  LET l == Min(InLinks[n])  \* a frame-by-frame node has no other
  IN /\ At(n, "release in")
     /\ IF Has(n, "SIGRELEASEINPUT") /\ usingQ[l] # <<>>
        THEN /\ ReleaseInput(n, <<Head(usingQ[l])>>)
             /\ usingQ' = [usingQ EXCEPT ![l] = Tail(@)]
        ELSE UNCHANGED <<inQ, usingQ, imageVars>>
     /\ Goto(n, IF Has(n, "SIGRELEASEINPUT") /\ PassesOn(n) THEN "depend in" ELSE "release out")
     /\ UNCHANGED <<sourceVars, outQ, inClosed, runVars, flushVars,
                    mCurrentProcessNodes, main, abnormalCalls>>

\* Frame-by-frame children of a node may start with its first frame.
StreamedLinks(n) == {l \in OutLinks[n] \ SinkLinks : Has(links[l].dst, "SIGFRAME")}

StartChildren(n, L, pc) ==
  /\ Depend(L)
  /\ IF mRunSequence' # mRunSequence THEN NotifyMain ELSE UNCHANGED main
  /\ Goto(n, pc)
  /\ UNCHANGED <<sourceVars, bufferVars, imageVars, mRunningNodeNum, mHasProcessError,
                 flushVars, mCurrentProcessNodes, abnormalCalls>>

DependInput(n) == At(n, "depend in") /\ StartChildren(n, StreamedLinks(n), "release out")

\* Only the first outgoing link is looked at.
ReleaseOneOutput(n) ==
  LET l == Min(OutLinks[n])
  IN /\ At(n, "release out")
     /\ IF ~Has(n, "SIGRELEASEOUTPUT") \/ PassesOn(n)
        THEN Goto(n, "input") /\ UNCHANGED <<outQ, inQ, imageVars>>
        ELSE /\ releaseOutBuffers(l, 1)
             /\ Goto(n, IF Type(l) = "SinkLink" THEN "input" ELSE "depend out")
     /\ UNCHANGED <<sourceVars, usingQ, inClosed, runVars, flushVars,
                    mCurrentProcessNodes, main, abnormalCalls>>

DependOutput(n) ==
  At(n, "depend out") /\ StartChildren(n, StreamedLinks(n) \cap {Min(OutLinks[n])}, "input")

-----------------------------------------------------------------------------
(* notifyNextNode *)

\* Mutant: a failed node goes on as if all were well.
NotifyInAnyCase(n) ==
  /\ At(n, "notify")
  /\ mCurrentProcessNodes' = mCurrentProcessNodes \ {n}
  /\ Goto(n, "release all")
  /\ UNCHANGED <<sourceVars, bufferVars, imageVars, runVars, flushVars,
                 main, abnormalCalls>>

Notify(n) ==
  /\ At(n, "notify")
  /\ mCurrentProcessNodes' = mCurrentProcessNodes \ {n}
  /\ Goto(n, IF node[n].ok THEN "release all" ELSE "callback")
  /\ UNCHANGED <<sourceVars, bufferVars, imageVars, runVars, flushVars,
                 main, abnormalCalls>>

\* Success: what is left of the input is released or passed on ...
ReleaseAllInput(n) ==
  /\ At(n, "release all")
  /\ ReleaseInput(n, Joined(usingQ, InLinks[n]))
  /\ usingQ' = [l \in LinkIds |-> IF l \in InLinks[n] THEN <<>> ELSE usingQ[l]]
  /\ node' = [node EXCEPT ![n].pc = "links", ![n].left = OutLinks[n]]
  /\ UNCHANGED <<sourceVars, outQ, inClosed, runVars, flushVars,
                 mCurrentProcessNodes, main, abnormalCalls>>

\* ... then, link by link, the output, after which the child has its dependence
\* on this link settled ...
ReleaseLink(n) ==
  LET l == Min(node[n].left)
  IN /\ At(n, "links") /\ node[n].left # {}
     /\ releaseOutBuffers(l, Len(outQ[l]))
     /\ node' = [node EXCEPT ![n].pc = IF Type(l) = "SinkLink" THEN "links" ELSE "depend",
                             ![n].left = @ \ {l},
                             ![n].link = IF Type(l) = "SinkLink" THEN 0 ELSE l]
     /\ UNCHANGED <<sourceVars, usingQ, inClosed, runVars, flushVars,
                    mCurrentProcessNodes, main, abnormalCalls>>

\* (no notification of mCond yet)
DependLink(n) ==
  /\ At(n, "depend")
  /\ Depend({node[n].link})
  /\ node' = [node EXCEPT ![n].pc = "links", ![n].link = 0]
  /\ UNCHANGED <<sourceVars, bufferVars, imageVars, mRunningNodeNum, mHasProcessError,
                 flushVars, mCurrentProcessNodes, main, abnormalCalls>>

\* ... and the node no longer counts as running.
Finish(n) ==
  /\ At(n, "links") /\ node[n].left = {}
  /\ mRunningNodeNum' = mRunningNodeNum - 1
  /\ NotifyMain
  /\ Goto(n, "done")
  /\ UNCHANGED <<sourceVars, bufferVars, imageVars, mRunSequence, mDependenceNum,
                 mHasProcessError, flushVars, mCurrentProcessNodes, abnormalCalls>>

\* Mutant: each failed node tells it.
CallbackEachTime(n) ==
  /\ At(n, "callback")
  /\ abnormalCalls' = abnormalCalls + 1
  /\ node' = [node EXCEPT ![n].pc = "error links", ![n].left = OutLinks[n] \cap SinkLinks]
  /\ UNCHANGED <<sourceVars, bufferVars, imageVars, runVars, flushVars,
                 mCurrentProcessNodes, main>>

\* Error: the application is told once, its sink images are given back, and no
\* further node is started.
Callback(n) ==
  /\ At(n, "callback")
  /\ abnormalCalls' = IF abnormalCalls = 0 THEN 1 ELSE abnormalCalls
  /\ node' = [node EXCEPT ![n].pc = "error links", ![n].left = OutLinks[n] \cap SinkLinks]
  /\ UNCHANGED <<sourceVars, bufferVars, imageVars, runVars, flushVars,
                 mCurrentProcessNodes, main>>

ReleaseSinkOnError(n) ==
  LET l == Min(node[n].left)
  IN /\ At(n, "error links") /\ node[n].left # {}
     /\ releaseOutBuffers(l, Len(outQ[l]))
     /\ node' = [node EXCEPT ![n].left = @ \ {l}]
     /\ UNCHANGED <<sourceVars, usingQ, inClosed, runVars, flushVars,
                    mCurrentProcessNodes, main, abnormalCalls>>

Fail(n) ==
  /\ At(n, "error links") /\ node[n].left = {}
  /\ mHasProcessError' = TRUE
  /\ mRunningNodeNum' = mRunningNodeNum - 1
  /\ NotifyMain
  /\ Goto(n, "done")
  /\ UNCHANGED <<sourceVars, bufferVars, imageVars, mRunSequence, mDependenceNum,
                 flushVars, mCurrentProcessNodes, abnormalCalls>>

notifyNextNode(n) ==
  \/ Notify(n) \/ ReleaseAllInput(n) \/ ReleaseLink(n) \/ DependLink(n) \/ Finish(n)
  \/ Callback(n) \/ ReleaseSinkOnError(n) \/ Fail(n)
betweenFrames(n) == ReleaseOneInput(n) \/ DependInput(n) \/ ReleaseOneOutput(n) \/ DependOutput(n)

processTask(n) ==
  \/ GetInput(n) \/ NotEffective(n) \/ GetOutput(n) \/ NoOutput(n)
  \/ PluginFails(n) \/ PluginReturns(n)
  \/ betweenFrames(n) \/ notifyNextNode(n)

-----------------------------------------------------------------------------
(* quickFinish: under mQuickFinishLock, so one call at a time *)

SetFlushStatus(needImageResult) ==
  /\ quick = "none" /\ quickCalls < QuickCalls
  /\ quickCalls' = quickCalls + 1
  /\ mFlushStatus' = IF needImageResult THEN "Expediting" ELSE "ForcedFlush"
  /\ quick' = "ports"
  /\ UNCHANGED <<sourceVars, bufferVars, imageVars, runVars,
                 mCurrentProcessNodes, main, node, abnormalCalls>>

\* Mutant: the nodes' own queues are left open.
ReleasePortsOnly ==
  /\ quick = "ports"
  /\ closed' = Ports
  /\ quick' = "none"
  /\ UNCHANGED <<toCome, sourceQ, bufferVars, imageVars, runVars, mFlushStatus,
                 quickCalls, mCurrentProcessNodes, main, node, abnormalCalls>>

\* No further source image is accepted, and nobody waits for one any more.
ReleasePorts ==
  /\ quick = "ports"
  /\ closed' = Ports
  /\ quick' = IF mFlushStatus = "ForcedFlush" THEN "nodes" ELSE "none"
  /\ UNCHANGED <<toCome, sourceQ, bufferVars, imageVars, runVars, mFlushStatus,
                 quickCalls, mCurrentProcessNodes, main, node, abnormalCalls>>

\* Of the nodes being processed the first input queue is released (and the
\* plugin is flushed, which SerialNode models).
ReleaseNodes ==
  /\ quick = "nodes"
  /\ inClosed' = inClosed \cup {Min(InLinks[n]) : n \in mCurrentProcessNodes}
  /\ quick' = "none"
  /\ UNCHANGED <<sourceVars, inQ, usingQ, outQ, imageVars, runVars, mFlushStatus,
                 quickCalls, mCurrentProcessNodes, main, node, abnormalCalls>>

quickFinish ==
  \/ \E needImageResult \in QuickKinds : SetFlushStatus(needImageResult)
  \/ ReleasePorts
  \/ ReleaseNodes

-----------------------------------------------------------------------------
Next ==
  \/ \E p \in Ports : Deliver(p)
  \/ postProcTask
  \/ \E n \in Nodes : processTask(n) \/ PluginReleasesInput(n) \/ PluginReleasesOutput(n)
  \/ quickFinish

Safe == Init /\ [][Next]_vars

\* The application delivers the frames it has announced; threads run.
Fairness ==
  /\ \A p \in Ports : WF_vars(Deliver(p))
  /\ WF_vars(postProcTask)
  /\ \A n \in Nodes : WF_vars(processTask(n))
  /\ WF_vars(ReleasePorts \/ ReleaseNodes)

Spec == Safe /\ Fairness

-----------------------------------------------------------------------------
(* Properties *)

Active == {n \in Nodes : node[n].pc \notin {"idle", "done"}}

\* postProcTask cleans up, and the session may drop the pipeline, only when no
\* node works on it and none is about to be started, although nodes are counted
\* after they were enqueued, so that mRunningNodeNum may fall below 0 on the way.
NoNodeLeftBehind ==
  main.pc \in {"release ports", "release rest", "finished"} =>
    Active = {} /\ mRunSequence = <<>> /\ mRunningNodeNum = 0

\* A node is started when every node before it has ended well, or, frame by
\* frame, has given a first image; no node before it has failed.
ParentsDone ==
  \A n \in Nodes : node[n].pc # "idle" =>
    \A l \in InLinks[n] \ SourceLinks :
      \/ node[links[l].src].pc \in {"links", "depend", "done"}
         /\ node[links[l].src].ok
      \/ Has(n, "SIGFRAME") /\ Has(links[l].src, "SIGFRAME") /\ node[links[l].src].frames > 0

\* A node that goes on to getOutputImage has an image of every link in hand: the
\* code takes the first one of each without looking whether there is one.
InputBeforeOutput ==
  \A n \in Nodes : At(n, "check") /\ node[n].got /\ mFlushStatus # "ForcedFlush" =>
    \A l \in InLinks[n] : usingQ[l] # <<>>

\* The places of an image in some queues, and in all of them.
PlacesIn(queues, Q, i) ==
  UNION {{<<queues, x, k>> : k \in {j \in DOMAIN Q[x] : Q[x][j] = i}} : x \in DOMAIN Q}
Places(i) ==
  PlacesIn("source", sourceQ, i) \cup PlacesIn("in", inQ, i)
  \cup PlacesIn("using", usingQ, i) \cup PlacesIn("out", outQ, i)

\* The use count of a source image is the number of queues it is in, whatever
\* the nodes that share it and the flushes do ...
SourceUseCounts == \A i \in SourceImages : useCount[i] = Cardinality(Places(i))

\* ... and when the pipeline has finished, every source image that was delivered
\* is back with the application, those of pruned ports, those that nodes did not
\* get to, and those that came too late included.
SourcesReturned ==
  main.pc = "finished" =>
    \A p \in Ports : \A k \in 1 .. FrameNum - toCome[p] : <<"source", p, k>> \in returned

\* The application always learns how a request ended: all its sink images came,
\* or one abnormal callback, unless it flushed the request itself.
OutcomeReported ==
  /\ abnormalCalls <= 1
  /\ main.pc = "finished" /\ mFlushStatus # "ForcedFlush" =>
       (abnormalCalls = 1 \/ SinkImages \subseteq returned)

\* A pipeline comes to its end, whatever fails, expedites or flushes it.
PipelineFinishes == <>(main.pc = "finished")

\* A pipeline that the application gives up comes to its end.
FlushedPipelineFinishes == mFlushStatus = "ForcedFlush" ~> main.pc = "finished"

\* "pipeline is in Expediting state, and the final result needs to be generated"
ExpeditedPipelineFinishes == mFlushStatus = "Expediting" ~> main.pc = "finished"
=============================================================================
