-------------------------- MODULE SerialNodeProofs --------------------------
(***************************************************************************)
(* What holds of SerialNode for any number of pipelines, priorities and    *)
(* frames to a request, and in each mode of release and output.  Inv is    *)
(* the inductive invariant.  It says who serves (Serving), what the counts *)
(* are (Counting), which requests are answered (Answered), what is in the  *)
(* plugin (Collected), and how the gate and a detached flush hang together *)
(* (Gated).                                                                *)
(***************************************************************************)
EXTENDS SerialNode, FiniteSetTheorems, TLAPS

\* Process threads that are counted.
Present == {i \in Threads : thr[i].pc \notin {"new", "gone"}}

\* Pipelines that have been through enqueueTask, and those still to be served.
Posted == {p \in Pipelines : main[p] \in {"pop again", "record again", "done"}}
Unserved(p) == p \notin Posted \/ p \in mRequestQueue

\* OneThreadServes without the count of a set.
Serving ==
  /\ \A i \in Threads : At(i, "new") <=> i > started
  /\ \A i, j \in Working : i = j
  /\ mHasProcessThread <=> Working # {}
  /\ mPipeline = NoPipeline <=> ~mHasProcessThread
  /\ mPipeline = NoPipeline => mRequestQueue = {}
  /\ \A i \in Working : thr[i].pc # "fetch" => thr[i].p = mPipeline

Counting ==
  /\ started <= Cardinality(Posted)
  /\ mNodeThreadNum = Cardinality(Present)

\* A request is answered once, when it has been served.
Answered ==
  /\ mRequestQueue \subseteq Posted
  /\ mPipeline \in (Posted \ mRequestQueue) \cup {NoPipeline}
  /\ \A p \in Pipelines : notified[p] =
       IF Unserved(p) \/ (p = mPipeline /\ \A i \in Threads : ~At(i, "next")) THEN 0 ELSE 1

\* Threads in the plugin or at its gate, and pipelines whose flush is in it.
InPlugin(i) == thr[i].pc \in {"plugin", "gate", "asleep"}
Flushing == {p \in Pipelines : det[p] \in {"flush", "count"}}

\* A flush gets into the plugin only while it holds back the thread that works
\* there for the same pipeline.
Gated ==
  /\ Flushing = {} => mInPluginThreadNum = IF \E i \in Threads : InPlugin(i) THEN 1 ELSE 0
  /\ \A p \in Flushing : /\ mInPluginThreadNum = 2
                         /\ \E i \in Threads : InPlugin(i) /\ thr[i].p = p
  /\ \A p, q \in Flushing : p = q
  /\ mQuickFinishMux \in {Quick(p) : p \in Pipelines} \cup {Free}
  /\ \A p \in Pipelines : qf[p] \in {"name", "match"} <=> mQuickFinishMux = Quick(p)
  /\ mQuickFinishMux # Free => Flushing = {} /\ mInPluginThreadNum = 1
  /\ \A p \in Pipelines : qf[p] = "match" => mPipeline = p
  /\ \A p \in Pipelines : det[p] # "none" => qf[p] # "none"

\* Frames of the request being served that ought to be in the plugin while
\* thread i is where it is.
InHand(i) ==
  IF thr[i].pc \in {"fetch", "work", "call", "release"} THEN mInputFrameNum
  ELSE IF thr[i].pc = "plugin" THEN mInputFrameNum - 1
  ELSE IF thr[i].pc \in {"gate", "asleep", "left"} /\ thr[i].ok /\ mInputFrameNum < Frames
       THEN mInputFrameNum ELSE 0

\* Frames collected while thread i serves: no more than ought to be there, and
\* exactly these unless the pipeline was discarded.
Collecting(i) ==
  /\ thr[i].pc \in {"fetch", "work", "call", "release"} => mInputFrameNum < Frames
  /\ thr[i].pc \in {"plugin", "gate", "asleep", "left"} => mInputFrameNum > 0
  /\ thr[i].pc \notin {"notify", "notifying", "next"} \/ ~EveryFrameOutput =>
       pluginFrames[mPipeline] <= InHand(i)
  /\ qf[mPipeline] = "none" /\ ~EveryFrameOutput =>
       pluginFrames[mPipeline] = InHand(i)

Collected ==
  /\ Working = {} => mInputFrameNum = 0
  /\ \A i \in Working : Collecting(i)
  /\ \A p \in Pipelines : Unserved(p) => pluginFrames[p] = 0
  /\ ~EveryFrameOutput => \A p \in Pipelines : p # mPipeline => pluginFrames[p] = 0

Inv == TypeOK /\ Serving /\ Counting /\ Answered /\ Gated /\ Collected

-----------------------------------------------------------------------------
(* Finite sets *)

LEMMA SetsFinite ==
  ASSUME NEW S, S \subseteq Threads \/ S \subseteq Pipelines
  PROVE  IsFiniteSet(S) /\ Cardinality(S) \in Nat
<1>1. IsFiniteSet(Pipelines) /\ Cardinality(Pipelines) \in Nat
  BY NodeAssumption, FS_CardinalityType
<1>2. IsFiniteSet(Threads)
  BY <1>1, FS_Interval DEF Threads
<1>3. IsFiniteSet(S)
  BY <1>1, <1>2, FS_Subset
<1> QED BY <1>3, FS_CardinalityType

LEMMA OneMore ==
  ASSUME NEW S, S \subseteq Threads \/ S \subseteq Pipelines, NEW x, x \notin S
  PROVE  Cardinality(S \cup {x}) = Cardinality(S) + 1
BY SetsFinite, FS_AddElement

LEMMA OneLess ==
  ASSUME NEW S, S \subseteq Threads \/ S \subseteq Pipelines, NEW x \in S
  PROVE  Cardinality(S \ {x}) = Cardinality(S) - 1 /\ Cardinality(S) >= 1
<1>1. IsFiniteSet(S) /\ Cardinality(S) \in Nat /\ Cardinality(S \ {x}) \in Nat
  BY SetsFinite
<1>2. Cardinality(S \ {x}) = Cardinality(S) - 1
  BY <1>1, FS_RemoveElement
<1> QED BY <1>1, <1>2

LEMMA NotMore ==
  ASSUME NEW S, NEW T, T \subseteq Threads \/ T \subseteq Pipelines, S \subseteq T
  PROVE  Cardinality(S) <= Cardinality(T)
BY SetsFinite, FS_Subset

LEMMA NumberOfThreads ==
  /\ Cardinality(Pipelines) \in Nat /\ Cardinality(Threads) = Cardinality(Pipelines)
  /\ \A n : n \in Threads <=> n \in Nat /\ n >= 1 /\ n <= Cardinality(Pipelines)
<1>1. Cardinality(Pipelines) \in Nat
  BY SetsFinite
<1> QED BY <1>1, FS_Interval DEF Threads

\* The queue has a head: of the sets of requests before a given one, one is minimal.
LEMMA TopIsThere ==
  ASSUME NEW queue, queue \subseteq Pipelines, queue # {}
  PROVE  Top(queue) \in queue
<1> DEFINE Before(p) == {q \in queue : Priority[q] > Priority[p]}
           All == {Before(p) : p \in queue}
<1>1. IsFiniteSet(queue)
  BY SetsFinite
<1>2. All \subseteq FiniteSubsetsOf(queue) /\ All # {}
  <2>1. FiniteSubsetsOf(queue) = SUBSET queue
    BY <1>1, FS_FiniteSubsetsOfFinite
  <2>2. \A p \in queue : Before(p) \in SUBSET queue
    OBVIOUS
  <2> HIDE DEF Before
  <2> QED BY <2>1, <2>2
<1>3. \E x \in All : \A y \in All : <<y, x>> \notin StrictSubsetOrdering(queue)
  BY <1>2, FS_StrictSubsetOrderingWellFounded, WFMin
<1>4. PICK p \in queue : \A q \in queue : <<Before(q), Before(p)>> \notin StrictSubsetOrdering(queue)
  BY <1>3
<1>5. \A q \in queue : Priority[q] <= Priority[p]
  <2> SUFFICES ASSUME NEW q \in queue, ~(Priority[q] <= Priority[p]) PROVE FALSE
    OBVIOUS
  <2>1. \A r \in queue : Priority[r] \in Int
    BY NodeAssumption
  <2>2. Priority[q] > Priority[p]
    BY <2>1
  <2>3. Before(q) \subseteq Before(p) /\ q \in Before(p) /\ q \notin Before(q)
    BY <2>1, <2>2
  <2>4. Before(q) \in SUBSET queue /\ Before(p) \in SUBSET queue /\ Before(q) # Before(p)
    BY <2>3
  <2>5. <<Before(q), Before(p)>> \in StrictSubsetOrdering(queue)
    BY <2>3, <2>4 DEF StrictSubsetOrdering
  <2> QED BY <1>4, <2>5
<1> QED BY <1>5 DEF Top

-----------------------------------------------------------------------------
(* How a step moves a process thread *)

Serve == {"fetch", "work", "call", "plugin", "gate", "asleep", "left",
          "release", "notify", "notifying", "next"}
Pcs == Serve \cup {"new", "leaving", "gone"}
Records == [pc : Pcs, p : Pipelines \cup {NoPipeline}, ok : BOOLEAN]

\* Thread i gets to l with pipeline q and result b; the others stay.
Turn(i, l, q, b) ==
  /\ thr' \in [Threads -> Records]
  /\ thr'[i].pc = l /\ thr'[i].p = q /\ thr'[i].ok = b
  /\ \A j \in Threads : j # i => thr'[j] = thr[j]

LEMMA RecordsAre ==
  Records = [pc : {"new", "fetch", "work", "call", "plugin", "gate", "asleep", "left",
                   "release", "notify", "notifying", "next", "leaving", "gone"},
             p : Pipelines \cup {NoPipeline}, ok : BOOLEAN]
<1>1. Pcs = {"new", "fetch", "work", "call", "plugin", "gate", "asleep", "left",
             "release", "notify", "notifying", "next", "leaving", "gone"}
  BY DEF Pcs, Serve
<1> QED BY <1>1 DEF Records

LEMMA ThreadsTyped ==
  ASSUME TypeOK
  PROVE  /\ thr \in [Threads -> Records]
         /\ \A i \in Threads : /\ thr[i].pc \in Pcs /\ thr[i].p \in Pipelines \cup {NoPipeline}
                               /\ thr[i].ok \in BOOLEAN
                               /\ i \in Working <=> thr[i].pc \in Serve
<1>1. thr \in [Threads -> Records]
  BY RecordsAre DEF TypeOK
<1>2. \A i \in Threads : /\ thr[i].pc \in Pcs /\ thr[i].p \in Pipelines \cup {NoPipeline}
                         /\ thr[i].ok \in BOOLEAN
  BY <1>1 DEF Records
<1>3. \A i \in Threads : i \in Working <=> thr[i].pc \in Serve
  BY <1>2 DEF Working, Pcs, Serve
<1> QED BY <1>1, <1>2, <1>3

LEMMA NumbersTyped ==
  ASSUME TypeOK
  PROVE  /\ started \in Nat /\ mNodeThreadNum \in Nat
         /\ mInPluginThreadNum \in {0, 1, 2}
         /\ mInputFrameNum \in Nat /\ mInputFrameNum <= Frames /\ Frames \in Nat /\ Frames > 0
         /\ \A p \in Pipelines : pluginFrames[p] \in Nat
<1>1. /\ started \in 0 .. Cardinality(Pipelines) /\ mNodeThreadNum \in 0 .. Cardinality(Pipelines)
      /\ mInPluginThreadNum \in 0 .. 2 /\ mInputFrameNum \in 0 .. Frames
      /\ pluginFrames \in [Pipelines -> 0 .. Frames]
  BY DEF TypeOK
<1>2. \A p \in Pipelines : pluginFrames[p] \in Nat
  BY <1>1
<1> QED BY <1>1, <1>2, NumberOfThreads, NodeAssumption

LEMMA TurnRecord ==
  ASSUME TypeOK, NEW i \in Threads, NEW r \in Records, thr' = [thr EXCEPT ![i] = r]
  PROVE  Turn(i, r.pc, r.p, r.ok)
<1>1. thr \in [Threads -> Records]
  BY ThreadsTyped
<1>2. thr' \in [Threads -> Records] /\ thr'[i] = r /\ \A j \in Threads : j # i => thr'[j] = thr[j]
  BY <1>1
<1> QED BY <1>2 DEF Turn

LEMMA TurnPc ==
  ASSUME TypeOK, NEW i \in Threads, NEW l \in Pcs, thr' = [thr EXCEPT ![i].pc = l]
  PROVE  Turn(i, l, thr[i].p, thr[i].ok)
<1> DEFINE r == [thr[i] EXCEPT !.pc = l]
<1>1. thr[i] \in Records
  BY ThreadsTyped
<1>2. r \in Records /\ r.pc = l /\ r.p = thr[i].p /\ r.ok = thr[i].ok
  BY <1>1 DEF Records
<1>3. thr' = [thr EXCEPT ![i] = r]
  OBVIOUS
<1> HIDE DEF r
<1>4. Turn(i, r.pc, r.p, r.ok)
  BY <1>2, <1>3, TurnRecord
<1> QED BY <1>2, <1>4

LEMMA TurnResult ==
  ASSUME TypeOK, NEW i \in Threads, NEW l \in Pcs, NEW b \in BOOLEAN,
         thr' = [thr EXCEPT ![i].pc = l, ![i].ok = b]
  PROVE  Turn(i, l, thr[i].p, b)
<1> DEFINE first == [thr EXCEPT ![i].pc = l]
           s == [thr[i] EXCEPT !.pc = l]
           r == [s EXCEPT !.ok = b]
<1>1. thr \in [Threads -> Records] /\ thr[i] \in Records
  BY ThreadsTyped
<1>2. s \in Records /\ s.pc = l /\ s.p = thr[i].p
  BY <1>1 DEF Records
<1>3. first = [thr EXCEPT ![i] = s]
  OBVIOUS
<1>4. thr' = [first EXCEPT ![i] = [first[i] EXCEPT !.ok = b]]
  OBVIOUS
<1> HIDE DEF s, first
<1>5. r \in Records /\ r.pc = l /\ r.p = thr[i].p /\ r.ok = b
  BY <1>2 DEF Records
<1>6. first[i] = s
  BY <1>1, <1>3
<1>7. thr' = [first EXCEPT ![i] = r]
  BY <1>4, <1>6
<1> HIDE DEF r
<1>8. thr' = [thr EXCEPT ![i] = r]
  BY <1>3, <1>7
<1>9. Turn(i, r.pc, r.p, r.ok)
  BY <1>5, <1>8, TurnRecord
<1> QED BY <1>5, <1>9

LEMMA Turns ==
  ASSUME TypeOK, NEW i \in Threads
  PROVE  /\ Fetch(i) => thr[i].pc = "fetch" /\ Turn(i, "work", mPipeline, TRUE)
         /\ TaskEffective(i) => thr[i].pc = "work" /\ Turn(i, "call", thr[i].p, thr[i].ok)
         /\ CallPlugin(i) => thr[i].pc = "call" /\ Turn(i, "plugin", thr[i].p, thr[i].ok)
         /\ GetOutputFails(i) => thr[i].pc = "call" /\ Turn(i, "notify", thr[i].p, FALSE)
         /\ FlushTask(i) => thr[i].pc = "work" /\ Turn(i, "notify", thr[i].p, FALSE)
         /\ ExpeditedInputFails(i) =>
              thr[i].pc = "work" /\ \E b \in BOOLEAN : Turn(i, "notify", thr[i].p, b)
         /\ SpuriousWakeup(i) => thr[i].pc = "asleep" /\ Turn(i, "gate", thr[i].p, thr[i].ok)
         /\ PassGate(i) => /\ thr[i].pc = "gate"
                           /\ Turn(i, IF GateOpen(mInPluginThreadNum) THEN "left" ELSE "asleep",
                                   thr[i].p, thr[i].ok)
<1> USE DEF At, Goto, Pcs, Serve
<1>1. Fetch(i) => thr[i].pc = "fetch" /\ Turn(i, "work", mPipeline, TRUE)
  <2> DEFINE r == [pc |-> "work", p |-> mPipeline, ok |-> TRUE]
  <2>1. r \in Records /\ r.pc = "work" /\ r.p = mPipeline /\ r.ok = TRUE
    BY DEF TypeOK, Records
  <2>2. Fetch(i) => thr[i].pc = "fetch" /\ thr' = [thr EXCEPT ![i] = r]
    BY DEF Fetch
  <2> HIDE DEF r
  <2>3. Fetch(i) => Turn(i, r.pc, r.p, r.ok)
    BY <2>1, <2>2, TurnRecord
  <2> QED BY <2>1, <2>2, <2>3
<1>2. TaskEffective(i) => thr[i].pc = "work" /\ Turn(i, "call", thr[i].p, thr[i].ok)
  BY TurnPc DEF TaskEffective
<1>3. CallPlugin(i) => thr[i].pc = "call" /\ Turn(i, "plugin", thr[i].p, thr[i].ok)
  BY TurnPc DEF CallPlugin
<1>4. GetOutputFails(i) => thr[i].pc = "call" /\ Turn(i, "notify", thr[i].p, FALSE)
  BY TurnResult DEF GetOutputFails
<1>5. FlushTask(i) => thr[i].pc = "work" /\ Turn(i, "notify", thr[i].p, FALSE)
  BY TurnResult DEF FlushTask
<1>6. ASSUME ExpeditedInputFails(i)
      PROVE  thr[i].pc = "work" /\ \E b \in BOOLEAN : Turn(i, "notify", thr[i].p, b)
  <2>1. thr[i].pc = "work"
    BY <1>6 DEF ExpeditedInputFails
  <2>2. CASE PluginHasFrames
    <3>1. Turn(i, "notify", thr[i].p, thr[i].ok)
      BY <1>6, <2>2, TurnPc DEF ExpeditedInputFails
    <3> QED BY <2>1, <3>1, ThreadsTyped
  <2>3. CASE ~PluginHasFrames
    <3>1. Turn(i, "notify", thr[i].p, FALSE)
      BY <1>6, <2>3, TurnResult DEF ExpeditedInputFails
    <3> QED BY <2>1, <3>1
  <2> QED BY <2>2, <2>3
<1>7. SpuriousWakeup(i) => thr[i].pc = "asleep" /\ Turn(i, "gate", thr[i].p, thr[i].ok)
  BY TurnPc DEF SpuriousWakeup
<1>8. PassGate(i) => /\ thr[i].pc = "gate"
                     /\ Turn(i, IF GateOpen(mInPluginThreadNum) THEN "left" ELSE "asleep",
                             thr[i].p, thr[i].ok)
  BY TurnPc DEF PassGate
<1> QED BY <1>1, <1>2, <1>3, <1>4, <1>5, <1>6, <1>7, <1>8

LEMMA MoreTurns ==
  ASSUME TypeOK, NEW i \in Threads
  PROVE  /\ PluginReturns(i) =>
              thr[i].pc = "plugin" /\ \E b \in BOOLEAN : Turn(i, "gate", thr[i].p, b)
         /\ Leave(i) =>
              /\ thr[i].pc = "left"
              /\ Turn(i, IF thr[i].ok /\ mInputFrameNum # Frames THEN "release" ELSE "notify",
                      thr[i].p, thr[i].ok)
         /\ ReleaseLock(i) =>
              /\ thr[i].pc = "release"
              /\ \E l \in {"release", "fetch"} : Turn(i, l, thr[i].p, thr[i].ok)
         /\ ReleaseFrame(i) => thr[i].pc = "release" /\ Turn(i, "fetch", thr[i].p, thr[i].ok)
         /\ NotifyRecord(i) => thr[i].pc = "notify" /\ Turn(i, "notifying", thr[i].p, thr[i].ok)
         /\ NotifyDone(i) => thr[i].pc = "notifying" /\ Turn(i, "next", thr[i].p, thr[i].ok)
         /\ TakeNext(i) =>
              /\ thr[i].pc = "next"
              /\ Turn(i, IF mRequestQueue # {} THEN "fetch" ELSE "leaving", thr[i].p, thr[i].ok)
         /\ ThreadGone(i) => thr[i].pc = "leaving" /\ Turn(i, "gone", thr[i].p, thr[i].ok)
<1> USE DEF At, Goto, Pcs, Serve
<1>1. ASSUME PluginReturns(i)
      PROVE  thr[i].pc = "plugin" /\ \E b \in BOOLEAN : Turn(i, "gate", thr[i].p, b)
  <2>1. PICK b \in BOOLEAN : thr' = [thr EXCEPT ![i].pc = "gate", ![i].ok = b]
    BY <1>1, Zenon DEF PluginReturns
  <2>2. Turn(i, "gate", thr[i].p, b)
    BY <2>1, TurnResult
  <2>3. thr[i].pc = "plugin"
    BY <1>1 DEF PluginReturns
  <2> QED BY <2>1, <2>2, <2>3, Zenon
<1>2. ASSUME Leave(i)
      PROVE  /\ thr[i].pc = "left"
             /\ Turn(i, IF thr[i].ok /\ mInputFrameNum # Frames THEN "release" ELSE "notify",
                     thr[i].p, thr[i].ok)
  BY <1>2, TurnPc DEF Leave
<1>3. ASSUME ReleaseLock(i)
      PROVE  /\ thr[i].pc = "release"
             /\ \E l \in {"release", "fetch"} : Turn(i, l, thr[i].p, thr[i].ok)
  <2>1. thr[i].pc = "release"
    BY <1>3 DEF ReleaseLock
  <2>2. CASE ReleaseEachFrame
    <3>1. thr' = thr
      BY <1>3, <2>2 DEF ReleaseLock
    <3> QED BY <2>1, <3>1, ThreadsTyped DEF Turn
  <2>3. CASE ~ReleaseEachFrame
    <3>1. Turn(i, "fetch", thr[i].p, thr[i].ok)
      BY <1>3, <2>3, TurnPc DEF ReleaseLock
    <3> QED BY <2>1, <3>1
  <2> QED BY <2>2, <2>3
<1>4. ReleaseFrame(i) => thr[i].pc = "release" /\ Turn(i, "fetch", thr[i].p, thr[i].ok)
  BY TurnPc DEF ReleaseFrame
<1>5. NotifyRecord(i) => thr[i].pc = "notify" /\ Turn(i, "notifying", thr[i].p, thr[i].ok)
  BY TurnPc DEF NotifyRecord
<1>6. NotifyDone(i) => thr[i].pc = "notifying" /\ Turn(i, "next", thr[i].p, thr[i].ok)
  BY TurnPc DEF NotifyDone
<1>7. ASSUME TakeNext(i)
      PROVE  /\ thr[i].pc = "next"
             /\ Turn(i, IF mRequestQueue # {} THEN "fetch" ELSE "leaving", thr[i].p, thr[i].ok)
  BY <1>7, TurnPc DEF TakeNext
<1>8. ThreadGone(i) => thr[i].pc = "leaving" /\ Turn(i, "gone", thr[i].p, thr[i].ok)
  BY TurnPc DEF ThreadGone
<1> QED BY <1>1, <1>2, <1>3, <1>4, <1>5, <1>6, <1>7, <1>8

\* The steps of a thread that leave the request it serves in service.
Within(i) ==
  \/ Fetch(i) \/ TaskEffective(i) \/ CallPlugin(i) \/ GetOutputFails(i) \/ FlushTask(i)
  \/ ExpeditedInputFails(i) \/ PluginReturns(i) \/ PassGate(i) \/ Leave(i)
  \/ ReleaseLock(i) \/ ReleaseFrame(i) \/ NotifyRecord(i) \/ SpuriousWakeup(i)

\* The steps of a pipeline that neither post a request nor move a thread.
Aside(p) ==
  \/ MainLock(p) \/ MainRecord(p) \/ Expedite(p) \/ ForceFlush(p) \/ quickFinish(p)
  \/ DetachedFlush(p) \/ DetachedCount(p)

LEMMA Steps ==
  ASSUME Next
  PROVE  \/ \E p \in Pipelines : Aside(p) \/ MainPost(p) \/ DetachedNotify(p)
         \/ \E i \in Threads : Within(i) \/ NotifyDone(i) \/ TakeNext(i) \/ ThreadGone(i)
BY DEF Next, Aside, Within, detached, processTask

LEMMA WithinStep ==
  ASSUME TypeOK, NEW i \in Threads, Within(i)
  PROVE  /\ thr' \in [Threads -> Records]
         /\ \A j \in Threads : j # i => thr'[j] = thr[j]
         /\ thr[i].pc \in Serve \ {"next"} /\ thr'[i].pc \in Serve \ {"next"}
         /\ thr'[i].pc # "fetch" =>
              thr'[i].p = IF thr[i].pc = "fetch" THEN mPipeline ELSE thr[i].p
         /\ UNCHANGED <<mRequestQueue, mPipeline, mHasProcessThread, mNodeThreadNum, started,
                        notified, main, qf, det, mFlushStatus, mLock, mRecordProcessNodeLock,
                        mQuickFinishMux>>
<1>1. UNCHANGED <<mRequestQueue, mPipeline, mHasProcessThread, mNodeThreadNum, started,
                  notified, main, qf, det, mFlushStatus, mLock, mRecordProcessNodeLock,
                  mQuickFinishMux>>
  <2>1. CASE Fetch(i) \/ TaskEffective(i) \/ CallPlugin(i) \/ GetOutputFails(i) \/ FlushTask(i)
               \/ ExpeditedInputFails(i) \/ SpuriousWakeup(i)
    BY <2>1 DEF Fetch, TaskEffective, CallPlugin, GetOutputFails, FlushTask,
                ExpeditedInputFails, SpuriousWakeup, nodeVars, pipeVars, lockVars
  <2>2. CASE PluginReturns(i) \/ PassGate(i) \/ Leave(i) \/ ReleaseLock(i) \/ ReleaseFrame(i)
               \/ NotifyRecord(i)
    BY <2>2 DEF PluginReturns, PassGate, Leave, ReleaseLock, ReleaseFrame, NotifyRecord,
                nodeVars, pipeVars, lockVars
  <2> QED BY <2>1, <2>2 DEF Within
<1>2. CASE Fetch(i) \/ TaskEffective(i) \/ CallPlugin(i) \/ GetOutputFails(i) \/ FlushTask(i)
             \/ ExpeditedInputFails(i) \/ SpuriousWakeup(i) \/ PassGate(i)
  BY <1>1, <1>2, Turns DEF Turn, Serve
<1>3. CASE PluginReturns(i) \/ Leave(i) \/ ReleaseLock(i) \/ ReleaseFrame(i) \/ NotifyRecord(i)
  BY <1>1, <1>3, MoreTurns DEF Turn, Serve
<1> QED BY <1>2, <1>3 DEF Within

LEMMA AsideStep ==
  ASSUME TypeOK, NEW p \in Pipelines, Aside(p)
  PROVE  /\ UNCHANGED <<mRequestQueue, mPipeline, mHasProcessThread, mInputFrameNum,
                        mNodeThreadNum, started, thr, notified, mProcessLock>>
         /\ main' \in [Pipelines -> {"pop", "record", "post", "pop again", "record again", "done"}]
         /\ Posted' = Posted
<1>1. main \in [Pipelines -> {"pop", "record", "post", "pop again", "record again", "done"}]
  BY DEF TypeOK
<1>2. CASE MainLock(p)
  <2>1. main' = [main EXCEPT ![p] = IF main[p] = "pop" THEN "record" ELSE "record again"]
        /\ main[p] \in {"pop", "pop again"}
    BY <1>2 DEF MainLock
  <2> QED BY <1>1, <1>2, <2>1 DEF MainLock, nodeVars, pipeVars, Posted
<1>3. CASE MainRecord(p)
  <2>1. main' = [main EXCEPT ![p] = IF main[p] = "record" THEN "post" ELSE "done"]
        /\ main[p] \in {"record", "record again"}
    BY <1>3 DEF MainRecord
  <2> QED BY <1>1, <1>3, <2>1 DEF MainRecord, nodeVars, Posted
<1>4. CASE Expedite(p) \/ ForceFlush(p) \/ DetachedFlush(p) \/ DetachedCount(p)
  BY <1>1, <1>4 DEF Expedite, ForceFlush, DetachedFlush, DetachedCount, nodeVars, pipeVars, lockVars, Posted
<1>5. CASE quickFinish(p)
  BY <1>1, <1>5 DEF quickFinish, QuickRecord, QuickMux, QuickName, QuickSpawn, nodeVars,
                    pipeVars, Posted
<1> QED BY <1>2, <1>3, <1>4, <1>5 DEF Aside

\* DetachedNotify wakes who sleeps at the gate.
LEMMA WakeStep ==
  ASSUME TypeOK, NEW p \in Pipelines, DetachedNotify(p)
  PROVE  /\ UNCHANGED <<nodeVars, pipeVars, lockVars, mInPluginThreadNum, pluginFrames, main, qf>>
         /\ thr' \in [Threads -> Records]
         /\ \A i \in Threads : /\ thr'[i].pc = IF At(i, "asleep") THEN "gate" ELSE thr[i].pc
                               /\ thr'[i].p = thr[i].p /\ thr'[i].ok = thr[i].ok
<1>1. UNCHANGED <<nodeVars, pipeVars, lockVars, mInPluginThreadNum, pluginFrames, main, qf>>
  BY DEF DetachedNotify
<1>2. thr' = [i \in Threads |-> IF At(i, "asleep") THEN [thr[i] EXCEPT !.pc = "gate"] ELSE thr[i]]
  BY DEF DetachedNotify
<1>3. ASSUME NEW i \in Threads
      PROVE  /\ thr'[i] \in Records
             /\ thr'[i].pc = IF At(i, "asleep") THEN "gate" ELSE thr[i].pc
             /\ thr'[i].p = thr[i].p /\ thr'[i].ok = thr[i].ok
  <2>1. thr[i] \in Records
    BY ThreadsTyped
  <2>2. CASE At(i, "asleep")
    <3>1. [thr[i] EXCEPT !.pc = "gate"] = [pc |-> "gate", p |-> thr[i].p, ok |-> thr[i].ok]
      BY <2>1 DEF Records
    <3>2. thr'[i] = [pc |-> "gate", p |-> thr[i].p, ok |-> thr[i].ok]
      BY <1>2, <2>2, <3>1
    <3> QED BY <2>1, <2>2, <3>2 DEF Records, Pcs, Serve
  <2>3. CASE ~At(i, "asleep")
    BY <1>2, <2>1, <2>3
  <2> QED BY <2>2, <2>3
<1>4. thr' \in [Threads -> Records]
  BY <1>2, <1>3
<1> QED BY <1>1, <1>3, <1>4

\* A request is served at once if no thread is at work, and queued otherwise.
LEMMA PostStep ==
  ASSUME Inv, NEW p \in Pipelines, MainPost(p)
  PROVE  /\ p \notin Posted /\ Posted' = Posted \cup {p} /\ started + 1 <= Cardinality(Posted')
         /\ main' \in [Pipelines -> {"pop", "record", "post", "pop again", "record again", "done"}]
         /\ UNCHANGED <<mInputFrameNum, pipeVars, lockVars, mInPluginThreadNum, pluginFrames, qf, det>>
         /\ \/ /\ mHasProcessThread /\ mPipeline # NoPipeline
               /\ mRequestQueue' = mRequestQueue \cup {p}
               /\ UNCHANGED <<mPipeline, mHasProcessThread, mNodeThreadNum, started, thr>>
            \/ /\ ~mHasProcessThread /\ mPipeline = NoPipeline /\ mRequestQueue = {}
               /\ mPipeline' = p /\ mRequestQueue' = {}
               /\ mHasProcessThread' = TRUE /\ mNodeThreadNum' = mNodeThreadNum + 1
               /\ started' = started + 1 /\ started + 1 \in Threads
               /\ thr[started + 1].pc = "new"
               /\ Turn(started + 1, "fetch", thr[started + 1].p, thr[started + 1].ok)
<1>1. TypeOK /\ Serving /\ Counting
  BY DEF Inv
<1>2. main[p] = "post" /\ main' = [main EXCEPT ![p] = "pop again"] /\ enqueueTask(p)
  BY DEF MainPost
<1>3. /\ p \notin Posted /\ Posted' = Posted \cup {p}
      /\ main' \in [Pipelines -> {"pop", "record", "post", "pop again", "record again", "done"}]
  BY <1>1, <1>2 DEF TypeOK, Posted
<1>4. UNCHANGED <<mInputFrameNum, pipeVars, lockVars, mInPluginThreadNum, pluginFrames, qf, det>>
  BY DEF MainPost
<1>5. started \in Nat /\ started + 1 <= Cardinality(Posted') /\ started + 1 \in Threads
  <2>1. Posted \subseteq Pipelines /\ Posted \cup {p} \subseteq Pipelines
    BY DEF Posted
  <2>2. Cardinality(Posted') = Cardinality(Posted) + 1 /\ Cardinality(Posted) \in Nat
    BY <1>3, <2>1, OneMore, SetsFinite
  <2>3. Cardinality(Posted') <= Cardinality(Pipelines)
    BY <1>3, <2>1, NotMore
  <2>4. started \in Nat
    BY <1>1, NumbersTyped
  <2> QED BY <1>1, <2>2, <2>3, <2>4, NumberOfThreads DEF Counting
<1>6. CASE mHasProcessThread
  <2>1. mPipeline # NoPipeline
    BY <1>1, <1>6 DEF Serving
  <2>2. ~HighestPriorityRequest(p)
    BY <2>1 DEF HighestPriorityRequest
  <2> QED BY <1>2, <1>3, <1>4, <1>5, <1>6, <2>1, <2>2 DEF enqueueTask
<1>7. CASE ~mHasProcessThread
  <2>1. mPipeline = NoPipeline /\ mRequestQueue = {}
    BY <1>1, <1>7 DEF Serving
  <2>2. Top({p}) = p
    BY TopIsThere
  <2>3. HighestPriorityRequest(p) /\ mRequestQueue \cup {p} = {p}
    BY <2>1, <2>2 DEF HighestPriorityRequest
  <2>4. /\ ServeTop({p}) /\ StartProcessThread
    BY <1>2, <1>7, <2>3 DEF enqueueTask
  <2>5. mPipeline' = p /\ mRequestQueue' = {}
    BY <2>2, <2>4 DEF ServeTop
  <2>6. /\ mHasProcessThread' = TRUE /\ mNodeThreadNum' = mNodeThreadNum + 1
        /\ started' = started + 1 /\ thr' = [thr EXCEPT ![started + 1].pc = "fetch"]
    BY <2>4 DEF StartProcessThread
  <2>7. Turn(started + 1, "fetch", thr[started + 1].p, thr[started + 1].ok)
    BY <1>1, <1>5, <2>6, TurnPc DEF Pcs, Serve
  <2>8. thr[started + 1].pc = "new"
    <3>1. started + 1 > started
      BY <1>5
    <3> QED BY <1>1, <1>5, <3>1 DEF Serving, At
  <2> QED BY <1>3, <1>4, <1>5, <1>7, <2>1, <2>5, <2>6, <2>7, <2>8
<1> QED BY <1>6, <1>7

\* The next request is the head of the queue; without one the thread leaves.
LEMMA TakeStep ==
  ASSUME Inv, NEW i \in Threads, TakeNext(i)
  PROVE  /\ thr[i].pc = "next" /\ mInputFrameNum' = 0
         /\ UNCHANGED <<mNodeThreadNum, started, pipeVars, lockVars, mInPluginThreadNum,
                        pluginFrames, main, qf, det>>
         /\ \/ /\ mPipeline' \in mRequestQueue
               /\ mRequestQueue' = mRequestQueue \ {mPipeline'}
               /\ Turn(i, "fetch", thr[i].p, thr[i].ok)
               /\ UNCHANGED mHasProcessThread
            \/ /\ mRequestQueue = {} /\ mRequestQueue' = {} /\ mPipeline' = NoPipeline
               /\ mHasProcessThread' = FALSE
               /\ Turn(i, "leaving", thr[i].p, thr[i].ok)
<1>1. TypeOK
  BY DEF Inv
<1>2. mRequestQueue # {} => Top(mRequestQueue) \in mRequestQueue
  BY <1>1, TopIsThere DEF TypeOK
<1> QED BY <1>1, <1>2, MoreTurns DEF TakeNext, ServeTop

LEMMA WorkingThen ==
  ASSUME thr' \in [Threads -> Records]
  PROVE  \A i \in Threads : i \in Working' <=> thr'[i].pc \in Serve
BY DEF Working, Records, Pcs, Serve

-----------------------------------------------------------------------------
(* Who serves *)

LEMMA ServingNext ==
  ASSUME Inv, Next
  PROVE  Serving'
<1>1. TypeOK /\ Serving
  BY DEF Inv
<1>2. /\ \A i \in Threads : i \in Working <=> thr[i].pc \in Serve
      /\ Working \subseteq Threads /\ Working' \subseteq Threads
  BY <1>1, ThreadsTyped DEF Working
<1>3. ASSUME NEW p \in Pipelines, Aside(p) PROVE Serving'
  BY <1>1, <1>3, AsideStep DEF Serving, Working, At
<1>4. ASSUME NEW p \in Pipelines, MainPost(p) PROVE Serving'
  <2>1. CASE mHasProcessThread
    BY <1>1, <1>4, <2>1, PostStep DEF Serving, Working, At
  <2>2. CASE ~mHasProcessThread
    <3> DEFINE n == started + 1
    <3>1. /\ n \in Threads /\ started' = n /\ thr[n].pc = "new" /\ mPipeline' = p
          /\ Turn(n, "fetch", thr[n].p, thr[n].ok) /\ mHasProcessThread' = TRUE
      BY <1>4, <2>2, PostStep
    <3>2. Working = {} /\ started \in Nat
      BY <1>1, <2>2, NumbersTyped DEF Serving
    <3>3. Working' = {n}
      <4>1. \A j \in Threads : j \in Working' <=> thr'[j].pc \in Serve
        BY <3>1, WorkingThen DEF Turn
      <4> QED BY <1>2, <3>1, <3>2, <4>1 DEF Turn, Serve
    <3>4. \A j \in Threads : At(j, "new")' <=> j > n
      <4>1. \A j \in Threads : j \in Nat
        BY NumberOfThreads
      <4> QED BY <1>1, <3>1, <3>2, <4>1 DEF Serving, At, Turn
    <3>5. p # NoPipeline /\ thr'[n].pc = "fetch"
      BY <3>1, NodeAssumption DEF Turn
    <3> QED BY <3>1, <3>3, <3>4, <3>5 DEF Serving
  <2> QED BY <2>1, <2>2
<1>5. ASSUME NEW p \in Pipelines, DetachedNotify(p) PROVE Serving'
  <2>1. Working' = Working
    BY <1>1, <1>2, <1>5, WakeStep, WorkingThen DEF At, Serve
  <2> QED BY <1>1, <1>2, <1>5, <2>1, WakeStep DEF Serving, At, nodeVars
<1>6. ASSUME NEW i \in Threads, Within(i) PROVE Serving'
  <2>1. Working' = Working /\ i \in Working
    BY <1>1, <1>2, <1>6, WithinStep, WorkingThen
  <2>2. \A j \in Threads : At(j, "new")' <=> At(j, "new")
    BY <1>1, <1>6, WithinStep DEF At, Serve
  <2>3. \A j \in Working : thr'[j].pc # "fetch" => thr'[j].p = mPipeline
    BY <1>1, <1>2, <1>6, <2>1, WithinStep DEF Serving
  <2> QED BY <1>1, <1>6, <2>1, <2>2, <2>3, WithinStep DEF Serving
<1>7. ASSUME NEW i \in Threads, NotifyDone(i) PROVE Serving'
  <2>1. thr[i].pc = "notifying" /\ Turn(i, "next", thr[i].p, thr[i].ok) /\ UNCHANGED nodeVars
    BY <1>1, <1>7, MoreTurns DEF NotifyDone
  <2>2. Working' = Working
    BY <1>2, <2>1, WorkingThen DEF Turn, Serve
  <2> QED BY <1>1, <1>2, <2>1, <2>2 DEF Serving, At, Turn, nodeVars
<1>8. ASSUME NEW i \in Threads, TakeNext(i) PROVE Serving'
  <2>1. thr[i].pc = "next" /\ i \in Working /\ started' = started
    BY <1>1, <1>2, <1>8, TakeStep DEF Serve
  <2>2. Working = {i} /\ mHasProcessThread
    BY <1>1, <1>2, <2>1 DEF Serving
  <2>3. CASE mPipeline' \in mRequestQueue /\ Turn(i, "fetch", thr[i].p, thr[i].ok)
             /\ UNCHANGED mHasProcessThread
    <3>1. Working' = {i}
      BY <1>2, <2>1, <2>2, <2>3, WorkingThen DEF Turn, Serve
    <3>2. mPipeline' # NoPipeline
      BY <1>1, <2>3, NodeAssumption DEF TypeOK
    <3> QED BY <1>1, <2>1, <2>2, <2>3, <3>1, <3>2 DEF Serving, At, Turn
  <2>4. CASE mRequestQueue' = {} /\ mPipeline' = NoPipeline /\ mHasProcessThread' = FALSE
             /\ Turn(i, "leaving", thr[i].p, thr[i].ok)
    <3>1. Working' = {}
      BY <1>2, <2>1, <2>2, <2>4, WorkingThen DEF Turn, Serve
    <3> QED BY <1>1, <2>1, <2>4, <3>1 DEF Serving, At, Turn
  <2> QED BY <1>8, <2>3, <2>4, TakeStep
<1>9. ASSUME NEW i \in Threads, ThreadGone(i) PROVE Serving'
  <2>1. thr[i].pc = "leaving" /\ Turn(i, "gone", thr[i].p, thr[i].ok)
        /\ UNCHANGED <<mRequestQueue, mPipeline, mHasProcessThread, started>>
    BY <1>1, <1>9, MoreTurns DEF ThreadGone
  <2>2. Working' = Working
    BY <1>2, <2>1, WorkingThen DEF Turn, Serve
  <2> QED BY <1>1, <1>2, <2>1, <2>2 DEF Serving, At, Turn, Serve
<1> QED BY <1>3, <1>4, <1>5, <1>6, <1>7, <1>8, <1>9, Steps

-----------------------------------------------------------------------------
(* The counts *)

LEMMA CountingNext ==
  ASSUME Inv, Next
  PROVE  Counting'
<1>1. TypeOK /\ Counting /\ Serving
  BY DEF Inv
<1>2. /\ Present \subseteq Threads /\ \A i \in Threads : i \in Present <=> thr[i].pc \notin {"new", "gone"}
      /\ Present' \subseteq Threads /\ \A i \in Threads : i \in Present' <=> thr'[i].pc \notin {"new", "gone"}
  BY DEF Present
<1>3. ASSUME NEW p \in Pipelines, Aside(p) PROVE Counting'
  BY <1>1, <1>3, AsideStep DEF Counting, Present
<1>4. ASSUME NEW p \in Pipelines, MainPost(p) PROVE Counting'
  <2>1. /\ Posted \subseteq Pipelines /\ Posted' \subseteq Pipelines
        /\ Cardinality(Posted') \in Nat /\ started \in Nat
    BY <1>1, SetsFinite, NumbersTyped DEF Posted
  <2>2. CASE mHasProcessThread
    <3>1. UNCHANGED <<mNodeThreadNum, started, thr>> /\ started + 1 <= Cardinality(Posted')
      BY <1>4, <2>2, PostStep
    <3>2. started' <= Cardinality(Posted')
      BY <2>1, <3>1
    <3> QED BY <1>1, <3>1, <3>2 DEF Counting, Present
  <2>3. CASE ~mHasProcessThread
    <3> DEFINE n == started + 1
    <3>1. /\ n \in Threads /\ thr[n].pc = "new" /\ started' = n /\ mNodeThreadNum' = mNodeThreadNum + 1
          /\ Turn(n, "fetch", thr[n].p, thr[n].ok) /\ n <= Cardinality(Posted')
      BY <1>4, <2>3, PostStep
    <3>2. Present' = Present \cup {n} /\ n \notin Present
      BY <1>2, <3>1 DEF Turn
    <3>3. Cardinality(Present') = Cardinality(Present) + 1
      BY <1>2, <3>2, OneMore
    <3> QED BY <1>1, <3>1, <3>3 DEF Counting
  <2> QED BY <2>2, <2>3
<1>5. ASSUME NEW p \in Pipelines, DetachedNotify(p) PROVE Counting'
  <2>1. Present' = Present
    BY <1>1, <1>2, <1>5, WakeStep DEF At
  <2> QED BY <1>1, <1>5, <2>1, WakeStep DEF Counting, nodeVars, Posted
<1>6. ASSUME NEW i \in Threads, Within(i) PROVE Counting'
  <2>1. Present' = Present
    <3>1. thr[i].pc \notin {"new", "gone"} /\ thr'[i].pc \notin {"new", "gone"}
      BY <1>1, <1>6, WithinStep DEF Serve
    <3>2. \A j \in Threads : j # i => thr'[j] = thr[j]
      BY <1>1, <1>6, WithinStep
    <3>3. \A j \in Threads : j \in Present' <=> j \in Present
      BY <1>2, <3>1, <3>2
    <3> QED BY <1>2, <3>3
  <2>2. UNCHANGED <<mNodeThreadNum, started, main>>
    BY <1>1, <1>6, WithinStep
  <2> QED BY <1>1, <2>1, <2>2 DEF Counting, Posted
<1>7. ASSUME NEW i \in Threads, NotifyDone(i) PROVE Counting'
  <2>1. thr[i].pc = "notifying" /\ Turn(i, "next", thr[i].p, thr[i].ok) /\ UNCHANGED <<nodeVars, main>>
    BY <1>1, <1>7, MoreTurns DEF NotifyDone
  <2>2. Present' = Present
    BY <1>2, <2>1 DEF Turn
  <2> QED BY <1>1, <2>1, <2>2 DEF Counting, Posted, nodeVars
<1>8. ASSUME NEW i \in Threads, TakeNext(i) PROVE Counting'
  <2>1. /\ thr[i].pc = "next" /\ \E l \in {"fetch", "leaving"} : Turn(i, l, thr[i].p, thr[i].ok)
        /\ UNCHANGED <<mNodeThreadNum, started, main>>
    BY <1>1, <1>8, TakeStep
  <2>2. Present' = Present
    BY <1>2, <2>1 DEF Turn
  <2> QED BY <1>1, <2>1, <2>2 DEF Counting, Posted
<1>9. ASSUME NEW i \in Threads, ThreadGone(i) PROVE Counting'
  <2>1. /\ thr[i].pc = "leaving" /\ Turn(i, "gone", thr[i].p, thr[i].ok)
        /\ mNodeThreadNum' = mNodeThreadNum - 1 /\ UNCHANGED <<started, main>>
    BY <1>1, <1>9, MoreTurns DEF ThreadGone
  <2>2. Present' = Present \ {i} /\ i \in Present
    BY <1>2, <2>1 DEF Turn
  <2>3. Cardinality(Present') = Cardinality(Present) - 1
    BY <1>2, <2>2, OneLess
  <2> QED BY <1>1, <2>1, <2>3 DEF Counting, Posted
<1> QED BY <1>3, <1>4, <1>5, <1>6, <1>7, <1>8, <1>9, Steps

-----------------------------------------------------------------------------
(* Answers *)

LEMMA AnsweredNext ==
  ASSUME Inv, Next
  PROVE  Answered'
<1>1. TypeOK /\ Serving /\ Answered
  BY DEF Inv
<1>2. /\ \A i \in Threads : i \in Working <=> thr[i].pc \in Serve
      /\ Posted \subseteq Pipelines /\ NoPipeline \notin Pipelines
      /\ notified \in [Pipelines -> Nat]
  BY <1>1, ThreadsTyped, NodeAssumption DEF Posted, TypeOK
<1>3. ASSUME NEW p \in Pipelines, Aside(p) PROVE Answered'
  BY <1>1, <1>3, AsideStep DEF Answered, Unserved, At
<1>4. ASSUME NEW p \in Pipelines, MainPost(p) PROVE Answered'
  <2>1. p \notin Posted /\ Posted' = Posted \cup {p} /\ notified' = notified /\ p # NoPipeline
    BY <1>2, <1>4, PostStep DEF pipeVars
  <2>2. CASE mHasProcessThread
    <3>1. mRequestQueue' = mRequestQueue \cup {p} /\ UNCHANGED <<mPipeline, thr>>
      BY <1>4, <2>2, PostStep
    <3> QED BY <1>1, <1>2, <2>1, <3>1 DEF Answered, Unserved, At
  <2>3. CASE ~mHasProcessThread
    <3>1. /\ mPipeline = NoPipeline /\ mRequestQueue = {} /\ mPipeline' = p /\ mRequestQueue' = {}
          /\ Turn(started + 1, "fetch", thr[started + 1].p, thr[started + 1].ok)
          /\ started + 1 \in Threads
      BY <1>4, <2>3, PostStep
    <3>2. \A i \in Threads : ~At(i, "next")
      BY <1>1, <1>2, <2>3 DEF Serving, At, Serve
    <3>3. \A i \in Threads : ~At(i, "next")'
      BY <3>1, <3>2 DEF At, Turn
    <3> QED BY <1>1, <1>2, <2>1, <3>1, <3>3 DEF Answered, Unserved
  <2> QED BY <2>2, <2>3
<1>5. ASSUME NEW p \in Pipelines, DetachedNotify(p) PROVE Answered'
  <2>1. \A i \in Threads : At(i, "next")' <=> At(i, "next")
    BY <1>1, <1>5, WakeStep DEF At
  <2> QED BY <1>1, <1>5, <2>1, WakeStep DEF Answered, Unserved, Posted, nodeVars, pipeVars
<1>6. ASSUME NEW i \in Threads, Within(i) PROVE Answered'
  <2>1. \A j \in Threads : At(j, "next")' <=> At(j, "next")
    BY <1>1, <1>6, WithinStep DEF At
  <2> QED BY <1>1, <1>6, <2>1, WithinStep DEF Answered, Unserved, Posted
<1>7. ASSUME NEW i \in Threads, NotifyDone(i) PROVE Answered'
  <2>1. /\ thr[i].pc = "notifying" /\ Turn(i, "next", thr[i].p, thr[i].ok) /\ UNCHANGED <<nodeVars, main>>
        /\ notified' = [notified EXCEPT ![thr[i].p] = notified[thr[i].p] + 1]
    BY <1>1, <1>7, MoreTurns DEF NotifyDone
  <2>2. \A j \in Threads : ~At(j, "next")
    BY <1>1, <1>2, <2>1 DEF Serving, At, Serve
  <2>3. thr[i].p = mPipeline /\ mPipeline \in Posted \ mRequestQueue
    BY <1>1, <1>2, <2>1 DEF Serving, Answered, Serve
  <2>4. At(i, "next")'
    BY <2>1 DEF At, Turn
  <2>5. UNCHANGED <<mRequestQueue, mPipeline>> /\ Posted' = Posted
    BY <2>1 DEF nodeVars, Posted
  <2>6. notified[mPipeline] = 0
    BY <1>1, <1>2, <2>2, <2>3 DEF Answered
  <2>7. \A q \in Pipelines : notified'[q] = IF q = mPipeline THEN 1 ELSE notified[q]
    BY <1>2, <2>1, <2>3, <2>6
  <2>8. \A q \in Pipelines : Unserved(q)' <=> Unserved(q)
    BY <2>5 DEF Unserved
  <2> QED BY <1>1, <2>2, <2>3, <2>4, <2>5, <2>7, <2>8 DEF Answered, Unserved
<1>8. ASSUME NEW i \in Threads, TakeNext(i) PROVE Answered'
  <2>1. /\ thr[i].pc = "next" /\ Posted' = Posted /\ notified' = notified
        /\ \E l \in {"fetch", "leaving"} : Turn(i, l, thr[i].p, thr[i].ok)
    BY <1>1, <1>8, TakeStep DEF Posted, pipeVars
  <2>2. \A j \in Threads : At(j, "next") => j = i
    BY <1>1, <1>2, <2>1 DEF Serving, At, Serve
  <2>3. \A j \in Threads : ~At(j, "next")'
    BY <2>1, <2>2 DEF At, Turn
  <2>4. mPipeline \in Posted \ mRequestQueue
    BY <1>1, <1>2, <2>1 DEF Serving, Answered, Serve
  <2>5. notified[mPipeline] = 1
    BY <1>1, <1>2, <2>1, <2>4 DEF Answered, Unserved, At
  <2>6. CASE mPipeline' \in mRequestQueue /\ mRequestQueue' = mRequestQueue \ {mPipeline'}
    BY <1>1, <1>2, <2>1, <2>3, <2>4, <2>5, <2>6 DEF Answered, Unserved
  <2>7. CASE mRequestQueue = {} /\ mRequestQueue' = {} /\ mPipeline' = NoPipeline
    BY <1>1, <1>2, <2>1, <2>3, <2>4, <2>5, <2>7 DEF Answered, Unserved
  <2> QED BY <1>8, <2>6, <2>7, TakeStep
<1>9. ASSUME NEW i \in Threads, ThreadGone(i) PROVE Answered'
  <2>1. thr[i].pc = "leaving" /\ Turn(i, "gone", thr[i].p, thr[i].ok)
        /\ UNCHANGED <<mRequestQueue, mPipeline, notified, main>>
    BY <1>1, <1>9, MoreTurns DEF ThreadGone, pipeVars
  <2>2. \A j \in Threads : At(j, "next")' <=> At(j, "next")
    BY <2>1 DEF At, Turn
  <2> QED BY <1>1, <2>1, <2>2 DEF Answered, Unserved, Posted
<1> QED BY <1>3, <1>4, <1>5, <1>6, <1>7, <1>8, <1>9, Steps

-----------------------------------------------------------------------------
(* The gate *)

LEMMA QuickHolds ==
  \A p \in Pipelines : /\ Quick(p) # Free
                       /\ \A q \in Pipelines : Quick(p) = Quick(q) => p = q
<1>1. \A p \in Pipelines : Quick(p) \in Holders
  BY DEF Quick, Holders
<1> QED BY <1>1, FreeAssumption DEF Quick

\* What Gated says of a node whose threads come and go outside the plugin.
LEMMA GatedOutside ==
  ASSUME Gated,
         \A i \in Threads : InPlugin(i)' <=> InPlugin(i),
         \A i \in Threads : InPlugin(i) => thr'[i].p = thr[i].p,
         (\E i \in Threads : InPlugin(i)) => mPipeline' = mPipeline,
         UNCHANGED <<mInPluginThreadNum, mQuickFinishMux, qf>>,
         \A p \in Pipelines : \/ det'[p] = det[p] 
                              \/ det[p] = "flush" /\ det'[p] = "count"
                              \/ det[p] = "notify" /\ det'[p] = "gone"
  PROVE  Gated'
<1>1. Flushing' = Flushing
  BY DEF Flushing
<1>2. mQuickFinishMux # Free => \E i \in Threads : InPlugin(i)
  BY DEF Gated
<1>3. \A p \in Pipelines : qf[p] = "match" => mPipeline' = p
  <2>1. \A p \in Pipelines : qf[p] = "match" => mQuickFinishMux # Free
    BY QuickHolds DEF Gated
  <2> QED BY <1>2, <2>1 DEF Gated
<1>4. Flushing' = {} => mInPluginThreadNum' = IF \E i \in Threads : InPlugin(i)' THEN 1 ELSE 0
  BY <1>1 DEF Gated
<1>5. \A p \in Flushing' : mInPluginThreadNum' = 2 /\ \E i \in Threads : InPlugin(i)' /\ thr'[i].p = p
  BY <1>1 DEF Gated
<1>6. \A p \in Pipelines : det'[p] # "none" => qf'[p] # "none"
  BY DEF Gated
<1> QED BY <1>1, <1>3, <1>4, <1>5, <1>6 DEF Gated

LEMMA GatedAside ==
  ASSUME Inv, NEW p \in Pipelines, Aside(p)
  PROVE  Gated'
<1>1. TypeOK /\ Serving /\ Gated
  BY DEF Inv
<1>2. /\ qf \in [Pipelines -> {"none", "forced", "mux", "name", "match", "done"}]
      /\ det \in [Pipelines -> {"none", "flush", "count", "notify", "gone"}]
  BY <1>1 DEF TypeOK
<1>3. UNCHANGED <<mPipeline, thr>> /\ \A i \in Threads : InPlugin(i)' <=> InPlugin(i)
  BY <1>1, AsideStep DEF InPlugin
<1>4. mQuickFinishMux # Free => \E i \in Threads : InPlugin(i)
  BY <1>1 DEF Gated
<1>5. CASE MainLock(p) \/ MainRecord(p)
  BY <1>1, <1>3, <1>5, GatedOutside DEF MainLock, MainRecord, pipeVars
<1>6. CASE Expedite(p)
  <2>1. UNCHANGED <<mInPluginThreadNum, mQuickFinishMux, qf, det>> /\ Flushing' = Flushing
    BY <1>6 DEF Expedite, lockVars, Flushing
  <2> QED BY <1>1, <1>2, <1>3, <2>1 DEF Gated
<1>7. CASE ForceFlush(p)
  <2>1. /\ UNCHANGED <<mInPluginThreadNum, mQuickFinishMux, det>> /\ Flushing' = Flushing
        /\ qf[p] = "none" /\ qf' = [qf EXCEPT ![p] = "forced"]
    BY <1>7 DEF ForceFlush, lockVars, Flushing
  <2> QED BY <1>1, <1>2, <1>3, <2>1 DEF Gated
<1>8. CASE QuickRecord(p)
  <2>1. /\ UNCHANGED <<mInPluginThreadNum, mQuickFinishMux, det>> /\ Flushing' = Flushing
        /\ qf[p] = "forced" /\ \E l \in {"mux", "done"} : qf' = [qf EXCEPT ![p] = l]
    BY <1>8 DEF QuickRecord, pipeVars, Flushing
  <2> QED BY <1>1, <1>2, <1>3, <2>1 DEF Gated
<1>9. CASE QuickMux(p)
  <2>1. /\ UNCHANGED <<mInPluginThreadNum, det>> /\ Flushing' = Flushing
        /\ qf[p] = "mux" /\ mQuickFinishMux = Free
    BY <1>9 DEF QuickMux, pipeVars, Flushing
  <2>2. CASE OneInPlugin
    <3>1. mQuickFinishMux' = Quick(p) /\ qf' = [qf EXCEPT ![p] = "name"] /\ mInPluginThreadNum = 1
      BY <1>9, <2>2 DEF QuickMux, OneInPlugin
    <3>2. Flushing = {}
      BY <1>1, <3>1 DEF Gated
    <3> QED BY <1>1, <1>2, <1>3, <2>1, <3>1, <3>2, QuickHolds DEF Gated
  <2>3. CASE ~OneInPlugin
    <3>1. mQuickFinishMux' = mQuickFinishMux /\ qf' = [qf EXCEPT ![p] = "done"]
      BY <1>9, <2>3 DEF QuickMux
    <3> QED BY <1>1, <1>2, <1>3, <2>1, <3>1 DEF Gated
  <2> QED BY <2>2, <2>3
<1>10. CASE QuickName(p)
  <2>1. /\ UNCHANGED <<mInPluginThreadNum, det>> /\ Flushing' = Flushing
        /\ qf[p] = "name"
    BY <1>10 DEF QuickName, pipeVars, Flushing
  <2>2. CASE IsCurrentPipeline(p)
    <3>1. mQuickFinishMux' = mQuickFinishMux /\ qf' = [qf EXCEPT ![p] = "match"] /\ mPipeline = p
      BY <1>10, <2>2 DEF QuickName, IsCurrentPipeline
    <3> QED BY <1>1, <1>2, <1>3, <2>1, <3>1 DEF Gated
  <2>3. CASE ~IsCurrentPipeline(p)
    <3>1. mQuickFinishMux' = Free /\ qf' = [qf EXCEPT ![p] = "done"]
      BY <1>10, <2>3 DEF QuickName
    <3> QED BY <1>1, <1>2, <1>3, <2>1, <3>1, QuickHolds DEF Gated
  <2> QED BY <2>2, <2>3
<1>11. CASE QuickSpawn(p)
  <2>1. /\ mInPluginThreadNum' = mInPluginThreadNum + 1
        /\ qf[p] = "match" /\ mQuickFinishMux' = Free
        /\ det' = [det EXCEPT ![p] = "flush"] /\ qf' = [qf EXCEPT ![p] = "done"]
    BY <1>11 DEF QuickSpawn, CountIn, pipeVars
  <2>2. mQuickFinishMux = Quick(p) /\ mQuickFinishMux # Free /\ mPipeline = p
    BY <1>1, <2>1, QuickHolds DEF Gated
  <2>3. Flushing = {} /\ mInPluginThreadNum = 1
    BY <1>1, <2>2 DEF Gated
  <2>4. Flushing' = {p}
    BY <1>2, <2>1, <2>3 DEF Flushing
  <2>5. PICK i \in Threads : InPlugin(i)
    BY <1>4, <2>2
  <2>6. InPlugin(i)' /\ thr'[i].p = p
    <3>1. i \in Working /\ thr[i].pc # "fetch"
      BY <2>5 DEF InPlugin, Working
    <3> QED BY <1>1, <1>3, <2>2, <2>5, <3>1 DEF Serving
  <2>7. \A q \in Pipelines : qf'[q] \notin {"name", "match"}
    BY <1>1, <1>2, <2>1, <2>2, QuickHolds DEF Gated
  <2>8. mInPluginThreadNum' = 2
    BY <2>1, <2>3
  <2>9. \A q \in Pipelines : Quick(q) # Free
    BY QuickHolds
  <2>10. \A q \in Pipelines : det'[q] # "none" => qf'[q] # "none"
    BY <1>1, <1>2, <2>1 DEF Gated
  <2> QED BY <2>1, <2>4, <2>6, <2>7, <2>8, <2>9, <2>10 DEF Gated
<1>12. CASE DetachedFlush(p)
  <2>1. det[p] = "flush" /\ det' = [det EXCEPT ![p] = "count"]
        /\ UNCHANGED <<mInPluginThreadNum, mQuickFinishMux, qf>>
    BY <1>12 DEF DetachedFlush, pipeVars, lockVars
  <2>2. \A q \in Pipelines : det'[q] = det[q] \/ (det[q] = "flush" /\ det'[q] = "count")
    BY <1>2, <2>1
  <2> QED BY <1>1, <1>3, <2>1, <2>2, GatedOutside
<1>13. CASE DetachedCount(p)
  <2>1. det[p] = "count" /\ det' = [det EXCEPT ![p] = "notify"]
        /\ mInPluginThreadNum' = mInPluginThreadNum - 1
        /\ UNCHANGED <<mQuickFinishMux, qf>>
    BY <1>13 DEF DetachedCount, CountOut, pipeVars, lockVars
  <2>2. p \in Flushing
    BY <2>1 DEF Flushing
  <2>3. mInPluginThreadNum = 2 /\ mQuickFinishMux = Free /\ \E i \in Threads : InPlugin(i)
    BY <1>1, <2>2 DEF Gated
  <2>4. Flushing' = {}
    <3>1. \A q \in Pipelines : q \in Flushing => q = p
      BY <1>1, <2>2 DEF Gated
    <3> QED BY <1>2, <2>1, <3>1 DEF Flushing
  <2>5. mInPluginThreadNum' = 1 /\ \E i \in Threads : InPlugin(i)'
    BY <1>3, <2>1, <2>3
  <2>6. \A q \in Pipelines : det'[q] # "none" => qf'[q] # "none"
    BY <1>1, <1>2, <2>1 DEF Gated
  <2>7. \A q \in Pipelines : qf[q] \notin {"name", "match"} /\ Quick(q) # Free
    BY <1>1, <2>3, QuickHolds DEF Gated
  <2> QED BY <2>1, <2>3, <2>4, <2>5, <2>6, <2>7 DEF Gated
<1> QED BY <1>5, <1>6, <1>7, <1>8, <1>9, <1>10, <1>11, <1>12, <1>13 DEF Aside, quickFinish

LEMMA GatedWithin ==
  ASSUME Inv, NEW i \in Threads, Within(i)
  PROVE  Gated'
<1>1. TypeOK /\ Serving /\ Gated
  BY DEF Inv
<1>2. UNCHANGED <<mPipeline, mQuickFinishMux, qf, det>> /\ Flushing' = Flushing
  BY <1>1, WithinStep DEF Flushing
<1>3. /\ \A j \in Threads : j # i => thr'[j] = thr[j]
      /\ \A j \in Threads : InPlugin(j) => thr[j].p = mPipeline
      /\ \A j \in Threads : InPlugin(j) => j = i
  <2>1. i \in Working /\ \A j \in Threads : InPlugin(j) => j \in Working /\ thr[j].pc # "fetch"
    BY <1>1, WithinStep, ThreadsTyped DEF InPlugin, Serve
  <2> QED BY <1>1, <2>1, WithinStep DEF Serving
<1>4. CASE CallPlugin(i)
  <2>1. thr[i].pc = "call" /\ Turn(i, "plugin", thr[i].p, thr[i].ok)
        /\ mInPluginThreadNum' = mInPluginThreadNum + 1
    BY <1>1, <1>4, Turns DEF CallPlugin, CountIn
  <2>2. \A j \in Threads : ~InPlugin(j)
    BY <1>3, <2>1 DEF InPlugin
  <2>3. Flushing = {} /\ mInPluginThreadNum = 0
    BY <1>1, <2>2 DEF Gated
  <2>4. InPlugin(i)' /\ mInPluginThreadNum' = 1
    BY <2>1, <2>3 DEF InPlugin, Turn
  <2> QED BY <1>1, <1>2, <2>3, <2>4 DEF Gated
<1>5. CASE PassGate(i)
  <2>1. /\ thr[i].pc = "gate" /\ mQuickFinishMux = Free
        /\ Turn(i, IF GateOpen(mInPluginThreadNum) THEN "left" ELSE "asleep", thr[i].p, thr[i].ok)
        /\ mInPluginThreadNum' = IF mInPluginThreadNum = 1 THEN 0 ELSE mInPluginThreadNum
    <3>1. mQuickFinishMux = Free /\ mInPluginThreadNum' = Decremented(mInPluginThreadNum)
      BY <1>5 DEF PassGate, EvaluateGate
    <3>2. mInPluginThreadNum' = IF mInPluginThreadNum = 1 THEN 0 ELSE mInPluginThreadNum
      BY <3>1 DEF Decremented
    <3> QED BY <1>1, <1>5, <3>1, <3>2, Turns
  <2>2. InPlugin(i)
    BY <2>1 DEF InPlugin
  <2>3. CASE Flushing = {}
    <3>1. mInPluginThreadNum = 1
      BY <1>1, <2>2, <2>3 DEF Gated
    <3>2. Turn(i, "left", thr[i].p, thr[i].ok) /\ mInPluginThreadNum' = 0
      BY <2>1, <3>1 DEF GateOpen, Decremented
    <3>3. \A j \in Threads : ~InPlugin(j)'
      BY <1>3, <3>2 DEF InPlugin, Turn
    <3> QED BY <1>1, <1>2, <2>1, <2>3, <3>2, <3>3 DEF Gated
  <2>4. CASE Flushing # {}
    <3>1. mInPluginThreadNum = 2
      BY <1>1, <2>4 DEF Gated
    <3>2. Turn(i, "asleep", thr[i].p, thr[i].ok) /\ mInPluginThreadNum' = mInPluginThreadNum
      BY <2>1, <3>1 DEF GateOpen, Decremented
    <3>3. \A j \in Threads : (InPlugin(j)' <=> InPlugin(j)) /\ thr'[j].p = thr[j].p
      BY <1>3, <2>2, <3>2 DEF InPlugin, Turn
    <3> QED BY <1>1, <1>2, <3>2, <3>3, GatedOutside
  <2> QED BY <2>3, <2>4
<1>6. CASE PluginReturns(i) \/ SpuriousWakeup(i)
  <2>1. mInPluginThreadNum' = mInPluginThreadNum
    BY <1>6 DEF PluginReturns, SpuriousWakeup
  <2>2. InPlugin(i) /\ \E b : Turn(i, "gate", thr[i].p, b)
    BY <1>1, <1>6, Turns, MoreTurns DEF InPlugin
  <2>3. \A j \in Threads : (InPlugin(j)' <=> InPlugin(j)) /\ thr'[j].p = thr[j].p
    BY <2>2 DEF InPlugin, Turn
  <2> QED BY <1>1, <1>2, <2>1, <2>3, GatedOutside
<1>7. CASE ~(CallPlugin(i) \/ PassGate(i) \/ PluginReturns(i) \/ SpuriousWakeup(i))
  <2>1. mInPluginThreadNum' = mInPluginThreadNum
    BY <1>7 DEF Within, Fetch, TaskEffective, GetOutputFails, FlushTask, ExpeditedInputFails,
                Leave, ReleaseLock, ReleaseFrame, NotifyRecord
  <2>2. ~InPlugin(i) /\ ~InPlugin(i)'
    <3>1. CASE Fetch(i) \/ TaskEffective(i) \/ GetOutputFails(i) \/ FlushTask(i)
                 \/ ExpeditedInputFails(i)
      BY <1>1, <3>1, Turns DEF InPlugin, Turn
    <3>2. CASE Leave(i) \/ ReleaseLock(i) \/ ReleaseFrame(i) \/ NotifyRecord(i)
      BY <1>1, <3>2, MoreTurns DEF InPlugin, Turn
    <3> QED BY <1>7, <3>1, <3>2 DEF Within
  <2>3. \A j \in Threads : ~InPlugin(j) /\ ~InPlugin(j)'
    BY <1>3, <2>2 DEF InPlugin
  <2> QED BY <1>1, <1>2, <2>1, <2>3, GatedOutside
<1> QED BY <1>4, <1>5, <1>6, <1>7

LEMMA GatedNext ==
  ASSUME Inv, Next
  PROVE  Gated'
<1>1. TypeOK /\ Serving /\ Gated
  BY DEF Inv
<1>2. \A i \in Threads : i \in Working <=> thr[i].pc \in Serve
  BY <1>1, ThreadsTyped
<1>3. ASSUME NEW p \in Pipelines, MainPost(p) PROVE Gated'
  <2>1. UNCHANGED <<mInPluginThreadNum, mQuickFinishMux, qf, det>>
    BY <1>3, PostStep DEF lockVars, pipeVars
  <2>2. CASE mHasProcessThread
    <3>1. UNCHANGED <<mPipeline, thr>>
      BY <1>3, <2>2, PostStep
    <3> QED BY <1>1, <2>1, <3>1, GatedOutside DEF InPlugin
  <2>3. CASE ~mHasProcessThread
    <3>1. Turn(started + 1, "fetch", thr[started + 1].p, thr[started + 1].ok)
      BY <1>3, <2>3, PostStep
    <3>2. \A i \in Threads : ~InPlugin(i)
      BY <1>1, <1>2, <2>3 DEF Serving, InPlugin, Serve
    <3>3. \A i \in Threads : ~InPlugin(i)'
      BY <3>1, <3>2 DEF InPlugin, Turn
    <3> QED BY <1>1, <2>1, <3>2, <3>3, GatedOutside
  <2> QED BY <2>2, <2>3
<1>4. ASSUME NEW p \in Pipelines, DetachedNotify(p) PROVE Gated'
  <2>1. UNCHANGED <<mInPluginThreadNum, mQuickFinishMux, qf, mPipeline>>
    BY <1>1, <1>4, WakeStep DEF lockVars, pipeVars, nodeVars
  <2>2. \A i \in Threads : (InPlugin(i)' <=> InPlugin(i)) /\ thr'[i].p = thr[i].p
    BY <1>1, <1>4, WakeStep DEF InPlugin, At
  <2>3. \A q \in Pipelines : det'[q] = det[q] \/ (det[q] = "notify" /\ det'[q] = "gone")
    <3>1. det \in [Pipelines -> {"none", "flush", "count", "notify", "gone"}]
      BY <1>1 DEF TypeOK
    <3> QED BY <1>4, <3>1 DEF DetachedNotify
  <2> QED BY <1>1, <2>1, <2>2, <2>3, GatedOutside
<1>5. ASSUME NEW i \in Threads, NotifyDone(i) \/ TakeNext(i) PROVE Gated'
  <2>1. /\ thr[i].pc \in {"notifying", "next"}
        /\ \E l \in {"next", "fetch", "leaving"} : Turn(i, l, thr[i].p, thr[i].ok)
        /\ UNCHANGED <<mInPluginThreadNum, mQuickFinishMux, qf, det>>
    <3>1. CASE NotifyDone(i)
      BY <1>1, <3>1, MoreTurns DEF NotifyDone, lockVars
    <3>2. CASE TakeNext(i)
      BY <3>2, TakeStep DEF lockVars, pipeVars
    <3> QED BY <1>5, <3>1, <3>2
  <2>2. \A j \in Threads : ~InPlugin(j)
    BY <1>1, <1>2, <2>1 DEF Serving, InPlugin, Serve
  <2>3. \A j \in Threads : ~InPlugin(j)'
    BY <2>1, <2>2 DEF InPlugin, Turn
  <2> QED BY <1>1, <2>1, <2>2, <2>3, GatedOutside
<1>6. ASSUME NEW i \in Threads, ThreadGone(i) PROVE Gated'
  <2>1. /\ thr[i].pc = "leaving" /\ Turn(i, "gone", thr[i].p, thr[i].ok)
        /\ UNCHANGED <<mInPluginThreadNum, mQuickFinishMux, qf, det, mPipeline>>
    BY <1>1, <1>6, MoreTurns DEF ThreadGone, lockVars, pipeVars
  <2>2. \A j \in Threads : (InPlugin(j)' <=> InPlugin(j)) /\ thr'[j].p = thr[j].p
    BY <2>1 DEF InPlugin, Turn
  <2> QED BY <1>1, <2>1, <2>2, GatedOutside
<1> QED BY <1>3, <1>4, <1>5, <1>6, GatedAside, GatedWithin, Steps

-----------------------------------------------------------------------------
(* What the plugin holds *)

LEMMA ServedPipeline ==
  ASSUME Inv, NEW i \in Threads, thr[i].pc \in Serve
  PROVE  /\ i \in Working /\ \A j \in Working : j = i
         /\ mPipeline \in Pipelines /\ ~Unserved(mPipeline)
         /\ thr[i].pc # "fetch" => thr[i].p = mPipeline
         /\ Collecting(i)
<1>1. TypeOK /\ Serving /\ Answered /\ Collected
  BY DEF Inv
<1>2. i \in Working
  BY <1>1, ThreadsTyped
<1>3. mPipeline # NoPipeline
  BY <1>1, <1>2 DEF Serving
<1>4. mPipeline \in Posted \ mRequestQueue
  BY <1>1, <1>3 DEF Answered
<1>5. mPipeline \in Pipelines /\ ~Unserved(mPipeline)
  BY <1>4 DEF Posted, Unserved
<1> QED BY <1>1, <1>2, <1>5 DEF Serving, Collected

\* A step within a request has to see to that request only.
LEMMA CollectedTurn ==
  ASSUME Inv, NEW i \in Threads, Within(i), Collecting(i)',
         \A q \in Pipelines : q # mPipeline => pluginFrames'[q] \in {0, pluginFrames[q]}
  PROVE  Collected'
<1>1. TypeOK /\ Collected
  BY DEF Inv
<1>2. thr[i].pc \in Serve /\ thr' \in [Threads -> Records] /\ thr'[i].pc \in Serve
      /\ \A j \in Threads : j # i => thr'[j] = thr[j]
  BY <1>1, WithinStep
<1>3. \A j \in Working : j = i
  BY <1>2, ServedPipeline
<1>4. Working' \subseteq {i} /\ i \in Working'
  <2>1. \A j \in Threads : j \in Working' <=> thr'[j].pc \in Serve
    BY <1>2, WorkingThen
  <2>2. \A j \in Threads : j # i => thr[j].pc \notin Serve
    BY <1>1, <1>3, ThreadsTyped
  <2>3. Working' \subseteq Threads
    BY DEF Working
  <2> QED BY <1>2, <2>1, <2>2, <2>3
<1>5. UNCHANGED <<mPipeline, mRequestQueue, main>>
  BY <1>1, WithinStep
<1>6. ~Unserved(mPipeline) /\ \A q \in Pipelines : Unserved(q)' <=> Unserved(q)
  BY <1>2, <1>5, ServedPipeline DEF Unserved, Posted
<1>7. \A q \in Pipelines : Unserved(q)' => pluginFrames'[q] = 0
  BY <1>1, <1>6 DEF Collected
<1>8. ~EveryFrameOutput => \A q \in Pipelines : q # mPipeline' => pluginFrames'[q] = 0
  BY <1>1, <1>5 DEF Collected
<1> QED BY <1>4, <1>7, <1>8 DEF Collected

LEMMA CollectedWithin ==
  ASSUME Inv, NEW i \in Threads, Within(i)
  PROVE  Collected'
<1>1. TypeOK
  BY DEF Inv
<1>2. /\ thr[i].pc \in Serve
      /\ thr[i].pc # "fetch" => thr[i].p = mPipeline
      /\ UNCHANGED <<mPipeline, qf>>
      /\ mPipeline \in Pipelines /\ Collecting(i)
  BY <1>1, WithinStep, ServedPipeline
<1>3. /\ mInputFrameNum \in Nat /\ mInputFrameNum <= Frames /\ Frames \in Nat /\ Frames > 0
      /\ pluginFrames[mPipeline] \in Nat /\ pluginFrames \in [Pipelines -> 0 .. Frames]
  BY <1>1, <1>2, NumbersTyped DEF TypeOK
<1>4. CASE Fetch(i) \/ TaskEffective(i) \/ ReleaseLock(i) \/ ReleaseFrame(i)
  <2>1. thr[i].pc \in {"fetch", "work", "release"} /\ thr'[i].pc \in {"work", "call", "release", "fetch"}
    BY <1>1, <1>4, Turns, MoreTurns DEF Turn
  <2>2. UNCHANGED <<mInputFrameNum, pluginFrames>>
    BY <1>4 DEF Fetch, TaskEffective, ReleaseLock, ReleaseFrame, nodeVars
  <2>3. Collecting(i)'
    BY <1>2, <2>1, <2>2 DEF Collecting, InHand
  <2> QED BY <2>2, <2>3, CollectedTurn
<1>5. CASE CallPlugin(i)
  <2>1. thr[i].pc = "call" /\ thr'[i].pc = "plugin"
    BY <1>1, <1>5, Turns DEF Turn
  <2>2. mInputFrameNum' = mInputFrameNum + 1 /\ pluginFrames' = pluginFrames
    BY <1>5 DEF CallPlugin
  <2>3. Collecting(i)'
    BY <1>2, <1>3, <2>1, <2>2 DEF Collecting, InHand
  <2> QED BY <2>2, <2>3, CollectedTurn
<1>6. CASE GetOutputFails(i)
  <2>1. thr[i].pc = "call" /\ thr'[i].pc = "notify"
    BY <1>1, <1>6, Turns DEF Turn
  <2>2. /\ mInputFrameNum' = 0 /\ pluginFrames' = pluginFrames
        /\ ~EveryFrameOutput => mInputFrameNum = 0
    BY <1>6 DEF GetOutputFails, NeedGetOutBufferThisTime
  <2>3. ~EveryFrameOutput => pluginFrames[mPipeline] = 0
    BY <1>2, <1>3, <2>1, <2>2 DEF Collecting, InHand
  <2>4. Collecting(i)'
    BY <1>2, <2>1, <2>2, <2>3 DEF Collecting, InHand
  <2> QED BY <2>2, <2>4, CollectedTurn
<1>7. CASE FlushTask(i) \/ ExpeditedInputFails(i)
  <2>1. thr[i].pc = "work" /\ thr'[i].pc = "notify"
    BY <1>1, <1>7, Turns DEF Turn
  <2>2. \A q \in Pipelines : pluginFrames'[q] \in {0, pluginFrames[q]}
    BY <1>3, <1>7 DEF FlushTask, ExpeditedInputFails
  <2>3. pluginFrames'[mPipeline] = 0
    <3>1. CASE mInputFrameNum > 0
      BY <1>2, <1>7, <3>1 DEF FlushTask, ExpeditedInputFails, PluginHasFrames
    <3>2. CASE mInputFrameNum = 0
      <4>1. pluginFrames[mPipeline] = 0
        BY <1>2, <1>3, <2>1, <3>2 DEF Collecting, InHand
      <4> QED BY <1>2, <2>2, <4>1
    <3> QED BY <1>3, <3>1, <3>2
  <2>4. Collecting(i)'
    BY <1>2, <2>1, <2>3 DEF Collecting, InHand
  <2> QED BY <2>2, <2>4, CollectedTurn
<1>8. CASE PluginReturns(i)
  <2>1. thr[i].pc = "plugin"
    BY <1>8 DEF PluginReturns, At
  <2>2. PICK b \in BOOLEAN :
          /\ thr' = [thr EXCEPT ![i].pc = "gate", ![i].ok = b]
          /\ pluginFrames' =
               IF b /\ mInputFrameNum < Frames
               THEN [pluginFrames EXCEPT ![thr[i].p] = @ + 1]
               ELSE [pluginFrames EXCEPT ![thr[i].p] = 0]
    BY <1>8, Zenon DEF PluginReturns
  <2>3. Turn(i, "gate", thr[i].p, b)
    BY <1>1, <2>2, TurnResult DEF Pcs, Serve
  <2>4. mInputFrameNum' = mInputFrameNum /\ thr[i].p = mPipeline
    <3>1. UNCHANGED nodeVars
      BY <1>8, Zenon DEF PluginReturns
    <3> QED BY <1>2, <2>1, <3>1 DEF nodeVars
  <2>5. thr'[i].pc = "gate" /\ thr'[i].ok = b
    BY <2>1, <2>3 DEF Turn
  <2>6. \A q \in Pipelines : q # mPipeline => pluginFrames'[q] = pluginFrames[q]
    BY <1>3, <2>2, <2>4
  <2>7. CASE b /\ mInputFrameNum < Frames
    <3>1. pluginFrames'[mPipeline] = pluginFrames[mPipeline] + 1
      BY <1>2, <1>3, <2>2, <2>4, <2>7
    <3>2. InHand(i) = mInputFrameNum - 1 /\ InHand(i)' = mInputFrameNum
      BY <2>1, <2>3, <2>4, <2>5, <2>7 DEF InHand
    <3>3. Collecting(i)'
      BY <1>2, <1>3, <2>1, <2>3, <2>4, <2>5, <3>1, <3>2 DEF Collecting
    <3> QED BY <2>6, <3>3, CollectedTurn
  <2>8. CASE ~(b /\ mInputFrameNum < Frames)
    <3>1. pluginFrames'[mPipeline] = 0
      BY <1>2, <1>3, <2>2, <2>4, <2>8
    <3>2. InHand(i)' = 0
      BY <2>4, <2>5, <2>8 DEF InHand
    <3>3. Collecting(i)'
      BY <1>2, <1>3, <2>1, <2>3, <2>4, <2>5, <3>1, <3>2 DEF Collecting
    <3> QED BY <2>6, <3>3, CollectedTurn
  <2> QED BY <2>7, <2>8
<1>9. CASE PassGate(i) \/ SpuriousWakeup(i)
  <2>1. /\ thr[i].pc \in {"gate", "asleep"} /\ thr'[i].pc \in {"left", "asleep", "gate"}
        /\ thr'[i].ok = thr[i].ok
    BY <1>1, <1>9, Turns DEF Turn
  <2>2. UNCHANGED <<mInputFrameNum, pluginFrames>>
    BY <1>9 DEF PassGate, SpuriousWakeup, nodeVars
  <2>3. InHand(i)' = InHand(i)
    BY <2>1, <2>2 DEF InHand
  <2>4. Collecting(i)'
    BY <1>2, <2>1, <2>2, <2>3 DEF Collecting
  <2> QED BY <2>2, <2>4, CollectedTurn
<1>10. CASE Leave(i)
  <2>1. /\ thr[i].pc = "left" /\ thr'[i].ok = thr[i].ok /\ pluginFrames' = pluginFrames
        /\ thr'[i].pc = IF thr[i].ok /\ mInputFrameNum # Frames THEN "release" ELSE "notify"
    BY <1>1, <1>10, MoreTurns DEF Turn, Leave
  <2>2. CASE thr[i].ok /\ mInputFrameNum # Frames
    <3>1. mInputFrameNum' = mInputFrameNum /\ mInputFrameNum < Frames
      BY <1>3, <1>10, <2>2 DEF Leave
    <3>2. InHand(i)' = InHand(i) /\ thr'[i].pc = "release"
      BY <2>1, <2>2, <3>1 DEF InHand
    <3>3. Collecting(i)'
      BY <1>2, <2>1, <3>1, <3>2 DEF Collecting
    <3> QED BY <2>1, <3>3, CollectedTurn
  <2>3. CASE ~(thr[i].ok /\ mInputFrameNum # Frames)
    <3>1. InHand(i) = 0
      BY <1>3, <2>1, <2>3 DEF InHand
    <3>2. InHand(i)' = 0 /\ thr'[i].pc = "notify"
      BY <2>1, <2>3 DEF InHand
    <3>3. Collecting(i)'
      BY <1>2, <2>1, <3>1, <3>2 DEF Collecting
    <3> QED BY <2>1, <3>3, CollectedTurn
  <2> QED BY <2>2, <2>3
<1>11. CASE NotifyRecord(i)
  <2>1. thr[i].pc = "notify" /\ thr'[i].pc = "notifying" /\ UNCHANGED <<mInputFrameNum, pluginFrames>>
    BY <1>1, <1>11, MoreTurns DEF Turn, NotifyRecord, nodeVars
  <2>2. InHand(i)' = 0 /\ InHand(i) = 0
    BY <2>1 DEF InHand
  <2>3. Collecting(i)'
    BY <1>2, <2>1, <2>2 DEF Collecting
  <2> QED BY <2>1, <2>3, CollectedTurn
<1> QED BY <1>4, <1>5, <1>6, <1>7, <1>8, <1>9, <1>10, <1>11 DEF Within

LEMMA CollectedNext ==
  ASSUME Inv, Next
  PROVE  Collected'
<1>1. TypeOK /\ Serving /\ Answered /\ Gated /\ Collected
  BY DEF Inv
<1>2. /\ \A i \in Threads : i \in Working <=> thr[i].pc \in Serve
      /\ Working \subseteq Threads /\ Working' \subseteq Threads
      /\ NoPipeline \notin Pipelines /\ mRequestQueue \subseteq Pipelines
  BY <1>1, ThreadsTyped, NodeAssumption DEF Working, TypeOK
<1>3. mInputFrameNum \in Nat
  BY <1>1, NumbersTyped
<1>4. ASSUME NEW p \in Pipelines, Aside(p) PROVE Collected'
  <2>1. UNCHANGED <<mPipeline, mRequestQueue, mInputFrameNum, thr>> /\ Posted' = Posted
    BY <1>1, <1>4, AsideStep
  <2>2. Working' = Working /\ \A q \in Pipelines : Unserved(q)' <=> Unserved(q)
    BY <2>1 DEF Working, Unserved
  <2>3. \A i \in Working : InHand(i)' = InHand(i)
    BY <2>1 DEF InHand
  <2>4. CASE DetachedFlush(p)
    <3>1. /\ pluginFrames' = [q \in Pipelines |-> 0] /\ qf' = qf
          /\ det[p] = "flush"
      BY <2>4 DEF DetachedFlush, pipeVars
    <3>2. PICK i \in Threads : InPlugin(i) /\ thr[i].p = p
      <4>1. p \in Flushing
        BY <3>1 DEF Flushing
      <4> QED BY <1>1, <4>1 DEF Gated
    <3>3. /\ thr[i].pc \in {"plugin", "gate", "asleep"} /\ Collecting(i)
          /\ mPipeline = p /\ \A j \in Working : j = i
      <4>1. thr[i].pc \in Serve /\ thr[i].pc # "fetch" /\ thr[i].pc \in {"plugin", "gate", "asleep"}
        BY <3>2 DEF InPlugin, Serve
      <4> QED BY <3>2, <4>1, ServedPipeline
    <3>4. qf'[p] # "none"
      BY <1>1, <3>1 DEF Gated
    <3>5. InHand(i) >= 0
      BY <1>3, <3>3 DEF Collecting, InHand
    <3>6. Collecting(i)'
      BY <1>3, <2>1, <3>1, <3>3, <3>4, <3>5, <2>2, <2>3 DEF Collecting, InHand
    <3> QED BY <1>1, <2>1, <2>2, <3>1, <3>3, <3>6 DEF Collected
  <2>5. CASE ~DetachedFlush(p)
    <3>1. pluginFrames' = pluginFrames
      BY <1>4, <2>5 DEF Aside, MainLock, MainRecord, Expedite, ForceFlush, quickFinish, QuickRecord,
                        QuickMux, QuickName, QuickSpawn, DetachedCount
    <3>2. \A q \in Pipelines : qf'[q] = "none" => qf[q] = "none"
      <4>1. qf \in [Pipelines -> {"none", "forced", "mux", "name", "match", "done"}]
        BY <1>1 DEF TypeOK
      <4> QED BY <1>4, <2>5, <4>1 DEF Aside, MainLock, MainRecord, Expedite, ForceFlush, quickFinish,
                        QuickRecord, QuickMux, QuickName, QuickSpawn, DetachedCount
    <3>3. Working # {} => mPipeline \in Pipelines
      BY <1>2, ServedPipeline
    <3>4. \A i \in Working : Collecting(i)'
      BY <1>1, <2>1, <2>3, <3>1, <3>2, <3>3 DEF Collected, Collecting
    <3> QED BY <1>1, <2>1, <2>2, <3>1, <3>4 DEF Collected
  <2> QED BY <2>4, <2>5
<1>5. ASSUME NEW p \in Pipelines, MainPost(p) PROVE Collected'
  <2>1. /\ p \notin Posted /\ Posted' = Posted \cup {p}
        /\ UNCHANGED <<mInputFrameNum, qf, pluginFrames>>
    BY <1>5, PostStep DEF pipeVars
  <2>2. CASE mHasProcessThread
    <3>1. mRequestQueue' = mRequestQueue \cup {p} /\ UNCHANGED <<mPipeline, thr>>
      BY <1>5, <2>2, PostStep
    <3>2. Working' = Working /\ \A q \in Pipelines : Unserved(q)' => Unserved(q)
      BY <2>1, <3>1 DEF Working, Unserved
    <3>3. \A i \in Working : InHand(i)' = InHand(i)
      BY <2>1, <3>1 DEF InHand
    <3>4. \A i \in Working : Collecting(i)'
      BY <1>1, <2>1, <3>1, <3>3 DEF Collected, Collecting
    <3> QED BY <1>1, <2>1, <3>1, <3>2, <3>4 DEF Collected
  <2>3. CASE ~mHasProcessThread
    <3>1. PICK n \in Threads :
            /\ mPipeline = NoPipeline /\ mRequestQueue = {} /\ mPipeline' = p /\ mRequestQueue' = {}
            /\ Turn(n, "fetch", thr[n].p, thr[n].ok)
      BY <1>5, <2>3, PostStep
    <3>2. Working = {}
      BY <1>1, <2>3 DEF Serving
    <3>3. Working' = {n}
      <4>1. \A j \in Threads : j \in Working' <=> thr'[j].pc \in Serve
        BY <3>1, WorkingThen DEF Turn
      <4> QED BY <1>2, <3>1, <3>2, <4>1 DEF Turn, Serve
    <3>4. mInputFrameNum = 0 /\ pluginFrames[p] = 0
      BY <1>1, <2>1, <3>2 DEF Collected, Unserved
    <3>5. thr'[n].pc = "fetch" /\ Frames > 0 /\ InHand(n)' = 0
      <4>1. thr'[n].pc = "fetch" /\ Frames > 0
        BY <1>1, <3>1, NumbersTyped DEF Turn
      <4> QED BY <2>1, <3>4, <4>1 DEF InHand
    <3>6. Collecting(n)'
      BY <2>1, <3>1, <3>4, <3>5 DEF Collecting
    <3>7. \A q \in Pipelines : Unserved(q)' => Unserved(q)
      BY <2>1, <3>1 DEF Unserved
    <3>8. ~EveryFrameOutput => \A q \in Pipelines : pluginFrames[q] = 0
      BY <1>1, <1>2, <3>1 DEF Collected
    <3> QED BY <1>1, <2>1, <3>3, <3>6, <3>7, <3>8 DEF Collected
  <2> QED BY <2>2, <2>3
<1>6. ASSUME NEW p \in Pipelines, DetachedNotify(p) PROVE Collected'
  <2>1. UNCHANGED <<mPipeline, mRequestQueue, mInputFrameNum, main, qf, pluginFrames>>
    BY <1>1, <1>6, WakeStep DEF nodeVars, pipeVars
  <2>2. Working' = Working
    BY <1>1, <1>2, <1>6, WakeStep, WorkingThen DEF At, Serve
  <2>3. \A q \in Pipelines : Unserved(q)' <=> Unserved(q)
    BY <2>1 DEF Unserved, Posted
  <2>4. ASSUME NEW i \in Working PROVE Collecting(i)'
    <3>1. /\ thr'[i].pc = thr[i].pc \/ (thr[i].pc = "asleep" /\ thr'[i].pc = "gate")
          /\ thr'[i].ok = thr[i].ok
      BY <1>1, <1>2, <1>6, <2>4, WakeStep DEF At
    <3>2. InHand(i)' = InHand(i)
      BY <2>1, <3>1 DEF InHand
    <3> QED BY <1>1, <2>1, <2>4, <3>1, <3>2 DEF Collected, Collecting
  <2> QED BY <1>1, <2>1, <2>2, <2>3, <2>4 DEF Collected
<1>7. ASSUME NEW i \in Threads, NotifyDone(i) PROVE Collected'
  <2>1. /\ thr[i].pc = "notifying" /\ Turn(i, "next", thr[i].p, thr[i].ok)
        /\ UNCHANGED <<mPipeline, mRequestQueue, mInputFrameNum, main, qf, pluginFrames>>
    BY <1>1, <1>7, MoreTurns DEF NotifyDone, nodeVars
  <2>2. i \in Working /\ (\A j \in Working : j = i) /\ Collecting(i)
    BY <2>1, ServedPipeline DEF Serve
  <2>3. Working' = Working
    BY <1>2, <2>1, WorkingThen DEF Turn, Serve
  <2>4. thr'[i].pc = "next" /\ InHand(i) = 0 /\ InHand(i)' = 0
    BY <2>1 DEF InHand, Turn
  <2>5. Collecting(i)'
    BY <2>1, <2>2, <2>4 DEF Collecting
  <2>6. \A q \in Pipelines : Unserved(q)' <=> Unserved(q)
    BY <2>1 DEF Unserved, Posted
  <2> QED BY <1>1, <2>1, <2>2, <2>3, <2>5, <2>6 DEF Collected
<1>8. ASSUME NEW i \in Threads, TakeNext(i) PROVE Collected'
  <2>1. /\ thr[i].pc = "next" /\ mInputFrameNum' = 0
        /\ UNCHANGED <<main, qf, pluginFrames>>
    BY <1>8, TakeStep DEF pipeVars
  <2>2. /\ i \in Working /\ (\A j \in Working : j = i) /\ Collecting(i)
        /\ mPipeline \in Pipelines
    BY <2>1, ServedPipeline DEF Serve
  <2>3. pluginFrames[mPipeline] \in Nat /\ Frames > 0
    BY <1>1, <2>2, NumbersTyped
  <2>4. ~EveryFrameOutput => \A q \in Pipelines : pluginFrames[q] = 0
    <3>1. InHand(i) = 0
      BY <2>1 DEF InHand
    <3>2. ~EveryFrameOutput => pluginFrames[mPipeline] = 0
      BY <2>2, <2>3, <3>1 DEF Collecting
    <3> QED BY <1>1, <3>2 DEF Collected
  <2>5. CASE /\ mPipeline' \in mRequestQueue /\ mRequestQueue' = mRequestQueue \ {mPipeline'}
             /\ Turn(i, "fetch", thr[i].p, thr[i].ok)
    <3>1. Working' = {i}
      BY <1>2, <2>2, <2>5, WorkingThen DEF Turn, Serve
    <3>2. pluginFrames[mPipeline'] = 0
      BY <1>1, <1>2, <2>5 DEF Collected, Unserved
    <3>3. thr'[i].pc = "fetch" /\ InHand(i)' = 0
      BY <2>1, <2>5 DEF InHand, Turn
    <3>4. Collecting(i)'
      BY <2>1, <2>3, <3>2, <3>3 DEF Collecting
    <3>5. \A q \in Pipelines : Unserved(q)' => Unserved(q)
      BY <2>1, <2>5 DEF Unserved, Posted
    <3> QED BY <1>1, <2>1, <2>4, <3>1, <3>4, <3>5 DEF Collected
  <2>6. CASE /\ mRequestQueue = {} /\ mRequestQueue' = {} /\ mPipeline' = NoPipeline
             /\ Turn(i, "leaving", thr[i].p, thr[i].ok)
    <3>1. Working' = {}
      BY <1>2, <2>2, <2>6, WorkingThen DEF Turn, Serve
    <3>2. \A q \in Pipelines : Unserved(q)' => Unserved(q)
      BY <2>1, <2>6 DEF Unserved, Posted
    <3> QED BY <1>1, <2>1, <2>4, <3>1, <3>2 DEF Collected
  <2> QED BY <1>8, <2>5, <2>6, TakeStep
<1>9. ASSUME NEW i \in Threads, ThreadGone(i) PROVE Collected'
  <2>1. /\ thr[i].pc = "leaving" /\ Turn(i, "gone", thr[i].p, thr[i].ok)
        /\ UNCHANGED <<mPipeline, mRequestQueue, mInputFrameNum, main, qf, pluginFrames>>
    BY <1>1, <1>9, MoreTurns DEF ThreadGone, pipeVars
  <2>2. Working' = Working /\ i \notin Working
    BY <1>2, <2>1, WorkingThen DEF Turn, Serve
  <2>3. \A j \in Working : thr'[j] = thr[j] /\ InHand(j)' = InHand(j)
    BY <1>2, <2>1, <2>2 DEF Turn, InHand
  <2>4. \A j \in Working : Collecting(j)'
    BY <1>1, <2>1, <2>3 DEF Collected, Collecting
  <2>5. \A q \in Pipelines : Unserved(q)' <=> Unserved(q)
    BY <2>1 DEF Unserved, Posted
  <2> QED BY <1>1, <2>1, <2>2, <2>4, <2>5 DEF Collected
<1> QED BY <1>4, <1>5, <1>6, <1>7, <1>8, <1>9, CollectedWithin, Steps

-----------------------------------------------------------------------------
(* Types *)

LEMMA CountsTyped ==
  ASSUME Inv, Next
  PROVE  mInPluginThreadNum' \in 0 .. 2 /\ mNodeThreadNum' \in 0 .. Cardinality(Pipelines)
<1>1. mInPluginThreadNum' \in {0, 1, 2}
  <2>1. CASE Flushing' = {}
    BY <2>1, GatedNext DEF Gated
  <2>2. CASE Flushing' # {}
    BY <2>2, GatedNext DEF Gated
  <2> QED BY <2>1, <2>2
<1>2. Present' \subseteq Threads
  BY DEF Present
<1>3. Cardinality(Present') \in Nat /\ Cardinality(Present') <= Cardinality(Pipelines)
  BY <1>2, SetsFinite, NotMore, NumberOfThreads
<1>4. mNodeThreadNum' = Cardinality(Present')
  BY CountingNext DEF Counting
<1> QED BY <1>1, <1>3, <1>4, NumberOfThreads

LEMMA HoldersTyped ==
  /\ \A p \in Pipelines : Main(p) \in Holders /\ Quick(p) \in Holders
  /\ \A i \in Threads : Thr(i) \in Holders
BY DEF Main, Quick, Holders

LEMMA TypeAside ==
  ASSUME Inv, NEW p \in Pipelines, Aside(p), Next
  PROVE  TypeOK'
<1>1. TypeOK
  BY DEF Inv
<1>2. /\ UNCHANGED <<mRequestQueue, mPipeline, mHasProcessThread, mInputFrameNum,
                     mNodeThreadNum, started, thr, notified, mProcessLock>>
      /\ main' \in [Pipelines -> {"pop", "record", "post", "pop again", "record again", "done"}]
  BY <1>1, AsideStep
<1>3. /\ mInPluginThreadNum' \in 0 .. 2
      /\ Main(p) \in Holders /\ Quick(p) \in Holders
  BY CountsTyped, HoldersTyped
<1>4. CASE MainLock(p)
  BY <1>1, <1>2, <1>3, <1>4 DEF MainLock, TypeOK, pipeVars
<1>5. CASE MainRecord(p)
  <2>1. current' \in [Pipelines -> BOOLEAN] /\ mLock' \in [Pipelines -> Holders \cup {Free}]
    BY <1>1, <1>5 DEF MainRecord, TypeOK
  <2>2. UNCHANGED <<mFlushStatus, mRecordProcessNodeLock, mQuickFinishMux, pluginFrames, qf, det>>
    BY <1>5 DEF MainRecord
  <2> QED BY <1>1, <1>2, <1>3, <2>1, <2>2 DEF TypeOK
<1>6. CASE Expedite(p)
  BY <1>1, <1>2, <1>3, <1>6 DEF Expedite, TypeOK, lockVars
<1>7. CASE ForceFlush(p)
  BY <1>1, <1>2, <1>3, <1>7 DEF ForceFlush, TypeOK, lockVars
<1>14. /\ mRecordProcessNodeLock \in [Pipelines -> Holders \cup {Free}]
       /\ mQuickFinishMux \in Holders \cup {Free}
       /\ qf \in [Pipelines -> {"none", "forced", "mux", "name", "match", "done"}]
  BY <1>1 DEF TypeOK
<1>8. CASE QuickRecord(p)
  <2>1. /\ mRecordProcessNodeLock' \in [Pipelines -> Holders \cup {Free}]
        /\ qf' \in [Pipelines -> {"none", "forced", "mux", "name", "match", "done"}]
    <3>1. CASE current[p]
      BY <1>3, <1>8, <1>14, <3>1 DEF QuickRecord
    <3>2. CASE ~current[p]
      BY <1>8, <1>14, <3>2 DEF QuickRecord
    <3> QED BY <3>1, <3>2
  <2>2. UNCHANGED <<mFlushStatus, mLock, mQuickFinishMux, current, pluginFrames, det>>
    BY <1>8 DEF QuickRecord, pipeVars
  <2> QED BY <1>1, <1>2, <1>3, <2>1, <2>2 DEF TypeOK
<1>9. CASE QuickMux(p)
  <2>1. /\ mRecordProcessNodeLock' \in [Pipelines -> Holders \cup {Free}]
        /\ mQuickFinishMux' \in Holders \cup {Free}
        /\ qf' \in [Pipelines -> {"none", "forced", "mux", "name", "match", "done"}]
    <3>1. CASE OneInPlugin
      BY <1>3, <1>9, <1>14, <3>1 DEF QuickMux
    <3>2. CASE ~OneInPlugin
      BY <1>9, <1>14, <3>2 DEF QuickMux
    <3> QED BY <3>1, <3>2
  <2>2. UNCHANGED <<mFlushStatus, mLock, current, pluginFrames, det>>
    BY <1>9 DEF QuickMux, pipeVars
  <2> QED BY <1>1, <1>2, <1>3, <2>1, <2>2 DEF TypeOK
<1>10. CASE QuickName(p)
  <2>1. /\ mRecordProcessNodeLock' \in [Pipelines -> Holders \cup {Free}]
        /\ mQuickFinishMux' \in Holders \cup {Free}
        /\ qf' \in [Pipelines -> {"none", "forced", "mux", "name", "match", "done"}]
    <3>1. CASE IsCurrentPipeline(p)
      BY <1>10, <1>14, <3>1 DEF QuickName
    <3>2. CASE ~IsCurrentPipeline(p)
      BY <1>10, <1>14, <3>2 DEF QuickName
    <3> QED BY <3>1, <3>2
  <2>2. UNCHANGED <<mFlushStatus, mLock, current, pluginFrames, det>>
    BY <1>10 DEF QuickName, pipeVars
  <2> QED BY <1>1, <1>2, <1>3, <2>1, <2>2 DEF TypeOK
<1>11. CASE QuickSpawn(p)
  BY <1>1, <1>2, <1>3, <1>11 DEF QuickSpawn, TypeOK, pipeVars
<1>12. CASE DetachedFlush(p)
  <2>1. /\ pluginFrames' = [q \in Pipelines |-> 0] /\ det' = [det EXCEPT ![p] = "count"]
        /\ UNCHANGED <<pipeVars, lockVars, qf>>
    BY <1>12 DEF DetachedFlush
  <2>2. pluginFrames' \in [Pipelines -> 0 .. Frames]
    BY <2>1, NodeAssumption
  <2> QED BY <1>1, <1>2, <1>3, <2>1, <2>2 DEF TypeOK, pipeVars, lockVars
<1>13. CASE DetachedCount(p)
  BY <1>1, <1>2, <1>3, <1>13 DEF DetachedCount, TypeOK, pipeVars, lockVars
<1> QED BY <1>4, <1>5, <1>6, <1>7, <1>8, <1>9, <1>10, <1>11, <1>12, <1>13 DEF Aside, quickFinish

LEMMA TypeWithin ==
  ASSUME Inv, NEW i \in Threads, Within(i), Next
  PROVE  TypeOK'
<1>1. TypeOK
  BY DEF Inv
<1>2. /\ thr' \in [Threads -> Records] /\ thr[i].pc \in Serve
      /\ UNCHANGED <<mRequestQueue, mPipeline, mHasProcessThread, mNodeThreadNum, started,
                     notified, main, qf, det, mFlushStatus, mLock, mRecordProcessNodeLock,
                     mQuickFinishMux>>
  BY <1>1, WithinStep
<1>3. mInPluginThreadNum' \in 0 .. 2
  BY CountsTyped
<1>4. mPipeline \in Pipelines /\ Collecting(i) /\ (thr[i].pc # "fetch" => thr[i].p = mPipeline)
  BY <1>2, ServedPipeline
<1>5. /\ mInputFrameNum \in Nat /\ mInputFrameNum <= Frames /\ Frames \in Nat /\ Frames > 0
      /\ pluginFrames[mPipeline] \in Nat /\ pluginFrames \in [Pipelines -> 0 .. Frames]
  BY <1>1, <1>4, NumbersTyped DEF TypeOK
<1>6. mInputFrameNum' \in 0 .. Frames
  <2>1. CASE CallPlugin(i)
    <3>1. thr[i].pc = "call" /\ mInputFrameNum' = mInputFrameNum + 1
      BY <2>1 DEF CallPlugin, At
    <3> QED BY <1>4, <1>5, <3>1 DEF Collecting
  <2>2. CASE ~CallPlugin(i)
    <3>1. mInputFrameNum' \in {0, mInputFrameNum}
      <4>1. CASE PluginReturns(i)
        BY <4>1, Zenon DEF PluginReturns, nodeVars
      <4>2. CASE ~PluginReturns(i)
        BY <2>2, <4>2 DEF Within, Fetch, TaskEffective, GetOutputFails, FlushTask,
             ExpeditedInputFails, PassGate, Leave, ReleaseLock, ReleaseFrame, NotifyRecord,
             SpuriousWakeup, nodeVars
      <4> QED BY <4>1, <4>2
    <3> QED BY <1>5, <3>1
  <2> QED BY <2>1, <2>2
<1>7. pluginFrames' \in [Pipelines -> 0 .. Frames]
  <2>1. CASE PluginReturns(i)
    <3>1. thr[i].pc = "plugin" /\ thr[i].p = mPipeline
      BY <1>4, <2>1 DEF PluginReturns, At
    <3>2. pluginFrames[mPipeline] + 1 \in 0 .. Frames
      BY <1>4, <1>5, <3>1 DEF Collecting, InHand
    <3>3. PICK b \in BOOLEAN :
            pluginFrames' = IF b /\ mInputFrameNum < Frames
                            THEN [pluginFrames EXCEPT ![thr[i].p] = @ + 1]
                            ELSE [pluginFrames EXCEPT ![thr[i].p] = 0]
      BY <2>1, Zenon DEF PluginReturns
    <3> QED BY <1>4, <1>5, <3>1, <3>2, <3>3
  <2>2. CASE FlushTask(i) \/ ExpeditedInputFails(i)
    <3>1. pluginFrames' = pluginFrames \/ pluginFrames' = [p \in Pipelines |-> 0]
      BY <2>2 DEF FlushTask, ExpeditedInputFails
    <3> QED BY <1>5, <3>1
  <2>3. CASE ~(PluginReturns(i) \/ FlushTask(i) \/ ExpeditedInputFails(i))
    <3>1. pluginFrames' = pluginFrames
      BY <2>3 DEF Within, Fetch, TaskEffective, CallPlugin, GetOutputFails,
             PassGate, Leave, ReleaseLock, ReleaseFrame, NotifyRecord, SpuriousWakeup
    <3> QED BY <1>5, <3>1
  <2> QED BY <2>1, <2>2, <2>3
<1>8. mProcessLock' \in Holders \cup {Free} /\ current' \in [Pipelines -> BOOLEAN]
  <2>1. CASE ReleaseLock(i) \/ ReleaseFrame(i)
    BY <1>1, <2>1, HoldersTyped DEF ReleaseLock, ReleaseFrame, TypeOK, pipeVars
  <2>2. CASE NotifyRecord(i)
    <3>1. current' = [current EXCEPT ![thr[i].p] = FALSE] /\ mProcessLock' = mProcessLock
      BY <2>2 DEF NotifyRecord, lockVars
    <3> QED BY <1>1, <3>1 DEF TypeOK
  <2>3. CASE ~(ReleaseLock(i) \/ ReleaseFrame(i) \/ NotifyRecord(i))
    <3>1. current' = current /\ mProcessLock' = mProcessLock
      BY <2>3 DEF Within, Fetch, TaskEffective, CallPlugin, GetOutputFails, FlushTask,
             ExpeditedInputFails, PluginReturns, PassGate, Leave, SpuriousWakeup, lockVars, pipeVars
    <3> QED BY <1>1, <3>1 DEF TypeOK
  <2> QED BY <2>1, <2>2, <2>3
<1> QED BY <1>1, <1>2, <1>3, <1>6, <1>7, <1>8, RecordsAre DEF TypeOK

LEMMA TypeNext ==
  ASSUME Inv, Next
  PROVE  TypeOK'
<1>1. TypeOK /\ Serving
  BY DEF Inv
<1>2. mInPluginThreadNum' \in 0 .. 2 /\ mNodeThreadNum' \in 0 .. Cardinality(Pipelines)
  BY CountsTyped
<1>3. mPipeline' \in Pipelines \cup {NoPipeline} /\ mRequestQueue' \subseteq Pipelines
  BY AnsweredNext DEF Answered, Posted
<1>4. ASSUME NEW p \in Pipelines, MainPost(p) PROVE TypeOK'
  <2>1. /\ UNCHANGED <<mInputFrameNum, pipeVars, lockVars, pluginFrames, qf, det>>
        /\ main' \in [Pipelines -> {"pop", "record", "post", "pop again", "record again", "done"}]
    BY <1>4, PostStep
  <2>2. started' \in 0 .. Cardinality(Pipelines) /\ thr' \in [Threads -> Records]
        /\ mHasProcessThread' \in BOOLEAN
    <3>1. CASE mHasProcessThread
      <4>1. UNCHANGED <<started, thr, mHasProcessThread>>
        BY <1>4, <3>1, PostStep
      <4> QED BY <1>1, <4>1, ThreadsTyped DEF TypeOK
    <3>2. CASE ~mHasProcessThread
      <4>1. /\ started' = started + 1 /\ started + 1 \in Threads /\ mHasProcessThread' = TRUE
            /\ thr' \in [Threads -> Records]
        BY <1>4, <3>2, PostStep DEF Turn
      <4> QED BY <4>1, NumberOfThreads
    <3> QED BY <3>1, <3>2
  <2> QED BY <1>1, <1>2, <1>3, <2>1, <2>2, RecordsAre DEF TypeOK, pipeVars, lockVars
<1>5. ASSUME NEW p \in Pipelines, DetachedNotify(p) PROVE TypeOK'
  <2>1. /\ UNCHANGED <<nodeVars, pipeVars, lockVars, mInPluginThreadNum, pluginFrames, main, qf>>
        /\ thr' \in [Threads -> Records] /\ det' = [det EXCEPT ![p] = "gone"]
    BY <1>1, <1>5, WakeStep DEF DetachedNotify
  <2> QED BY <1>1, <2>1, RecordsAre DEF TypeOK, nodeVars, pipeVars, lockVars
<1>6. ASSUME NEW i \in Threads, NotifyDone(i) PROVE TypeOK'
  <2>1. /\ thr' \in [Threads -> Records]
        /\ notified' = [notified EXCEPT ![thr[i].p] = notified[thr[i].p] + 1]
        /\ UNCHANGED <<nodeVars, current, mFlushStatus, lockVars, mInPluginThreadNum,
                       pluginFrames, main, qf, det>>
    BY <1>1, <1>6, MoreTurns DEF NotifyDone, Turn
  <2>2. notified' \in [Pipelines -> Nat]
    <3>1. notified \in [Pipelines -> Nat]
      BY <1>1 DEF TypeOK
    <3>2. thr[i].pc = "notifying"
      BY <1>6 DEF NotifyDone, At
    <3>3. thr[i].p \in Pipelines
      BY <3>2, ServedPipeline DEF Serve
    <3> QED BY <2>1, <3>1, <3>3
  <2> QED BY <1>1, <2>1, <2>2, RecordsAre DEF TypeOK, nodeVars, lockVars
<1>7. ASSUME NEW i \in Threads, TakeNext(i) PROVE TypeOK'
  <2>1. /\ mInputFrameNum' = 0 /\ thr' \in [Threads -> Records]
        /\ UNCHANGED <<mNodeThreadNum, started, pipeVars, lockVars, mInPluginThreadNum,
                       pluginFrames, main, qf, det>>
    BY <1>7, TakeStep DEF Turn
  <2>2. mHasProcessThread' \in BOOLEAN /\ mInputFrameNum' \in 0 .. Frames
    <3>1. mHasProcessThread \in BOOLEAN
      BY <1>1 DEF TypeOK
    <3>2. mHasProcessThread' = FALSE \/ mHasProcessThread' = mHasProcessThread
      BY <1>7, TakeStep
    <3>3. mHasProcessThread' \in BOOLEAN
      BY <3>1, <3>2
    <3>4. mInputFrameNum' \in 0 .. Frames
      BY <2>1, NodeAssumption
    <3> QED BY <3>3, <3>4
  <2> QED BY <1>1, <1>3, <2>1, <2>2, RecordsAre DEF TypeOK, pipeVars, lockVars
<1>8. ASSUME NEW i \in Threads, ThreadGone(i) PROVE TypeOK'
  <2>1. /\ thr' \in [Threads -> Records]
        /\ UNCHANGED <<mRequestQueue, mPipeline, mHasProcessThread, mInputFrameNum, started,
                       pipeVars, lockVars, mInPluginThreadNum, pluginFrames, main, qf, det>>
    BY <1>1, <1>8, MoreTurns DEF ThreadGone, Turn
  <2> QED BY <1>1, <1>2, <2>1, RecordsAre DEF TypeOK, pipeVars, lockVars
<1> QED BY <1>4, <1>5, <1>6, <1>7, <1>8, TypeAside, TypeWithin, Steps

-----------------------------------------------------------------------------
LEMMA InvInit == Init => Inv
<1> SUFFICES ASSUME Init PROVE Inv
  OBVIOUS
<1>1. TypeOK
  <2>1. /\ 0 \in 0 .. Frames /\ 0 \in 0 .. 2 /\ 0 \in 0 .. Cardinality(Pipelines)
    BY NumberOfThreads, NodeAssumption
  <2>2. /\ mInputFrameNum \in 0 .. Frames /\ mInPluginThreadNum \in 0 .. 2
        /\ mNodeThreadNum \in 0 .. Cardinality(Pipelines) /\ started \in 0 .. Cardinality(Pipelines)
        /\ pluginFrames \in [Pipelines -> 0 .. Frames]
    BY <2>1 DEF Init
  <2> QED BY <2>2 DEF Init, TypeOK
<1>2. /\ \A i \in Threads : thr[i].pc = "new" /\ i > started
      /\ \A p \in Pipelines : main[p] = "pop" /\ qf[p] = "none" /\ det[p] = "none"
      /\ mPipeline = NoPipeline /\ mRequestQueue = {} /\ mHasProcessThread = FALSE
      /\ started = 0 /\ mNodeThreadNum = 0 /\ mInputFrameNum = 0 /\ mInPluginThreadNum = 0
      /\ mQuickFinishMux = Free
      /\ \A p \in Pipelines : notified[p] = 0 /\ pluginFrames[p] = 0
  BY NumberOfThreads DEF Init
<1>3. Working = {} /\ Present = {} /\ Posted = {} /\ Flushing = {} /\ Cardinality({}) = 0
  BY <1>2, FS_EmptySet DEF Working, Present, Posted, Flushing
<1>4. Serving
  BY <1>2, <1>3 DEF Serving, At
<1>5. Counting
  BY <1>2, <1>3 DEF Counting
<1>6. Answered
  BY <1>2, <1>3 DEF Answered, Unserved
<1>7. Gated
  BY <1>2, <1>3, QuickHolds DEF Gated, InPlugin
<1>8. Collected
  BY <1>2, <1>3 DEF Collected
<1> QED BY <1>1, <1>4, <1>5, <1>6, <1>7, <1>8 DEF Inv

LEMMA InvNext == Inv /\ [Next]_vars => Inv'
<1> SUFFICES ASSUME Inv, [Next]_vars PROVE Inv'
  OBVIOUS
<1>1. CASE Next
  BY <1>1, TypeNext, ServingNext, CountingNext, AnsweredNext, GatedNext, CollectedNext DEF Inv
<1>2. CASE UNCHANGED vars
  <2> USE <1>2 DEF vars, nodeVars, pipeVars, lockVars
  <2>1. TypeOK'
    BY DEF Inv, TypeOK
  <2>2. Serving' /\ Counting'
    BY DEF Inv, Serving, Counting, Working, Present, Posted, At
  <2>3. Answered'
    BY DEF Inv, Answered, Unserved, Posted, At
  <2>4. Gated'
    BY DEF Inv, Gated, Flushing, InPlugin
  <2>5. Collected'
    BY DEF Inv, Collected, Collecting, InHand, Working, Unserved, Posted
  <2> QED BY <2>1, <2>2, <2>3, <2>4, <2>5 DEF Inv
<1> QED BY <1>1, <1>2

LEMMA InvAlways == Spec => []Inv
BY InvInit, InvNext, PTL DEF Spec, Safe

\* Every reachable state of the node is well typed: no more threads are started than
\* there are requests, the gate never counts more than a call and a flush, and the
\* plugin never holds more than the frames of a request.
THEOREM TypeCorrect == Spec => []TypeOK
<1>1. Inv => TypeOK
  BY DEF Inv
<1> QED BY <1>1, InvAlways, PTL

\* However posts meet a process thread that is about to leave, no request is
\* stranded and none is served by two threads (enqueueTask and processTask).
THEOREM HandedOver == Spec => []OneThreadServes
<1>1. Inv => OneThreadServes
  <2> SUFFICES ASSUME Inv PROVE OneThreadServes
    OBVIOUS
  <2>1. Serving
    BY DEF Inv
  <2>2. Cardinality(Working) = IF mHasProcessThread THEN 1 ELSE 0
    <3>1. CASE mHasProcessThread
      <4>1. PICK i \in Working : TRUE
        BY <2>1, <3>1 DEF Serving
      <4>2. Working = {i}
        BY <2>1, <4>1 DEF Serving
      <4> QED BY <3>1, <4>2, FS_Singleton
    <3>2. CASE ~mHasProcessThread
      <4>1. Working = {}
        BY <2>1, <3>2 DEF Serving
      <4> QED BY <3>2, <4>1, FS_EmptySet
    <3> QED BY <3>1, <3>2
  <2> QED BY <2>1, <2>2 DEF Serving, OneThreadServes
<1> QED BY <1>1, InvAlways, PTL

\* A quick finish flushes the plugin only while it works for the pipeline that is
\* being finished, and holds that call back until the flush has ended.
THEOREM FlushIsAimed == Spec => []FlushHitsItsPipeline
<1>1. Inv => FlushHitsItsPipeline
  <2> SUFFICES ASSUME Inv, NEW p \in Pipelines
               PROVE  /\ det[p] \in {"flush", "count"} =>
                           \E i \in Threads : thr[i].p = p /\ thr[i].pc \in {"plugin", "gate", "asleep"}
                      /\ qf[p] = "name" => mPipeline # NoPipeline
    BY DEF FlushHitsItsPipeline
  <2>1. Gated /\ Serving
    BY DEF Inv
  <2>2. ASSUME det[p] \in {"flush", "count"}
        PROVE  \E i \in Threads : thr[i].p = p /\ thr[i].pc \in {"plugin", "gate", "asleep"}
    BY <2>1, <2>2 DEF Gated, Flushing, InPlugin
  <2>3. ASSUME qf[p] = "name" PROVE mPipeline # NoPipeline
    <3>1. mQuickFinishMux # Free
      BY <2>1, <2>3, QuickHolds DEF Gated
    <3>2. PICK i \in Threads : InPlugin(i)
      BY <2>1, <3>1 DEF Gated
    <3>3. thr[i].pc \in Serve
      BY <3>2 DEF InPlugin, Serve
    <3> QED BY <3>3, ServedPipeline, NodeAssumption
  <2> QED BY <2>2, <2>3
<1> QED BY <1>1, InvAlways, PTL

\* Frames of two requests never meet in the plugin and none gets lost, in a node that
\* does not give an output for every frame.
THEOREM RequestsApart == ~EveryFrameOutput => (Spec => []RequestsNeverMix)
<1> SUFFICES ASSUME ~EveryFrameOutput PROVE Spec => []RequestsNeverMix
  OBVIOUS
<1>1. Inv => RequestsNeverMix
  <2> SUFFICES ASSUME Inv, NEW i \in Threads, At(i, "plugin")
               PROVE  /\ \A q \in Pipelines \ {thr[i].p} : pluginFrames[q] = 0
                      /\ qf[thr[i].p] = "none" => pluginFrames[thr[i].p] = mInputFrameNum - 1
    BY DEF RequestsNeverMix
  <2>1. thr[i].pc = "plugin" /\ thr[i].p = mPipeline /\ Collecting(i) /\ Collected
    <3>1. thr[i].pc = "plugin"
      BY DEF At
    <3> QED BY <3>1, ServedPipeline DEF Serve, Inv
  <2> QED BY <2>1 DEF Collected, Collecting, InHand
<1> QED BY <1>1, InvAlways, PTL

\* When the session sees no thread of the node counted, none is left and every
\* request that was posted has been answered.
THEOREM QuietIsDone == Spec => []QuietWhenUncounted
<1>1. Inv => QuietWhenUncounted
  <2> SUFFICES ASSUME Inv, mNodeThreadNum = 0
               PROVE  /\ Working = {} /\ mRequestQueue = {}
                      /\ \A p \in Pipelines :
                           main[p] \in {"pop again", "record again", "done"} => notified[p] = 1
    BY DEF QuietWhenUncounted
  <2>1. Serving /\ Counting /\ Answered
    BY DEF Inv
  <2>2. Present = {}
    <3>1. Present \subseteq Threads /\ Cardinality(Present) = 0
      BY <2>1 DEF Present, Counting
    <3> QED BY <3>1, SetsFinite, FS_EmptySet
  <2>3. Working = {}
    BY <2>2 DEF Working, Present
  <2>4. mPipeline = NoPipeline /\ mRequestQueue = {}
    BY <2>1, <2>3 DEF Serving
  <2> QED BY <2>1, <2>3, <2>4, NodeAssumption DEF Answered, Unserved, Posted
<1> QED BY <1>1, InvAlways, PTL
=============================================================================
