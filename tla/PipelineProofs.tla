--------------------------- MODULE PipelineProofs ---------------------------
(***************************************************************************)
(* What holds of Pipeline for every graph of nodes, whatever the modes of  *)
(* the nodes, the plugins that fail or release early, and the calls of     *)
(* quickFinish.  Nodes are started in order, and none is left behind: Inv  *)
(* is the inductive invariant of the control of a request.  ImageInv is    *)
(* that of its images, on top of Inv: every source image is accounted for  *)
(* and goes back to the application once, when nobody uses it any more.    *)
(* Feeding is that of what the nodes give each other, and Scheduling and   *)
(* SinksKept are those of what the application learns in the end.          *)
(***************************************************************************)
EXTENDS Pipeline, FiniteSetTheorems, FunctionTheorems, SequenceTheorems,
        WellFoundedInduction, TLAPS

Threads == [pc : NodePcs, frames : Nat, got : BOOLEAN, ok : BOOLEAN,
            left : SUBSET LinkIds, link : LinkIds \cup {0}]

Typed ==
  /\ node \in [Nodes -> Threads]
  /\ main \in [pc : MainPcs, node : Nodes \cup {NoNode}, ok : BOOLEAN, ports : SUBSET Ports]
  /\ mRunSequence \in Seq(Nodes)
  /\ mDependenceNum \in [Nodes -> Int] /\ mRunningNodeNum \in Int

\* Links whose child has its dependence settled by the end of the node before.
Settled(l) ==
  LET m == links[l].src
  IN /\ node[m].pc \in {"links", "depend", "done"} /\ node[m].ok
     /\ l \notin node[m].left /\ ~(node[m].pc = "depend" /\ node[m].link = l)

\* Links whose child may start, frame by frame, before that.
Streaming(l) == Has(links[l].src, "SIGFRAME") /\ node[links[l].src].frames > 0

Into(n) == InLinks[n] \ SourceLinks
Unsettled(n) == {l \in Into(n) : ~Settled(l)}

\* What a node's thread knows where it is.
Local(n) ==
  /\ node[n].pc \in {"release in", "depend in", "release out", "depend out"} =>
       Has(n, "SIGFRAME")
  /\ node[n].pc \in {"plugin", "release in", "depend in", "release out", "depend out"} =>
       node[n].frames > 0
  /\ node[n].pc \in {"release all", "links", "depend"} => node[n].ok
  /\ node[n].pc \in {"links", "depend", "error links"} => node[n].left \subseteq OutLinks[n]
  /\ node[n].pc = "depend" => /\ node[n].link \in OutLinks[n] \ SinkLinks
                              /\ node[n].link \notin node[n].left

\* Nodes in the run sequence, and the one postProcTask is about to start.
Queued(n) == \E k \in DOMAIN mRunSequence : mRunSequence[k] = n
Held(n) == main.pc = "post" /\ main.node = n

\* A node is started at most once, and only when nothing is outstanding.
Once ==
  /\ main.pc \in {"start", "prepare"} =>
       mRunSequence = <<>> /\ \A n \in Nodes : At(n, "idle")
  /\ main.pc = "post" => main.node \in Nodes
  /\ \A j, k \in DOMAIN mRunSequence : mRunSequence[j] = mRunSequence[k] => j = k
  /\ \A n \in Nodes : Queued(n) => At(n, "idle") /\ ~Held(n)
  /\ \A n \in Nodes : Held(n) => At(n, "idle")
  /\ \A n \in Nodes : Queued(n) \/ Held(n) \/ ~At(n, "idle") =>
       mDependenceNum[n] <= 0 /\ ~TopologyError

\* Dependences have been counted, and matter.
UnderWay ==
  \/ main.pc \in {"loop", "post", "count", "wait", "asleep"}
  \/ \E n \in Nodes : ~At(n, "idle")

\* A node's count covers the links that are unsettled; that of a frame-by-frame
\* node, which has one link, is used up when this one is settled or streams.
Outstanding ==
  UnderWay =>
    \A n \in Nodes :
      /\ ~Has(n, "SIGFRAME") => mDependenceNum[n] >= Cardinality(Unsettled(n))
      /\ Has(n, "SIGFRAME") /\ ~TopologyError /\ mDependenceNum[n] <= 0 =>
           \A l \in Into(n) : Settled(l) \/ Streaming(l)

\* The node that has been enqueued last is counted a little later.
Uncounted == IF main.pc = "count" /\ main.ok THEN 1 ELSE 0

Running ==
  /\ mRunningNodeNum = Cardinality(Active) - Uncounted
  /\ main.pc = "loop" => mRunSequence # <<>> \/ Active = {}
  /\ main.pc \in {"release ports", "release rest", "finished"} =>
       mRunSequence = <<>> /\ Active = {}

Inv == Typed /\ (\A n \in Nodes : Local(n)) /\ Once /\ Outstanding /\ Running

-----------------------------------------------------------------------------
(* The graph *)

LEMMA LinkNumbers == LinkIds \subseteq Nat \ {0}
<1>1. Len(links) \in Nat /\ LinkIds = 1 .. Len(links)
  BY PipelineAssumption
<1> QED BY <1>1

LEMMA FiniteLinks ==
  ASSUME NEW S, S \subseteq LinkIds
  PROVE  IsFiniteSet(S) /\ Cardinality(S) \in Nat
<1>1. IsFiniteSet(LinkIds)
  BY PipelineAssumption, FS_Interval
<1>2. IsFiniteSet(S)
  BY <1>1, FS_Subset
<1> QED BY <1>2, FS_CardinalityType

LEMMA FiniteNodes ==
  ASSUME NEW S, S \subseteq Nodes
  PROVE  IsFiniteSet(S) /\ Cardinality(S) \in Nat
<1>1. IsFiniteSet(S)
  BY PipelineAssumption, FS_Subset
<1> QED BY <1>1, FS_CardinalityType

LEMMA LinksOut ==
  ASSUME NEW n \in Nodes
  PROVE  /\ OutLinks[n] \subseteq LinkIds /\ OutLinks[n] # {}
         /\ \A l \in OutLinks[n] : links[l].src = n
         /\ \A l \in OutLinks[n] \ SinkLinks : links[l].dst \in Nodes /\ l \in Into(links[l].dst)
<1>1. OutLinks[n] = {l \in LinkIds : Type(l) # "SourceLink" /\ links[l].src = n}
  BY DEF OutLinks
<1>2. ASSUME NEW l \in OutLinks[n] \ SinkLinks
      PROVE  links[l].dst \in Nodes /\ l \in Into(links[l].dst)
  <2>1. l \in LinkIds /\ Type(l) # "SinkLink" /\ Type(l) # "SourceLink"
    BY <1>1, <1>2 DEF SinkLinks
  <2>2. links[l].dst \in Nodes
    BY <2>1, PipelineAssumption
  <2> QED BY <2>1, <2>2 DEF Into, InLinks, SourceLinks
<1> QED BY <1>1, <1>2, PipelineAssumption

LEMMA LinksInto ==
  ASSUME NEW n \in Nodes
  PROVE  /\ InLinks[n] \subseteq LinkIds /\ Into(n) \subseteq InLinks[n]
         /\ \A l \in Into(n) : links[l].dst = n /\ links[l].src \in Nodes
<1>1. InLinks[n] = {l \in LinkIds : Type(l) # "SinkLink" /\ links[l].dst = n}
  BY DEF InLinks
<1>2. ASSUME NEW l \in Into(n) PROVE links[l].dst = n /\ links[l].src \in Nodes
  <2>1. l \in LinkIds /\ Type(l) # "SourceLink" /\ links[l].dst = n
    BY <1>1, <1>2 DEF Into, SourceLinks
  <2> QED BY <2>1, PipelineAssumption
<1> QED BY <1>1, <1>2 DEF Into

LEMMA MinLink ==
  ASSUME NEW L, L \subseteq LinkIds, L # {}
  PROVE  Min(L) \in L /\ \A k \in L : Min(L) <= k
<1> DEFINE Below(l) == {k \in L : k < l}
           All == {Below(l) : l \in L}
<1>1. IsFiniteSet(L) /\ \A k \in L : k \in Int
  <2>1. IsFiniteSet(L)
    BY FiniteLinks
  <2>2. \A k \in LinkIds : k \in Int
    BY LinkNumbers
  <2> QED BY <2>1, <2>2
<1>2. All \subseteq FiniteSubsetsOf(L) /\ All # {}
  <2>1. FiniteSubsetsOf(L) = SUBSET L
    BY <1>1, FS_FiniteSubsetsOfFinite
  <2>2. \A l \in L : Below(l) \in SUBSET L
    OBVIOUS
  <2> HIDE DEF Below
  <2> QED BY <2>1, <2>2
<1>3. \E x \in All : \A y \in All : <<y, x>> \notin StrictSubsetOrdering(L)
  BY <1>2, FS_StrictSubsetOrderingWellFounded, WFMin
<1>4. PICK l \in L : \A k \in L : <<Below(k), Below(l)>> \notin StrictSubsetOrdering(L)
  BY <1>3
<1>5. ASSUME NEW k \in L, k < l PROVE FALSE
  <2>1. Below(k) \subseteq Below(l) /\ k \in Below(l) /\ k \notin Below(k)
    BY <1>1, <1>5
  <2>2. Below(k) \in SUBSET L /\ Below(l) \in SUBSET L /\ Below(k) # Below(l)
    BY <2>1
  <2>3. <<Below(k), Below(l)>> \in StrictSubsetOrdering(L)
    BY <2>1, <2>2 DEF StrictSubsetOrdering
  <2> QED BY <1>4, <2>3
<1>6. \A k \in L : l =< k
  BY <1>1, <1>5
<1> HIDE DEF Below, All
<1> QED BY <1>6 DEF Min

\* A frame-by-frame node has one link into it, or the graph is refused.
LEMMA OneLink ==
  ASSUME NEW n \in Nodes, Has(n, "SIGFRAME"), ~TopologyError,
         NEW k \in Into(n), NEW l \in Into(n)
  PROVE  k = l
<1>1. IsFiniteSet(InLinks[n]) /\ Cardinality(InLinks[n]) \in Nat /\ {k, l} \subseteq InLinks[n]
  BY LinksInto, FiniteLinks
<1>2. Cardinality(InLinks[n]) <= 1
  BY <1>1 DEF TopologyError
<1>3. Cardinality({k, l}) <= Cardinality(InLinks[n]) /\ Cardinality({k, l}) \in Nat
  BY <1>1, FS_Subset, FS_CardinalityType
<1>4. ASSUME k # l PROVE Cardinality({k, l}) = 2
  <2>1. IsFiniteSet({k}) /\ Cardinality({k}) = 1
    BY FS_Singleton
  <2>2. Cardinality({k} \cup {l}) = 2
    BY <1>4, <2>1, FS_AddElement
  <2>3. {k} \cup {l} = {k, l}
    OBVIOUS
  <2> QED BY <2>2, <2>3
<1> QED BY <1>1, <1>2, <1>3, <1>4

\* SetToSeq lists nodes of a set, none of them twice.
LEMMA Listed ==
  ASSUME NEW S, S \subseteq Nodes
  PROVE  /\ SetToSeq(S) \in Seq(Nodes)
         /\ \A k \in DOMAIN SetToSeq(S) : SetToSeq(S)[k] \in S
         /\ \A j, k \in DOMAIN SetToSeq(S) : SetToSeq(S)[j] = SetToSeq(S)[k] => j = k
<1> DEFINE c == Cardinality(S)
<1>1. IsFiniteSet(S) /\ c \in Nat
  BY FiniteNodes
<1>2. PICK f \in Bijection(1 .. c, S) : TRUE
  BY <1>1, FS_CardinalityType, Fun_ExistsBij
<1>3. f \in [1 .. c -> S] /\ IsInjective(f)
  BY <1>2 DEF Bijection, Injection, IsInjective
<1>4. SetToSeq(S) \in [1 .. c -> S] /\ IsInjective(SetToSeq(S))
  BY <1>3 DEF SetToSeq
<1>5. SetToSeq(S) \in [1 .. c -> Nodes]
  BY <1>4
<1>6. SetToSeq(S) \in Seq(Nodes)
  BY <1>1, <1>5, SeqDef
<1> QED BY <1>4, <1>6 DEF IsInjective

-----------------------------------------------------------------------------
(* Dependences *)

\* What Depend does: counts only fall, those of other nodes stay, and a node is
\* queued as its count is used up.
LEMMA DependStep ==
  ASSUME Typed, NEW L, L \subseteq LinkIds, Depend(L)
  PROVE  /\ mRunSequence' \in Seq(Nodes) /\ mDependenceNum' \in [Nodes -> Int]
         /\ \A n \in Nodes : mDependenceNum'[n] <= mDependenceNum[n]
         /\ \A n \in Nodes : (\A l \in L : links[l].dst # n) => mDependenceNum'[n] = mDependenceNum[n]
         /\ \A l : L = {l} => \A n \in Nodes : mDependenceNum'[n] >= mDependenceNum[n] - 1
         /\ \E new \in Seq(Nodes) :
              /\ mRunSequence' = mRunSequence \o new
              /\ \A k \in DOMAIN new : mDependenceNum[new[k]] > 0 /\ mDependenceNum'[new[k]] <= 0
              /\ \A j, k \in DOMAIN new : new[j] = new[k] => j = k
<1>1. mRunSequence \in Seq(Nodes)
  BY DEF Typed
<1>0. mDependenceNum \in [Nodes -> Int]
  BY DEF Typed
<1> DEFINE Hit(n) == {l \in L : links[l].dst = n}
           Count(n) == Cardinality(Hit(n))
           Ready == {n \in Nodes : Count(n) > 0 /\ mDependenceNum[n] \in 1 .. Count(n)}
<1>2. ASSUME mHasProcessError
      PROVE  UNCHANGED <<mDependenceNum, mRunSequence>>
  BY <1>2 DEF Depend
<1>3. ASSUME ~mHasProcessError
      PROVE  /\ mDependenceNum' = [n \in Nodes |-> mDependenceNum[n] - Count(n)]
             /\ mRunSequence' = mRunSequence \o SetToSeq(Ready)
  BY <1>3 DEF Depend
<1>4. \A n : Count(n) \in Nat
  <2>1. \A n : Hit(n) \subseteq LinkIds
    OBVIOUS
  <2> QED BY <2>1, FiniteLinks
<1>5. \A n : (\A l \in L : links[l].dst # n) => Count(n) = 0
  <2> SUFFICES ASSUME NEW n, \A l \in L : links[l].dst # n PROVE Count(n) = 0
    OBVIOUS
  <2>1. Hit(n) = {}
    OBVIOUS
  <2> QED BY <2>1, FS_EmptySet
<1>6. ASSUME NEW l, L = {l}, NEW n PROVE Count(n) <= 1
  <2>1. Hit(n) \subseteq {l}
    BY <1>6
  <2>2. IsFiniteSet({l}) /\ Cardinality({l}) = 1
    BY FS_Singleton
  <2> QED BY <2>1, <2>2, FS_Subset
<1>7. /\ SetToSeq(Ready) \in Seq(Nodes)
      /\ \A k \in DOMAIN SetToSeq(Ready) : SetToSeq(Ready)[k] \in Ready
      /\ \A j, k \in DOMAIN SetToSeq(Ready) : SetToSeq(Ready)[j] = SetToSeq(Ready)[k] => j = k
  <2>1. Ready \subseteq Nodes
    OBVIOUS
  <2> HIDE DEF Ready
  <2> QED BY <2>1, Listed
<1>8. \A n \in Ready : n \in Nodes /\ mDependenceNum[n] > 0 /\ mDependenceNum[n] - Count(n) <= 0
  <2> SUFFICES ASSUME NEW n \in Ready
               PROVE  n \in Nodes /\ mDependenceNum[n] > 0 /\ mDependenceNum[n] - Count(n) <= 0
    OBVIOUS
  <2>1. n \in Nodes /\ mDependenceNum[n] \in 1 .. Count(n)
    OBVIOUS
  <2>2. Count(n) \in Nat
    BY <1>4
  <2>3. mDependenceNum[n] \in Int
    BY <1>0, <2>1
  <2> HIDE DEF Count, Ready
  <2> QED BY <2>1, <2>2, <2>3
<1> HIDE DEF Ready, Count
<1>9. CASE mHasProcessError
  <2>1. mRunSequence = mRunSequence \o <<>> /\ <<>> \in Seq(Nodes)
    BY <1>1, ConcatEmptySeq
  <2>2. \A n \in Nodes : mDependenceNum[n] \in Int
    BY <1>0
  <2>3. \E new \in Seq(Nodes) :
          /\ mRunSequence' = mRunSequence \o new
          /\ \A k \in DOMAIN new : mDependenceNum[new[k]] > 0 /\ mDependenceNum'[new[k]] <= 0
          /\ \A j, k \in DOMAIN new : new[j] = new[k] => j = k
    <3>1. mRunSequence' = mRunSequence \o <<>>
      BY <1>2, <1>9, <2>1
    <3>2. DOMAIN <<>> = {}
      OBVIOUS
    <3> WITNESS <<>> \in Seq(Nodes)
    <3> QED BY <3>1, <3>2
  <2>4. UNCHANGED <<mDependenceNum, mRunSequence>>
    BY <1>2, <1>9
  <2>5. \A n \in Nodes : mDependenceNum[n] <= mDependenceNum[n] /\ mDependenceNum[n] >= mDependenceNum[n] - 1
    BY <2>2
  <2> QED BY <1>0, <1>1, <2>3, <2>4, <2>5
<1>10. CASE ~mHasProcessError
  <2>1. mRunSequence' \in Seq(Nodes)
    <3>1. mRunSequence \o SetToSeq(Ready) \in Seq(Nodes)
      BY <1>1, <1>7, ConcatProperties
    <3> QED BY <1>3, <1>10, <3>1
  <2>2. \A n \in Nodes : mDependenceNum'[n] = mDependenceNum[n] - Count(n)
    BY <1>3, <1>10
  <2>3. mDependenceNum' \in [Nodes -> Int]
    <3>1. \A n \in Nodes : mDependenceNum[n] - Count(n) \in Int
      BY <1>0, <1>4
    <3> QED BY <1>3, <1>10, <3>1
  <2>4. \A n \in Nodes : mDependenceNum[n] \in Int /\ Count(n) \in Nat
    BY <1>0, <1>4
  <2>5. \A n \in Nodes : mDependenceNum'[n] <= mDependenceNum[n]
    BY <2>2, <2>4
  <2>6. \A n \in Nodes : (\A l \in L : links[l].dst # n) => mDependenceNum'[n] = mDependenceNum[n]
    BY <1>5, <2>2, <2>4
  <2>7. \A l : L = {l} => \A n \in Nodes : mDependenceNum'[n] >= mDependenceNum[n] - 1
    <3> SUFFICES ASSUME NEW l, L = {l}, NEW n \in Nodes
                 PROVE  mDependenceNum'[n] >= mDependenceNum[n] - 1
      OBVIOUS
    <3>1. Count(n) <= 1
      BY <1>6
    <3> QED BY <2>2, <2>4, <3>1
  <2>8. \A k \in DOMAIN SetToSeq(Ready) :
           mDependenceNum[SetToSeq(Ready)[k]] > 0 /\ mDependenceNum'[SetToSeq(Ready)[k]] <= 0
    BY <1>7, <1>8, <2>2
  <2> QED BY <1>3, <1>7, <1>10, <2>1, <2>3, <2>5, <2>6, <2>7, <2>8
<1> QED BY <1>9, <1>10

LEMMA DependOne ==
  ASSUME Typed, NEW l \in LinkIds, Depend({l}), NEW m \in Nodes
  PROVE  /\ mDependenceNum'[m] >= mDependenceNum[m] - 1
         /\ mDependenceNum'[m] # mDependenceNum[m] => links[l].dst = m
<1>1. PICK L : L = {l}
  OBVIOUS
<1>2. L \subseteq LinkIds /\ Depend(L)
  BY <1>1
<1>3. mDependenceNum'[m] >= mDependenceNum[m] - 1
  BY <1>1, <1>2, DependStep
<1>4. (\A k \in L : links[k].dst # m) => mDependenceNum'[m] = mDependenceNum[m]
  BY <1>2, DependStep
<1> QED BY <1>1, <1>3, <1>4

-----------------------------------------------------------------------------
(* Steps of a node's thread *)

\* postProcTask may be woken up, but nothing else.
Woken ==
  /\ main' \in [pc : MainPcs, node : Nodes \cup {NoNode}, ok : BOOLEAN, ports : SUBSET Ports]
  /\ main'.pc = main.pc \/ (main.pc = "asleep" /\ main'.pc = "wait")
  /\ main'.node = main.node /\ main'.ok = main.ok /\ main'.ports = main.ports

LEMMA WokenByNotify ==
  ASSUME Typed, NotifyMain \/ UNCHANGED main
  PROVE  Woken
BY DEF Typed, NotifyMain, Woken, MainPcs

\* What any step of node n's thread keeps: a link that is settled stays settled,
\* a frame that has been taken stays taken.
Moves(n) ==
  /\ node' \in [Nodes -> Threads]
  /\ \A m \in Nodes : m # n => node'[m] = node[m]
  /\ node[n].pc \notin {"idle", "done"} /\ node'[n].pc # "idle"
  /\ node'[n].frames >= node[n].frames
  /\ Local(n)'
  /\ node[n].pc \in {"links", "depend"} =>
       /\ node'[n].pc \in {"links", "depend", "done"} /\ node'[n].ok = node[n].ok
       /\ node'[n].left \subseteq node[n].left
       /\ node'[n].pc = "depend" => node'[n].link \in node[n].left

LEMMA RecordTyped ==
  ASSUME Typed, NEW n \in Nodes
  PROVE  /\ node \in [Nodes -> Threads] /\ node[n] \in Threads
         /\ node[n].pc \in NodePcs /\ node[n].frames \in Nat /\ node[n].got \in BOOLEAN
         /\ node[n].ok \in BOOLEAN /\ node[n].left \subseteq LinkIds
         /\ node[n].link \in LinkIds \cup {0}
         /\ node[n].frames >= node[n].frames /\ node[n].frames + 1 \in Nat
         /\ node[n].frames + 1 >= node[n].frames /\ node[n].frames + 1 > 0
<1>1. node[n] \in Threads
  BY DEF Typed
<1>2. node[n].frames \in Nat
  BY <1>1 DEF Threads
<1>3. /\ node[n].frames >= node[n].frames /\ node[n].frames + 1 \in Nat
      /\ node[n].frames + 1 >= node[n].frames /\ node[n].frames + 1 > 0
  BY <1>2
<1> QED BY <1>1, <1>3 DEF Typed, Threads

LEMMA TakenStep ==
  ASSUME Typed, NEW n \in Nodes, node[n].pc = "input",
         NEW got \in BOOLEAN, NEW b \in BOOLEAN, NEW l \in {"check", "notify", "release in"},
         l = "release in" => Has(n, "SIGFRAME") /\ Has(n, "VIRTUAL"),
         node' = [node EXCEPT ![n].pc = l, ![n].got = got, ![n].ok = b,
                              ![n].frames = IF Has(n, "VIRTUAL") THEN node[n].frames + 1 ELSE @]
  PROVE  Moves(n) /\ node'[n].pc # "done"
<1> DEFINE f == IF Has(n, "VIRTUAL") THEN node[n].frames + 1 ELSE node[n].frames
           r == [node[n] EXCEPT !.pc = l, !.got = got, !.ok = b, !.frames = f]
<1>1. node \in [Nodes -> Threads] /\ node[n] \in Threads
  BY RecordTyped
<1>2. f \in Nat /\ f >= node[n].frames /\ (Has(n, "VIRTUAL") => f > 0)
  BY RecordTyped
<1>3. node' = [node EXCEPT ![n].pc = l, ![n].got = got, ![n].ok = b, ![n].frames = f]
  OBVIOUS
<1> HIDE DEF f
<1>4. l \in NodePcs
  BY DEF NodePcs
<1>5. r \in Threads /\ r.pc = l /\ r.frames = f
  BY <1>1, <1>2, <1>4 DEF Threads
<1>6. node' \in [Nodes -> Threads] /\ node'[n] = r /\ \A m \in Nodes : m # n => node'[m] = node[m]
  <2>1. node' = [node EXCEPT ![n] = r]
    BY <1>1, <1>3
  <2>2. r \in Threads
    BY <1>5
  <2> HIDE DEF r
  <2>3. PICK h : h = [node EXCEPT ![n] = r]
    OBVIOUS
  <2>4. h \in [Nodes -> Threads] /\ h[n] = r /\ \A m \in Nodes : m # n => h[m] = node[m]
    BY <1>1, <2>2, <2>3
  <2> QED BY <2>1, <2>3, <2>4
<1> HIDE DEF r
<1>7. Local(n)'
  BY <1>2, <1>5, <1>6 DEF Local
<1> QED BY <1>2, <1>5, <1>6, <1>7 DEF Moves

LEMMA InputStep ==
  ASSUME Typed, NEW n \in Nodes, GetInput(n)
  PROVE  Moves(n) /\ UNCHANGED <<runVars, main>> /\ node'[n].pc # "done"
<1>1. node[n].pc = "input" /\ UNCHANGED <<runVars, main>>
  BY DEF GetInput, At
<1>2. PICK got \in BOOLEAN : AfterInput(n, got)
  BY DEF GetInput
<1> DEFINE l == IF ~Has(n, "VIRTUAL") THEN "check"
                ELSE IF ~Has(n, "SIGFRAME") \/ ~got \/ node[n].frames + 1 = MergeNum(n) THEN "notify"
                ELSE "release in"
           b == Has(n, "VIRTUAL") /\ Has(n, "SIGFRAME") => got
<1>3. /\ b \in BOOLEAN /\ l \in {"check", "notify", "release in"}
      /\ l = "release in" => Has(n, "SIGFRAME") /\ Has(n, "VIRTUAL")
  OBVIOUS
<1>4. node' = [node EXCEPT ![n].pc = l, ![n].got = got, ![n].ok = b,
                           ![n].frames = IF Has(n, "VIRTUAL") THEN node[n].frames + 1 ELSE @]
  BY <1>2, Zenon DEF AfterInput
<1> HIDE DEF l, b
<1> QED BY <1>1, <1>2, <1>3, <1>4, TakenStep

LEMMA EndStep ==
  ASSUME Typed, NEW n \in Nodes, NEW b \in BOOLEAN, EndRequest(n, b),
         node[n].pc \in {"check", "plugin"}
  PROVE  Moves(n) /\ node'[n].pc # "done"
<1> DEFINE r == [node[n] EXCEPT !.pc = "notify", !.ok = b]
<1>1. node' = [node EXCEPT ![n].pc = "notify", ![n].ok = b]
  BY DEF EndRequest
<1>2. node \in [Nodes -> Threads] /\ node[n] \in Threads
  BY RecordTyped
<1>3. r \in Threads /\ r.pc = "notify"
  BY <1>2 DEF Threads, NodePcs
<1>4. r.frames = node[n].frames
  BY <1>2 DEF Threads
<1>5. node' \in [Nodes -> Threads] /\ node'[n] = r /\ \A m \in Nodes : m # n => node'[m] = node[m]
  BY <1>1, <1>2, <1>3
<1> HIDE DEF r
<1>6. Local(n)'
  BY <1>3, <1>5 DEF Local
<1>7. r.frames >= node[n].frames
  BY <1>4, RecordTyped
<1> QED BY <1>3, <1>5, <1>6, <1>7 DEF Moves

\* A step that only gets the thread to another place.
LEMMA GotoStep ==
  ASSUME Typed, NEW n \in Nodes, NEW l \in NodePcs \ {"idle", "done"}, Goto(n, l),
         node[n].pc \notin {"idle", "done", "links", "depend"},
         l \in {"release in", "depend in", "release out", "depend out"} =>
           Has(n, "SIGFRAME") /\ node[n].frames > 0,
         l \notin {"plugin", "links", "depend", "error links"},
         l = "release all" => node[n].ok
  PROVE  Moves(n) /\ node'[n].pc # "done"
<1> DEFINE r == [node[n] EXCEPT !.pc = l]
<1>1. node' = [node EXCEPT ![n].pc = l]
  BY DEF Goto
<1>2. node \in [Nodes -> Threads] /\ node[n] \in Threads
  BY RecordTyped
<1>3. r \in Threads /\ r.pc = l
  BY <1>2 DEF Threads
<1>4. r.frames = node[n].frames /\ r.ok = node[n].ok
  BY <1>2 DEF Threads
<1>5. node' \in [Nodes -> Threads] /\ node'[n] = r /\ \A m \in Nodes : m # n => node'[m] = node[m]
  BY <1>1, <1>2, <1>3
<1> HIDE DEF r
<1>6. Local(n)'
  BY <1>3, <1>4, <1>5 DEF Local
<1>7. r.frames >= node[n].frames
  BY <1>4, RecordTyped
<1> QED BY <1>3, <1>5, <1>6, <1>7 DEF Moves

LEMMA OutputStep ==
  ASSUME Typed, NEW n \in Nodes, GetOutput(n)
  PROVE  Moves(n) /\ UNCHANGED <<runVars, main>> /\ node'[n].pc # "done"
<1>1. node[n].pc = "check" /\ UNCHANGED <<runVars, main>>
  BY DEF GetOutput, At
<1> DEFINE f == node[n].frames + 1
           r == [node[n] EXCEPT !.pc = "plugin", !.frames = f]
<1>2. node \in [Nodes -> Threads] /\ node[n] \in Threads
  BY RecordTyped
<1>3. f \in Nat /\ f >= node[n].frames /\ f > 0
  BY RecordTyped
<1>4. node' = [node EXCEPT ![n].pc = "plugin", ![n].frames = f]
  BY DEF GetOutput
<1> HIDE DEF f
<1>5. r \in Threads /\ r.pc = "plugin" /\ r.frames = f
  BY <1>2, <1>3 DEF Threads, NodePcs
<1>6. node' \in [Nodes -> Threads] /\ node'[n] = r /\ \A m \in Nodes : m # n => node'[m] = node[m]
  BY <1>2, <1>4, <1>5
<1> HIDE DEF r
<1>7. Local(n)'
  BY <1>3, <1>5, <1>6 DEF Local
<1> QED BY <1>1, <1>3, <1>5, <1>6, <1>7 DEF Moves

\* Steps that leave the run of the request alone.
LEMMA QuietStep ==
  ASSUME Typed, NEW n \in Nodes, Local(n),
         \/ GetInput(n) \/ NotEffective(n) \/ GetOutput(n) \/ NoOutput(n) \/ PluginFails(n)
         \/ PluginReturns(n) \/ ReleaseOneInput(n) \/ ReleaseOneOutput(n) \/ Notify(n)
  PROVE  Moves(n) /\ UNCHANGED <<runVars, main>> /\ node'[n].pc # "done"
<1>1. CASE NotEffective(n)
  <2>1. node[n].pc = "check" /\ UNCHANGED <<runVars, main>>
    BY <1>1 DEF NotEffective, At
  <2>2. \E b \in BOOLEAN : EndRequest(n, b)
    BY <1>1 DEF NotEffective
  <2> QED BY <2>1, <2>2, EndStep
<1>2. CASE NoOutput(n)
  BY <1>2, EndStep DEF NoOutput, At
<1>3. CASE PluginFails(n)
  BY <1>3, EndStep DEF PluginFails, At
<1>4. CASE PluginReturns(n)
  <2>1. node[n].pc = "plugin" /\ UNCHANGED <<runVars, main>>
    BY <1>4 DEF PluginReturns, At
  <2>2. EndRequest(n, TRUE) \/ (Has(n, "SIGFRAME") /\ Goto(n, "release in"))
    BY <1>4 DEF PluginReturns
  <2>3. node[n].frames > 0
    BY <2>1 DEF Local
  <2>4. CASE EndRequest(n, TRUE)
    BY <2>1, <2>4, EndStep
  <2>5. CASE Has(n, "SIGFRAME") /\ Goto(n, "release in")
    BY <2>1, <2>3, <2>5, GotoStep DEF NodePcs
  <2> QED BY <2>1, <2>2, <2>4, <2>5
<1>5. CASE ReleaseOneInput(n)
  <2>1. node[n].pc = "release in" /\ UNCHANGED <<runVars, main>>
        /\ (Goto(n, "depend in") \/ Goto(n, "release out"))
    BY <1>5 DEF ReleaseOneInput, At
  <2>2. Has(n, "SIGFRAME") /\ node[n].frames > 0
    BY <2>1 DEF Local
  <2> QED BY <2>1, <2>2, GotoStep DEF NodePcs
<1>6. CASE ReleaseOneOutput(n)
  <2>1. node[n].pc = "release out" /\ UNCHANGED <<runVars, main>>
        /\ (Goto(n, "depend out") \/ Goto(n, "input"))
    BY <1>6 DEF ReleaseOneOutput, At
  <2>2. Has(n, "SIGFRAME") /\ node[n].frames > 0
    BY <2>1 DEF Local
  <2> QED BY <2>1, <2>2, GotoStep DEF NodePcs
<1>7. CASE Notify(n)
  <2>1. node[n].pc = "notify" /\ UNCHANGED <<runVars, main>>
        /\ ((node[n].ok /\ Goto(n, "release all")) \/ Goto(n, "callback"))
    BY <1>7 DEF Notify, At
  <2> QED BY <2>1, GotoStep DEF NodePcs
<1> QED BY <1>1, <1>2, <1>3, <1>4, <1>5, <1>6, <1>7, InputStep, OutputStep

\* Success: the node's links are to be settled one after the other.
LEMMA SucceedStep ==
  ASSUME Typed, NEW n \in Nodes, Local(n), ReleaseAllInput(n)
  PROVE  Moves(n) /\ UNCHANGED <<runVars, main>> /\ node'[n].pc # "done"
<1> DEFINE r == [node[n] EXCEPT !.pc = "links", !.left = OutLinks[n]]
<1>1. node[n].pc = "release all" /\ UNCHANGED <<runVars, main>>
      /\ node' = [node EXCEPT ![n].pc = "links", ![n].left = OutLinks[n]]
  BY DEF ReleaseAllInput, At
<1>2. node \in [Nodes -> Threads] /\ node[n] \in Threads
  BY RecordTyped
<1>3. OutLinks[n] \subseteq LinkIds
  BY LinksOut
<1>4. r \in Threads /\ r.pc = "links" /\ r.left = OutLinks[n]
  BY <1>2, <1>3 DEF Threads, NodePcs
<1>5. r.frames = node[n].frames /\ r.ok = node[n].ok
  BY <1>2 DEF Threads
<1>6. node' \in [Nodes -> Threads] /\ node'[n] = r /\ \A m \in Nodes : m # n => node'[m] = node[m]
  BY <1>1, <1>2, <1>4
<1> HIDE DEF r
<1>7. node[n].ok
  BY <1>1 DEF Local
<1>8. Local(n)'
  BY <1>4, <1>5, <1>6, <1>7 DEF Local
<1>9. r.frames >= node[n].frames
  BY <1>5, RecordTyped
<1> QED BY <1>1, <1>4, <1>6, <1>8, <1>9 DEF Moves

LEMMA LinkStep ==
  ASSUME Typed, NEW n \in Nodes, Local(n), ReleaseLink(n)
  PROVE  Moves(n) /\ UNCHANGED <<runVars, main>> /\ node'[n].pc # "done"
<1> DEFINE l == Min(node[n].left)
           L == node[n].left \ {l}
<1>1. node[n].pc = "links" /\ UNCHANGED <<runVars, main>> /\ node[n].left # {}
  BY DEF ReleaseLink, At
<1>2. node \in [Nodes -> Threads] /\ node[n] \in Threads /\ node[n].frames >= node[n].frames
  BY RecordTyped
<1>3. node[n].left \subseteq LinkIds /\ node[n].left \subseteq OutLinks[n] /\ node[n].ok
  BY <1>1, RecordTyped DEF Local
<1>4. l \in node[n].left
  BY <1>1, <1>3, MinLink
<1>5. L \subseteq LinkIds /\ L \subseteq node[n].left /\ l \notin L
  BY <1>3
<1>6. ASSUME NEW to \in {"links", "depend"}, NEW k \in LinkIds \cup {0},
             to = "depend" => k = l /\ l \in OutLinks[n] \ SinkLinks,
             node' = [node EXCEPT ![n].pc = to, ![n].left = L, ![n].link = k]
      PROVE  Moves(n) /\ node'[n].pc # "done"
  <2> DEFINE r == [node[n] EXCEPT !.pc = to, !.left = L, !.link = k]
  <2> HIDE DEF l, L
  <2>1. to \in NodePcs
    BY DEF NodePcs
  <2>2. r \in Threads
    BY <1>2, <1>5, <2>1 DEF Threads
  <2>3. r.pc = to /\ r.left = L /\ r.link = k
    BY <1>2 DEF Threads
  <2>4. r.frames = node[n].frames /\ r.ok = node[n].ok
    BY <1>2 DEF Threads
  <2>5. node' \in [Nodes -> Threads] /\ node'[n] = r /\ \A m \in Nodes : m # n => node'[m] = node[m]
    BY <1>2, <1>6, <2>2
  <2> HIDE DEF r
  <2>6. Local(n)'
    <3>1. L \subseteq OutLinks[n] /\ l \notin L
      BY <1>3, <1>5
    <3>2. CASE to = "links"
      BY <1>3, <2>3, <2>4, <2>5, <3>1, <3>2 DEF Local
    <3>3. CASE to = "depend"
      <4>1. k = l /\ l \in OutLinks[n] \ SinkLinks
        BY <1>6, <3>3
      <4>2. /\ node'[n].pc = "depend" /\ node'[n].left = L /\ node'[n].link = l
            /\ node'[n].ok
        BY <1>3, <2>3, <2>4, <2>5, <3>3, <4>1
      <4> HIDE DEF l, L
      <4> QED BY <3>1, <4>1, <4>2 DEF Local
    <3> QED BY <3>2, <3>3
  <2> QED BY <1>1, <1>2, <1>4, <1>5, <1>6, <2>3, <2>4, <2>5, <2>6 DEF Moves
<1>7. CASE Type(l) = "SinkLink"
  <2>1. node' = [node EXCEPT ![n].pc = "links", ![n].left = L, ![n].link = 0]
    BY <1>7 DEF ReleaseLink
  <2> HIDE DEF l, L
  <2> QED BY <1>1, <1>6, <2>1
<1>8. CASE Type(l) # "SinkLink"
  <2>1. node' = [node EXCEPT ![n].pc = "depend", ![n].left = L, ![n].link = l]
    BY <1>8 DEF ReleaseLink
  <2>2. l \in LinkIds /\ l \in OutLinks[n] \ SinkLinks
    BY <1>3, <1>4, <1>8 DEF SinkLinks
  <2> HIDE DEF l, L
  <2> QED BY <1>1, <1>6, <2>1, <2>2
<1> QED BY <1>7, <1>8

\* Error: the node's sink links are to be released.
LEMMA CallbackStep ==
  ASSUME Typed, NEW n \in Nodes, Callback(n)
  PROVE  Moves(n) /\ UNCHANGED <<runVars, main>> /\ node'[n].pc # "done"
<1> DEFINE L == OutLinks[n] \cap SinkLinks
           r == [node[n] EXCEPT !.pc = "error links", !.left = L]
<1>1. node[n].pc = "callback" /\ UNCHANGED <<runVars, main>>
      /\ node' = [node EXCEPT ![n].pc = "error links", ![n].left = L]
  BY DEF Callback, At
<1>2. node \in [Nodes -> Threads] /\ node[n] \in Threads
  BY RecordTyped
<1>3. L \subseteq LinkIds /\ L \subseteq OutLinks[n]
  BY LinksOut
<1> HIDE DEF L
<1>4. r \in Threads /\ r.pc = "error links" /\ r.left = L
  BY <1>2, <1>3 DEF Threads, NodePcs
<1>5. r.frames = node[n].frames /\ r.ok = node[n].ok
  BY <1>2 DEF Threads
<1>6. node' \in [Nodes -> Threads] /\ node'[n] = r /\ \A m \in Nodes : m # n => node'[m] = node[m]
  BY <1>1, <1>2, <1>4
<1> HIDE DEF r
<1>7. Local(n)'
  BY <1>3, <1>4, <1>5, <1>6 DEF Local
<1>8. r.frames >= node[n].frames
  BY <1>5, RecordTyped
<1> QED BY <1>1, <1>4, <1>6, <1>7, <1>8 DEF Moves

LEMMA ErrorSinkStep ==
  ASSUME Typed, NEW n \in Nodes, Local(n), ReleaseSinkOnError(n)
  PROVE  Moves(n) /\ UNCHANGED <<runVars, main>> /\ node'[n].pc # "done"
<1> DEFINE L == node[n].left \ {Min(node[n].left)}
           r == [node[n] EXCEPT !.left = L]
<1>1. node[n].pc = "error links" /\ UNCHANGED <<runVars, main>>
      /\ node' = [node EXCEPT ![n].left = L]
  BY DEF ReleaseSinkOnError, At
<1>2. node \in [Nodes -> Threads] /\ node[n] \in Threads
  BY RecordTyped
<1>3. L \subseteq LinkIds /\ L \subseteq OutLinks[n]
  BY <1>1, RecordTyped DEF Local
<1> HIDE DEF L
<1>4. r \in Threads /\ r.left = L
  BY <1>2, <1>3 DEF Threads
<1>5. r.frames = node[n].frames /\ r.ok = node[n].ok /\ r.pc = node[n].pc
  BY <1>2 DEF Threads
<1>6. node' \in [Nodes -> Threads] /\ node'[n] = r /\ \A m \in Nodes : m # n => node'[m] = node[m]
  BY <1>1, <1>2, <1>4
<1> HIDE DEF r
<1>7. Local(n)'
  BY <1>1, <1>3, <1>4, <1>5, <1>6 DEF Local
<1>8. r.frames >= node[n].frames
  BY <1>5, RecordTyped
<1> QED BY <1>1, <1>4, <1>5, <1>6, <1>7, <1>8 DEF Moves

\* Dependences of children are settled before the node has ended ...
LEMMA StreamStep ==
  ASSUME Typed, NEW n \in Nodes, Local(n), DependInput(n) \/ DependOutput(n)
  PROVE  /\ Moves(n) /\ node'[n].pc # "done"
         /\ Woken /\ UNCHANGED mRunningNodeNum
         /\ Has(n, "SIGFRAME") /\ node[n].frames > 0
         /\ \E L : L \subseteq StreamedLinks(n) /\ Depend(L)
<1>1. /\ node[n].pc \in {"depend in", "depend out"}
      /\ \E l \in {"release out", "input"} :
           \E L : L \subseteq StreamedLinks(n) /\ StartChildren(n, L, l)
  BY DEF DependInput, DependOutput, At
<1>2. PICK l \in {"release out", "input"} :
        \E L : L \subseteq StreamedLinks(n) /\ StartChildren(n, L, l)
  BY <1>1
<1>3. PICK L : L \subseteq StreamedLinks(n) /\ StartChildren(n, L, l)
  BY <1>2
<1>4. Depend(L) /\ Goto(n, l) /\ UNCHANGED mRunningNodeNum /\ (NotifyMain \/ UNCHANGED main)
  BY <1>3 DEF StartChildren
<1>5. Has(n, "SIGFRAME") /\ node[n].frames > 0
  BY <1>1 DEF Local
<1>6. Moves(n) /\ node'[n].pc # "done"
  BY <1>1, <1>4, <1>5, GotoStep DEF NodePcs
<1> QED BY <1>3, <1>4, <1>5, <1>6, WokenByNotify

\* ... or one by one when it has ended.
LEMMA DependLinkStep ==
  ASSUME Typed, NEW n \in Nodes, Local(n), DependLink(n)
  PROVE  /\ Moves(n) /\ node'[n].pc = "links" /\ node[n].pc = "depend"
         /\ node'[n].left = node[n].left
         /\ Depend({node[n].link}) /\ UNCHANGED <<main, mRunningNodeNum>>
<1>1. /\ node[n].pc = "depend" /\ Depend({node[n].link}) /\ UNCHANGED <<main, mRunningNodeNum>>
      /\ node' = [node EXCEPT ![n].pc = "links", ![n].link = 0]
  BY DEF DependLink, At
<1> DEFINE r == [node[n] EXCEPT !.pc = "links", !.link = 0]
<1>2. node \in [Nodes -> Threads] /\ node[n] \in Threads
  BY RecordTyped
<1>3. r \in Threads /\ r.pc = "links"
  BY <1>2 DEF Threads, NodePcs
<1>4. r.frames = node[n].frames /\ r.ok = node[n].ok /\ r.left = node[n].left
  BY <1>2 DEF Threads
<1>5. node' \in [Nodes -> Threads] /\ node'[n] = r /\ \A m \in Nodes : m # n => node'[m] = node[m]
  BY <1>1, <1>2, <1>3
<1> HIDE DEF r
<1>6. node[n].left \subseteq OutLinks[n] /\ node[n].ok
  BY <1>1 DEF Local
<1>7. Local(n)'
  BY <1>3, <1>4, <1>5, <1>6 DEF Local
<1>8. r.frames >= node[n].frames
  BY <1>4, RecordTyped
<1> QED BY <1>1, <1>3, <1>4, <1>5, <1>6, <1>7, <1>8 DEF Moves

LEMMA LastStep ==
  ASSUME Typed, NEW n \in Nodes, Local(n), Finish(n) \/ Fail(n)
  PROVE  /\ Moves(n) /\ node'[n].pc = "done"
         /\ Woken /\ mRunningNodeNum' = mRunningNodeNum - 1
         /\ UNCHANGED <<mRunSequence, mDependenceNum>>
<1>1. /\ node[n].pc \in {"links", "error links"} /\ node' = [node EXCEPT ![n].pc = "done"]
      /\ NotifyMain /\ mRunningNodeNum' = mRunningNodeNum - 1
      /\ UNCHANGED <<mRunSequence, mDependenceNum>>
  BY DEF Finish, Fail, At, Goto
<1> DEFINE r == [node[n] EXCEPT !.pc = "done"]
<1>2. node \in [Nodes -> Threads] /\ node[n] \in Threads
  BY RecordTyped
<1>3. r \in Threads /\ r.pc = "done"
  BY <1>2 DEF Threads, NodePcs
<1>4. r.frames = node[n].frames /\ r.ok = node[n].ok /\ r.left = node[n].left
  BY <1>2 DEF Threads
<1>5. node' \in [Nodes -> Threads] /\ node'[n] = r /\ \A m \in Nodes : m # n => node'[m] = node[m]
  BY <1>1, <1>2, <1>3
<1> HIDE DEF r
<1>6. Local(n)'
  BY <1>3, <1>5 DEF Local
<1>7. r.frames >= node[n].frames
  BY <1>4, RecordTyped
<1>8. Moves(n)
  BY <1>1, <1>3, <1>4, <1>5, <1>6, <1>7 DEF Moves
<1> QED BY <1>1, <1>3, <1>5, <1>8, WokenByNotify

-----------------------------------------------------------------------------
(* What a step of a node's thread does to the run of the request *)

\* Counts fall, and the nodes whose counts are used up are queued.
Depends ==
  /\ mRunSequence' \in Seq(Nodes) /\ mDependenceNum' \in [Nodes -> Int]
  /\ \A n \in Nodes : mDependenceNum'[n] <= mDependenceNum[n]
  /\ \E new \in Seq(Nodes) :
       /\ mRunSequence' = mRunSequence \o new
       /\ \A k \in DOMAIN new : mDependenceNum[new[k]] > 0 /\ mDependenceNum'[new[k]] <= 0
       /\ \A j, k \in DOMAIN new : new[j] = new[k] => j = k

LEMMA NothingDepends ==
  ASSUME Typed, UNCHANGED <<mRunSequence, mDependenceNum>>
  PROVE  Depends
<1>1. mRunSequence \in Seq(Nodes) /\ mDependenceNum \in [Nodes -> Int]
  BY DEF Typed
<1>2. \A n \in Nodes : mDependenceNum[n] \in Int
  BY <1>1
<1>3. mRunSequence = mRunSequence \o <<>> /\ <<>> \in Seq(Nodes)
  BY <1>1, ConcatEmptySeq
<1>4. \E new \in Seq(Nodes) :
        /\ mRunSequence' = mRunSequence \o new
        /\ \A k \in DOMAIN new : mDependenceNum[new[k]] > 0 /\ mDependenceNum'[new[k]] <= 0
        /\ \A j, k \in DOMAIN new : new[j] = new[k] => j = k
  <2>1. mRunSequence' = mRunSequence \o <<>>
    BY <1>3
  <2>2. DOMAIN <<>> = {}
    OBVIOUS
  <2> WITNESS <<>> \in Seq(Nodes)
  <2> QED BY <2>1, <2>2
<1> QED BY <1>1, <1>2, <1>4 DEF Depends

LEMMA SomethingDepends ==
  ASSUME Typed, NEW L, L \subseteq LinkIds, Depend(L)
  PROVE  Depends
BY DependStep DEF Depends

\* The steps that settle something or end the node; L are the links settled.
Streams(n) ==
  /\ node'[n].pc # "done" /\ UNCHANGED mRunningNodeNum
  /\ Has(n, "SIGFRAME") /\ node[n].frames > 0
  /\ \E L : L \subseteq StreamedLinks(n) /\ Depend(L)
Settles(n) ==
  /\ node'[n].pc = "links" /\ node[n].pc = "depend" /\ node'[n].left = node[n].left
  /\ Depend({node[n].link}) /\ UNCHANGED mRunningNodeNum
Ends(n) ==
  /\ node'[n].pc = "done" /\ mRunningNodeNum' = mRunningNodeNum - 1
  /\ UNCHANGED <<mRunSequence, mDependenceNum>>
Continues(n) ==
  /\ node'[n].pc # "done"
  /\ UNCHANGED <<mRunningNodeNum, mRunSequence, mDependenceNum>>

LEMMA NodeStep ==
  ASSUME Typed, NEW n \in Nodes, Local(n), processTask(n)
  PROVE  Moves(n) /\ Woken /\ (Streams(n) \/ Settles(n) \/ Ends(n) \/ Continues(n))
<1>1. CASE DependInput(n) \/ DependOutput(n)
  BY <1>1, StreamStep DEF Streams
<1>2. CASE DependLink(n)
  BY <1>2, DependLinkStep, WokenByNotify DEF Settles
<1>3. CASE Finish(n) \/ Fail(n)
  BY <1>3, LastStep DEF Ends
<1>4. CASE \/ GetInput(n) \/ NotEffective(n) \/ GetOutput(n) \/ NoOutput(n) \/ PluginFails(n)
           \/ PluginReturns(n) \/ ReleaseOneInput(n) \/ ReleaseOneOutput(n) \/ Notify(n)
           \/ ReleaseAllInput(n) \/ ReleaseLink(n) \/ Callback(n) \/ ReleaseSinkOnError(n)
  <2>1. Moves(n) /\ UNCHANGED <<runVars, main>> /\ node'[n].pc # "done"
    BY <1>4, QuietStep, SucceedStep, LinkStep, CallbackStep, ErrorSinkStep
  <2>2. Continues(n) /\ UNCHANGED main
    BY <2>1 DEF Continues, runVars
  <2> QED BY <2>1, <2>2, WokenByNotify
<1> QED BY <1>1, <1>2, <1>3, <1>4 DEF processTask, betweenFrames, notifyNextNode

LEMMA NodeDepends ==
  ASSUME Typed, NEW n \in Nodes, Local(n),
         Streams(n) \/ Settles(n) \/ Ends(n) \/ Continues(n)
  PROVE  Depends /\ mRunningNodeNum' \in Int
<1>1. mRunningNodeNum \in Int
  BY DEF Typed
<1>2. CASE Streams(n)
  <2>1. PICK L : L \subseteq StreamedLinks(n) /\ Depend(L)
    BY <1>2 DEF Streams
  <2>2. StreamedLinks(n) \subseteq LinkIds
    BY LinksOut DEF StreamedLinks
  <2>3. L \subseteq LinkIds
    BY <2>1, <2>2
  <2>4. Depends
    BY <2>1, <2>3, SomethingDepends
  <2> QED BY <1>1, <1>2, <2>4 DEF Streams
<1>3. CASE Settles(n)
  <2>1. node[n].link \in OutLinks[n]
    BY <1>3 DEF Settles, Local
  <2>2. {node[n].link} \subseteq LinkIds
    BY <2>1, LinksOut
  <2>3. Depends
    BY <1>3, <2>2, SomethingDepends DEF Settles
  <2> QED BY <1>1, <1>3, <2>3 DEF Settles
<1>4. CASE Ends(n)
  BY <1>1, <1>4, NothingDepends DEF Ends
<1>5. CASE Continues(n)
  BY <1>1, <1>5, NothingDepends DEF Continues
<1> QED BY <1>2, <1>3, <1>4, <1>5

\* What is settled stays settled, and a link that streams goes on streaming.
LEMMA SettledStays ==
  ASSUME Typed, NEW n \in Nodes, Moves(n), NEW l, links[l].src \in Nodes
  PROVE  (Settled(l) => Settled(l)') /\ (Streaming(l) => Streaming(l)')
<1> DEFINE m == links[l].src
<1>1. CASE m # n
  <2>1. node'[m] = node[m]
    BY <1>1 DEF Moves
  <2> QED BY <2>1 DEF Settled, Streaming
<1>2. CASE m = n
  <2>1. node[n].pc # "done" /\ node'[n].frames >= node[n].frames
    BY DEF Moves
  <2>2. node[n].frames \in Nat /\ node'[n].frames \in Nat
    BY DEF Moves, Typed, Threads
  <2>3. ASSUME Settled(l) PROVE Settled(l)'
    <3>1. node[n].pc \in {"links", "depend"} /\ node[n].ok /\ l \notin node[n].left
      BY <1>2, <2>1, <2>3 DEF Settled
    <3>2. /\ node'[n].pc \in {"links", "depend", "done"} /\ node'[n].ok = node[n].ok
          /\ node'[n].left \subseteq node[n].left
          /\ node'[n].pc = "depend" => node'[n].link \in node[n].left
      BY <3>1 DEF Moves
    <3>3. l \notin node'[n].left /\ ~(node'[n].pc = "depend" /\ node'[n].link = l)
      BY <3>1, <3>2
    <3> QED BY <1>2, <3>1, <3>2, <3>3 DEF Settled
  <2>4. ASSUME Streaming(l) PROVE Streaming(l)'
    BY <1>2, <2>1, <2>2, <2>4 DEF Streaming
  <2> QED BY <2>3, <2>4
<1> QED BY <1>1, <1>2

-----------------------------------------------------------------------------
(* Steps of a node's thread keep the invariant *)

LEMMA ThreadTyped ==
  ASSUME Inv, NEW n \in Nodes, processTask(n)
  PROVE  Typed' /\ \A m \in Nodes : Local(m)'
<1>1. Typed /\ Local(n) /\ \A m \in Nodes : Local(m)
  BY DEF Inv
<1>2. Moves(n) /\ Woken /\ (Streams(n) \/ Settles(n) \/ Ends(n) \/ Continues(n))
  BY <1>1, NodeStep
<1>3. Depends /\ mRunningNodeNum' \in Int
  BY <1>1, <1>2, NodeDepends
<1>4. Typed'
  BY <1>2, <1>3 DEF Typed, Moves, Woken, Depends
<1>5. ASSUME NEW m \in Nodes PROVE Local(m)'
  <2>1. CASE m = n
    BY <1>2, <2>1 DEF Moves
  <2>2. CASE m # n
    <3>1. node'[m] = node[m] /\ Local(m)
      BY <1>1, <1>2, <2>2 DEF Moves
    <3> QED BY <3>1 DEF Local
  <2> QED BY <2>1, <2>2
<1> QED BY <1>4, <1>5

\* Concatenation: where the members of a sequence with others behind it come from.
LEMMA Behind ==
  ASSUME NEW s \in Seq(Nodes), NEW t \in Seq(Nodes)
  PROVE  \A k \in DOMAIN (s \o t) :
           \/ k \in DOMAIN s /\ (s \o t)[k] = s[k]
           \/ k - Len(s) \in DOMAIN t /\ (s \o t)[k] = t[k - Len(s)]
<1>1. /\ DOMAIN s = 1 .. Len(s) /\ DOMAIN t = 1 .. Len(t) /\ Len(s) \in Nat /\ Len(t) \in Nat
      /\ Len(s \o t) = Len(s) + Len(t) /\ DOMAIN (s \o t) = 1 .. Len(s \o t)
      /\ \A i \in 1 .. Len(s) + Len(t) : (s \o t)[i] = IF i <= Len(s) THEN s[i] ELSE t[i - Len(s)]
  BY ConcatProperties, LenProperties
<1> QED BY <1>1

LEMMA ThreadOnce ==
  ASSUME Inv, NEW n \in Nodes, processTask(n)
  PROVE  Once'
<1>1. Typed /\ Local(n) /\ Once
  BY DEF Inv
<1>2. Moves(n) /\ Woken /\ Depends
  BY <1>1, NodeStep, NodeDepends
<1>3. PICK new \in Seq(Nodes) :
        /\ mRunSequence' = mRunSequence \o new
        /\ \A k \in DOMAIN new : mDependenceNum[new[k]] > 0 /\ mDependenceNum'[new[k]] <= 0
        /\ \A j, k \in DOMAIN new : new[j] = new[k] => j = k
  BY <1>2 DEF Depends
<1>4. /\ ~At(n, "idle") /\ ~At(n, "idle")'
      /\ \A m \in Nodes : m # n => (At(m, "idle")' <=> At(m, "idle"))
  BY <1>2 DEF Moves, At
<1>5. /\ \A m \in Nodes : Held(m)' <=> Held(m)
      /\ main.pc \notin {"start", "prepare"} /\ main'.pc \notin {"start", "prepare"}
      /\ (main'.pc = "post" => main'.node \in Nodes) /\ ~TopologyError
  <2>1. main.pc \notin {"start", "prepare"} /\ ~TopologyError
    BY <1>1, <1>4 DEF Once
  <2>2. main'.node = main.node /\ (main'.pc = main.pc \/ (main.pc = "asleep" /\ main'.pc = "wait"))
    BY <1>2 DEF Woken
  <2>3. \A m \in Nodes : Held(m)' <=> Held(m)
    BY <2>2 DEF Held
  <2> QED BY <1>1, <2>1, <2>2, <2>3 DEF Once
<1>6. mRunSequence \in Seq(Nodes)
  BY <1>1 DEF Typed
<1>7. \A m \in Nodes : Queued(m)' <=> \E k \in DOMAIN mRunSequence' : mRunSequence'[k] = m
  BY DEF Queued
<1>8. \A k \in DOMAIN mRunSequence' :
        \/ k \in DOMAIN mRunSequence /\ mRunSequence'[k] = mRunSequence[k]
        \/ k - Len(mRunSequence) \in DOMAIN new /\ mRunSequence'[k] = new[k - Len(mRunSequence)]
  BY <1>3, <1>6, Behind
<1>9. \A m \in Nodes : Queued(m)' =>
        Queued(m) \/ (mDependenceNum[m] > 0 /\ mDependenceNum'[m] <= 0)
  BY <1>3, <1>7, <1>8 DEF Queued
<1>10. \A m \in Nodes : mDependenceNum[m] \in Int /\ mDependenceNum'[m] \in Int
                        /\ mDependenceNum'[m] <= mDependenceNum[m]
  BY <1>1, <1>2 DEF Typed, Depends
<1>11. \A m \in Nodes : mDependenceNum[m] > 0 => ~Queued(m) /\ ~Held(m) /\ At(m, "idle")
  BY <1>1, <1>10 DEF Once
<1>12. \A m \in Nodes : Queued(m)' => At(m, "idle")' /\ ~Held(m)'
  <2>1. \A m \in Nodes : Queued(m) \/ mDependenceNum[m] > 0 => At(m, "idle") /\ ~Held(m)
    BY <1>1, <1>11 DEF Once
  <2>2. \A m \in Nodes : Queued(m)' => At(m, "idle") /\ ~Held(m)
    BY <1>9, <2>1
  <2> QED BY <1>4, <1>5, <2>2
<1>13. \A m \in Nodes : Held(m)' => At(m, "idle")'
  <2>1. \A m \in Nodes : Held(m)' => At(m, "idle")
    BY <1>1, <1>5 DEF Once
  <2> QED BY <1>4, <2>1
<1>14. \A m \in Nodes : Queued(m)' \/ Held(m)' \/ ~At(m, "idle")' => mDependenceNum'[m] <= 0
  <2>1. \A m \in Nodes : Queued(m) \/ Held(m) \/ ~At(m, "idle") => mDependenceNum[m] <= 0
    BY <1>1 DEF Once
  <2>2. \A m \in Nodes : mDependenceNum[m] <= 0 => mDependenceNum'[m] <= 0
    BY <1>10
  <2>3. \A m \in Nodes : Held(m)' \/ ~At(m, "idle")' => Held(m) \/ ~At(m, "idle")
    BY <1>4, <1>5
  <2> QED BY <1>9, <2>1, <2>2, <2>3
<1>15. \A j, k \in DOMAIN mRunSequence' : mRunSequence'[j] = mRunSequence'[k] => j = k
  <2> SUFFICES ASSUME NEW j \in DOMAIN mRunSequence', NEW k \in DOMAIN mRunSequence',
                      mRunSequence'[j] = mRunSequence'[k]
               PROVE  j = k
    OBVIOUS
  <2>1. \A i \in DOMAIN mRunSequence, x \in DOMAIN new : mRunSequence[i] # new[x]
    <3> SUFFICES ASSUME NEW i \in DOMAIN mRunSequence, NEW x \in DOMAIN new,
                        mRunSequence[i] = new[x]
                 PROVE  FALSE
      OBVIOUS
    <3>1. new[x] \in Nodes /\ mDependenceNum[new[x]] > 0
      BY <1>3
    <3>2. Queued(new[x])
      BY DEF Queued
    <3> QED BY <1>11, <3>1, <3>2
  <2>2. \A i, x \in DOMAIN mRunSequence : mRunSequence[i] = mRunSequence[x] => i = x
    BY <1>1 DEF Once
  <2>3. DOMAIN mRunSequence \subseteq Int /\ Len(mRunSequence) \in Int /\ DOMAIN mRunSequence' \subseteq Int
    <3>1. mRunSequence' \in Seq(Nodes)
      BY <1>2 DEF Depends
    <3> QED BY <1>6, <3>1
  <2>4. CASE j \in DOMAIN mRunSequence /\ mRunSequence'[j] = mRunSequence[j]
    BY <1>8, <2>1, <2>2, <2>4
  <2>5. CASE j - Len(mRunSequence) \in DOMAIN new /\ mRunSequence'[j] = new[j - Len(mRunSequence)]
    <3>1. k - Len(mRunSequence) \in DOMAIN new /\ mRunSequence'[k] = new[k - Len(mRunSequence)]
      BY <1>8, <2>1, <2>5
    <3>2. j - Len(mRunSequence) = k - Len(mRunSequence)
      BY <1>3, <2>5, <3>1
    <3> QED BY <2>3, <3>2
  <2> QED BY <1>8, <2>4, <2>5
<1> QED BY <1>5, <1>12, <1>13, <1>14, <1>15 DEF Once

\* How a thread's step touches the count of node m: a link into m that was not
\* settled is now, or is streaming.
LEMMA Touched ==
  ASSUME Inv, NEW n \in Nodes, processTask(n), NEW m \in Nodes,
         mDependenceNum'[m] # mDependenceNum[m]
  PROVE  \/ Has(m, "SIGFRAME") /\ \E l \in Into(m) : Streaming(l)'
         \/ /\ mDependenceNum'[m] >= mDependenceNum[m] - 1
            /\ \E l \in Into(m) : ~Settled(l) /\ Settled(l)'
<1>1. Typed /\ Local(n)
  BY DEF Inv
<1>2. Moves(n) /\ (Streams(n) \/ Settles(n))
  <2>1. Moves(n) /\ (Streams(n) \/ Settles(n) \/ Ends(n) \/ Continues(n))
    BY <1>1, NodeStep
  <2> QED BY <2>1 DEF Ends, Continues
<1>3. CASE Streams(n)
  <2>1. PICK L : L \subseteq StreamedLinks(n) /\ Depend(L)
    BY <1>3 DEF Streams
  <2>2. L \subseteq OutLinks[n] \ SinkLinks /\ L \subseteq LinkIds
    BY <2>1, LinksOut DEF StreamedLinks
  <2>3. PICK l \in L : links[l].dst = m
    BY <1>1, <2>1, <2>2, DependStep
  <2>4. l \in Into(m) /\ links[l].src = n /\ Has(m, "SIGFRAME")
    BY <2>1, <2>2, <2>3, LinksOut DEF StreamedLinks
  <2>5. Streaming(l)
    BY <1>3, <2>4 DEF Streams, Streaming
  <2>6. Streaming(l)'
    BY <1>1, <1>2, <2>4, <2>5, SettledStays
  <2> QED BY <2>4, <2>6
<1>4. CASE Settles(n)
  <2>1. PICK l : l = node[n].link
    OBVIOUS
  <2>2. node[n].pc = "depend" /\ node'[n].pc = "links" /\ node'[n].left = node[n].left /\ Depend({l})
    BY <1>4, <2>1 DEF Settles
  <2>3. l \in OutLinks[n] \ SinkLinks /\ l \notin node[n].left
    BY <1>1, <2>1, <2>2 DEF Local
  <2>4. l \in LinkIds
    BY <2>3, LinksOut
  <2>5. links[l].dst = m /\ mDependenceNum'[m] >= mDependenceNum[m] - 1
    BY <1>1, <2>2, <2>4, DependOne
  <2>6. l \in Into(m) /\ links[l].src = n
    BY <2>3, <2>5, LinksOut
  <2>7. ~Settled(l)
    BY <2>1, <2>2, <2>6 DEF Settled
  <2>8. node[n].ok /\ node'[n].ok = node[n].ok
    BY <1>1, <1>2, <2>2 DEF Local, Moves
  <2>9. Settled(l)'
    BY <2>2, <2>3, <2>6, <2>8 DEF Settled
  <2> QED BY <2>5, <2>6, <2>7, <2>9
<1> QED BY <1>2, <1>3, <1>4

LEMMA ThreadOutstanding ==
  ASSUME Inv, NEW n \in Nodes, processTask(n)
  PROVE  Outstanding'
<1>1. Typed /\ Local(n) /\ Typed'
  BY ThreadTyped DEF Inv
<1>2. Moves(n) /\ Depends
  BY <1>1, NodeStep, NodeDepends
<1>3. UnderWay
  BY <1>2 DEF UnderWay, Moves, At
<1>4. \A m \in Nodes : \A l \in Into(m) : (Settled(l) => Settled(l)') /\ (Streaming(l) => Streaming(l)')
  BY <1>1, <1>2, LinksInto, SettledStays
<1>5. \A m \in Nodes : /\ mDependenceNum[m] \in Int /\ mDependenceNum'[m] \in Int
                       /\ mDependenceNum'[m] <= mDependenceNum[m]
  BY <1>1, <1>2 DEF Typed, Depends
<1>6. ASSUME NEW m \in Nodes, ~Has(m, "SIGFRAME")
      PROVE  mDependenceNum'[m] >= Cardinality(Unsettled(m)')
  <2>1. mDependenceNum[m] >= Cardinality(Unsettled(m))
    BY <1>3, <1>6 DEF Inv, Outstanding
  <2>2. Unsettled(m)' \subseteq Unsettled(m) /\ Unsettled(m) \subseteq LinkIds
    BY <1>4, LinksInto DEF Unsettled
  <2>3. /\ IsFiniteSet(Unsettled(m)) /\ Cardinality(Unsettled(m)) \in Nat
        /\ Cardinality(Unsettled(m)') \in Nat
        /\ Cardinality(Unsettled(m)') <= Cardinality(Unsettled(m))
    BY <2>2, FiniteLinks, FS_Subset
  <2>4. CASE mDependenceNum'[m] = mDependenceNum[m]
    BY <1>5, <2>1, <2>3, <2>4
  <2>5. CASE mDependenceNum'[m] # mDependenceNum[m]
    <3>1. mDependenceNum'[m] >= mDependenceNum[m] - 1
          /\ \E l \in Into(m) : ~Settled(l) /\ Settled(l)'
      BY <1>6, <2>5, Touched
    <3>2. PICK l \in Into(m) : ~Settled(l) /\ Settled(l)'
      BY <3>1
    <3>3. l \in Unsettled(m) /\ Unsettled(m)' \subseteq Unsettled(m) \ {l}
      BY <2>2, <3>2 DEF Unsettled
    <3>4. IsFiniteSet(Unsettled(m) \ {l})
          /\ Cardinality(Unsettled(m) \ {l}) = Cardinality(Unsettled(m)) - 1
      BY <2>3, <3>3, FS_RemoveElement
    <3>5. Cardinality(Unsettled(m)') <= Cardinality(Unsettled(m)) - 1
      BY <3>3, <3>4, FS_Subset
    <3> QED BY <1>5, <2>1, <2>3, <3>1, <3>5
  <2> QED BY <2>4, <2>5
<1>7. ASSUME NEW m \in Nodes, Has(m, "SIGFRAME"), ~TopologyError, mDependenceNum'[m] <= 0,
             NEW l \in Into(m)
      PROVE  Settled(l)' \/ Streaming(l)'
  <2>1. CASE mDependenceNum[m] <= 0
    <3>1. Settled(l) \/ Streaming(l)
      BY <1>3, <1>7, <2>1 DEF Inv, Outstanding
    <3> QED BY <1>4, <3>1
  <2>2. CASE ~(mDependenceNum[m] <= 0)
    <3>1. mDependenceNum'[m] # mDependenceNum[m]
      BY <1>7, <2>2
    <3>2. \E k \in Into(m) : Settled(k)' \/ Streaming(k)'
      BY <3>1, Touched
    <3> QED BY <1>7, <3>2, OneLink
  <2> QED BY <2>1, <2>2
<1>8. \A m \in Nodes : Has(m, "SIGFRAME")' = Has(m, "SIGFRAME")
  BY DEF Has
<1> QED BY <1>6, <1>7, <1>8 DEF Outstanding

\* The number of active nodes when one of them ends, and when one is started.
LEMMA OneEnds ==
  ASSUME NEW S, S \subseteq Nodes, NEW n \in S
  PROVE  Cardinality(S \ {n}) = Cardinality(S) - 1 /\ Cardinality(S) \in Nat
<1>1. IsFiniteSet(S)
  BY FiniteNodes
<1> QED BY <1>1, FS_RemoveElement, FS_CardinalityType

LEMMA OneStarts ==
  ASSUME NEW S, S \subseteq Nodes, NEW n \in Nodes, n \notin S
  PROVE  Cardinality(S \cup {n}) = Cardinality(S) + 1 /\ Cardinality(S) \in Nat
<1>1. IsFiniteSet(S)
  BY FiniteNodes
<1> QED BY <1>1, FS_AddElement, FS_CardinalityType

LEMMA ThreadRunning ==
  ASSUME Inv, NEW n \in Nodes, processTask(n)
  PROVE  Running'
<1>1. Typed /\ Local(n) /\ Running
  BY DEF Inv
<1>2. Moves(n) /\ Woken /\ (Streams(n) \/ Settles(n) \/ Ends(n) \/ Continues(n)) /\ Depends
  BY <1>1, NodeStep, NodeDepends
<1>3. n \in Active /\ Active \subseteq Nodes
  BY <1>2 DEF Active, Moves
<1>4. Active' = IF node'[n].pc = "done" THEN Active \ {n} ELSE Active
  <2>1. /\ \A m \in Nodes : m # n => node'[m] = node[m]
        /\ node[n].pc \notin {"idle", "done"} /\ node'[n].pc # "idle"
    BY <1>2 DEF Moves
  <2> QED BY <2>1 DEF Active
<1>5. /\ main'.pc = main.pc \/ (main.pc = "asleep" /\ main'.pc = "wait")
      /\ main'.ok = main.ok
  BY <1>2 DEF Woken
<1>6. main.pc \notin {"release ports", "release rest", "finished"}
  BY <1>1, <1>3 DEF Running
<1>7. main'.pc \notin {"release ports", "release rest", "finished"}
  BY <1>5, <1>6
<1>8. main'.pc = "loop" => mRunSequence' # <<>>
  <2>1. mRunSequence \in Seq(Nodes) /\ \E new \in Seq(Nodes) : mRunSequence' = mRunSequence \o new
    BY <1>1, <1>2 DEF Typed, Depends
  <2>2. ASSUME main'.pc = "loop" PROVE mRunSequence # <<>>
    BY <1>1, <1>3, <1>5, <2>2 DEF Running
  <2>3. mRunSequence # <<>> => mRunSequence' # <<>>
    <3> SUFFICES ASSUME mRunSequence # <<>>, mRunSequence' = <<>> PROVE FALSE
      OBVIOUS
    <3>1. PICK new \in Seq(Nodes) : mRunSequence' = mRunSequence \o new
      BY <2>1
    <3>2. mRunSequence = <<>>
      BY <2>1, <3>1, ConcatSimplifications
    <3> QED BY <3>2
  <2> QED BY <2>2, <2>3
<1>9. mRunningNodeNum' = Cardinality(Active') - Uncounted'
  <2>0. Uncounted \in Int
    BY DEF Uncounted
  <2>1. mRunningNodeNum = Cardinality(Active) - Uncounted /\ Uncounted \in Int
    BY <1>1, <2>0 DEF Running
  <2>2. Uncounted' = Uncounted
    BY <1>5 DEF Uncounted
  <2>3. CASE Ends(n)
    <3>1. Active' = Active \ {n} /\ mRunningNodeNum' = mRunningNodeNum - 1
      BY <1>4, <2>3 DEF Ends
    <3>2. Cardinality(Active') = Cardinality(Active) - 1 /\ Cardinality(Active) \in Nat
      BY <1>3, <3>1, OneEnds
    <3> QED BY <2>1, <2>2, <3>1, <3>2
  <2>4. CASE ~Ends(n)
    <3>1. Active' = Active /\ mRunningNodeNum' = mRunningNodeNum
      BY <1>2, <1>4, <2>4 DEF Streams, Settles, Continues
    <3> QED BY <2>1, <2>2, <3>1
  <2> QED BY <2>3, <2>4
<1> QED BY <1>7, <1>8, <1>9 DEF Running

LEMMA ThreadKeeps ==
  ASSUME Inv, NEW n \in Nodes, processTask(n)
  PROVE  Inv'
BY ThreadTyped, ThreadOnce, ThreadOutstanding, ThreadRunning DEF Inv

-----------------------------------------------------------------------------
(* Steps of postProcTask keep the invariant *)

\* Two ways in which Once and Outstanding hold of a request that has not begun,
\* or has nothing left to start.
LEMMA NothingRuns ==
  ASSUME Typed, \A n \in Nodes : At(n, "idle")
  PROVE  Active = {} /\ Cardinality(Active) = 0 /\ \A n \in Nodes : Local(n)
BY FS_EmptySet DEF Active, At, Local

LEMMA AllCounted ==
  ASSUME Running, Active = {}, main.pc # "count"
  PROVE  mRunningNodeNum = 0
<1>1. Uncounted = 0
  BY DEF Uncounted
<1>2. mRunningNodeNum = Cardinality(Active) - Uncounted /\ Cardinality(Active) = 0
  BY FS_EmptySet DEF Running
<1> QED BY <1>1, <1>2

LEMMA StartKeeps ==
  ASSUME Inv, Start
  PROVE  Inv'
<1>1. /\ main.pc = "start" /\ UNCHANGED <<node, runVars>>
      /\ MainGoto("release ports") \/ MainGoto("prepare")
  BY DEF Start
<1>2. UNCHANGED <<mRunSequence, mDependenceNum, mRunningNodeNum>>
  BY <1>1 DEF runVars
<1>3. /\ main' \in [pc : MainPcs, node : Nodes \cup {NoNode}, ok : BOOLEAN, ports : SUBSET Ports]
      /\ main'.pc \in {"release ports", "prepare"}
  BY <1>1 DEF Inv, Typed, MainGoto, MainPcs
<1>4. mRunSequence = <<>> /\ \A n \in Nodes : At(n, "idle")
  BY <1>1 DEF Inv, Once
<1>5. Active = {} /\ Cardinality(Active) = 0
  BY <1>4, NothingRuns DEF Inv
<1>6. mRunningNodeNum = 0
  BY <1>1, <1>5, AllCounted DEF Inv
<1>7. Typed' /\ \A n \in Nodes : Local(n)'
  BY <1>1, <1>2, <1>3 DEF Inv, Typed, Local
<1>8. /\ mRunSequence' = <<>> /\ \A n \in Nodes : At(n, "idle")'
      /\ Active' = {} /\ Cardinality(Active') = 0 /\ mRunningNodeNum' = 0
  BY <1>1, <1>2, <1>4, <1>5, <1>6 DEF At, Active
<1>9. Once'
  <2>1. DOMAIN mRunSequence' = {}
    BY <1>8
  <2>2. \A n \in Nodes : ~Queued(n)' /\ ~Held(n)'
    BY <1>3, <2>1 DEF Queued, Held
  <2> QED BY <1>3, <1>8, <2>1, <2>2 DEF Once
<1>10. ~UnderWay'
  BY <1>3, <1>8 DEF UnderWay
<1>11. Outstanding'
  BY <1>10 DEF Outstanding
<1>12. Uncounted' = 0
  BY <1>3 DEF Uncounted
<1>13. mRunningNodeNum' = Cardinality(Active') - Uncounted'
  BY <1>8, <1>12
<1>14. Running'
  BY <1>3, <1>8, <1>13 DEF Running
<1> QED BY <1>7, <1>9, <1>11, <1>14 DEF Inv

LEMMA PrepareKeeps ==
  ASSUME Inv, Prepare
  PROVE  Inv'
<1> DEFINE Dependence(n) == Cardinality(Into(n))
           Performable == {n \in Nodes : Dependence(n) = 0}
<1>1. /\ main.pc = "prepare" /\ UNCHANGED <<node, mRunningNodeNum>>
      /\ mDependenceNum' = [n \in Nodes |-> Dependence(n)]
      /\ \/ TopologyError /\ MainGoto("release ports") /\ UNCHANGED mRunSequence
         \/ ~TopologyError /\ MainGoto("loop") /\ mRunSequence' = SetToSeq(Performable)
  BY DEF Prepare, Into
<1>2. mRunSequence = <<>> /\ \A n \in Nodes : At(n, "idle")
  BY <1>1 DEF Inv, Once
<1>3. /\ main' \in [pc : MainPcs, node : Nodes \cup {NoNode}, ok : BOOLEAN, ports : SUBSET Ports]
      /\ main'.pc \in {"release ports", "loop"}
      /\ main'.pc = "release ports" => mRunSequence' = <<>>
      /\ main'.pc = "loop" => ~TopologyError
  <2>1. main \in [pc : MainPcs, node : Nodes \cup {NoNode}, ok : BOOLEAN, ports : SUBSET Ports]
    BY DEF Inv, Typed
  <2>2. CASE TopologyError
    BY <1>1, <1>2, <2>1, <2>2 DEF MainGoto, MainPcs
  <2>3. CASE ~TopologyError
    BY <1>1, <2>1, <2>3 DEF MainGoto, MainPcs
  <2> QED BY <2>2, <2>3
<1>4. \A n \in Nodes : Dependence(n) \in Nat /\ Into(n) \subseteq LinkIds /\ IsFiniteSet(Into(n))
  BY LinksInto, FiniteLinks
<1>5. /\ SetToSeq(Performable) \in Seq(Nodes)
      /\ \A k \in DOMAIN SetToSeq(Performable) : SetToSeq(Performable)[k] \in Performable
      /\ \A j, k \in DOMAIN SetToSeq(Performable) :
           SetToSeq(Performable)[j] = SetToSeq(Performable)[k] => j = k
  <2>1. Performable \subseteq Nodes
    OBVIOUS
  <2> HIDE DEF Performable
  <2> QED BY <2>1, Listed
<1>6. \A n \in Nodes : mDependenceNum'[n] = Dependence(n)
  BY <1>1
<1>7. /\ mRunSequence' \in Seq(Nodes)
      /\ \A k \in DOMAIN mRunSequence' : mRunSequence'[k] \in Performable
      /\ \A j, k \in DOMAIN mRunSequence' : mRunSequence'[j] = mRunSequence'[k] => j = k
      /\ mRunSequence' # <<>> => ~TopologyError
  <2> HIDE DEF Performable
  <2>1. CASE TopologyError
    <3>1. mRunSequence' = <<>>
      BY <1>1, <1>2, <2>1
    <3> QED BY <3>1
  <2>2. CASE ~TopologyError
    BY <1>1, <1>5, <2>2
  <2> QED BY <2>1, <2>2
<1>8. mDependenceNum' \in [Nodes -> Int]
  <2>1. \A n \in Nodes : Dependence(n) \in Int
    BY <1>4
  <2> HIDE DEF Dependence
  <2>2. [n \in Nodes |-> Dependence(n)] \in [Nodes -> Int]
    BY <2>1
  <2> QED BY <1>1, <2>2
<1>9. /\ \A n \in Nodes : At(n, "idle")'
      /\ Active' = {} /\ Cardinality(Active') = 0 /\ mRunningNodeNum' = 0
  <2>1. Active = {} /\ Cardinality(Active) = 0
    BY <1>2, NothingRuns DEF Inv
  <2>2. mRunningNodeNum = 0
    BY <1>1, <2>1, AllCounted DEF Inv
  <2>3. node' = node /\ mRunningNodeNum' = mRunningNodeNum
    BY <1>1
  <2> QED BY <1>2, <2>1, <2>2, <2>3 DEF At, Active
<1>10. Typed' /\ \A n \in Nodes : Local(n)'
  BY <1>1, <1>3, <1>7, <1>8 DEF Inv, Typed, Local
<1>11. Once'
  <2>1. \A n \in Nodes : Queued(n)' => mDependenceNum'[n] <= 0 /\ ~TopologyError
    <3>1. \A n \in Nodes : Queued(n)' => n \in Performable /\ mRunSequence' # <<>>
      BY <1>7 DEF Queued
    <3>2. \A n \in Performable : mDependenceNum'[n] = 0
      BY <1>6
    <3> QED BY <1>7, <3>1, <3>2
  <2>2. \A n \in Nodes : ~Held(n)'
    BY <1>3 DEF Held
  <2> QED BY <1>3, <1>7, <1>9, <2>1, <2>2 DEF Once
<1>12. Outstanding'
  <2>1. ASSUME NEW n \in Nodes
        PROVE  /\ mDependenceNum'[n] >= Cardinality(Unsettled(n)')
               /\ mDependenceNum'[n] <= 0 => Into(n) = {}
    <3>1. Unsettled(n)' \subseteq Into(n)
      BY DEF Unsettled
    <3>2. Cardinality(Unsettled(n)') <= Cardinality(Into(n))
      BY <1>4, <3>1, FS_Subset
    <3>3. mDependenceNum'[n] = Cardinality(Into(n)) /\ Cardinality(Into(n)) \in Nat
      BY <1>4, <1>6
    <3>4. Cardinality(Unsettled(n)') \in Nat
      BY <1>4, <3>1, FiniteLinks
    <3>5. Cardinality(Into(n)) = 0 => Into(n) = {}
      BY <1>4, FS_EmptySet
    <3> QED BY <3>2, <3>3, <3>4, <3>5
  <2> QED BY <2>1 DEF Outstanding
<1>13. Running'
  <2>1. Uncounted' = 0
    BY <1>3 DEF Uncounted
  <2>2. mRunningNodeNum' = Cardinality(Active') - Uncounted'
    BY <1>9, <2>1
  <2> QED BY <1>3, <1>9, <2>2 DEF Running
<1> QED BY <1>10, <1>11, <1>12, <1>13 DEF Inv

\* What a step that leaves the nodes and the counts alone has to show.
LEMMA MainKeeps ==
  ASSUME Inv, UNCHANGED <<node, mDependenceNum>>,
         main' \in [pc : MainPcs, node : Nodes \cup {NoNode}, ok : BOOLEAN, ports : SUBSET Ports],
         mRunSequence' \in Seq(Nodes), mRunningNodeNum' \in Int,
         main.pc \notin {"start", "prepare"}, main'.pc \notin {"start", "prepare"},
         main'.pc \in {"loop", "post", "count", "wait", "asleep"} =>
           main.pc \in {"loop", "post", "count", "wait", "asleep"},
         main'.pc = "post" => main'.node \in Nodes,
         \A j, k \in DOMAIN mRunSequence' : mRunSequence'[j] = mRunSequence'[k] => j = k,
         \A n \in Nodes : Queued(n)' => Queued(n) /\ ~Held(n)',
         \A n \in Nodes : Held(n)' => Queued(n) \/ Held(n),
         Running'
  PROVE  Inv'
<1>1. Typed' /\ \A n \in Nodes : Local(n)'
  BY DEF Inv, Typed, Local
<1>2. \A n \in Nodes : At(n, "idle")' <=> At(n, "idle")
  BY DEF At
<1>3. Once'
  BY <1>2 DEF Inv, Once
<1>4. UnderWay' => UnderWay
  BY <1>2 DEF UnderWay
<1>5. /\ \A n \in Nodes : Unsettled(n)' = Unsettled(n)
      /\ \A l : Settled(l)' = Settled(l) /\ Streaming(l)' = Streaming(l)
  BY DEF Unsettled, Settled, Streaming
<1>6. Outstanding'
  BY <1>4, <1>5 DEF Inv, Outstanding
<1> QED BY <1>1, <1>3, <1>6 DEF Inv

LEMMA MainTyped ==
  ASSUME Inv
  PROVE  /\ main \in [pc : MainPcs, node : Nodes \cup {NoNode}, ok : BOOLEAN, ports : SUBSET Ports]
         /\ mRunSequence \in Seq(Nodes) /\ mRunningNodeNum \in Int /\ Once /\ Running
         /\ \A n \in Nodes : Queued(n) => ~Held(n)
BY DEF Inv, Typed, Once

LEMMA TakeKeeps ==
  ASSUME Inv, Take
  PROVE  Inv'
<1>1. main.pc = "loop" /\ UNCHANGED <<node, mDependenceNum, mRunningNodeNum>>
  BY DEF Take
<1>2. Active' = Active /\ mRunningNodeNum = Cardinality(Active) /\ mRunningNodeNum \in Int
  <2>1. Uncounted = 0
    BY <1>1 DEF Uncounted
  <2>2. mRunningNodeNum = Cardinality(Active) - 0 /\ mRunningNodeNum \in Int
    BY <2>1, MainTyped DEF Running
  <2>3. Cardinality(Active) \in Nat
    BY FiniteNodes DEF Active
  <2> QED BY <1>1, <2>2, <2>3 DEF Active
<1>3. CASE mRunSequence = <<>>
  <2>1. main' = [main EXCEPT !.pc = "release ports"] /\ UNCHANGED mRunSequence
    BY <1>3 DEF Take, MainGoto
  <2>2. /\ main' \in [pc : MainPcs, node : Nodes \cup {NoNode}, ok : BOOLEAN, ports : SUBSET Ports]
        /\ main'.pc = "release ports"
    BY <2>1, MainTyped DEF MainPcs
  <2>3. Active = {}
    BY <1>1, <1>3, MainTyped DEF Running
  <2>4. mRunningNodeNum' = Cardinality(Active') - Uncounted'
    <3>1. Uncounted' = 0
      BY <2>2 DEF Uncounted
    <3>2. mRunningNodeNum = mRunningNodeNum - 0
      BY <1>2
    <3> QED BY <1>1, <1>2, <3>1, <3>2
  <2>5. Running'
    BY <1>2, <1>3, <2>1, <2>2, <2>3, <2>4 DEF Running
  <2>6. mRunSequence' = <<>>
    BY <1>3, <2>1
  <2>7. \A n \in Nodes : ~Queued(n)' /\ ~Held(n)'
    <3>1. DOMAIN mRunSequence' = {}
      BY <2>6
    <3> QED BY <2>2, <3>1 DEF Queued, Held
  <2>8. \A j, k \in DOMAIN mRunSequence' : mRunSequence'[j] = mRunSequence'[k] => j = k
    <3>1. DOMAIN mRunSequence' = {}
      BY <2>6
    <3> QED BY <3>1
  <2>9. mRunSequence' \in Seq(Nodes) /\ mRunningNodeNum' \in Int
    BY <1>1, <2>1, MainTyped
  <2> QED BY <1>1, <2>2, <2>5, <2>7, <2>8, <2>9, MainKeeps
<1>4. CASE mRunSequence # <<>>
  <2>1. PICK h : h = Head(mRunSequence)
    OBVIOUS
  <2>2. main' = [main EXCEPT !.pc = "post", !.node = h] /\ mRunSequence' = Tail(mRunSequence)
    BY <1>4, <2>1 DEF Take
  <2>3. /\ mRunSequence \in Seq(Nodes) /\ Len(mRunSequence) \in Nat \ {0}
        /\ DOMAIN mRunSequence = 1 .. Len(mRunSequence) /\ h = mRunSequence[1] /\ h \in Nodes
    BY <1>4, <2>1, MainTyped
  <2>4. /\ mRunSequence' \in Seq(Nodes) /\ DOMAIN mRunSequence' = 1 .. Len(mRunSequence) - 1
        /\ \A k \in DOMAIN mRunSequence' : /\ k + 1 \in DOMAIN mRunSequence /\ k + 1 # 1
                                           /\ mRunSequence'[k] = mRunSequence[k + 1]
    <3>1. /\ Tail(mRunSequence) \in Seq(Nodes) /\ Len(Tail(mRunSequence)) = Len(mRunSequence) - 1
          /\ \A i \in 1 .. Len(Tail(mRunSequence)) : Tail(mRunSequence)[i] = mRunSequence[i + 1]
      BY <1>4, <2>3, HeadTailProperties
    <3> QED BY <2>2, <2>3, <3>1
  <2>5. \A j, k \in DOMAIN mRunSequence : mRunSequence[j] = mRunSequence[k] => j = k
    BY MainTyped DEF Once
  <2>6. \A j, k \in DOMAIN mRunSequence' : mRunSequence'[j] = mRunSequence'[k] => j = k
    <3> SUFFICES ASSUME NEW j \in DOMAIN mRunSequence', NEW k \in DOMAIN mRunSequence',
                        mRunSequence'[j] = mRunSequence'[k]
                 PROVE  j = k
      OBVIOUS
    <3>1. j + 1 = k + 1
      BY <2>4, <2>5
    <3> QED BY <2>3, <2>4, <3>1
  <2>7. /\ main' \in [pc : MainPcs, node : Nodes \cup {NoNode}, ok : BOOLEAN, ports : SUBSET Ports]
        /\ main'.pc = "post" /\ main'.node = h
    BY <2>2, <2>3, MainTyped DEF MainPcs
  <2>8. \A n \in Nodes : Queued(n)' => Queued(n) /\ n # h
    <3> SUFFICES ASSUME NEW n \in Nodes, NEW k \in DOMAIN mRunSequence', mRunSequence'[k] = n
                 PROVE  Queued(n) /\ n # h
      BY DEF Queued
    <3>1. k + 1 \in DOMAIN mRunSequence /\ mRunSequence[k + 1] = n /\ k + 1 # 1 /\ 1 \in DOMAIN mRunSequence
      BY <2>3, <2>4
    <3>2. n # h
      BY <2>3, <2>5, <3>1
    <3> QED BY <3>1, <3>2 DEF Queued
  <2>9. Queued(h) /\ \A n \in Nodes : Held(n)' <=> n = h
    <3>1. Queued(h)
      BY <2>3 DEF Queued
    <3> QED BY <2>7, <3>1 DEF Held
  <2>10. mRunningNodeNum' = Cardinality(Active') - Uncounted'
    <3>1. Uncounted' = 0
      BY <2>7 DEF Uncounted
    <3>2. mRunningNodeNum = mRunningNodeNum - 0
      BY <1>2
    <3> QED BY <1>1, <1>2, <3>1, <3>2
  <2>11. Running'
    BY <2>7, <2>10 DEF Running
  <2>12. mRunningNodeNum' \in Int
    BY <1>1, <1>2
  <2> QED BY <1>1, <2>3, <2>4, <2>6, <2>7, <2>8, <2>9, <2>11, <2>12, MainKeeps
<1> QED BY <1>3, <1>4

\* Steps in which postProcTask only moves on, or counts a node.
LEMMA MovesOnKeeps ==
  ASSUME Inv, UNCHANGED <<node, mDependenceNum, mRunSequence>>, mRunningNodeNum' \in Int,
         main' \in [pc : MainPcs, node : Nodes \cup {NoNode}, ok : BOOLEAN, ports : SUBSET Ports],
         main.pc \notin {"start", "prepare", "post"}, main'.pc \notin {"start", "prepare", "post"},
         main'.pc \in {"loop", "count", "wait", "asleep"} =>
           main.pc \in {"loop", "count", "wait", "asleep"},
         Running'
  PROVE  Inv'
<1>1. /\ \A n \in Nodes : (Queued(n)' <=> Queued(n)) /\ ~Held(n)'
      /\ \A j, k \in DOMAIN mRunSequence' : mRunSequence'[j] = mRunSequence'[k] => j = k
      /\ mRunSequence' \in Seq(Nodes)
  BY MainTyped DEF Queued, Held, Once
<1> QED BY <1>1, MainKeeps

LEMMA CountKeeps ==
  ASSUME Inv, CountRunning
  PROVE  Inv'
<1>1. /\ main.pc = "count" /\ UNCHANGED <<node, mDependenceNum, mRunSequence>>
      /\ mRunningNodeNum' = IF main.ok THEN mRunningNodeNum + 1 ELSE mRunningNodeNum
      /\ MainGoto(IF mRunSequence = <<>> THEN "wait" ELSE "loop")
  BY DEF CountRunning
<1>2. /\ main' \in [pc : MainPcs, node : Nodes \cup {NoNode}, ok : BOOLEAN, ports : SUBSET Ports]
      /\ main'.pc \in {"wait", "loop"} /\ (main'.pc = "loop" => mRunSequence' # <<>>)
  <2>1. CASE mRunSequence = <<>>
    BY <1>1, <2>1, MainTyped DEF MainGoto, MainPcs
  <2>2. CASE mRunSequence # <<>>
    BY <1>1, <2>2, MainTyped DEF MainGoto, MainPcs
  <2> QED BY <2>1, <2>2
<1>3. Active' = Active /\ Cardinality(Active) \in Nat
  BY <1>1, FiniteNodes DEF Active
<1>4. mRunningNodeNum' = Cardinality(Active) /\ mRunningNodeNum' \in Int
  <2>1. mRunningNodeNum = Cardinality(Active) - Uncounted
    BY MainTyped DEF Running
  <2>2. CASE main.ok
    <3>1. Uncounted = 1
      BY <1>1, <2>2 DEF Uncounted
    <3> QED BY <1>1, <1>3, <2>1, <2>2, <3>1
  <2>3. CASE ~main.ok
    <3>1. Uncounted = 0
      BY <1>1, <2>3 DEF Uncounted
    <3> QED BY <1>1, <1>3, <2>1, <2>3, <3>1
  <2> QED BY <2>2, <2>3
<1>5. mRunningNodeNum' = Cardinality(Active') - Uncounted'
  <2>1. Uncounted' = 0
    BY <1>2 DEF Uncounted
  <2> QED BY <1>3, <1>4, <2>1
<1>6. Running'
  BY <1>2, <1>5 DEF Running
<1> QED BY <1>1, <1>2, <1>4, <1>6, MovesOnKeeps

LEMMA WaitKeeps ==
  ASSUME Inv, WaitForNodes
  PROVE  Inv'
<1>1. /\ main.pc = "wait"
      /\ UNCHANGED <<node, mDependenceNum, mRunSequence, mRunningNodeNum>>
      /\ MainGoto(IF SomethingToDo THEN "loop" ELSE "asleep")
  BY DEF WaitForNodes, runVars
<1>2. /\ main' \in [pc : MainPcs, node : Nodes \cup {NoNode}, ok : BOOLEAN, ports : SUBSET Ports]
      /\ main'.pc \in {"loop", "asleep"} /\ (main'.pc = "loop" => SomethingToDo)
  <2>1. CASE SomethingToDo
    BY <1>1, <2>1, MainTyped DEF MainGoto, MainPcs
  <2>2. CASE ~SomethingToDo
    BY <1>1, <2>2, MainTyped DEF MainGoto, MainPcs
  <2> QED BY <2>1, <2>2
<1>3. Active' = Active /\ Cardinality(Active) \in Nat /\ IsFiniteSet(Active)
  BY <1>1, FiniteNodes DEF Active
<1>4. mRunningNodeNum = Cardinality(Active)
  <2>1. Uncounted = 0
    BY <1>1 DEF Uncounted
  <2>2. mRunningNodeNum = Cardinality(Active) - Uncounted
    BY MainTyped DEF Running
  <2> QED BY <1>3, <2>1, <2>2
<1>5. main'.pc = "loop" => mRunSequence # <<>> \/ Active = {}
  <2>1. Cardinality(Active) = 0 => Active = {}
    BY <1>3, FS_EmptySet
  <2> QED BY <1>2, <1>4, <2>1 DEF SomethingToDo
<1>6. mRunningNodeNum' = Cardinality(Active') - Uncounted'
  <2>1. Uncounted' = 0
    BY <1>2 DEF Uncounted
  <2>2. mRunningNodeNum' = Cardinality(Active)
    BY <1>1, <1>4
  <2> QED BY <1>3, <2>1, <2>2
<1>7. Running'
  BY <1>1, <1>2, <1>3, <1>5, <1>6 DEF Running
<1>8. mRunningNodeNum' \in Int
  BY <1>1, MainTyped
<1> QED BY <1>1, <1>2, <1>7, <1>8, MovesOnKeeps

LEMMA CleanUpKeeps ==
  ASSUME Inv, ReleasePort \/ ReleaseRest
  PROVE  Inv'
<1>1. /\ main.pc \in {"release ports", "release rest"}
      /\ UNCHANGED <<node, mDependenceNum, mRunSequence, mRunningNodeNum>>
      /\ \/ \E pc \in {"release rest", "finished"} : MainGoto(pc)
         \/ \E p : main' = [main EXCEPT !.ports = @ \ {p}]
  <2>1. CASE ReleasePort
    BY <2>1 DEF ReleasePort, runVars
  <2>2. CASE ReleaseRest
    BY <2>2 DEF ReleaseRest, runVars
  <2> QED BY <2>1, <2>2
<1>2. /\ main' \in [pc : MainPcs, node : Nodes \cup {NoNode}, ok : BOOLEAN, ports : SUBSET Ports]
      /\ main'.pc \in {"release ports", "release rest", "finished"}
  <2>1. CASE \E pc \in {"release rest", "finished"} : MainGoto(pc)
    BY <1>1, <2>1, MainTyped DEF MainGoto, MainPcs
  <2>2. CASE \E p : main' = [main EXCEPT !.ports = @ \ {p}]
    <3>1. PICK p : main' = [main EXCEPT !.ports = @ \ {p}]
      BY <2>2
    <3>2. main.ports \ {p} \in SUBSET Ports
      BY MainTyped
    <3> QED BY <1>1, <3>1, <3>2, MainTyped
  <2> QED BY <1>1, <2>1, <2>2
<1>3. mRunSequence = <<>> /\ Active = {} /\ Active' = {} /\ mRunningNodeNum = 0
  <2>1. mRunSequence = <<>> /\ Active = {}
    BY <1>1, MainTyped DEF Running
  <2>2. mRunningNodeNum = 0
    BY <1>1, <2>1, MainTyped, AllCounted
  <2> QED BY <1>1, <2>1, <2>2 DEF Active
<1>4. mRunningNodeNum' = Cardinality(Active') - Uncounted'
  <2>1. Uncounted' = 0
    BY <1>2 DEF Uncounted
  <2>2. Cardinality(Active') = 0 /\ mRunningNodeNum' = 0
    BY <1>1, <1>3, FS_EmptySet
  <2> QED BY <2>1, <2>2
<1>5. Running'
  BY <1>1, <1>2, <1>3, <1>4 DEF Running
<1>6. mRunningNodeNum' \in Int
  BY <1>1, MainTyped
<1> QED BY <1>1, <1>2, <1>5, <1>6, MovesOnKeeps

LEMMA PostKeeps ==
  ASSUME Inv, Post
  PROVE  Inv'
<1>1. PICK n : n = main.node
  OBVIOUS
<1>2. /\ main.pc = "post" /\ UNCHANGED <<mDependenceNum, mRunSequence, mRunningNodeNum>>
      /\ main' = [main EXCEPT !.pc = "count", !.ok = n \notin Missing]
      /\ IF n \in Missing THEN UNCHANGED node ELSE Goto(n, "input")
  BY <1>1 DEF Post, runVars
<1>3. /\ main' \in [pc : MainPcs, node : Nodes \cup {NoNode}, ok : BOOLEAN, ports : SUBSET Ports]
      /\ main'.pc = "count" /\ (main'.ok <=> n \notin Missing)
  BY <1>2, MainTyped DEF MainPcs
<1>4. n \in Nodes /\ At(n, "idle") /\ Held(n) /\ ~Queued(n) /\ ~TopologyError
  BY <1>1, <1>2, MainTyped DEF Once, Held
<1>5. mRunningNodeNum = Cardinality(Active) /\ Cardinality(Active) \in Nat
  <2>1. Uncounted = 0
    BY <1>2 DEF Uncounted
  <2>2. mRunningNodeNum = Cardinality(Active) - Uncounted
    BY MainTyped DEF Running
  <2>3. Cardinality(Active) \in Nat
    BY FiniteNodes DEF Active
  <2> QED BY <2>1, <2>2, <2>3
<1>6. mRunSequence' \in Seq(Nodes) /\ mRunningNodeNum' \in Int
  BY <1>2, MainTyped
<1>7. CASE n \in Missing
  <2>1. UNCHANGED <<node, mDependenceNum, mRunSequence>>
    BY <1>2, <1>7
  <2>2. mRunningNodeNum' = Cardinality(Active') - Uncounted'
    <3>1. Uncounted' = 0
      BY <1>3, <1>7 DEF Uncounted
    <3>2. Active' = Active /\ mRunningNodeNum' = mRunningNodeNum
      BY <1>2, <2>1 DEF Active
    <3> QED BY <1>5, <3>1, <3>2
  <2>3. Running'
    BY <1>3, <2>2 DEF Running
  <2>4. /\ \A m \in Nodes : (Queued(m)' <=> Queued(m)) /\ ~Held(m)'
        /\ \A j, k \in DOMAIN mRunSequence' : mRunSequence'[j] = mRunSequence'[k] => j = k
    BY <1>3, <2>1, MainTyped DEF Queued, Held, Once
  <2> QED BY <1>2, <1>3, <1>6, <2>1, <2>3, <2>4, MainKeeps
<1>8. CASE n \notin Missing
  <2> DEFINE r == [node[n] EXCEPT !.pc = "input"]
  <2>1. node \in [Nodes -> Threads] /\ node[n] \in Threads
    BY <1>4, RecordTyped DEF Inv
  <2>2. node' = [node EXCEPT ![n].pc = "input"]
    BY <1>2, <1>8 DEF Goto
  <2>3. r \in Threads /\ r.pc = "input"
    BY <2>1 DEF Threads, NodePcs
  <2>4. r.frames = node[n].frames
    BY <2>1 DEF Threads
  <2>5. node' \in [Nodes -> Threads] /\ node'[n] = r /\ \A m \in Nodes : m # n => node'[m] = node[m]
    BY <1>4, <2>1, <2>2, <2>3
  <2> HIDE DEF r
  <2>6. Typed'
    BY <1>2, <1>3, <1>6, <2>5 DEF Inv, Typed
  <2>7. ASSUME NEW m \in Nodes PROVE Local(m)'
    <3>1. CASE m = n
      BY <2>3, <2>5, <3>1 DEF Local
    <3>2. CASE m # n
      <4>1. node'[m] = node[m] /\ Local(m)
        BY <2>5, <3>2 DEF Inv
      <4> QED BY <4>1 DEF Local
    <3> QED BY <3>1, <3>2
  <2>8. /\ ~At(n, "idle")'
        /\ \A m \in Nodes : m # n => (At(m, "idle")' <=> At(m, "idle"))
    BY <2>3, <2>5 DEF At
  <2>9. Once'
    <3>1. \A m \in Nodes : (Queued(m)' <=> Queued(m)) /\ ~Held(m)'
      BY <1>2, <1>3 DEF Queued, Held
    <3>2. \A m \in Nodes : Queued(m) => m # n /\ At(m, "idle")
      BY <1>4, MainTyped DEF Once
    <3>3. \A m \in Nodes : Queued(m)' => At(m, "idle")' /\ ~Held(m)'
      BY <2>8, <3>1, <3>2
    <3>4. \A m \in Nodes : Queued(m)' \/ Held(m)' \/ ~At(m, "idle")' =>
                             Queued(m) \/ Held(m) \/ ~At(m, "idle")
      BY <1>4, <2>8, <3>1
    <3>5. \A m \in Nodes : Queued(m)' \/ Held(m)' \/ ~At(m, "idle")' =>
                             mDependenceNum'[m] <= 0 /\ ~TopologyError
      BY <1>2, <3>4, MainTyped DEF Once
    <3>6. \A j, k \in DOMAIN mRunSequence' : mRunSequence'[j] = mRunSequence'[k] => j = k
      BY <1>2, MainTyped DEF Once
    <3> QED BY <1>3, <3>1, <3>3, <3>5, <3>6 DEF Once
  <2>10. UnderWay
    BY <1>2 DEF UnderWay
  <2>11. ASSUME NEW l, links[l].src \in Nodes
         PROVE  (Settled(l) => Settled(l)') /\ (Streaming(l) => Streaming(l)')
    <3>1. CASE links[l].src = n
      BY <1>4, <2>3, <2>4, <2>5, <3>1 DEF Settled, Streaming, At
    <3>2. CASE links[l].src # n
      <4>1. node'[links[l].src] = node[links[l].src]
        BY <2>5, <2>11, <3>2
      <4> QED BY <4>1 DEF Settled, Streaming
    <3> QED BY <3>1, <3>2
  <2>12. Outstanding'
    <3>1. ASSUME NEW m \in Nodes, ~Has(m, "SIGFRAME")
          PROVE  mDependenceNum'[m] >= Cardinality(Unsettled(m)')
      <4>1. mDependenceNum[m] >= Cardinality(Unsettled(m))
        BY <2>10, <3>1 DEF Inv, Outstanding
      <4>2. Unsettled(m)' \subseteq Unsettled(m) /\ Unsettled(m) \subseteq LinkIds
        BY <2>11, LinksInto DEF Unsettled
      <4>3. /\ Cardinality(Unsettled(m)) \in Nat /\ Cardinality(Unsettled(m)') \in Nat
            /\ Cardinality(Unsettled(m)') <= Cardinality(Unsettled(m))
        BY <4>2, FiniteLinks, FS_Subset
      <4>4. mDependenceNum'[m] = mDependenceNum[m] /\ mDependenceNum[m] \in Int
        BY <1>2 DEF Inv, Typed
      <4> QED BY <4>1, <4>3, <4>4
    <3>2. ASSUME NEW m \in Nodes, Has(m, "SIGFRAME"), ~TopologyError, mDependenceNum'[m] <= 0,
                 NEW l \in Into(m)
          PROVE  Settled(l)' \/ Streaming(l)'
      <4>1. Settled(l) \/ Streaming(l)
        BY <1>2, <2>10, <3>2 DEF Inv, Outstanding
      <4> QED BY <2>11, <4>1, LinksInto
    <3> QED BY <3>1, <3>2 DEF Outstanding
  <2>13. mRunningNodeNum' = Cardinality(Active') - Uncounted'
    <3>1. Active' = Active \cup {n} /\ n \notin Active /\ Active \subseteq Nodes
      BY <1>4, <2>3, <2>5 DEF Active, At
    <3>2. Cardinality(Active') = Cardinality(Active) + 1
      BY <1>4, <3>1, OneStarts
    <3>3. Uncounted' = 1
      BY <1>3, <1>8 DEF Uncounted
    <3>4. mRunningNodeNum' = Cardinality(Active)
      BY <1>2, <1>5
    <3> QED BY <1>5, <3>2, <3>3, <3>4
  <2>14. Running'
    BY <1>3, <2>13 DEF Running
  <2> QED BY <2>6, <2>7, <2>9, <2>12, <2>14 DEF Inv
<1> QED BY <1>7, <1>8

\* The other steps are about images and flushes.
LEMMA OthersKeep ==
  ASSUME Inv, UNCHANGED <<node, main, mRunSequence, mDependenceNum, mRunningNodeNum>>
  PROVE  Inv'
<1>1. Typed' /\ \A n \in Nodes : Local(n)'
  BY DEF Inv, Typed, Local
<1>2. Once'
  BY DEF Inv, Once, Queued, Held, At
<1>3. /\ UnderWay' = UnderWay
      /\ \A n \in Nodes : Unsettled(n)' = Unsettled(n)
      /\ \A l : Settled(l)' = Settled(l) /\ Streaming(l)' = Streaming(l)
  BY DEF UnderWay, At, Unsettled, Settled, Streaming
<1>4. Outstanding'
  BY <1>3 DEF Inv, Outstanding
<1>5. Uncounted' = Uncounted /\ Active' = Active
  BY DEF Uncounted, Active
<1>6. Running'
  BY <1>5 DEF Inv, Running
<1> QED BY <1>1, <1>2, <1>4, <1>6 DEF Inv

-----------------------------------------------------------------------------
(* The theorems *)

LEMMA InvAtFirst == Init => Inv
<1> SUFFICES ASSUME Init PROVE Inv
  OBVIOUS
<1>1. /\ mRunSequence = <<>> /\ mDependenceNum = [n \in Nodes |-> 0] /\ mRunningNodeNum = 0
      /\ main = [pc |-> "start", node |-> NoNode, ok |-> TRUE, ports |-> Ports]
      /\ node = [n \in Nodes |-> [pc |-> "idle", frames |-> 0, got |-> FALSE, ok |-> TRUE,
                                  left |-> {}, link |-> 0]]
  BY DEF Init
<1>2. Typed
  <2>1. node \in [Nodes -> Threads]
    BY <1>1 DEF Threads, NodePcs
  <2>2. main \in [pc : MainPcs, node : Nodes \cup {NoNode}, ok : BOOLEAN, ports : SUBSET Ports]
    BY <1>1 DEF MainPcs
  <2> QED BY <1>1, <2>1, <2>2 DEF Typed
<1>3. main.pc = "start" /\ \A n \in Nodes : At(n, "idle")
  BY <1>1 DEF At
<1>4. Active = {} /\ Cardinality(Active) = 0 /\ \A n \in Nodes : Local(n)
  BY <1>2, <1>3, NothingRuns
<1>5. Once
  <2>1. DOMAIN mRunSequence = {}
    BY <1>1
  <2>2. \A n \in Nodes : ~Queued(n) /\ ~Held(n)
    BY <1>3, <2>1 DEF Queued, Held
  <2> QED BY <1>1, <1>3, <2>1, <2>2 DEF Once
<1>6. ~UnderWay
  BY <1>3 DEF UnderWay
<1>7. mRunningNodeNum = Cardinality(Active) - Uncounted
  <2>1. Uncounted = 0
    BY <1>3 DEF Uncounted
  <2> QED BY <1>1, <1>4, <2>1
<1>8. Running
  BY <1>3, <1>7 DEF Running
<1> QED BY <1>2, <1>4, <1>5, <1>6, <1>8 DEF Inv, Outstanding

LEMMA InvStays == Inv /\ [Next]_vars => Inv'
<1> SUFFICES ASSUME Inv, [Next]_vars PROVE Inv'
  OBVIOUS
<1>1. CASE postProcTask
  BY <1>1, StartKeeps, PrepareKeeps, TakeKeeps, PostKeeps, CountKeeps, WaitKeeps, CleanUpKeeps
     DEF postProcTask
<1>2. CASE \E n \in Nodes : processTask(n)
  BY <1>2, ThreadKeeps
<1>3. CASE \E p \in Ports : Deliver(p)
  BY <1>3, OthersKeep DEF Deliver, runVars
<1>4. CASE \E n \in Nodes : PluginReleasesInput(n) \/ PluginReleasesOutput(n)
  BY <1>4, OthersKeep DEF PluginReleasesInput, PluginReleasesOutput, runVars
<1>5. CASE quickFinish
  BY <1>5, OthersKeep DEF quickFinish, SetFlushStatus, ReleasePorts, ReleaseNodes, runVars
<1>6. CASE UNCHANGED vars
  BY <1>6, OthersKeep DEF vars, runVars
<1> QED BY <1>1, <1>2, <1>3, <1>4, <1>5, <1>6 DEF Next

\* The control of a request stays in order: what Inv says of counts, queues and threads
\* holds after every step of postProcTask, of the nodes and of quickFinish.
THEOREM InvAlways == Spec => []Inv
BY InvAtFirst, InvStays, PTL DEF Spec, Safe

\* postProcTask cleans up (releaseUnusedBuffer), and lets the session drop the
\* pipeline, only when no node's thread works on it, none is waiting to be
\* started, and every node that was counted has been counted off.
THEOREM NoneLeftBehind == Spec => []NoNodeLeftBehind
<1>1. Inv => NoNodeLeftBehind
  <2> SUFFICES ASSUME Inv, main.pc \in {"release ports", "release rest", "finished"}
               PROVE  Active = {} /\ mRunSequence = <<>> /\ mRunningNodeNum = 0
    BY DEF NoNodeLeftBehind
  <2>1. Active = {} /\ mRunSequence = <<>>
    BY MainTyped DEF Running
  <2> QED BY <2>1, MainTyped, AllCounted
<1> QED BY <1>1, InvAlways, PTL

\* A node's thread starts only when the dependence of every link into it has been
\* settled by a node that ended well, or streamed by one that has given a frame.
THEOREM StartedInOrder == Spec => []ParentsDone
<1>1. Inv => ParentsDone
  <2> SUFFICES ASSUME Inv, NEW n \in Nodes, node[n].pc # "idle", NEW l \in Into(n)
               PROVE  \/ /\ node[links[l].src].pc \in {"links", "depend", "done"}
                         /\ node[links[l].src].ok
                      \/ /\ Has(n, "SIGFRAME") /\ Has(links[l].src, "SIGFRAME")
                         /\ node[links[l].src].frames > 0
    BY DEF ParentsDone, Into
  <2>1. mDependenceNum[n] <= 0 /\ ~TopologyError /\ UnderWay
    BY MainTyped DEF Once, UnderWay, At
  <2>2. CASE Has(n, "SIGFRAME")
    <3>1. Settled(l) \/ Streaming(l)
      BY <2>1, <2>2 DEF Inv, Outstanding
    <3> QED BY <2>2, <3>1 DEF Settled, Streaming
  <2>3. CASE ~Has(n, "SIGFRAME")
    <3>1. mDependenceNum[n] >= Cardinality(Unsettled(n)) /\ mDependenceNum[n] \in Int
      BY <2>1, <2>3 DEF Inv, Outstanding, Typed
    <3>2. IsFiniteSet(Unsettled(n)) /\ Cardinality(Unsettled(n)) \in Nat
      BY LinksInto, FiniteLinks DEF Unsettled
    <3>3. Cardinality(Unsettled(n)) = 0
      BY <2>1, <3>1, <3>2
    <3>4. Unsettled(n) = {}
      BY <3>2, <3>3, FS_EmptySet
    <3>5. Settled(l)
      BY <3>4 DEF Unsettled
    <3> QED BY <3>5 DEF Settled
  <2> QED BY <2>2, <2>3
<1> QED BY <1>1, InvAlways, PTL

-----------------------------------------------------------------------------
(* Counting the places of an image in a family of queues *)

Spots(Q, i) == UNION {{<<x, k>> : k \in {j \in DOMAIN Q[x] : Q[x][j] = i}} : x \in DOMAIN Q}
Number(Q, i) == Cardinality(Spots(Q, i))

\* Queues for D of members of V.
Family(D, V) == [D -> Seq(V)]

\* Each queue of R is that of Q, and after it that of A.
Appending(Q, A, R) == \A x \in DOMAIN Q : R[x] = Q[x] \o A[x]

LEMMA OneToOne ==
  ASSUME NEW S, IsFiniteSet(S), NEW T, NEW f \in [S -> T],
         \A a, b \in S : f[a] = f[b] => a = b,
         \A c \in T : \E a \in S : f[a] = c
  PROVE  IsFiniteSet(T) /\ Cardinality(T) = Cardinality(S)
<1>1. f \in Injection(S, T)
  BY DEF Injection, IsInjective
<1>2. f \in Surjection(S, T)
  BY DEF Surjection
<1>3. ExistsBijection(S, T)
  BY <1>1, <1>2 DEF ExistsBijection, Bijection
<1> QED BY <1>3, FS_Bijection

LEMMA DisjointUnion ==
  ASSUME NEW S, NEW T, IsFiniteSet(S), IsFiniteSet(T), S \cap T = {}
  PROVE  /\ IsFiniteSet(S \cup T) /\ Cardinality(S \cup T) = Cardinality(S) + Cardinality(T)
         /\ Cardinality(S) \in Nat /\ Cardinality(T) \in Nat
<1>1. Cardinality(S \cap T) = 0
  BY FS_EmptySet
<1>2. Cardinality(S \cup T) = Cardinality(S) + Cardinality(T) - Cardinality(S \cap T)
  BY FS_Union
<1>3. Cardinality(S) \in Nat /\ Cardinality(T) \in Nat
  BY FS_CardinalityType
<1>4. IsFiniteSet(S \cup T)
  BY FS_Union
<1> QED BY <1>1, <1>2, <1>3, <1>4

LEMMA Lengths ==
  ASSUME NEW D, NEW V, NEW Q \in Family(D, V), NEW x \in D
  PROVE  Q[x] \in Seq(V) /\ Len(Q[x]) \in Nat /\ Len(Q[x]) \in Int /\ DOMAIN Q[x] = 1 .. Len(Q[x])
<1>1. Q[x] \in Seq(V)
  BY DEF Family
<1>2. Len(Q[x]) \in Nat /\ DOMAIN Q[x] = 1 .. Len(Q[x])
  BY <1>1, LenProperties
<1> QED BY <1>1, <1>2

LEMMA SpotsAre ==
  ASSUME NEW D, NEW V, NEW Q \in Family(D, V), NEW i, NEW z
  PROVE  z \in Spots(Q, i) <=> \E x \in D : \E k \in 1 .. Len(Q[x]) : Q[x][k] = i /\ z = <<x, k>>
<1>1. z \in Spots(Q, i) <=> \E x \in DOMAIN Q : \E k \in DOMAIN Q[x] : Q[x][k] = i /\ z = <<x, k>>
  BY DEF Spots
<1>2. DOMAIN Q = D
  BY DEF Family
<1>3. \A x \in D : DOMAIN Q[x] = 1 .. Len(Q[x])
  BY Lengths
<1> QED BY <1>1, <1>2, <1>3

LEMMA SpotsKnown ==
  ASSUME NEW D, NEW V, NEW Q \in Family(D, V), NEW i
  PROVE  \A z : z \in Spots(Q, i) <=> \E x \in D : \E k \in 1 .. Len(Q[x]) : Q[x][k] = i /\ z = <<x, k>>
BY SpotsAre

LEMMA FiniteSpots ==
  ASSUME NEW D, IsFiniteSet(D), NEW V, NEW Q \in Family(D, V), NEW i
  PROVE  IsFiniteSet(Spots(Q, i)) /\ Number(Q, i) \in Nat
<1> DEFINE Row(x) == {x} \X (1 .. Len(Q[x]))
           f == [x \in D |-> Row(x)]
           Rows == {Row(x) : x \in D}
<1>2. IsFiniteSet(Rows)
  <2>1. f \in Surjection(D, Rows)
    BY DEF Surjection
  <2> HIDE DEF f, Rows
  <2> QED BY <2>1, FS_Surjection
<1>3. \A T \in Rows : IsFiniteSet(T)
  <2> SUFFICES ASSUME NEW x \in D PROVE IsFiniteSet(Row(x))
    OBVIOUS
  <2>1. Len(Q[x]) \in Int
    BY Lengths
  <2>2. IsFiniteSet({x})
    BY FS_Singleton
  <2>3. IsFiniteSet(1 .. Len(Q[x]))
    BY <2>1, FS_Interval
  <2> QED BY <2>2, <2>3, FS_Product
<1>4. IsFiniteSet(UNION Rows)
  <2> HIDE DEF Rows
  <2> QED BY <1>2, <1>3, FS_UNION
<1>1. \A z : z \in Spots(Q, i) <=> \E x \in D : \E k \in 1 .. Len(Q[x]) : Q[x][k] = i /\ z = <<x, k>>
  BY SpotsKnown
<1>5. Spots(Q, i) \subseteq UNION Rows
  <2> SUFFICES ASSUME NEW z \in Spots(Q, i) PROVE \E x \in D : z \in Row(x)
    OBVIOUS
  <2>1. PICK x \in D : \E k \in 1 .. Len(Q[x]) : z = <<x, k>>
    BY <1>1
  <2>2. z \in {x} \X (1 .. Len(Q[x]))
    BY <2>1
  <2> QED BY <2>2
<1>6. IsFiniteSet(Spots(Q, i))
  BY <1>4, <1>5, FS_Subset
<1> QED BY <1>6, FS_CardinalityType DEF Number

\* Appending to each queue adds what is appended.
LEMMA Appended ==
  ASSUME NEW D, IsFiniteSet(D), NEW V, NEW Q \in Family(D, V), NEW A \in Family(D, V),
         NEW R \in Family(D, V), Appending(Q, A, R), NEW i
  PROVE  Number(R, i) = Number(Q, i) + Number(A, i)
<1>0. Q \in [D -> Seq(V)] /\ A \in [D -> Seq(V)] /\ R \in [D -> Seq(V)]
  BY DEF Family
<1> USE <1>0
<1>q. \A z : z \in Spots(Q, i) <=> \E x \in D : \E k \in 1 .. Len(Q[x]) : Q[x][k] = i /\ z = <<x, k>>
  BY SpotsKnown
<1>a. \A z : z \in Spots(A, i) <=> \E x \in D : \E k \in 1 .. Len(A[x]) : A[x][k] = i /\ z = <<x, k>>
  BY SpotsKnown
<1>r. \A z : z \in Spots(R, i) <=> \E x \in D : \E k \in 1 .. Len(R[x]) : R[x][k] = i /\ z = <<x, k>>
  BY SpotsKnown
<1> DEFINE B == Spots(R, i) \ Spots(Q, i)
           Shift(z) == <<z[1], Len(Q[z[1]]) + z[2]>>
           f == [z \in Spots(A, i) |-> Shift(z)]
<1>1. ASSUME NEW x \in D
      PROVE  /\ Len(Q[x]) \in Nat /\ Len(A[x]) \in Nat /\ Len(R[x]) = Len(Q[x]) + Len(A[x])
             /\ \A k \in 1 .. Len(Q[x]) : R[x][k] = Q[x][k]
             /\ \A k \in 1 .. Len(A[x]) : R[x][Len(Q[x]) + k] = A[x][k]
  <2>1. Q[x] \in Seq(V) /\ A[x] \in Seq(V) /\ Len(Q[x]) \in Nat /\ Len(A[x]) \in Nat
    BY Lengths
  <2>0. R[x] = Q[x] \o A[x]
    BY DEF Appending
  <2>2. /\ Len(R[x]) = Len(Q[x]) + Len(A[x])
        /\ \A k \in 1 .. Len(Q[x]) + Len(A[x]) :
             R[x][k] = IF k <= Len(Q[x]) THEN Q[x][k] ELSE A[x][k - Len(Q[x])]
    BY <2>0, <2>1, ConcatProperties
  <2>3. \A k \in 1 .. Len(Q[x]) : R[x][k] = Q[x][k]
    BY <2>1, <2>2
  <2>4. ASSUME NEW k \in 1 .. Len(A[x]) PROVE R[x][Len(Q[x]) + k] = A[x][k]
    <3>1. PICK j : j = Len(Q[x]) + k
      OBVIOUS
    <3>2. j \in 1 .. Len(Q[x]) + Len(A[x]) /\ ~(j <= Len(Q[x])) /\ j - Len(Q[x]) = k
      BY <2>1, <3>1
    <3> QED BY <2>2, <3>1, <3>2
  <2> QED BY <2>1, <2>2, <2>3, <2>4
<1>2. ASSUME NEW x \in D, NEW k \in 1 .. Len(R[x])
      PROVE  \/ k \in 1 .. Len(Q[x])
             \/ \E j \in 1 .. Len(A[x]) : k = Len(Q[x]) + j
  <2>1. Len(Q[x]) \in Nat /\ Len(A[x]) \in Nat /\ Len(R[x]) = Len(Q[x]) + Len(A[x])
    BY <1>1
  <2>2. CASE k <= Len(Q[x])
    BY <2>1, <2>2
  <2>3. CASE ~(k <= Len(Q[x]))
    <3>1. k - Len(Q[x]) \in 1 .. Len(A[x]) /\ k = Len(Q[x]) + (k - Len(Q[x]))
      BY <2>1, <2>3
    <3> QED BY <3>1
  <2> QED BY <2>2, <2>3
<1>3. ASSUME NEW x \in D, NEW j \in 1 .. Len(A[x])
      PROVE  /\ Len(Q[x]) + j \in 1 .. Len(R[x]) /\ Len(Q[x]) + j \notin 1 .. Len(Q[x])
  BY <1>1
<1>5. Spots(Q, i) \subseteq Spots(R, i)
  <2> SUFFICES ASSUME NEW z \in Spots(Q, i) PROVE z \in Spots(R, i)
    OBVIOUS
  <2>1. PICK x \in D : \E k \in 1 .. Len(Q[x]) : Q[x][k] = i /\ z = <<x, k>>
    BY <1>q, <1>a, <1>r
  <2>2. PICK k \in 1 .. Len(Q[x]) : Q[x][k] = i /\ z = <<x, k>>
    BY <2>1
  <2>3. R[x][k] = i /\ k \in 1 .. Len(R[x])
    BY <1>1, <2>2
  <2> QED BY <2>2, <2>3, <1>q, <1>a, <1>r
<1>6. ASSUME NEW z \in B
      PROVE  \E x \in D : \E j \in 1 .. Len(A[x]) : A[x][j] = i /\ z = <<x, Len(Q[x]) + j>>
  <2>1. PICK x \in D : \E k \in 1 .. Len(R[x]) : R[x][k] = i /\ z = <<x, k>>
    BY <1>q, <1>a, <1>r
  <2>2. PICK k \in 1 .. Len(R[x]) : R[x][k] = i /\ z = <<x, k>>
    BY <2>1
  <2>3. ~(k \in 1 .. Len(Q[x]))
    <3> SUFFICES ASSUME k \in 1 .. Len(Q[x]) PROVE FALSE
      OBVIOUS
    <3>1. Q[x][k] = i
      BY <1>1, <2>2
    <3>2. z \in Spots(Q, i)
      BY <2>2, <3>1, <1>q, <1>a, <1>r
    <3> QED BY <3>2
  <2>4. PICK j \in 1 .. Len(A[x]) : k = Len(Q[x]) + j
    BY <1>2, <2>3
  <2>5. A[x][j] = i
    BY <1>1, <2>2, <2>4
  <2> QED BY <2>2, <2>4, <2>5
<1>7. ASSUME NEW x \in D, NEW j \in 1 .. Len(A[x]), A[x][j] = i
      PROVE  <<x, Len(Q[x]) + j>> \in B
  <2>1. PICK k : k = Len(Q[x]) + j
    OBVIOUS
  <2>2. k \in 1 .. Len(R[x]) /\ k \notin 1 .. Len(Q[x]) /\ R[x][k] = i
    BY <1>1, <1>3, <1>7, <2>1
  <2>3. <<x, k>> \in Spots(R, i)
    BY <2>2, <1>q, <1>a, <1>r
  <2>4. <<x, k>> \notin Spots(Q, i)
    <3> SUFFICES ASSUME NEW y \in D, NEW h \in 1 .. Len(Q[y]), <<x, k>> = <<y, h>> PROVE FALSE
      BY <1>q, <1>a, <1>r
    <3> QED BY <2>2
  <2> QED BY <2>1, <2>3, <2>4
<1>8. IsFiniteSet(Spots(A, i)) /\ IsFiniteSet(Spots(Q, i)) /\ IsFiniteSet(Spots(R, i))
  BY FiniteSpots
<1>4. ASSUME NEW x \in D, NEW j \in 1 .. Len(A[x]) PROVE Shift(<<x, j>>) = <<x, Len(Q[x]) + j>>
  OBVIOUS
<1> HIDE DEF B, Shift
<1>9. f \in [Spots(A, i) -> B]
  <2> SUFFICES ASSUME NEW z \in Spots(A, i) PROVE Shift(z) \in B
    OBVIOUS
  <2>1. PICK x \in D : \E j \in 1 .. Len(A[x]) : A[x][j] = i /\ z = <<x, j>>
    BY <1>q, <1>a, <1>r
  <2> QED BY <1>4, <1>7, <2>1
<1>10. \A a, b \in Spots(A, i) : f[a] = f[b] => a = b
  <2> SUFFICES ASSUME NEW a \in Spots(A, i), NEW b \in Spots(A, i), Shift(a) = Shift(b)
               PROVE  a = b
    OBVIOUS
  <2>1. PICK x \in D : \E j \in 1 .. Len(A[x]) : A[x][j] = i /\ a = <<x, j>>
    BY <1>q, <1>a, <1>r
  <2>2. PICK j \in 1 .. Len(A[x]) : a = <<x, j>>
    BY <2>1
  <2>3. PICK y \in D : \E k \in 1 .. Len(A[y]) : A[y][k] = i /\ b = <<y, k>>
    BY <1>q, <1>a, <1>r
  <2>4. PICK k \in 1 .. Len(A[y]) : b = <<y, k>>
    BY <2>3
  <2>5. <<x, Len(Q[x]) + j>> = <<y, Len(Q[y]) + k>>
    BY <1>4, <2>2, <2>4
  <2>6. x = y /\ Len(Q[x]) + j = Len(Q[x]) + k
    BY <2>5
  <2>7. j = k
    BY <1>1, <2>6
  <2> QED BY <2>2, <2>4, <2>6, <2>7
<1>11. \A c \in B : \E a \in Spots(A, i) : f[a] = c
  <2> SUFFICES ASSUME NEW c \in B PROVE \E a \in Spots(A, i) : Shift(a) = c
    OBVIOUS
  <2>1. PICK x \in D : \E j \in 1 .. Len(A[x]) : A[x][j] = i /\ c = <<x, Len(Q[x]) + j>>
    BY <1>6
  <2>2. PICK j \in 1 .. Len(A[x]) : A[x][j] = i /\ c = <<x, Len(Q[x]) + j>>
    BY <2>1
  <2>3. PICK a : a = <<x, j>>
    OBVIOUS
  <2>4. a \in Spots(A, i)
    BY <2>2, <2>3, <1>q, <1>a, <1>r
  <2>5. Shift(a) = c
    BY <1>4, <2>2, <2>3
  <2> QED BY <2>4, <2>5
<1>12. IsFiniteSet(B) /\ Cardinality(B) = Cardinality(Spots(A, i))
  <2> HIDE DEF f
  <2>1. PICK S, g : S = Spots(A, i) /\ g = f
    OBVIOUS
  <2>2. IsFiniteSet(S) /\ g \in [S -> B]
    BY <1>8, <1>9, <2>1
  <2>3. \A a, b \in S : g[a] = g[b] => a = b
    BY <1>10, <2>1
  <2>4. \A c \in B : \E a \in S : g[a] = c
    BY <1>11, <2>1
  <2>5. IsFiniteSet(B) /\ Cardinality(B) = Cardinality(S)
    BY <2>2, <2>3, <2>4, OneToOne
  <2> QED BY <2>1, <2>5
<1>13. Spots(R, i) = Spots(Q, i) \cup B /\ Spots(Q, i) \cap B = {}
  BY <1>5 DEF B
<1>14. Cardinality(Spots(R, i)) = Cardinality(Spots(Q, i)) + Cardinality(B)
  BY <1>8, <1>12, <1>13, DisjointUnion
<1> QED BY <1>12, <1>14 DEF Number

LEMMA RefsAreCounted ==
  ASSUME NEW V, NEW q \in Seq(V), NEW i
  PROVE  IsFiniteSet({k \in DOMAIN q : q[k] = i}) /\ Refs(i, q) \in Nat
<1> DEFINE K == {k \in DOMAIN q : q[k] = i}
<1>1. DOMAIN q = 1 .. Len(q) /\ Len(q) \in Nat
  BY LenProperties
<1>2. IsFiniteSet(1 .. Len(q))
  BY <1>1, FS_Interval
<1>3. IsFiniteSet(K)
  BY <1>1, <1>2, FS_Subset
<1> QED BY <1>3, FS_CardinalityType DEF Refs

\* The same queue for each member of L, and empty queues for the others.
Copies(D, L, q) == [x \in D |-> IF x \in L THEN q ELSE <<>>]

LEMMA CopiesCounted ==
  ASSUME NEW D, IsFiniteSet(D), NEW L \in SUBSET D, NEW V, NEW q \in Seq(V), NEW i
  PROVE  /\ Copies(D, L, q) \in Family(D, V)
         /\ Number(Copies(D, L, q), i) = Cardinality(L) * Refs(i, q)
         /\ Refs(i, q) \in Nat /\ Cardinality(L) \in Nat
<1> DEFINE C == Copies(D, L, q)
           K == {k \in DOMAIN q : q[k] = i}
<1>1. \A x \in D : C[x] = IF x \in L THEN q ELSE <<>>
  BY DEF Copies
<1>2. C \in [D -> Seq(V)]
  <2>1. <<>> \in Seq(V)
    OBVIOUS
  <2> QED BY <2>1 DEF Copies
<1>3. DOMAIN C = D
  BY <1>2
<1> HIDE DEF C
<1>4. Spots(C, i) = L \X K
  <2>1. ASSUME NEW z \in Spots(C, i) PROVE z \in L \X K
    <3>1. PICK x \in D : \E k \in DOMAIN C[x] : C[x][k] = i /\ z = <<x, k>>
      BY <1>3 DEF Spots
    <3>2. PICK k \in DOMAIN C[x] : C[x][k] = i /\ z = <<x, k>>
      BY <3>1
    <3>3. x \in L
      <4>1. DOMAIN <<>> = {}
        OBVIOUS
      <4> QED BY <1>1, <4>1
    <3>4. C[x] = q
      BY <1>1, <3>3
    <3>5. k \in K
      BY <3>2, <3>4
    <3> QED BY <3>2, <3>3, <3>5
  <2>2. ASSUME NEW z \in L \X K PROVE z \in Spots(C, i)
    <3>1. PICK x \in L, k \in K : z = <<x, k>>
      OBVIOUS
    <3>2. x \in D /\ C[x] = q
      BY <1>1
    <3>3. k \in DOMAIN C[x] /\ C[x][k] = i
      BY <3>2
    <3> QED BY <1>3, <3>1, <3>2, <3>3 DEF Spots
  <2> QED BY <2>1, <2>2
<1>5. IsFiniteSet(K) /\ Refs(i, q) \in Nat /\ Refs(i, q) = Cardinality(K)
  BY RefsAreCounted DEF Refs
<1>6. IsFiniteSet(L) /\ Cardinality(L) \in Nat
  BY FS_Subset, FS_CardinalityType
<1> HIDE DEF K
<1>7. Cardinality(L \X K) = Cardinality(L) * Cardinality(K)
  BY <1>5, <1>6, FS_Product
<1>8. Number(C, i) = Cardinality(L) * Refs(i, q)
  BY <1>4, <1>5, <1>7 DEF Number
<1> QED BY <1>2, <1>5, <1>6, <1>8 DEF C, Family

LEMMA OneQueueCounted ==
  ASSUME NEW D, IsFiniteSet(D), NEW L \in SUBSET D, Cardinality(L) = 1, NEW V, NEW q \in Seq(V), NEW i
  PROVE  /\ Copies(D, L, q) \in Family(D, V) /\ Number(Copies(D, L, q), i) = Refs(i, q)
         /\ Refs(i, q) \in Nat
<1>1. /\ Copies(D, L, q) \in Family(D, V)
      /\ Number(Copies(D, L, q), i) = Cardinality(L) * Refs(i, q) /\ Refs(i, q) \in Nat
  BY CopiesCounted
<1>2. Cardinality(L) * Refs(i, q) = Refs(i, q)
  BY <1>1
<1> QED BY <1>1, <1>2

LEMMA ConcatCounted ==
  ASSUME NEW V, NEW p \in Seq(V), NEW q \in Seq(V), NEW i
  PROVE  Refs(i, p \o q) = Refs(i, p) + Refs(i, q)
<1>0. PICK x, D : D = {x}
  OBVIOUS
<1> DEFINE P == Copies(D, D, p)
           Q == Copies(D, D, q)
           R == Copies(D, D, p \o q)
<1>1. IsFiniteSet(D) /\ x \in D
  BY <1>0, FS_Singleton
<1>2. p \o q \in Seq(V)
  BY ConcatProperties
<1>3. /\ P \in Family(D, V) /\ Number(P, i) = Refs(i, p)
      /\ Q \in Family(D, V) /\ Number(Q, i) = Refs(i, q)
      /\ R \in Family(D, V) /\ Number(R, i) = Refs(i, p \o q)
  <2>1. ASSUME NEW s \in Seq(V)
        PROVE  Copies(D, D, s) \in Family(D, V) /\ Number(Copies(D, D, s), i) = Refs(i, s)
    <3>1. D \in SUBSET D
      OBVIOUS
    <3>2. Cardinality(D) = 1
      BY <1>0, FS_Singleton
    <3> QED BY <1>1, <2>1, <3>1, <3>2, OneQueueCounted
  <2> QED BY <1>2, <2>1
<1>4. Appending(P, Q, R)
  <2>1. P[x] = p /\ Q[x] = q /\ R[x] = p \o q /\ DOMAIN P = {x}
    BY <1>0 DEF Copies
  <2> HIDE DEF P, Q, R
  <2> QED BY <2>1 DEF Appending
<1> HIDE DEF P, Q, R
<1>6. Number(R, i) = Number(P, i) + Number(Q, i)
  BY <1>1, <1>3, <1>4, Appended
<1> QED BY <1>3, <1>6

LEMMA Flattening ==
  ASSUME NEW V, NEW s \in [LinkIds -> Seq(V)], LinkIds # {}
  PROVE  \E f \in [LinkIds -> Seq(V)] :
           /\ f[1] = s[1] /\ \A k \in LinkIds : k # 1 => f[k] = f[k - 1] \o s[k]
           /\ FlattenSeq(s) = f[Len(links)]
<1> DEFINE n == Len(links)
           Step(f, k) == IF k = 1 THEN s[k] ELSE f[k - 1] \o s[k]
           Good(m) == \E f \in [1 .. m -> Seq(V)] : \A k \in 1 .. m : f[k] = Step(f, k)
           Bad == {m \in LinkIds : ~Good(m)}
<1>1. n \in Nat /\ LinkIds = 1 .. n /\ n # 0
  BY PipelineAssumption
<1>2. Good(1)
  <2>1. PICK f : f = [k \in 1 .. 1 |-> s[1]]
    OBVIOUS
  <2>2. 1 \in LinkIds
    BY <1>1
  <2>3. f \in [1 .. 1 -> Seq(V)] /\ \A k \in 1 .. 1 : f[k] = Step(f, k)
    BY <2>1, <2>2
  <2> QED BY <2>3
<1>3. ASSUME NEW m \in Nat, m + 1 \in LinkIds, m # 0, Good(m) PROVE Good(m + 1)
  <2>1. PICK f \in [1 .. m -> Seq(V)] : \A k \in 1 .. m : f[k] = Step(f, k)
    BY <1>3
  <2>2. PICK q : q = f[m] \o s[m + 1]
    OBVIOUS
  <2>3. q \in Seq(V)
    <3>1. f[m] \in Seq(V) /\ s[m + 1] \in Seq(V)
      BY <1>3
    <3> QED BY <2>2, <3>1, ConcatProperties
  <2>4. PICK g : g = [k \in 1 .. m + 1 |-> IF k = m + 1 THEN q ELSE f[k]]
    OBVIOUS
  <2>5. /\ \A k \in 1 .. m : k \in 1 .. m + 1 /\ k # m + 1
        /\ \A k \in 1 .. m + 1 : k # m + 1 => k \in 1 .. m
        /\ m + 1 \in 1 .. m + 1 /\ m + 1 # 1 /\ (m + 1) - 1 = m /\ m \in 1 .. m
        /\ \A k \in 1 .. m : k # 1 => k - 1 \in 1 .. m
    BY <1>3
  <2>6. g[m + 1] = q /\ \A k \in 1 .. m : g[k] = f[k]
    BY <2>4, <2>5
  <2>7. g \in [1 .. m + 1 -> Seq(V)]
    BY <2>3, <2>4, <2>5
  <2>8. ASSUME NEW k \in 1 .. m + 1 PROVE g[k] = Step(g, k)
    <3>1. CASE k = m + 1
      <4>1. g[(m + 1) - 1] = f[m]
        BY <2>5, <2>6
      <4> QED BY <2>2, <2>5, <2>6, <3>1, <4>1
    <3>2. CASE k # m + 1
      <4>1. k \in 1 .. m /\ g[k] = f[k] /\ f[k] = Step(f, k)
        BY <2>1, <2>5, <2>6, <3>2
      <4>2. k # 1 => g[k - 1] = f[k - 1]
        BY <2>5, <2>6, <4>1
      <4> QED BY <4>1, <4>2
    <3> QED BY <3>1, <3>2
  <2> HIDE DEF Step
  <2> QED BY <2>7, <2>8
<1>4. Bad = {}
  <2> SUFFICES ASSUME Bad # {} PROVE FALSE
    OBVIOUS
  <2> DEFINE m == Min(Bad)
  <2> HIDE DEF Good
  <2>1. m \in Bad /\ \A k \in Bad : m <= k
    BY MinLink
  <2>2. m \in LinkIds /\ ~Good(m)
    BY <2>1
  <2> HIDE DEF m
  <2>3. m \in Nat /\ m # 0 /\ m # 1
    BY <1>1, <1>2, <2>2
  <2>4. m - 1 \in Nat /\ m - 1 # 0 /\ (m - 1) + 1 = m /\ m - 1 \in LinkIds /\ ~(m <= m - 1)
    BY <1>1, <2>2, <2>3
  <2>5. Good(m - 1)
    BY <2>1, <2>4
  <2>6. PICK j : j = m - 1
    OBVIOUS
  <2>7. Good(j + 1)
    BY <1>3, <2>2, <2>4, <2>5, <2>6
  <2> QED BY <2>2, <2>4, <2>6, <2>7
<1>5. Good(n)
  <2> HIDE DEF Good
  <2>1. n \in LinkIds
    BY <1>1
  <2> QED BY <1>4, <2>1
<1>6. PICK f \in [LinkIds -> Seq(V)] : \A k \in LinkIds : f[k] = Step(f, k)
  BY <1>1, <1>5
<1>7. Len(s) = n
  <2>1. s \in Seq(Seq(V))
    BY <1>1, SeqDef
  <2>2. DOMAIN s = 1 .. n
    BY <1>1
  <2> QED BY <1>1, <2>1, <2>2, LenProperties
<1> DEFINE Rec(g) == g = [k \in 1 .. Len(s) |-> IF k = 1 THEN s[k] ELSE g[k - 1] \o s[k]]
           c == CHOOSE g : Rec(g)
<1>8. Rec(f)
  BY <1>1, <1>6, <1>7
<1>9. Rec(c)
  <2> HIDE DEF Rec
  <2> QED BY <1>8, Zenon
<1>10. FlattenSeq(s) = c[Len(s)]
  BY <1>1, <1>7 DEF FlattenSeq
<1> HIDE DEF c
<1>11. /\ DOMAIN c = LinkIds /\ c = [k \in LinkIds |-> c[k]]
       /\ c[1] = s[1] /\ \A k \in LinkIds : k # 1 => c[k] = c[k - 1] \o s[k]
  <2> HIDE DEF n
  <2>1. c = [k \in LinkIds |-> IF k = 1 THEN s[k] ELSE c[k - 1] \o s[k]]
    BY <1>1, <1>7, <1>9
  <2>2. 1 \in LinkIds
    BY <1>1
  <2>3. DOMAIN c = LinkIds
    BY <2>1
  <2>4. \A k \in LinkIds : c[k] = IF k = 1 THEN s[k] ELSE c[k - 1] \o s[k]
    BY <2>1
  <2>5. PICK S : S = LinkIds
    OBVIOUS
  <2>6. c = [k \in S |-> c[k]]
    <3>1. PICK e : e = [k \in LinkIds |-> IF k = 1 THEN s[k] ELSE c[k - 1] \o s[k]]
      OBVIOUS
    <3>2. c = e
      BY <2>1, <3>1
    <3>3. e = [k \in S |-> e[k]]
      BY <2>5, <3>1
    <3> QED BY <3>2, <3>3
  <2> QED BY <2>2, <2>3, <2>4, <2>5, <2>6
<1>12. ASSUME NEW k \in LinkIds PROVE c[k] \in Seq(V)
  <2> DEFINE Odd == {l \in LinkIds : c[l] \notin Seq(V)}
             m == Min(Odd)
  <2> SUFFICES ASSUME Odd # {} PROVE FALSE
    OBVIOUS
  <2>1. m \in Odd /\ \A l \in Odd : m <= l
    BY MinLink
  <2>2. m \in LinkIds /\ c[m] \notin Seq(V)
    BY <2>1
  <2> HIDE DEF m
  <2>3. 1 \in LinkIds /\ c[1] \in Seq(V)
    <3>1. 1 \in LinkIds
      BY <1>1
    <3>2. s[1] \in Seq(V)
      BY <3>1
    <3> QED BY <1>11, <3>1, <3>2
  <2>4. m # 1
    BY <2>2, <2>3
  <2>5. m - 1 \in LinkIds /\ ~(m <= m - 1)
    BY <1>1, <2>2, <2>4
  <2>6. c[m - 1] \in Seq(V) /\ s[m] \in Seq(V)
    BY <2>1, <2>2, <2>5
  <2>7. c[m] = c[m - 1] \o s[m]
    BY <1>11, <2>2, <2>4
  <2>8. c[m - 1] \o s[m] \in Seq(V)
    BY <2>6, ConcatProperties
  <2> QED BY <2>2, <2>7, <2>8
<1>13. c \in [LinkIds -> Seq(V)]
  BY <1>11, <1>12
<1> QED BY <1>7, <1>10, <1>11, <1>13

\* The queues of the links of L.
Only(Q, L) == [l \in LinkIds |-> IF l \in L THEN Q[l] ELSE <<>>]

LEMMA OnlyTyped ==
  ASSUME NEW V, NEW Q \in Family(LinkIds, V), NEW L
  PROVE  /\ Only(Q, L) \in Family(LinkIds, V) /\ DOMAIN Only(Q, L) = LinkIds
         /\ \A l \in LinkIds : l \in L => Only(Q, L)[l] = Q[l]
         /\ \A l \in LinkIds : l \notin L => Only(Q, L)[l] = <<>>
<1>1. \A l \in LinkIds : (IF l \in L THEN Q[l] ELSE <<>>) \in Seq(V)
  <2> SUFFICES ASSUME NEW l \in LinkIds PROVE (IF l \in L THEN Q[l] ELSE <<>>) \in Seq(V)
    OBVIOUS
  <2>1. Q[l] \in Seq(V) /\ <<>> \in Seq(V)
    BY Lengths
  <2> QED BY <2>1
<1> QED BY <1>1 DEF Only, Family

\* An image is in the joined sequence as often as in the queues that are joined.
LEMMA JoinedCounted ==
  ASSUME NEW V, NEW Q \in Family(LinkIds, V), NEW L, NEW i
  PROVE  Joined(Q, L) \in Seq(V) /\ Refs(i, Joined(Q, L)) = Number(Only(Q, L), i)
<1> DEFINE n == Len(links)
<1>1. n \in Nat /\ LinkIds = 1 .. n
  BY PipelineAssumption
<1>2. PICK s : s = Only(Q, L)
  OBVIOUS
<1>3. s \in Family(LinkIds, V) /\ s \in [LinkIds -> Seq(V)] /\ Joined(Q, L) = FlattenSeq(s)
  BY <1>2, OnlyTyped DEF Joined, Only, Family
<1>4. CASE LinkIds = {}
  <2>1. s = <<>>
    BY <1>3, <1>4
  <2>2. FlattenSeq(s) = <<>>
    <3>1. Len(s) = 0
      BY <2>1
    <3> QED BY <2>1, <3>1 DEF FlattenSeq
  <2>3. Refs(i, <<>>) = 0
    <3>1. {k \in DOMAIN <<>> : <<>>[k] = i} = {}
      OBVIOUS
    <3> QED BY <3>1, FS_EmptySet DEF Refs
  <2>4. Number(s, i) = 0
    <3>1. Spots(s, i) = {}
      BY <2>1 DEF Spots
    <3> QED BY <3>1, FS_EmptySet DEF Number
  <2>5. <<>> \in Seq(V)
    OBVIOUS
  <2> QED BY <1>2, <1>3, <2>2, <2>3, <2>4, <2>5
<1>5. CASE LinkIds # {}
  <2>1. PICK f \in [LinkIds -> Seq(V)] :
           /\ f[1] = s[1] /\ \A k \in LinkIds : k # 1 => f[k] = f[k - 1] \o s[k]
           /\ FlattenSeq(s) = f[Len(links)]
    BY <1>3, <1>5, Flattening
  <2> DEFINE Upto(m) == Only(s, 1 .. m)
             Odd == {m \in LinkIds : Refs(i, f[m]) # Number(Upto(m), i)}
             m == Min(Odd)
  <2>2. 1 \in LinkIds /\ n \in LinkIds
    BY <1>1, <1>5
  <2>3. \A k \in LinkIds : s[k] \in Seq(V) /\ f[k] \in Seq(V)
    BY <1>3
  <2>4. IsFiniteSet(LinkIds)
    BY FiniteLinks
  <2>5. \A k : Upto(k) \in Family(LinkIds, V)
    BY <1>3, OnlyTyped
  <2>6. ASSUME NEW k \in LinkIds
        PROVE  /\ Copies(LinkIds, {k}, s[k]) \in Family(LinkIds, V)
               /\ Number(Copies(LinkIds, {k}, s[k]), i) = Refs(i, s[k])
    <3>1. PICK K : K = {k}
      OBVIOUS
    <3>2. PICK q, D : q = s[k] /\ D = LinkIds
      OBVIOUS
    <3>3. K \in SUBSET D /\ Cardinality(K) = 1 /\ q \in Seq(V) /\ IsFiniteSet(D)
      BY <2>3, <2>4, <3>1, <3>2, FS_Singleton
    <3>4. Copies(D, K, q) \in Family(D, V) /\ Number(Copies(D, K, q), i) = Refs(i, q)
      BY <3>3, OneQueueCounted
    <3> QED BY <3>1, <3>2, <3>4
  <2>7. Refs(i, f[1]) = Number(Upto(1), i)
    <3>1. Upto(1) = Copies(LinkIds, {1}, s[1])
      <4>1. \A k : k \in 1 .. 1 <=> k \in {1}
        OBVIOUS
      <4> QED BY <4>1 DEF Only, Copies
    <3> HIDE DEF Upto
    <3> QED BY <2>1, <2>2, <2>6, <3>1
  <2>8. ASSUME NEW k \in LinkIds, k # 1, k - 1 \in LinkIds, Refs(i, f[k - 1]) = Number(Upto(k - 1), i)
        PROVE  Refs(i, f[k]) = Number(Upto(k), i)
    <3> DEFINE C == Copies(LinkIds, {k}, s[k])
    <3>1. Appending(Upto(k - 1), C, Upto(k))
      <4>1. \A l \in LinkIds : /\ C[l] = IF l = k THEN s[l] ELSE <<>>
                               /\ Upto(k)[l] = IF l <= k THEN s[l] ELSE <<>>
                               /\ Upto(k - 1)[l] = IF l <= k - 1 THEN s[l] ELSE <<>>
        <5>1. k \in Int /\ \A l \in LinkIds : /\ l \in {k} <=> l = k
                                              /\ l \in 1 .. k <=> l <= k
                                              /\ l \in 1 .. (k - 1) <=> l <= k - 1
          BY <1>1
        <5> QED BY <5>1 DEF Copies, Only
      <4>2. \A l \in LinkIds : /\ <<>> \o s[l] = s[l] /\ s[l] \o <<>> = s[l]
                               /\ <<>> \in Seq(V) /\ <<>> \o <<>> = <<>>
        BY <2>3, ConcatEmptySeq
      <4>3. \A l \in LinkIds : (l <= k <=> (l = k \/ l <= k - 1)) /\ ~(l = k /\ l <= k - 1)
        BY <1>1
      <4>4. DOMAIN Upto(k - 1) = LinkIds
        BY DEF Only
      <4> HIDE DEF Upto, C
      <4>5. ASSUME NEW l \in LinkIds PROVE Upto(k)[l] = Upto(k - 1)[l] \o C[l]
        <5>1. CASE l = k
          BY <4>1, <4>2, <4>3, <5>1
        <5>2. CASE l # k
          <6>1. CASE l <= k - 1
            BY <4>1, <4>2, <4>3, <5>2, <6>1
          <6>2. CASE ~(l <= k - 1)
            BY <4>1, <4>2, <4>3, <5>2, <6>2
          <6> QED BY <6>1, <6>2
        <5> QED BY <5>1, <5>2
      <4> QED BY <4>4, <4>5 DEF Appending
    <3>2. C \in Family(LinkIds, V) /\ Number(C, i) = Refs(i, s[k])
      BY <2>6
    <3> HIDE DEF Upto, C
    <3>3. Number(Upto(k), i) = Number(Upto(k - 1), i) + Number(C, i)
      BY <2>4, <2>5, <3>1, <3>2, Appended
    <3>4. Refs(i, f[k - 1] \o s[k]) = Refs(i, f[k - 1]) + Refs(i, s[k])
      BY <2>3, <2>8, ConcatCounted
    <3>5. f[k] = f[k - 1] \o s[k]
      BY <2>1, <2>8
    <3> QED BY <2>8, <3>2, <3>3, <3>4, <3>5
  <2> HIDE DEF Upto
  <2>9. Odd = {}
    <3> SUFFICES ASSUME Odd # {} PROVE FALSE
      OBVIOUS
    <3>1. m \in Odd /\ \A k \in Odd : m <= k
      BY MinLink
    <3>2. m \in LinkIds /\ Refs(i, f[m]) # Number(Upto(m), i)
      BY <3>1
    <3> HIDE DEF m
    <3>3. m # 1
      BY <2>7, <3>2
    <3>4. m - 1 \in LinkIds /\ ~(m <= m - 1)
      BY <1>1, <3>2, <3>3
    <3>5. Refs(i, f[m - 1]) = Number(Upto(m - 1), i)
      BY <3>1, <3>4
    <3> QED BY <2>8, <3>2, <3>3, <3>4, <3>5
  <2>10. Upto(n) = s
    <3>1. \A l \in LinkIds : l \in 1 .. n
      BY <1>1
    <3> QED BY <1>3, <3>1 DEF Upto, Only
  <2>11. Refs(i, f[n]) = Number(s, i)
    BY <2>2, <2>9, <2>10
  <2> QED BY <1>2, <1>3, <2>1, <2>2, <2>3, <2>11
<1> QED BY <1>4, <1>5

\* One queue loses what is at its front.
Taking(Q, x, a, b, R) == Q[x] = a \o b /\ R = [Q EXCEPT ![x] = b]
Adding(Q, x, a, R) == R = [Q EXCEPT ![x] = Q[x] \o a]

LEMMA FrontTaken ==
  ASSUME NEW D, IsFiniteSet(D), NEW V, NEW Q \in Family(D, V), NEW x \in D,
         NEW a \in Seq(V), NEW b \in Seq(V),
         NEW R, Taking(Q, x, a, b, R), NEW i
  PROVE  R \in Family(D, V) /\ Number(Q, i) = Number(R, i) + Refs(i, a)
<1> DEFINE C == Copies(D, {x}, a)
<1>1. Q \in [D -> Seq(V)]
  BY DEF Family
<1>2. R \in [D -> Seq(V)] /\ R[x] = b /\ \A y \in D : y # x => R[y] = Q[y]
  BY <1>1 DEF Taking
<1>3. C \in Family(D, V) /\ Number(C, i) = Refs(i, a) /\ Refs(i, a) \in Nat
  <2>1. PICK K : K = {x}
    OBVIOUS
  <2>2. K \in SUBSET D /\ Cardinality(K) = 1
    BY <2>1, FS_Singleton
  <2>3. Copies(D, K, a) \in Family(D, V) /\ Number(Copies(D, K, a), i) = Refs(i, a) /\ Refs(i, a) \in Nat
    BY <2>2, OneQueueCounted
  <2> QED BY <2>1, <2>3
<1>4. Appending(C, R, Q)
  <2>1. DOMAIN C = D /\ C[x] = a /\ \A y \in D : y # x => C[y] = <<>>
    BY DEF Copies
  <2> HIDE DEF C
  <2>2. ASSUME NEW y \in D, y # x PROVE Q[y] = C[y] \o R[y]
    <3>1. C[y] = <<>> /\ R[y] = Q[y] /\ Q[y] \in Seq(V)
      BY <1>1, <1>2, <2>1, <2>2
    <3>2. <<>> \o Q[y] = Q[y]
      BY <3>1, ConcatEmptySeq
    <3> QED BY <3>1, <3>2
  <2>3. Q[x] = C[x] \o R[x]
    BY <1>2, <2>1 DEF Taking
  <2> QED BY <2>1, <2>2, <2>3 DEF Appending
<1> HIDE DEF C
<1>5. R \in Family(D, V) /\ Number(R, i) \in Nat
  <2>1. R \in Family(D, V)
    BY <1>2 DEF Family
  <2> QED BY <2>1, FiniteSpots
<1>6. Number(Q, i) = Number(C, i) + Number(R, i)
  BY <1>3, <1>4, <1>5, Appended
<1> QED BY <1>3, <1>5, <1>6

\* One queue grows.
LEMMA BackAdded ==
  ASSUME NEW D, IsFiniteSet(D), NEW V, NEW Q \in Family(D, V), NEW x \in D, NEW a \in Seq(V),
         NEW R, Adding(Q, x, a, R), NEW i
  PROVE  R \in Family(D, V) /\ Number(R, i) = Number(Q, i) + Refs(i, a)
<1> DEFINE C == Copies(D, {x}, a)
<1>1. Q \in [D -> Seq(V)]
  BY DEF Family
<1>2. Q[x] \o a \in Seq(V)
  <2>1. Q[x] \in Seq(V)
    BY <1>1
  <2> QED BY <2>1, ConcatProperties
<1>3. R \in [D -> Seq(V)] /\ R[x] = Q[x] \o a /\ \A y \in D : y # x => R[y] = Q[y]
  BY <1>1, <1>2 DEF Adding
<1>4. C \in Family(D, V) /\ Number(C, i) = Refs(i, a)
  <2>1. PICK K : K = {x}
    OBVIOUS
  <2>2. K \in SUBSET D /\ Cardinality(K) = 1
    BY <2>1, FS_Singleton
  <2>3. Copies(D, K, a) \in Family(D, V) /\ Number(Copies(D, K, a), i) = Refs(i, a)
    BY <2>2, OneQueueCounted
  <2> QED BY <2>1, <2>3
<1>5. Appending(Q, C, R)
  <2>1. DOMAIN Q = D /\ C[x] = a /\ \A y \in D : y # x => C[y] = <<>>
    BY <1>1 DEF Copies
  <2> HIDE DEF C
  <2>2. ASSUME NEW y \in D, y # x PROVE R[y] = Q[y] \o C[y]
    <3>1. C[y] = <<>> /\ R[y] = Q[y] /\ Q[y] \in Seq(V)
      BY <1>1, <1>3, <2>1, <2>2
    <3>2. Q[y] \o <<>> = Q[y]
      BY <3>1, ConcatEmptySeq
    <3> QED BY <3>1, <3>2
  <2> QED BY <1>3, <2>1, <2>2 DEF Appending
<1> HIDE DEF C
<1>6. R \in Family(D, V)
  BY <1>3 DEF Family
<1>7. Number(R, i) = Number(Q, i) + Number(C, i)
  BY <1>4, <1>5, <1>6, Appended
<1> QED BY <1>4, <1>6, <1>7

LEMMA NotThere ==
  ASSUME NEW D, NEW W, NEW V, W \subseteq V, NEW Q \in Family(D, W), NEW i
  PROVE  /\ Q \in Family(D, V)
         /\ i \notin W => Number(Q, i) = 0 /\ \A x \in D : Refs(i, Q[x]) = 0
<1>1. Q \in [D -> Seq(W)]
  BY DEF Family
<1>2. \A x \in D : Q[x] \in Seq(V)
  <2> SUFFICES ASSUME NEW x \in D PROVE Q[x] \in Seq(V)
    OBVIOUS
  <2>1. Q[x] \in Seq(W)
    BY <1>1
  <2> QED BY <2>1
<1>3. Q \in Family(D, V)
  BY <1>1, <1>2 DEF Family
<1>4. ASSUME NEW x \in D, NEW k \in DOMAIN Q[x] PROVE Q[x][k] \in W
  <2>1. Q[x] \in Seq(W)
    BY <1>1
  <2>2. DOMAIN Q[x] = 1 .. Len(Q[x]) /\ Q[x] \in [1 .. Len(Q[x]) -> W]
    BY <2>1, LenProperties
  <2> QED BY <2>2
<1>5. ASSUME i \notin W PROVE Number(Q, i) = 0
  <2>1. DOMAIN Q = D
    BY <1>1
  <2>2. Spots(Q, i) = {}
    BY <1>4, <1>5, <2>1 DEF Spots
  <2> QED BY <2>2, FS_EmptySet DEF Number
<1>6. ASSUME i \notin W, NEW x \in D PROVE Refs(i, Q[x]) = 0
  <2>1. {k \in DOMAIN Q[x] : Q[x][k] = i} = {}
    BY <1>4, <1>6
  <2> QED BY <2>1, FS_EmptySet DEF Refs
<1> QED BY <1>3, <1>5, <1>6

LEMMA RefsElsewhere ==
  ASSUME NEW W, NEW q \in Seq(W), NEW i, i \notin W
  PROVE  Refs(i, q) = 0
<1>1. DOMAIN q = 1 .. Len(q) /\ q \in [1 .. Len(q) -> W]
  BY LenProperties
<1>2. {k \in DOMAIN q : q[k] = i} = {}
  BY <1>1
<1> QED BY <1>2, FS_EmptySet DEF Refs

LEMMA TaggedCounted ==
  ASSUME NEW D, IsFiniteSet(D), NEW V, NEW Q \in Family(D, V), NEW i, NEW t
  PROVE  /\ IsFiniteSet(PlacesIn(t, Q, i)) /\ Cardinality(PlacesIn(t, Q, i)) = Number(Q, i)
         /\ \A z \in PlacesIn(t, Q, i) : z[1] = t
<1> DEFINE S == Spots(Q, i)
           T == PlacesIn(t, Q, i)
           Tag(z) == <<t, z[1], z[2]>>
           f == [z \in S |-> Tag(z)]
<1>1. \A z : z \in S <=> \E x \in DOMAIN Q : \E k \in DOMAIN Q[x] : Q[x][k] = i /\ z = <<x, k>>
  BY DEF Spots
<1>2. \A z : z \in T <=> \E x \in DOMAIN Q : \E k \in DOMAIN Q[x] : Q[x][k] = i /\ z = <<t, x, k>>
  BY DEF PlacesIn
<1>3. \A x, k : Tag(<<x, k>>) = <<t, x, k>>
  OBVIOUS
<1>4. IsFiniteSet(S)
  BY FiniteSpots
<1> HIDE DEF S, T, Tag
<1>5. f \in [S -> T]
  BY <1>1, <1>2, <1>3
<1>6. \A a, b \in S : f[a] = f[b] => a = b
  <2> SUFFICES ASSUME NEW a \in S, NEW b \in S, Tag(a) = Tag(b) PROVE a = b
    OBVIOUS
  <2>1. PICK x, k : a = <<x, k>>
    BY <1>1
  <2>2. PICK y, j : b = <<y, j>>
    BY <1>1
  <2>3. <<t, x, k>> = <<t, y, j>>
    BY <1>3, <2>1, <2>2
  <2> QED BY <2>1, <2>2, <2>3
<1>7. \A c \in T : \E a \in S : f[a] = c
  <2> SUFFICES ASSUME NEW c \in T PROVE \E a \in S : Tag(a) = c
    OBVIOUS
  <2>1. PICK x \in DOMAIN Q : \E k \in DOMAIN Q[x] : Q[x][k] = i /\ c = <<t, x, k>>
    BY <1>2
  <2>2. PICK k \in DOMAIN Q[x] : Q[x][k] = i /\ c = <<t, x, k>>
    BY <2>1
  <2> QED BY <1>1, <1>3, <2>2
<1>8. IsFiniteSet(T) /\ Cardinality(T) = Cardinality(S)
  <2> HIDE DEF f
  <2> QED BY <1>4, <1>5, <1>6, <1>7, OneToOne
<1>9. \A z \in T : z[1] = t
  <2> SUFFICES ASSUME NEW z \in T PROVE z[1] = t
    OBVIOUS
  <2>1. PICK x, k : z = <<t, x, k>>
    BY <1>2
  <2> QED BY <2>1
<1> QED BY <1>8, <1>9 DEF S, T, Number

-----------------------------------------------------------------------------
(* The use counts of the source images *)

\* No image is pushed to a queue that was released: the pipeline is not given up,
\* or no node passes its input on frame by frame.
Lossless == FALSE \notin QuickKinds \/ \A n \in Nodes : PassesOn(n) => ~Has(n, "SIGFRAME")

Made == {<<Type(l), l, k>> : l \in LinkIds, k \in Nat}
AnyImage == SourceImages \cup Made

Stored ==
  /\ sourceQ \in Family(Ports, AnyImage)
  /\ inQ \in Family(LinkIds, AnyImage) /\ usingQ \in Family(LinkIds, AnyImage)
  /\ outQ \in Family(LinkIds, Made)
  /\ useCount \in [Images -> Int] /\ toCome \in [Ports -> 0 .. FrameNum]

Delivered == {i \in SourceImages : i[3] <= FrameNum - toCome[i[2]]}

\* The queues in which a source image can be.
Used(i) == Number(sourceQ, i) + Number(inQ, i) + Number(usingQ, i)

Accounted(i) ==
  /\ useCount[i] >= Used(i) /\ (Lossless => useCount[i] = Used(i))
  /\ i \notin Delivered => useCount[i] = 0
  /\ i \in returned <=> i \in Delivered /\ useCount[i] = 0

LEMMA SourcesAreNotMade ==
  ASSUME NEW i \in SourceImages
  PROVE  i \notin Made /\ i \in Images /\ i \in AnyImage
<1>1. PICK p \in Ports, k \in 1 .. FrameNum : i = <<"source", p, k>>
  BY DEF SourceImages
<1>2. \A l \in LinkIds : Type(l) # "source"
  BY PipelineAssumption
<1>3. ASSUME i \in Made PROVE FALSE
  <2>1. PICK l \in LinkIds, j \in Nat : i = <<Type(l), l, j>>
    BY <1>3 DEF Made
  <2>2. Type(l) = "source"
    BY <1>1, <2>1
  <2> QED BY <1>2, <2>2
<1> QED BY <1>3 DEF Images, AnyImage

LEMMA FiniteKeys == IsFiniteSet(Ports) /\ IsFiniteSet(LinkIds)
BY PipelineAssumption, FiniteLinks

LEMMA UsedCounted ==
  ASSUME Stored, NEW i
  PROVE  /\ Number(sourceQ, i) \in Nat /\ Number(inQ, i) \in Nat /\ Number(usingQ, i) \in Nat
         /\ Used(i) \in Nat
<1>1. Number(sourceQ, i) \in Nat
  BY FiniteKeys, FiniteSpots DEF Stored
<1>2. Number(inQ, i) \in Nat
  BY FiniteKeys, FiniteSpots DEF Stored
<1>3. Number(usingQ, i) \in Nat
  BY FiniteKeys, FiniteSpots DEF Stored
<1> QED BY <1>1, <1>2, <1>3 DEF Used

LEMMA PlacesCounted ==
  ASSUME Stored, NEW i \in SourceImages
  PROVE  Cardinality(Places(i)) = Used(i) /\ IsFiniteSet(Places(i))
<1> DEFINE A == PlacesIn("source", sourceQ, i)
           B == PlacesIn("in", inQ, i)
           C == PlacesIn("using", usingQ, i)
           E == PlacesIn("out", outQ, i)
<1>1. IsFiniteSet(A) /\ Cardinality(A) = Number(sourceQ, i) /\ \A z \in A : z[1] = "source"
  BY FiniteKeys, TaggedCounted DEF Stored
<1>2. IsFiniteSet(B) /\ Cardinality(B) = Number(inQ, i) /\ \A z \in B : z[1] = "in"
  BY FiniteKeys, TaggedCounted DEF Stored
<1>3. IsFiniteSet(C) /\ Cardinality(C) = Number(usingQ, i) /\ \A z \in C : z[1] = "using"
  BY FiniteKeys, TaggedCounted DEF Stored
<1>4. IsFiniteSet(E) /\ Cardinality(E) = Number(outQ, i)
  BY FiniteKeys, TaggedCounted DEF Stored
<1>5. E = {}
  <2>1. i \notin Made
    BY SourcesAreNotMade
  <2>2. Number(outQ, i) = 0
    BY <2>1, NotThere DEF Stored
  <2> QED BY <1>4, <2>2, FS_EmptySet
<1>6. Places(i) = (A \cup B) \cup C
  BY <1>5 DEF Places
<1> HIDE DEF A, B, C, E
<1>7. A \cap B = {} /\ (A \cup B) \cap C = {}
  <2>1. "source" # "in" /\ "source" # "using" /\ "in" # "using"
    OBVIOUS
  <2> QED BY <1>1, <1>2, <1>3, <2>1
<1>8. IsFiniteSet(A \cup B) /\ Cardinality(A \cup B) = Cardinality(A) + Cardinality(B)
  BY <1>1, <1>2, <1>7, DisjointUnion
<1>9. /\ IsFiniteSet((A \cup B) \cup C)
      /\ Cardinality((A \cup B) \cup C) = Cardinality(A \cup B) + Cardinality(C)
  BY <1>3, <1>7, <1>8, DisjointUnion
<1> QED BY <1>1, <1>2, <1>3, <1>6, <1>8, <1>9 DEF Used

\* Images that are released leave the queues with their uses.
LEMMA ReleasedAccounted ==
  ASSUME Stored, Stored', NEW q \in Seq(AnyImage), ReleaseBuffers(q), toCome' = toCome,
         NEW i \in SourceImages, Accounted(i), Used(i) = Used(i)' + Refs(i, q)
  PROVE  Accounted(i)'
<1>1. Refs(i, q) \in Nat
  BY RefsAreCounted
<1>2. Used(i) \in Nat /\ Used(i)' \in Nat
  <2>1. Used(i) \in Nat
    BY UsedCounted
  <2>2. Number(sourceQ', i) \in Nat /\ Number(inQ', i) \in Nat /\ Number(usingQ', i) \in Nat
    BY FiniteKeys, FiniteSpots DEF Stored
  <2> QED BY <2>1, <2>2 DEF Used
<1>3. i \in Images
  BY SourcesAreNotMade
<1>4. useCount'[i] = useCount[i] - Refs(i, q) /\ useCount[i] \in Int
  BY <1>3 DEF ReleaseBuffers, Stored
<1>5. i \in returned' <=> i \in returned \/ (Refs(i, q) > 0 /\ useCount[i] = Refs(i, q))
  BY DEF ReleaseBuffers
<1>6. Delivered' = Delivered
  BY DEF Delivered
<1>7. PICK u, v, r, c : u = Used(i) /\ v = Used(i)' /\ r = Refs(i, q) /\ c = useCount[i]
  OBVIOUS
<1>8. c >= u /\ (Lossless => c = u) /\ u = v + r /\ u \in Nat /\ v \in Nat /\ r \in Nat /\ c \in Int
  BY <1>1, <1>2, <1>4, <1>7 DEF Accounted
<1>9. useCount'[i] >= v /\ (Lossless => useCount'[i] = v) /\ useCount'[i] = c - r
  BY <1>4, <1>7, <1>8
<1>10. c = 0 => r = 0
  BY <1>8
<1>11. i \notin Delivered => useCount'[i] = 0
  BY <1>7, <1>9, <1>10 DEF Accounted
<1>12. i \in returned' <=> i \in Delivered /\ useCount'[i] = 0
  <2>1. (useCount'[i] = 0) <=> (c = r)
    BY <1>8, <1>9
  <2>2. CASE r = 0
    BY <1>5, <1>7, <1>8, <2>1, <2>2 DEF Accounted
  <2>3. CASE r # 0
    <3>1. r > 0 /\ c # 0
      BY <1>8, <1>10, <2>3
    <3>2. i \in Delivered /\ i \notin returned
      BY <1>7, <3>1 DEF Accounted
    <3> QED BY <1>5, <1>7, <2>1, <3>1, <3>2
  <2> QED BY <2>2, <2>3
<1> QED BY <1>6, <1>7, <1>9, <1>11, <1>12 DEF Accounted

LEMMA SameAccounted ==
  ASSUME toCome' = toCome,
         NEW i \in SourceImages, Accounted(i), Used(i)' = Used(i), useCount'[i] = useCount[i],
         i \in returned' <=> i \in returned
  PROVE  Accounted(i)'
<1>1. Delivered' = Delivered
  BY DEF Delivered
<1> QED BY <1>1 DEF Accounted

-----------------------------------------------------------------------------
(* What quickFinish has released, and what the application was told *)

\* A queue that quickFinish has released belongs to a node that had been started,
\* so that only a frame-by-frame node may still wait for what comes into it.
Flushes ==
  /\ inClosed \subseteq LinkIds \ SinkLinks /\ mCurrentProcessNodes \subseteq Nodes
  /\ main.pc \in {"start", "prepare"} => mCurrentProcessNodes = {} /\ inClosed = {}
  /\ \A n \in mCurrentProcessNodes : mDependenceNum[n] <= 0 /\ ~TopologyError
  /\ UnderWay => \A n \in Nodes : \A l \in inClosed \cap Into(n) : Settled(l) \/ (Has(n, "SIGFRAME") /\ Streaming(l))
  /\ FALSE \notin QuickKinds => inClosed = {} /\ mFlushStatus # "ForcedFlush" /\ quick # "nodes"

\* The application is told of a failure once.
Told == abnormalCalls \in {0, 1} /\ (main.pc = "start" => abnormalCalls = 0)

\* What the steps do to what Flushes speaks of.
Settling ==
  \A l : links[l].src \in Nodes => (Settled(l) => Settled(l)') /\ (Streaming(l) => Streaming(l)')
Sinking ==
  /\ main'.pc \in {"start", "prepare"} => main.pc \in {"start", "prepare"}
  /\ UnderWay' => UnderWay \/ main.pc = "prepare"
  /\ main.pc \notin {"start", "prepare"} => \A n \in Nodes : mDependenceNum'[n] <= mDependenceNum[n]
  /\ main'.pc = "start" => main.pc = "start"

LEMMA NodesUnchanged ==
  ASSUME node' = node
  PROVE  Settling /\ \A n \in Nodes : At(n, "idle")' <=> At(n, "idle")
BY DEF Settling, Settled, Streaming, At

LEMMA ThreadSinks ==
  ASSUME Inv, NEW n \in Nodes, processTask(n)
  PROVE  Settling /\ Sinking /\ main.pc \notin {"start", "prepare"} /\ UnderWay
<1>1. Typed /\ Local(n)
  BY DEF Inv
<1>2. Moves(n) /\ Woken /\ Depends
  BY <1>1, NodeStep, NodeDepends
<1>3. Settling
  BY <1>1, <1>2, SettledStays DEF Settling
<1>4. UnderWay /\ main.pc \notin {"start", "prepare"}
  BY <1>2 DEF UnderWay, Moves, At, Inv, Once
<1>5. main'.pc \notin {"start", "prepare"}
  BY <1>2, <1>4 DEF Woken
<1>6. \A m \in Nodes : mDependenceNum'[m] <= mDependenceNum[m]
  BY <1>2 DEF Depends
<1> QED BY <1>3, <1>4, <1>5, <1>6 DEF Sinking

LEMMA PostSettles ==
  ASSUME Inv, Post
  PROVE  Settling
<1>1. PICK n : n = main.node
  OBVIOUS
<1>2. n \in Nodes /\ At(n, "idle") /\ (UNCHANGED node \/ Goto(n, "input"))
  <2>1. main.pc = "post" /\ (UNCHANGED node \/ Goto(n, "input"))
    BY <1>1 DEF Post
  <2> QED BY <1>1, <2>1, MainTyped DEF Once, Held
<1>3. CASE UNCHANGED node
  BY <1>3, NodesUnchanged
<1>4. CASE Goto(n, "input")
  <2> DEFINE r == [node[n] EXCEPT !.pc = "input"]
  <2>1. node \in [Nodes -> Threads] /\ node[n] \in Threads
    BY <1>2, RecordTyped DEF Inv
  <2>2. node' = [node EXCEPT ![n].pc = "input"]
    BY <1>4 DEF Goto
  <2>3. r.frames = node[n].frames
    BY <2>1 DEF Threads
  <2>4. node'[n] = r /\ \A m \in Nodes : m # n => node'[m] = node[m]
    BY <1>2, <2>1, <2>2
  <2> HIDE DEF r
  <2> SUFFICES ASSUME NEW l, links[l].src \in Nodes
               PROVE  (Settled(l) => Settled(l)') /\ (Streaming(l) => Streaming(l)')
    BY DEF Settling
  <2>5. CASE links[l].src = n
    BY <1>2, <2>3, <2>4, <2>5 DEF Settled, Streaming, At
  <2>6. CASE links[l].src # n
    <3>1. node'[links[l].src] = node[links[l].src]
      BY <2>4, <2>6
    <3> QED BY <3>1 DEF Settled, Streaming
  <2> QED BY <2>5, <2>6
<1> QED BY <1>2, <1>3, <1>4

\* A step of postProcTask.
LEMMA MainSinks ==
  ASSUME Inv, postProcTask
  PROVE  Settling /\ Sinking
<1>1. \A n \in Nodes : mDependenceNum[n] \in Int /\ mDependenceNum[n] <= mDependenceNum[n]
  <2>1. \A n \in Nodes : mDependenceNum[n] \in Int
    BY DEF Inv, Typed
  <2> QED BY <2>1
<1>t. main \in [pc : MainPcs, node : Nodes \cup {NoNode}, ok : BOOLEAN, ports : SUBSET Ports]
  BY MainTyped
<1>2. CASE Start
  <2>1. /\ main.pc = "start" /\ UNCHANGED <<node, mDependenceNum>>
        /\ MainGoto("release ports") \/ MainGoto("prepare")
    BY <1>2 DEF Start, runVars
  <2>2. main'.pc \in {"release ports", "prepare"}
    BY <1>t, <2>1 DEF MainGoto
  <2>3. \A n \in Nodes : At(n, "idle")'
    BY <2>1, MainTyped DEF Once, At
  <2>4. ~UnderWay'
    BY <2>2, <2>3 DEF UnderWay
  <2> QED BY <2>1, <2>2, <2>4, NodesUnchanged DEF Sinking
<1>3. CASE Prepare
  <2>1. /\ main.pc = "prepare" /\ UNCHANGED node
        /\ MainGoto("release ports") \/ MainGoto("loop")
    BY <1>3 DEF Prepare
  <2>2. main'.pc \in {"release ports", "loop"}
    BY <1>t, <2>1 DEF MainGoto
  <2> QED BY <2>1, <2>2, NodesUnchanged DEF Sinking
<1>4. CASE Post
  <2>1. /\ main.pc = "post" /\ UNCHANGED mDependenceNum
        /\ main' = [main EXCEPT !.pc = "count", !.ok = main.node \notin Missing]
    BY <1>4 DEF Post, runVars
  <2>2. main'.pc = "count"
    BY <1>t, <2>1
  <2>3. UnderWay
    BY <2>1 DEF UnderWay
  <2> QED BY <1>1, <1>4, <2>1, <2>2, <2>3, PostSettles DEF Sinking
<1>5. CASE Take \/ CountRunning \/ WaitForNodes
  <2>1. /\ main.pc \in {"loop", "count", "wait"} /\ UNCHANGED <<node, mDependenceNum>>
        /\ \/ main'.pc \in {"release ports", "post", "wait", "loop", "asleep"}
    <3>1. CASE Take
      BY <1>t, <3>1 DEF Take, MainGoto
    <3>2. CASE CountRunning
      BY <1>t, <3>2 DEF CountRunning, MainGoto
    <3>3. CASE WaitForNodes
      BY <1>t, <3>3 DEF WaitForNodes, MainGoto, runVars
    <3> QED BY <1>5, <3>1, <3>2, <3>3
  <2>2. UnderWay
    BY <2>1 DEF UnderWay
  <2> QED BY <1>1, <2>1, <2>2, NodesUnchanged DEF Sinking
<1>6. CASE ReleasePort \/ ReleaseRest
  <2>1. main.pc \in {"release ports", "release rest"} /\ UNCHANGED <<node, mDependenceNum>>
    BY <1>6 DEF ReleasePort, ReleaseRest, runVars
  <2>2. main'.pc \in {"release ports", "release rest", "finished"}
    BY <1>6, <1>t, <2>1 DEF ReleasePort, ReleaseRest, MainGoto
  <2>3. \A n \in Nodes : At(n, "idle")' <=> At(n, "idle")
    BY <2>1, NodesUnchanged
  <2>4. UnderWay' => UnderWay
    BY <2>2, <2>3 DEF UnderWay
  <2> QED BY <1>1, <2>1, <2>2, <2>4, NodesUnchanged DEF Sinking
<1> QED BY <1>2, <1>3, <1>4, <1>5, <1>6 DEF postProcTask

LEMMA OthersSink ==
  ASSUME Inv, UNCHANGED <<node, main, mDependenceNum>>
  PROVE  Settling /\ Sinking
<1>1. \A n \in Nodes : mDependenceNum[n] \in Int
  BY DEF Inv, Typed
<1>2. UnderWay' <=> UnderWay
  BY DEF UnderWay, At
<1> QED BY <1>1, <1>2, NodesUnchanged DEF Sinking

\* Steps that release no queue and record no node.
LEMMA FlushesStay ==
  ASSUME Inv, Inv', Flushes, Settling, Sinking, inClosed' = inClosed,
         mCurrentProcessNodes' \subseteq mCurrentProcessNodes,
         FALSE \notin QuickKinds => mFlushStatus' # "ForcedFlush" /\ quick' # "nodes"
  PROVE  Flushes'
<1>1. inClosed' \subseteq LinkIds \ SinkLinks /\ mCurrentProcessNodes' \subseteq Nodes
  BY DEF Flushes
<1>2. main'.pc \in {"start", "prepare"} => mCurrentProcessNodes' = {} /\ inClosed' = {}
  BY DEF Flushes, Sinking
<1>3. \A n \in mCurrentProcessNodes' : mDependenceNum'[n] <= 0 /\ ~TopologyError
  <2> SUFFICES ASSUME NEW n \in mCurrentProcessNodes' PROVE mDependenceNum'[n] <= 0 /\ ~TopologyError
    OBVIOUS
  <2>1. n \in mCurrentProcessNodes /\ n \in Nodes
    BY <1>1
  <2>2. mDependenceNum[n] <= 0 /\ ~TopologyError /\ main.pc \notin {"start", "prepare"}
    BY <2>1 DEF Flushes
  <2>3. mDependenceNum'[n] <= mDependenceNum[n]
    BY <2>1, <2>2 DEF Sinking
  <2>4. mDependenceNum[n] \in Int /\ mDependenceNum'[n] \in Int
    BY <2>1 DEF Inv, Typed
  <2> QED BY <2>2, <2>3, <2>4
<1>4. ASSUME UnderWay', NEW n \in Nodes, NEW l \in inClosed' \cap Into(n)
      PROVE  Settled(l)' \/ (Has(n, "SIGFRAME") /\ Streaming(l)')
  <2>1. UnderWay
    BY <1>4 DEF Flushes, Sinking
  <2>2. Settled(l) \/ (Has(n, "SIGFRAME") /\ Streaming(l))
    BY <1>4, <2>1 DEF Flushes
  <2>3. links[l].src \in Nodes
    BY <1>4, LinksInto
  <2> QED BY <2>2, <2>3 DEF Settling
<1>5. TopologyError' = TopologyError
  BY DEF TopologyError
<1> QED BY <1>1, <1>2, <1>3, <1>4, <1>5 DEF Flushes

LEMMA ToldStays ==
  ASSUME Inv, Told, Sinking, abnormalCalls' = abnormalCalls
  PROVE  Told'
BY DEF Told, Sinking

\* The nodes that are recorded have nothing outstanding.
LEMMA ReleaseNodesFlushes ==
  ASSUME Inv, Flushes, ReleaseNodes
  PROVE  Flushes'
<1>1. /\ quick = "nodes" /\ UNCHANGED <<node, main, mDependenceNum, mCurrentProcessNodes, mFlushStatus>>
      /\ inClosed' = inClosed \cup {Min(InLinks[n]) : n \in mCurrentProcessNodes} /\ quick' = "none"
  BY DEF ReleaseNodes, runVars
<1>2. ASSUME NEW n \in Nodes
      PROVE  Min(InLinks[n]) \in InLinks[n] /\ InLinks[n] \subseteq LinkIds \ SinkLinks
  <2>1. InLinks[n] # {} /\ InLinks[n] \subseteq LinkIds
    BY PipelineAssumption, LinksInto
  <2> QED BY <2>1, MinLink DEF InLinks, SinkLinks
<1>3. inClosed' \subseteq LinkIds \ SinkLinks
  BY <1>1, <1>2 DEF Flushes
<1>4. main'.pc \in {"start", "prepare"} => mCurrentProcessNodes' = {} /\ inClosed' = {}
  BY <1>1 DEF Flushes
<1>5. UnderWay' <=> UnderWay
  BY <1>1 DEF UnderWay, At
<1>6. ASSUME UnderWay, NEW n \in Nodes, NEW l \in inClosed' \cap Into(n)
      PROVE  Settled(l) \/ (Has(n, "SIGFRAME") /\ Streaming(l))
  <2>1. CASE l \in inClosed
    BY <1>6, <2>1 DEF Flushes
  <2>2. CASE l \notin inClosed
    <3>1. PICK m \in mCurrentProcessNodes : l = Min(InLinks[m])
      BY <1>1, <1>6, <2>2
    <3>2. m \in Nodes
      BY DEF Flushes
    <3>3. l \in InLinks[m] /\ l \in InLinks[n]
      BY <1>2, <1>6, <3>1, <3>2 DEF Into
    <3>4. m = n
      BY <1>6, <3>2, <3>3 DEF InLinks
    <3>5. mDependenceNum[n] <= 0 /\ ~TopologyError
      BY <3>4 DEF Flushes
    <3>6. CASE Has(n, "SIGFRAME")
      BY <1>6, <3>5, <3>6 DEF Inv, Outstanding
    <3>7. CASE ~Has(n, "SIGFRAME")
      <4>1. mDependenceNum[n] >= Cardinality(Unsettled(n)) /\ mDependenceNum[n] \in Int
        BY <1>6, <3>7 DEF Inv, Outstanding, Typed
      <4>2. IsFiniteSet(Unsettled(n)) /\ Cardinality(Unsettled(n)) \in Nat
        BY LinksInto, FiniteLinks DEF Unsettled
      <4>3. Cardinality(Unsettled(n)) = 0
        BY <3>5, <4>1, <4>2
      <4>4. Unsettled(n) = {}
        BY <4>2, <4>3, FS_EmptySet
      <4> QED BY <1>6, <4>4 DEF Unsettled
    <3> QED BY <3>6, <3>7
  <2> QED BY <2>1, <2>2
<1>7. ASSUME UnderWay', NEW n \in Nodes, NEW l \in inClosed' \cap Into(n)
      PROVE  Settled(l)' \/ (Has(n, "SIGFRAME") /\ Streaming(l)')
  <2>1. Settled(l) \/ (Has(n, "SIGFRAME") /\ Streaming(l))
    BY <1>5, <1>6, <1>7
  <2> QED BY <1>1, <2>1 DEF Settled, Streaming
<1>8. FALSE \in QuickKinds
  BY <1>1 DEF Flushes
<1>9. \A n \in mCurrentProcessNodes' : mDependenceNum'[n] <= 0 /\ ~TopologyError
  BY <1>1 DEF Flushes
<1>10. TopologyError' = TopologyError /\ mCurrentProcessNodes' \subseteq Nodes
  BY <1>1 DEF TopologyError, Flushes
<1> QED BY <1>3, <1>4, <1>7, <1>8, <1>9, <1>10 DEF Flushes

LEMMA TakeFlushes ==
  ASSUME Inv, Inv', Flushes, Take, Settling, Sinking
  PROVE  Flushes'
<1>1. /\ main.pc = "loop" /\ UNCHANGED <<node, inClosed, mFlushStatus, quick, mDependenceNum>>
  BY DEF Take, bufferVars, flushVars
<1>2. CASE mRunSequence = <<>>
  <2>1. mCurrentProcessNodes' = mCurrentProcessNodes
    BY <1>2 DEF Take
  <2> QED BY <1>1, <2>1, FlushesStay DEF Flushes
<1>3. CASE mRunSequence # <<>>
  <2>1. PICK h : h = Head(mRunSequence)
    OBVIOUS
  <2>2. mCurrentProcessNodes' = mCurrentProcessNodes \cup {h} /\ main'.pc = "post"
    <3>1. main' = [main EXCEPT !.pc = "post", !.node = h]
      BY <1>3, <2>1 DEF Take
    <3> QED BY <1>3, <2>1, <3>1, MainTyped DEF Take
  <2>3. Queued(h) /\ h \in Nodes
    <3>1. mRunSequence \in Seq(Nodes) /\ 1 \in DOMAIN mRunSequence /\ h = mRunSequence[1]
      BY <1>3, <2>1, MainTyped
    <3> QED BY <3>1 DEF Queued
  <2>4. mDependenceNum[h] <= 0 /\ ~TopologyError
    BY <2>3, MainTyped DEF Once
  <2>5. UnderWay
    BY <1>1 DEF UnderWay
  <2>6. \A n \in mCurrentProcessNodes' : mDependenceNum'[n] <= 0 /\ ~TopologyError
    BY <1>1, <2>2, <2>4 DEF Flushes
  <2>7. ASSUME NEW n \in Nodes, NEW l \in inClosed' \cap Into(n) PROVE Settled(l)' \/ (Has(n, "SIGFRAME") /\ Streaming(l)')
    <3>1. Settled(l) \/ (Has(n, "SIGFRAME") /\ Streaming(l))
      BY <1>1, <2>5, <2>7 DEF Flushes
    <3> QED BY <1>1, <3>1 DEF Settled, Streaming
  <2>8. TopologyError' = TopologyError /\ mCurrentProcessNodes' \subseteq Nodes
    BY <2>2, <2>3 DEF TopologyError, Flushes
  <2> QED BY <1>1, <2>2, <2>6, <2>7, <2>8 DEF Flushes
<1> QED BY <1>2, <1>3

LEMMA FlushesKept ==
  ASSUME Inv, Inv', Flushes, Told, [Next]_vars
  PROVE  Flushes' /\ Told'
<1>1. CASE \E n \in Nodes : processTask(n)
  <2>1. PICK n \in Nodes : processTask(n)
    BY <1>1
  <2>2. Settling /\ Sinking /\ main.pc \notin {"start", "prepare"}
    BY <2>1, ThreadSinks
  <2>3. /\ UNCHANGED <<inClosed, mFlushStatus, quick>>
        /\ mCurrentProcessNodes' \subseteq mCurrentProcessNodes
        /\ abnormalCalls' = abnormalCalls \/ Callback(n)
    <3>1. CASE \/ GetInput(n) \/ NotEffective(n) \/ GetOutput(n) \/ NoOutput(n) \/ PluginFails(n)
               \/ PluginReturns(n)
      BY <3>1 DEF GetInput, NotEffective, GetOutput, NoOutput, PluginFails, PluginReturns,
                  bufferVars, flushVars
    <3>2. CASE betweenFrames(n)
      BY <3>2 DEF betweenFrames, ReleaseOneInput, DependInput, ReleaseOneOutput, DependOutput,
                  StartChildren, bufferVars, flushVars
    <3>3. CASE notifyNextNode(n)
      BY <3>3 DEF notifyNextNode, Notify, ReleaseAllInput, ReleaseLink, DependLink, Finish,
                  Callback, ReleaseSinkOnError, Fail, bufferVars, flushVars
    <3> QED BY <2>1, <3>1, <3>2, <3>3 DEF processTask
  <2>4. Flushes'
    BY <2>2, <2>3, FlushesStay DEF Flushes
  <2>5. CASE abnormalCalls' = abnormalCalls
    BY <2>2, <2>4, <2>5, ToldStays
  <2>6. CASE Callback(n)
    <3>1. abnormalCalls' \in {0, 1}
      BY <2>6 DEF Callback, Told
    <3>2. main'.pc # "start"
      BY <2>2 DEF Sinking
    <3> QED BY <2>4, <3>1, <3>2 DEF Told
  <2> QED BY <2>3, <2>5, <2>6, <2>4
<1>2. CASE postProcTask
  <2>1. Settling /\ Sinking
    BY <1>2, MainSinks
  <2>2. CASE Take
    <3>1. abnormalCalls' = abnormalCalls
      BY <2>2 DEF Take
    <3> QED BY <2>1, <2>2, <3>1, TakeFlushes, ToldStays
  <2>3. CASE ~Take
    <3>1. UNCHANGED <<inClosed, mFlushStatus, quick, mCurrentProcessNodes>>
          \/ ReleaseRest
      BY <1>2, <2>3 DEF postProcTask, Start, Prepare, Post, CountRunning, WaitForNodes, ReleasePort,
           bufferVars, flushVars
    <3>2. UNCHANGED <<inClosed, mFlushStatus, quick, mCurrentProcessNodes>>
      BY <3>1 DEF ReleaseRest, flushVars
    <3>3. Flushes'
      BY <2>1, <3>2, FlushesStay DEF Flushes
    <3>4. abnormalCalls' = abnormalCalls \/ Start
      BY <1>2, <2>3 DEF postProcTask, Prepare, Post, CountRunning, WaitForNodes, ReleasePort, ReleaseRest
    <3>5. CASE abnormalCalls' = abnormalCalls
      BY <2>1, <3>3, <3>5, ToldStays
    <3>6. CASE Start
      <4>1. main.pc = "start" /\ abnormalCalls = 0
        BY <3>6 DEF Start, Told
      <4>2. abnormalCalls' = 1 \/ abnormalCalls' = 0
        <5>1. abnormalCalls' = abnormalCalls \/ abnormalCalls' = abnormalCalls + 1
          BY <3>6, Zenon DEF Start
        <5> QED BY <4>1, <5>1
      <4>3. main'.pc # "start"
        <5>1. MainGoto("release ports") \/ MainGoto("prepare")
          BY <3>6 DEF Start
        <5> QED BY <5>1, MainTyped DEF MainGoto
      <4> QED BY <3>3, <4>2, <4>3 DEF Told
    <3> QED BY <3>4, <3>5, <3>6
  <2> QED BY <2>2, <2>3
<1>3. CASE \/ \E p \in Ports : Deliver(p)
           \/ \E n \in Nodes : PluginReleasesInput(n) \/ PluginReleasesOutput(n)
           \/ UNCHANGED vars
  <2>1. /\ UNCHANGED <<node, main, mDependenceNum>>
        /\ UNCHANGED <<inClosed, mFlushStatus, quick, mCurrentProcessNodes, abnormalCalls>>
    BY <1>3 DEF Deliver, PluginReleasesInput, PluginReleasesOutput, vars, runVars, bufferVars, flushVars
  <2>2. Settling /\ Sinking
    BY <2>1, OthersSink
  <2> QED BY <2>1, <2>2, FlushesStay, ToldStays DEF Flushes
<1>4. CASE quickFinish
  <2>1. UNCHANGED <<node, main, mDependenceNum, mCurrentProcessNodes, abnormalCalls>>
    BY <1>4 DEF quickFinish, SetFlushStatus, ReleasePorts, ReleaseNodes, runVars
  <2>2. Settling /\ Sinking /\ Told'
    BY <2>1, OthersSink, ToldStays
  <2>3. CASE ReleaseNodes
    BY <2>2, <2>3, ReleaseNodesFlushes
  <2>4. CASE ~ReleaseNodes
    <3>1. UNCHANGED inClosed
      BY <1>4, <2>4 DEF quickFinish, SetFlushStatus, ReleasePorts, bufferVars
    <3>2. FALSE \notin QuickKinds => mFlushStatus' # "ForcedFlush" /\ quick' # "nodes"
      BY <1>4, <2>4, PipelineAssumption DEF quickFinish, SetFlushStatus, ReleasePorts, Flushes
    <3> QED BY <2>1, <2>2, <3>1, <3>2, FlushesStay
  <2> QED BY <2>3, <2>4
<1> QED BY <1>1, <1>2, <1>3, <1>4 DEF Next

-----------------------------------------------------------------------------
(* Steps that move source images *)

Least(a, b) == Min({a, b})

LEMMA LeastOfTwo ==
  ASSUME NEW a \in Int, NEW b \in Int
  PROVE  Least(a, b) \in Int /\ Least(a, b) <= a /\ Least(a, b) <= b /\ (Least(a, b) = a \/ Least(a, b) = b)
<1>1. PICK S : S = {a, b}
  OBVIOUS
<1>2. \E x \in S : \A y \in S : x <= y
  BY <1>1
<1>3. Min(S) \in S /\ \A y \in S : Min(S) <= y
  BY <1>2 DEF Min
<1> QED BY <1>1, <1>3 DEF Least

\* A queue is what is taken from its front, and the rest.
LEMMA Halves ==
  ASSUME NEW V, NEW q \in Seq(V), NEW k \in 0 .. Len(q)
  PROVE  /\ SubSeq(q, 1, k) \in Seq(V) /\ SubSeq(q, k + 1, Len(q)) \in Seq(V)
         /\ q = SubSeq(q, 1, k) \o SubSeq(q, k + 1, Len(q)) /\ Len(SubSeq(q, 1, k)) = k
<1>1. Len(q) \in Nat /\ k \in Int /\ k + 1 \in Int /\ \A j \in 1 .. Len(q) : q[j] \in V
  BY LenProperties
<1>2. SubSeq(q, 1, k) \in Seq(V) /\ Len(SubSeq(q, 1, k)) = k
  <2>1. \A j \in 1 .. k : q[j] \in V
    BY <1>1
  <2>2. SubSeq(q, 1, k) \in Seq(V) /\ Len(SubSeq(q, 1, k)) = IF 1 <= k THEN k - 1 + 1 ELSE 0
    BY <1>1, <2>1, SubSeqProperties
  <2> QED BY <1>1, <2>2
<1>3. SubSeq(q, k + 1, Len(q)) \in Seq(V)
  <2>1. \A j \in (k + 1) .. Len(q) : q[j] \in V
    BY <1>1
  <2> QED BY <1>1, <2>1, SubSeqProperties
<1>4. SubSeq(q, 1, k) \o SubSeq(q, k + 1, Len(q)) = SubSeq(q, 1, Len(q))
  <2>1. 1 \in 1 .. Len(q) + 1 /\ k \in 1 - 1 .. Len(q) /\ Len(q) \in k .. Len(q)
    BY <1>1
  <2> QED BY <2>1, ConcatAdjacentSubSeq
<1> QED BY <1>2, <1>3, <1>4, SubSeqFull

LEMMA HeadAndTail ==
  ASSUME NEW V, NEW q \in Seq(V), q # <<>>
  PROVE  /\ <<Head(q)>> \in Seq(V) /\ Tail(q) \in Seq(V) /\ q = <<Head(q)>> \o Tail(q)
<1>1. Head(q) \in V /\ Tail(q) \in Seq(V)
  BY HeadTailProperties
<1> QED BY <1>1

LEMMA OneRef ==
  ASSUME NEW i, NEW j
  PROVE  Refs(i, <<j>>) = IF i = j THEN 1 ELSE 0
<1>1. {k \in DOMAIN <<j>> : <<j>>[k] = i} = IF i = j THEN {1} ELSE {}
  OBVIOUS
<1> QED BY <1>1, FS_EmptySet, FS_Singleton DEF Refs

\* The account of every source image is right.
Kept == Stored /\ \A i \in SourceImages : Accounted(i)

LEMMA CountsReleased ==
  ASSUME Stored, NEW V, NEW q \in Seq(V), ReleaseBuffers(q)
  PROVE  /\ useCount' \in [Images -> Int]
         /\ \A i \in Images : useCount'[i] = useCount[i] - Refs(i, q) /\ useCount[i] \in Int
         /\ \A i \in SourceImages : i \in returned' <=>
              i \in returned \/ (Refs(i, q) > 0 /\ useCount[i] = Refs(i, q))
<1>1. \A i : Refs(i, q) \in Nat
  BY RefsAreCounted
<1>2. \A i \in Images : useCount[i] \in Int
  BY DEF Stored
<1>3. \A i \in Images : useCount[i] - Refs(i, q) \in Int
  BY <1>1, <1>2
<1>4. useCount' = [i \in Images |-> useCount[i] - Refs(i, q)]
  BY DEF ReleaseBuffers
<1>5. ASSUME NEW i \in SourceImages
      PROVE  i \in returned' <=> i \in returned \/ (Refs(i, q) > 0 /\ useCount[i] = Refs(i, q))
  BY DEF ReleaseBuffers
<1> QED BY <1>2, <1>3, <1>4, <1>5

\* The queue of a port is emptied.
LEMMA PortCounted ==
  ASSUME Stored, NEW p \in Ports, sourceQ' = [sourceQ EXCEPT ![p] = <<>>], NEW i
  PROVE  /\ sourceQ[p] \in Seq(AnyImage) /\ sourceQ' \in Family(Ports, AnyImage)
         /\ Number(sourceQ, i) = Number(sourceQ', i) + Refs(i, sourceQ[p])
<1>1. PICK q, e : q = sourceQ[p] /\ e = <<>>
  OBVIOUS
<1>2. q \in Seq(AnyImage) /\ e \in Seq(AnyImage)
  <2>1. sourceQ[p] \in Seq(AnyImage)
    BY Lengths DEF Stored
  <2> QED BY <1>1, <2>1
<1>3. sourceQ[p] = q \o e /\ sourceQ' = [sourceQ EXCEPT ![p] = e]
  BY <1>1, <1>2, ConcatEmptySeq
<1>4. PICK Q, R, D : Q = sourceQ /\ R = sourceQ' /\ D = Ports
  OBVIOUS
<1>5. Q \in Family(D, AnyImage) /\ p \in D /\ Taking(Q, p, q, e, R) /\ IsFiniteSet(D)
  BY <1>3, <1>4, FiniteKeys DEF Stored, Taking
<1>6. R \in Family(D, AnyImage) /\ Number(Q, i) = Number(R, i) + Refs(i, q)
  BY <1>2, <1>5, FrontTaken
<1> QED BY <1>1, <1>2, <1>4, <1>6

LEMMA PortReleased ==
  ASSUME Kept, NEW p \in Ports, ReleaseBuffers(sourceQ[p]), sourceQ' = [sourceQ EXCEPT ![p] = <<>>],
         UNCHANGED <<toCome, inQ, usingQ, outQ>>
  PROVE  Kept'
<1>1. Stored
  BY DEF Kept
<1>2. PICK q : q = sourceQ[p]
  OBVIOUS
<1>3. q \in Seq(AnyImage) /\ sourceQ' \in Family(Ports, AnyImage)
  BY <1>1, <1>2, PortCounted
<1>4. \A i : Number(sourceQ, i) = Number(sourceQ', i) + Refs(i, q)
  BY <1>1, <1>2, PortCounted
<1>5. useCount' \in [Images -> Int]
  <2>1. ReleaseBuffers(q)
    BY <1>2
  <2> QED BY <1>1, <1>3, <2>1, CountsReleased
<1>6. Stored'
  BY <1>1, <1>3, <1>5 DEF Stored
<1>7. ASSUME NEW i \in SourceImages PROVE Accounted(i)'
  <2>1. Used(i)' = Number(sourceQ', i) + Number(inQ, i) + Number(usingQ, i)
    BY DEF Used
  <2>2. Number(sourceQ', i) \in Nat /\ Refs(i, q) \in Nat
    BY <1>3, <1>6, FiniteKeys, FiniteSpots, RefsAreCounted DEF Stored
  <2>3. Used(i) = Used(i)' + Refs(i, q)
    <3>1. Number(sourceQ, i) = Number(sourceQ', i) + Refs(i, q)
      BY <1>4
    <3>2. Number(inQ, i) \in Nat /\ Number(usingQ, i) \in Nat
      BY <1>1, UsedCounted
    <3>3. Used(i) = Number(sourceQ, i) + Number(inQ, i) + Number(usingQ, i)
      BY DEF Used
    <3> QED BY <2>1, <2>2, <3>1, <3>2, <3>3
  <2>4. ReleaseBuffers(q) /\ Accounted(i) /\ toCome' = toCome
    BY <1>2 DEF Kept
  <2> QED BY <1>1, <1>3, <1>6, <2>3, <2>4, ReleasedAccounted
<1> QED BY <1>6, <1>7 DEF Kept

\* The images of q have been taken from the inputs that nodes work on.
Gone(q) ==
  /\ usingQ' \in Family(LinkIds, AnyImage)
  /\ \A i : Number(usingQ, i) = Number(usingQ', i) + Refs(i, q)

LEMMA FirstGone ==
  ASSUME Stored, NEW l \in LinkIds, usingQ[l] # <<>>, usingQ' = [usingQ EXCEPT ![l] = Tail(usingQ[l])]
  PROVE  <<Head(usingQ[l])>> \in Seq(AnyImage) /\ Gone(<<Head(usingQ[l])>>)
<1>1. usingQ[l] \in Seq(AnyImage)
  BY Lengths DEF Stored
<1>2. PICK q, e : q = <<Head(usingQ[l])>> /\ e = Tail(usingQ[l])
  OBVIOUS
<1>3. q \in Seq(AnyImage) /\ e \in Seq(AnyImage) /\ usingQ[l] = q \o e
  BY <1>1, <1>2, HeadAndTail
<1>4. ASSUME NEW i
      PROVE  usingQ' \in Family(LinkIds, AnyImage) /\ Number(usingQ, i) = Number(usingQ', i) + Refs(i, q)
  <2>1. PICK Q, R, D : Q = usingQ /\ R = usingQ' /\ D = LinkIds
    OBVIOUS
  <2>2. Q \in Family(D, AnyImage) /\ l \in D /\ Taking(Q, l, q, e, R) /\ IsFiniteSet(D)
    BY <1>2, <1>3, <2>1, FiniteKeys DEF Stored, Taking
  <2>3. R \in Family(D, AnyImage) /\ Number(Q, i) = Number(R, i) + Refs(i, q)
    BY <1>3, <2>2, FrontTaken
  <2> QED BY <2>1, <2>3
<1> QED BY <1>2, <1>3, <1>4 DEF Gone

\* All images of some nodes' input.
LEMMA AllGone ==
  ASSUME Stored, NEW L,
         usingQ' = [l \in LinkIds |-> IF l \in L THEN <<>> ELSE usingQ[l]]
  PROVE  Joined(usingQ, L) \in Seq(AnyImage) /\ Gone(Joined(usingQ, L))
<1>1. PICK Q, R, D, C : Q = usingQ /\ R = usingQ' /\ D = LinkIds /\ C = Only(usingQ, L)
  OBVIOUS
<1>2. Q \in Family(D, AnyImage) /\ IsFiniteSet(D) /\ C \in Family(D, AnyImage)
  BY <1>1, FiniteKeys, OnlyTyped DEF Stored
<1>3. ASSUME NEW l \in LinkIds
      PROVE  /\ R[l] = IF l \in L THEN <<>> ELSE usingQ[l]
             /\ C[l] = IF l \in L THEN usingQ[l] ELSE <<>>
             /\ usingQ[l] \in Seq(AnyImage) /\ <<>> \o usingQ[l] = usingQ[l] /\ usingQ[l] \o <<>> = usingQ[l]
  <2>1. usingQ[l] \in Seq(AnyImage)
    BY Lengths DEF Stored
  <2> QED BY <1>1, <2>1, ConcatEmptySeq DEF Only
<1>4. R \in Family(D, AnyImage)
  <2>1. \A l \in LinkIds : (IF l \in L THEN <<>> ELSE usingQ[l]) \in Seq(AnyImage)
    BY <1>3
  <2> QED BY <1>1, <2>1 DEF Family
<1>5. Appending(C, R, Q)
  <2>1. DOMAIN C = LinkIds
    BY <1>1, OnlyTyped DEF Stored
  <2>2. \A l \in LinkIds : Q[l] = C[l] \o R[l]
    BY <1>1, <1>3
  <2> QED BY <2>1, <2>2 DEF Appending
<1>6. ASSUME NEW i PROVE Number(Q, i) = Number(R, i) + Refs(i, Joined(usingQ, L))
  <2>1. Number(Q, i) = Number(C, i) + Number(R, i)
    BY <1>2, <1>4, <1>5, Appended
  <2>2. Refs(i, Joined(usingQ, L)) = Number(C, i)
    BY <1>1, JoinedCounted DEF Stored
  <2>3. Number(C, i) \in Nat /\ Number(R, i) \in Nat
    BY <1>2, <1>4, FiniteSpots
  <2> QED BY <2>1, <2>2, <2>3
<1>7. Joined(usingQ, L) \in Seq(AnyImage)
  BY JoinedCounted DEF Stored
<1> QED BY <1>1, <1>4, <1>6, <1>7 DEF Gone

LEMMA InputReleased ==
  ASSUME Kept, NEW q \in Seq(AnyImage), Gone(q), ReleaseBuffers(q),
         UNCHANGED <<toCome, inQ, sourceQ, outQ>>
  PROVE  Kept'
<1>1. Stored
  BY DEF Kept
<1>4. ASSUME NEW i
      PROVE  usingQ' \in Family(LinkIds, AnyImage) /\ Number(usingQ, i) = Number(usingQ', i) + Refs(i, q)
  BY DEF Gone
<1>5. useCount' \in [Images -> Int]
  BY <1>1, CountsReleased
<1>6. Stored'
  BY <1>1, <1>4, <1>5 DEF Stored
<1>7. ASSUME NEW i \in SourceImages PROVE Accounted(i)'
  <2>1. Used(i)' = Number(sourceQ, i) + Number(inQ, i) + Number(usingQ', i)
    BY DEF Used
  <2>2. Number(usingQ', i) \in Nat /\ Refs(i, q) \in Nat
    BY <1>6, FiniteKeys, FiniteSpots, RefsAreCounted DEF Stored
  <2>3. Used(i) = Used(i)' + Refs(i, q)
    <3>1. Number(usingQ, i) = Number(usingQ', i) + Refs(i, q)
      BY <1>4
    <3>2. Number(inQ, i) \in Nat /\ Number(sourceQ, i) \in Nat
      BY <1>1, UsedCounted
    <3>3. Used(i) = Number(sourceQ, i) + Number(inQ, i) + Number(usingQ, i)
      BY DEF Used
    <3> QED BY <2>1, <2>2, <3>1, <3>2, <3>3
  <2>4. Accounted(i) /\ toCome' = toCome
    BY DEF Kept
  <2> QED BY <1>1, <1>6, <2>3, <2>4, ReleasedAccounted
<1> QED BY <1>6, <1>7 DEF Kept

\* Steps that leave the queues and the counts of the source images alone.
LEMMA KeptSame ==
  ASSUME Kept, Stored', toCome' = toCome,
         \A i \in SourceImages : /\ Used(i)' = Used(i) /\ useCount'[i] = useCount[i]
                                 /\ i \in returned' <=> i \in returned
  PROVE  Kept'
<1>1. ASSUME NEW i \in SourceImages PROVE Accounted(i)'
  BY <1>1, SameAccounted DEF Kept
<1> QED BY <1>1 DEF Kept

LEMMA NothingMoved ==
  ASSUME Kept, UNCHANGED <<toCome, sourceQ, inQ, usingQ, outQ, useCount, returned>>
  PROVE  Kept'
<1>1. Stored'
  BY DEF Kept, Stored
<1> QED BY <1>1, KeptSame DEF Used

\* From the output of an internal link images go to the child's queue, or are lost.
LEMMA OutputPushed ==
  ASSUME Stored, NEW l \in LinkIds, NEW n \in Nat, releaseOutBuffers(l, n), Type(l) # "SinkLink"
  PROVE  \E a, b :
           /\ a \in Seq(Made) /\ b \in Seq(Made) /\ outQ[l] = a \o b /\ outQ' = [outQ EXCEPT ![l] = b]
           /\ UNCHANGED <<useCount, returned>> /\ inQ' \in Family(LinkIds, AnyImage)
           /\ \A i : Number(inQ', i) = Number(inQ, i) \/ Number(inQ', i) = Number(inQ, i) + Refs(i, a)
<1> DEFINE k == Min({n, Len(outQ[l])})
           a == SubSeq(outQ[l], 1, k)
           b == SubSeq(outQ[l], k + 1, Len(outQ[l]))
<1>1. outQ[l] \in Seq(Made) /\ Len(outQ[l]) \in Nat /\ Made \subseteq AnyImage
  BY Lengths DEF Stored, AnyImage
<1>2. k \in 0 .. Len(outQ[l])
  <2>1. PICK h : h = Len(outQ[l])
    OBVIOUS
  <2>2. (Least(n, h) = n \/ Least(n, h) = h) /\ Least(n, h) <= h /\ n \in Int /\ h \in Int
    <3>1. n \in Int /\ h \in Int
      BY <1>1, <2>1
    <3> QED BY <3>1, LeastOfTwo
  <2>3. k = Least(n, h)
    BY <2>1 DEF Least
  <2> HIDE DEF k
  <2> QED BY <1>1, <2>1, <2>2, <2>3
<1>3. /\ outQ' = [outQ EXCEPT ![l] = b] /\ UNCHANGED <<useCount, returned>>
      /\ inQ' = inQ \/ inQ' = [inQ EXCEPT ![l] = inQ[l] \o a]
  <2>1. /\ outQ' = [outQ EXCEPT ![l] = SubSeq(@, k + 1, Len(@))] /\ UNCHANGED imageVars
        /\ inQ' = IF l \in inClosed THEN inQ ELSE [inQ EXCEPT ![l] = @ \o SubSeq(outQ[l], 1, k)]
    BY DEF releaseOutBuffers
  <2> HIDE DEF k
  <2> QED BY <2>1 DEF imageVars
<1> HIDE DEF k
<1>4. a \in Seq(Made) /\ b \in Seq(Made) /\ outQ[l] = a \o b
  BY <1>1, <1>2, Halves
<1>5. a \in Seq(AnyImage)
  BY <1>1, <1>4
<1> HIDE DEF a, b
<1>6. ASSUME NEW i
      PROVE  /\ inQ' \in Family(LinkIds, AnyImage)
             /\ Number(inQ', i) = Number(inQ, i) \/ Number(inQ', i) = Number(inQ, i) + Refs(i, a)
  <2>1. CASE inQ' = inQ
    BY <2>1 DEF Stored
  <2>2. CASE inQ' = [inQ EXCEPT ![l] = inQ[l] \o a]
    <3>1. PICK Q, R, D : Q = inQ /\ R = inQ' /\ D = LinkIds
      OBVIOUS
    <3>2. Q \in Family(D, AnyImage) /\ l \in D /\ Adding(Q, l, a, R) /\ IsFiniteSet(D)
      BY <2>2, <3>1, FiniteKeys DEF Stored, Adding
    <3>3. R \in Family(D, AnyImage) /\ Number(R, i) = Number(Q, i) + Refs(i, a)
      BY <1>5, <3>2, BackAdded
    <3> QED BY <3>1, <3>3
  <2> QED BY <1>3, <2>1, <2>2
<1> QED BY <1>3, <1>4, <1>6

\* The images of a node's own output are no source images.
LEMMA OutputReleased ==
  ASSUME Kept, NEW l \in LinkIds, NEW n \in Nat, releaseOutBuffers(l, n),
         UNCHANGED <<toCome, sourceQ, usingQ>>
  PROVE  Kept'
<1>1. Stored /\ outQ[l] \in Seq(Made)
  BY Lengths DEF Kept, Stored
<1>2. Made \subseteq AnyImage /\ \A i \in SourceImages : i \notin Made /\ i \in Images
  BY SourcesAreNotMade DEF AnyImage
<1>3. outQ \in [LinkIds -> Seq(Made)]
  BY <1>1 DEF Stored, Family
<1>4. CASE Type(l) = "SinkLink"
  <2>1. PICK q : q = outQ[l]
    OBVIOUS
  <2>2. ReleaseBuffers(q) /\ outQ' = [outQ EXCEPT ![l] = <<>>] /\ inQ' = inQ
    BY <1>4, <2>1 DEF releaseOutBuffers
  <2>3. \A i : Refs(i, q) \in Nat
    BY <1>1, <2>1, RefsAreCounted
  <2>4. \A i \in SourceImages : Refs(i, q) = 0
    BY <1>1, <1>2, <2>1, RefsElsewhere
  <2>5. useCount' \in [Images -> Int]
    BY <1>1, <2>1, <2>2, CountsReleased
  <2>6. outQ' \in [LinkIds -> Seq(Made)]
    <3>1. <<>> \in Seq(Made)
      OBVIOUS
    <3> QED BY <1>3, <2>2, <3>1
  <2>7. Stored'
    BY <1>1, <2>2, <2>5, <2>6 DEF Stored, Family
  <2>8. ASSUME NEW i \in SourceImages
        PROVE  useCount'[i] = useCount[i] /\ (i \in returned' <=> i \in returned)
    <3>1. useCount'[i] = useCount[i] - Refs(i, q) /\ useCount[i] \in Int
      BY <1>1, <1>2, <2>1, <2>2, CountsReleased
    <3>2. i \in returned' <=> i \in returned \/ (Refs(i, q) > 0 /\ useCount[i] = Refs(i, q))
      <4>1. ReleaseBuffers(q) /\ q \in Seq(Made)
        BY <1>1, <2>1, <2>2
      <4> QED BY <1>1, <4>1, CountsReleased
    <3> QED BY <2>4, <3>1, <3>2
  <2> QED BY <2>2, <2>7, <2>8, KeptSame DEF Used
<1>5. CASE Type(l) # "SinkLink"
  <2>1. PICK a, b :
          /\ a \in Seq(Made) /\ b \in Seq(Made) /\ outQ[l] = a \o b /\ outQ' = [outQ EXCEPT ![l] = b]
          /\ UNCHANGED <<useCount, returned>> /\ inQ' \in Family(LinkIds, AnyImage)
          /\ \A i : Number(inQ', i) = Number(inQ, i) \/ Number(inQ', i) = Number(inQ, i) + Refs(i, a)
    BY <1>1, <1>5, OutputPushed
  <2>2. outQ' \in [LinkIds -> Seq(Made)]
    BY <1>3, <2>1
  <2>3. Stored'
    BY <1>1, <2>1, <2>2 DEF Stored, Family
  <2>4. ASSUME NEW i \in SourceImages PROVE Used(i)' = Used(i)
    <3>1. Refs(i, a) = 0
      BY <1>2, <2>1, RefsElsewhere
    <3>2. Number(inQ, i) \in Nat
      BY <1>1, UsedCounted
    <3>3. Number(inQ', i) = Number(inQ, i)
      BY <2>1, <3>1, <3>2
    <3> QED BY <3>3 DEF Used
  <2> QED BY <2>1, <2>3, <2>4, KeptSame
<1> QED BY <1>4, <1>5

LEMMA Product ==
  ASSUME NEW c \in Nat, NEW d \in Nat, c <= d, NEW r \in Nat
  PROVE  c * r \in Nat /\ d * r \in Nat /\ c * r <= d * r /\ (d - 1) * r = d * r - r
<1>1. PICK e : e = d - c
  OBVIOUS
<1>2. e \in Nat /\ d = c + e
  BY <1>1
<1>3. d * r = c * r + e * r /\ e * r \in Nat /\ c * r \in Nat
  BY <1>2
<1>4. (d - 1) * r = d * r - r
  OBVIOUS
<1> QED BY <1>3, <1>4

\* Images that are passed on are added to those children's queues that still take them.
LEMMA PassedOnCounted ==
  ASSUME Stored, NEW n \in Nodes, NEW q \in Seq(AnyImage), MoveToChildren(n, q), NEW i
  PROVE  /\ inQ' \in Family(LinkIds, AnyImage) /\ Refs(i, q) \in Nat
         /\ Number(inQ', i) = Number(inQ, i) + Cardinality(OutLinks[n] \ inClosed) * Refs(i, q)
<1> DEFINE L == OutLinks[n] \ inClosed
<1>1. IsFiniteSet(LinkIds) /\ L \in SUBSET LinkIds
  BY FiniteKeys, LinksOut
<1>2. PICK Q, R, D, C, K : /\ Q = inQ /\ R = inQ' /\ D = LinkIds /\ K = L
                           /\ C = Copies(D, K, q)
  OBVIOUS
<1>3. Q \in Family(D, AnyImage) /\ IsFiniteSet(D) /\ K \in SUBSET D
  BY <1>1, <1>2 DEF Stored
<1>4. C \in Family(D, AnyImage) /\ Number(C, i) = Cardinality(K) * Refs(i, q) /\ Refs(i, q) \in Nat
  BY <1>2, <1>3, CopiesCounted
<1>5. \A l \in LinkIds : /\ R[l] = IF l \in L THEN inQ[l] \o q ELSE inQ[l]
                         /\ C[l] = IF l \in L THEN q ELSE <<>>
  BY <1>2 DEF MoveToChildren, Copies
<1>6. ASSUME NEW l \in LinkIds
      PROVE  inQ[l] \in Seq(AnyImage) /\ inQ[l] \o q \in Seq(AnyImage) /\ inQ[l] \o <<>> = inQ[l]
  <2>1. inQ[l] \in Seq(AnyImage)
    BY Lengths DEF Stored
  <2> QED BY <2>1, ConcatEmptySeq, ConcatProperties
<1> HIDE DEF L
<1>7. R \in Family(D, AnyImage)
  <2>1. inQ' = [l \in LinkIds |-> IF l \in L THEN inQ[l] \o q ELSE inQ[l]]
    BY DEF MoveToChildren, L
  <2>2. \A l \in LinkIds : (IF l \in L THEN inQ[l] \o q ELSE inQ[l]) \in Seq(AnyImage)
    BY <1>6
  <2> QED BY <1>2, <2>1, <2>2 DEF Family
<1>8. Appending(Q, C, R)
  <2>1. DOMAIN Q = LinkIds
    BY <1>2, <1>3 DEF Family
  <2>2. \A l \in LinkIds : R[l] = Q[l] \o C[l]
    BY <1>2, <1>5, <1>6
  <2> QED BY <2>1, <2>2 DEF Appending
<1>9. Number(R, i) = Number(Q, i) + Number(C, i)
  BY <1>3, <1>4, <1>7, <1>8, Appended
<1> QED BY <1>2, <1>4, <1>7, <1>9 DEF L

\* Images that are passed on are in as many queues more as their uses say, or in
\* fewer, when a queue refuses them.
LEMMA InputMoved ==
  ASSUME Kept, NEW n \in Nodes, NEW q \in Seq(AnyImage), Gone(q), MoveToChildren(n, q),
         Lossless => OutLinks[n] \cap inClosed = {},
         UNCHANGED <<toCome, sourceQ, outQ>>
  PROVE  Kept'
<1> DEFINE L == OutLinks[n] \ inClosed
           c == Cardinality(L)
           d == Cardinality(OutLinks[n])
<1>1. Stored /\ IsFiniteSet(LinkIds) /\ L \in SUBSET LinkIds
  BY FiniteKeys, LinksOut DEF Kept
<1>2. /\ c \in Nat /\ d \in Nat /\ c <= d /\ d >= 1 /\ (Lossless => c = d)
  <2>1. OutLinks[n] \subseteq LinkIds /\ OutLinks[n] # {} /\ L \subseteq OutLinks[n]
    BY LinksOut
  <2>2. IsFiniteSet(OutLinks[n]) /\ c \in Nat /\ d \in Nat
    BY <2>1, FiniteLinks
  <2>3. c <= d
    BY <2>1, <2>2, FS_Subset
  <2>4. d # 0
    BY <2>1, <2>2, FS_EmptySet
  <2>5. Lossless => L = OutLinks[n]
    OBVIOUS
  <2> HIDE DEF L
  <2> QED BY <2>2, <2>3, <2>4, <2>5
<1>3. ASSUME NEW i
      PROVE  /\ inQ' \in Family(LinkIds, AnyImage) /\ Number(inQ', i) = Number(inQ, i) + c * Refs(i, q)
             /\ Refs(i, q) \in Nat
  BY <1>1, PassedOnCounted
<1>4. ASSUME NEW i
      PROVE  /\ usingQ' \in Family(LinkIds, AnyImage)
             /\ Number(usingQ, i) = Number(usingQ', i) + Refs(i, q) /\ Number(usingQ', i) \in Nat
  <2>1. usingQ' \in Family(LinkIds, AnyImage) /\ Number(usingQ, i) = Number(usingQ', i) + Refs(i, q)
    BY DEF Gone
  <2>2. PICK R : R = usingQ'
    OBVIOUS
  <2>3. Number(R, i) \in Nat
    BY <1>1, <2>1, <2>2, FiniteSpots
  <2> QED BY <2>1, <2>2, <2>3
<1>5. /\ returned' = returned
      /\ useCount' = [i \in Images |-> useCount[i] + (d - 1) * Refs(i, q)]
  BY DEF MoveToChildren
<1>6. \A i \in Images : useCount[i] \in Int
  BY <1>1 DEF Stored
<1> HIDE DEF c, d, L
<1>7. useCount' \in [Images -> Int]
  <2>1. \A i \in Images : useCount[i] + (d - 1) * Refs(i, q) \in Int
    BY <1>2, <1>3, <1>6
  <2> QED BY <1>5, <2>1
<1>8. Stored'
  BY <1>1, <1>3, <1>4, <1>7 DEF Stored
<1>9. Delivered' = Delivered
  BY DEF Delivered
<1>10. ASSUME NEW i \in SourceImages PROVE Accounted(i)'
  <2>1. PICK r, a, b, u, s, v, w, z, k :
          /\ r = Refs(i, q) /\ a = c * r /\ b = d * r /\ u = useCount[i]
          /\ s = Number(sourceQ, i) /\ v = Number(inQ, i) /\ w = Number(usingQ', i)
          /\ z = useCount'[i] /\ k = Used(i)'
    OBVIOUS
  <2>2. r \in Nat /\ a \in Nat /\ b \in Nat /\ a <= b /\ (Lossless => a = b) /\ (d - 1) * r = b - r
    <3>1. r \in Nat
      BY <1>3, <2>1
    <3> QED BY <1>2, <2>1, <3>1, Product
  <2>3. b >= r /\ (r = 0 => b = 0 /\ a = 0)
    <3>1. 1 * r <= d * r
      BY <1>2, <2>2, Product
    <3>2. r = 0 => c * r = 0 /\ d * r = 0
      BY <1>2
    <3> QED BY <2>1, <2>2, <3>1, <3>2
  <2>4. s \in Nat /\ v \in Nat /\ w \in Nat /\ u \in Int
    <3>1. Number(sourceQ, i) \in Nat /\ Number(inQ, i) \in Nat
      BY <1>1, UsedCounted
    <3>2. i \in Images
      BY SourcesAreNotMade
    <3> QED BY <1>4, <1>6, <2>1, <3>1, <3>2
  <2>5. Used(i) = s + v + (w + r) /\ k = s + (v + a) + w
    BY <1>3, <1>4, <2>1 DEF Used
  <2>6. z = u + (b - r)
    <3>1. i \in Images
      BY SourcesAreNotMade
    <3>2. useCount'[i] = useCount[i] + (d - 1) * Refs(i, q)
      BY <1>5, <3>1
    <3> QED BY <2>1, <2>2, <3>2
  <2>7. /\ u >= s + v + (w + r) /\ (Lossless => u = s + v + (w + r))
        /\ i \notin Delivered => u = 0
        /\ i \in returned <=> i \in Delivered /\ u = 0
    <3>1. Accounted(i)
      BY DEF Kept
    <3> QED BY <2>1, <2>5, <3>1 DEF Accounted
  <2>8. z >= k /\ (Lossless => z = k)
    BY <2>2, <2>4, <2>5, <2>6, <2>7
  <2>9. z = 0 <=> u = 0
    <3>1. CASE r = 0
      BY <2>3, <2>4, <2>6, <3>1
    <3>2. CASE r # 0
      BY <2>2, <2>3, <2>4, <2>6, <2>7, <3>2
    <3> QED BY <3>1, <3>2
  <2> QED BY <1>5, <1>9, <2>1, <2>7, <2>8, <2>9 DEF Accounted
<1> QED BY <1>8, <1>10 DEF Kept

LEMMA QueuedAtPort ==
  ASSUME Stored, NEW p \in Ports, NEW x \in AnyImage, sourceQ' = [sourceQ EXCEPT ![p] = Append(@, x)], NEW i
  PROVE  /\ sourceQ' \in Family(Ports, AnyImage)
         /\ Number(sourceQ', i) = Number(sourceQ, i) + IF i = x THEN 1 ELSE 0
<1>1. PICK Q, R, D, a : Q = sourceQ /\ R = sourceQ' /\ D = Ports /\ a = <<x>>
  OBVIOUS
<1>2. a \in Seq(AnyImage) /\ Refs(i, a) = IF i = x THEN 1 ELSE 0
  BY <1>1, OneRef
<1>3. Append(sourceQ[p], x) = sourceQ[p] \o a
  <2>1. sourceQ[p] \in Seq(AnyImage)
    BY Lengths DEF Stored
  <2> QED BY <1>1, <2>1, AppendIsConcat
<1>4. Q \in Family(D, AnyImage) /\ Adding(Q, p, a, R) /\ IsFiniteSet(D) /\ p \in D
  BY <1>1, <1>3, FiniteKeys DEF Stored, Adding
<1>5. R \in Family(D, AnyImage) /\ Number(R, i) = Number(Q, i) + Refs(i, a)
  BY <1>2, <1>4, BackAdded
<1> QED BY <1>1, <1>2, <1>5

\* The application delivers an image: it is queued, with one use, or returned.
LEMMA DeliverKeepsImages ==
  ASSUME Kept, NEW p \in Ports, Deliver(p)
  PROVE  Kept'
<1> DEFINE k == FrameNum - toCome[p] + 1
           image == <<"source", p, k>>
<1>1. Stored /\ \A i \in SourceImages : Accounted(i)
  BY DEF Kept
<1>2. toCome \in [Ports -> 0 .. FrameNum] /\ toCome[p] \in 0 .. FrameNum /\ toCome[p] > 0 /\ FrameNum \in Nat
  BY <1>1, PipelineAssumption DEF Deliver, Stored
<1>3. toCome' \in [Ports -> 0 .. FrameNum] /\ toCome'[p] = toCome[p] - 1
      /\ \A o \in Ports : o # p => toCome'[o] = toCome[o]
  <2>1. toCome' = [toCome EXCEPT ![p] = @ - 1]
    BY DEF Deliver
  <2>2. toCome[p] - 1 \in 0 .. FrameNum
    BY <1>2
  <2> QED BY <1>2, <2>1, <2>2
<1>4. k \in 1 .. FrameNum /\ ~(k <= FrameNum - toCome[p]) /\ \A j \in Int : j <= FrameNum - (toCome[p] - 1) <=> j <= FrameNum - toCome[p] \/ j = k
  BY <1>2
<1>5. image \in SourceImages /\ image \in Images /\ image \in AnyImage /\ image[2] = p /\ image[3] = k
  <2>1. image \in SourceImages
    BY <1>4 DEF SourceImages
  <2> QED BY <2>1, SourcesAreNotMade
<1>6. ASSUME NEW i \in SourceImages
      PROVE  (i \in Delivered' <=> i \in Delivered \/ i = image) /\ image \notin Delivered
  <2>1. PICK o \in Ports, j \in 1 .. FrameNum : i = <<"source", o, j>>
    BY DEF SourceImages
  <2>2. i[2] = o /\ i[3] = j /\ j \in Int
    BY <1>2, <2>1
  <2>3. i \in Delivered' <=> j <= FrameNum - toCome'[o]
    BY <2>2 DEF Delivered
  <2>4. i \in Delivered <=> j <= FrameNum - toCome[o]
    BY <2>2 DEF Delivered
  <2>5. image \notin Delivered
    BY <1>4, <1>5 DEF Delivered
  <2>6. CASE o = p
    <3>1. i = image <=> j = k
      BY <2>1, <2>6
    <3>2. toCome'[o] = toCome[p] - 1
      BY <1>3, <2>6
    <3> HIDE DEF k, image
    <3> QED BY <1>4, <2>2, <2>3, <2>4, <2>5, <2>6, <3>1, <3>2
  <2>7. CASE o # p
    <3>1. i # image
      BY <2>1, <2>7
    <3> QED BY <1>3, <2>3, <2>4, <2>5, <2>7, <3>1
  <2> QED BY <2>6, <2>7
<1>7. UNCHANGED <<inQ, usingQ, outQ>>
  BY DEF Deliver, bufferVars
<1>8. /\ p \in closed => returned' = returned \cup {image} /\ UNCHANGED <<sourceQ, useCount>>
      /\ p \notin closed => /\ sourceQ' = [sourceQ EXCEPT ![p] = Append(@, image)]
                            /\ useCount' = [useCount EXCEPT ![image] = 1] /\ returned' = returned
  BY DEF Deliver
<1>9. useCount \in [Images -> Int] /\ useCount[image] = 0 /\ image \notin returned
  <2>1. image \notin Delivered /\ Accounted(image)
    BY <1>1, <1>5, <1>6
  <2> QED BY <1>1, <2>1 DEF Accounted, Stored
<1> HIDE DEF image, k
<1>10. CASE p \in closed
  <2>1. Stored'
    BY <1>1, <1>3, <1>7, <1>8, <1>10 DEF Stored
  <2>2. ASSUME NEW i \in SourceImages PROVE Accounted(i)'
    <3>1. Used(i)' = Used(i) /\ useCount'[i] = useCount[i]
      BY <1>7, <1>8, <1>10 DEF Used
    <3>2. i \in returned' <=> i \in returned \/ i = image
      BY <1>8, <1>10
    <3>3. Accounted(i)
      BY <1>1
    <3> QED BY <1>6, <1>9, <3>1, <3>2, <3>3 DEF Accounted
  <2> QED BY <2>1, <2>2 DEF Kept
<1>11. CASE p \notin closed
  <2>1. ASSUME NEW i
        PROVE  /\ sourceQ' \in Family(Ports, AnyImage)
               /\ Number(sourceQ', i) = Number(sourceQ, i) + IF i = image THEN 1 ELSE 0
    BY <1>1, <1>5, <1>8, <1>11, QueuedAtPort
  <2>2. useCount' \in [Images -> Int] /\ \A i \in Images : useCount'[i] = IF i = image THEN 1 ELSE useCount[i]
    BY <1>5, <1>8, <1>9, <1>11
  <2>3. Stored'
    BY <1>1, <1>3, <1>7, <2>1, <2>2 DEF Stored
  <2>4. ASSUME NEW i \in SourceImages PROVE Accounted(i)'
    <3>1. Accounted(i) /\ i \in Images
      BY <1>1, SourcesAreNotMade
    <3>2. Used(i)' = Number(sourceQ', i) + Number(inQ, i) + Number(usingQ, i)
      BY <1>7 DEF Used
    <3>3. Used(i) = Number(sourceQ, i) + Number(inQ, i) + Number(usingQ, i)
      BY DEF Used
    <3>4. Number(sourceQ, i) \in Nat /\ Number(inQ, i) \in Nat /\ Number(usingQ, i) \in Nat
      BY <1>1, UsedCounted
    <3>5. returned' = returned
      BY <1>8, <1>11
    <3>6. CASE i = image
      <4>1. Used(i)' = Used(i) + 1
        BY <2>1, <3>2, <3>3, <3>4, <3>6
      <4>2. Used(i) = 0
        <5>1. Used(i) \in Nat /\ Used(i) <= useCount[i]
          BY <1>1, <3>1, UsedCounted DEF Accounted
        <5> QED BY <1>9, <3>6, <5>1
      <4>3. useCount'[i] = 1
        BY <2>2, <3>1, <3>6
      <4>4. i \in Delivered' /\ i \notin returned'
        BY <1>6, <1>9, <3>5, <3>6
      <4> QED BY <4>1, <4>2, <4>3, <4>4 DEF Accounted
    <3>7. CASE i # image
      <4>1. Used(i)' = Used(i)
        BY <2>1, <3>2, <3>3, <3>4, <3>7
      <4>2. useCount'[i] = useCount[i]
        BY <2>2, <3>1, <3>7
      <4>3. i \in Delivered' <=> i \in Delivered
        BY <1>6, <3>7
      <4> QED BY <3>1, <3>5, <4>1, <4>2, <4>3 DEF Accounted
    <3> QED BY <3>6, <3>7
  <2> QED BY <2>3, <2>4 DEF Kept
<1> QED BY <1>10, <1>11

\* All images of the nodes' queues, one after the other.
Remains == Joined(inQ, LinkIds) \o Joined(usingQ, LinkIds) \o Joined(outQ, LinkIds)

LEMMA RestCounted ==
  ASSUME Stored
  PROVE  /\ Remains \in Seq(AnyImage)
         /\ \A i : Refs(i, Remains) = Number(inQ, i) + Number(usingQ, i) + Number(outQ, i)
<1>1. PICK a, b, c, d :
        a = Joined(inQ, LinkIds) /\ b = Joined(usingQ, LinkIds) /\ c = Joined(outQ, LinkIds) /\ d = a \o b
  OBVIOUS
<1>2. ASSUME NEW Q \in Family(LinkIds, AnyImage)
      PROVE  /\ Joined(Q, LinkIds) \in Seq(AnyImage)
             /\ \A i : Refs(i, Joined(Q, LinkIds)) = Number(Q, i)
  <2>1. Only(Q, LinkIds) = Q
    BY DEF Only, Family
  <2> QED BY <2>1, JoinedCounted
<1>3. outQ \in Family(LinkIds, AnyImage)
  <2>1. PICK V, W, Q, D : V = AnyImage /\ W = Made /\ Q = outQ /\ D = LinkIds
    OBVIOUS
  <2>2. Q \in Family(D, W) /\ W \subseteq V
    BY <2>1 DEF Stored, AnyImage
  <2>3. Q \in Family(D, V)
    BY <2>2, NotThere
  <2> QED BY <2>1, <2>3
<1>4. a \in Seq(AnyImage) /\ b \in Seq(AnyImage) /\ c \in Seq(AnyImage)
  BY <1>1, <1>2, <1>3 DEF Stored
<1>5. d \in Seq(AnyImage) /\ Remains = d \o c
  BY <1>1, <1>4, ConcatProperties DEF Remains
<1>6. ASSUME NEW i PROVE Refs(i, Remains) = Number(inQ, i) + Number(usingQ, i) + Number(outQ, i)
  <2>1. Refs(i, a) = Number(inQ, i) /\ Refs(i, b) = Number(usingQ, i) /\ Refs(i, c) = Number(outQ, i)
    BY <1>1, <1>2, <1>3 DEF Stored
  <2>2. Refs(i, d) = Refs(i, a) + Refs(i, b)
    BY <1>1, <1>4, ConcatCounted
  <2>3. Refs(i, d \o c) = Refs(i, d) + Refs(i, c)
    BY <1>4, <1>5, ConcatCounted
  <2> QED BY <1>5, <2>1, <2>2, <2>3
<1>7. Remains \in Seq(AnyImage)
  BY <1>4, <1>5, ConcatProperties
<1> QED BY <1>6, <1>7

LEMMA NothingCounted ==
  ASSUME NEW D, NEW Q, DOMAIN Q = D, \A x \in D : Q[x] = <<>>
  PROVE  \A i : Number(Q, i) = 0
<1>1. DOMAIN <<>> = {}
  OBVIOUS
<1>2. ASSUME NEW i PROVE Number(Q, i) = 0
  <2>1. Spots(Q, i) = {}
    BY <1>1 DEF Spots
  <2> QED BY <2>1, FS_EmptySet DEF Number
<1> QED BY <1>2

\* In the end everything is taken from the nodes' queues.
LEMMA RestKeepsImages ==
  ASSUME Kept, ReleaseRest, \A p \in Ports : sourceQ[p] = <<>>
  PROVE  Kept' /\ \A l \in LinkIds : inQ'[l] = <<>> /\ usingQ'[l] = <<>>
<1>1. Stored /\ UNCHANGED <<toCome, sourceQ>>
  BY DEF Kept, ReleaseRest, sourceVars
<1>2. PICK e : e = [l \in LinkIds |-> <<>>]
  OBVIOUS
<1>3. inQ' = e /\ usingQ' = e /\ outQ' = e /\ ReleaseBuffers(Remains)
  BY <1>2 DEF ReleaseRest, Remains
<1>4. /\ \A V : e \in Family(LinkIds, V)
      /\ \A l \in LinkIds : e[l] = <<>>
      /\ \A i : Number(e, i) = 0
  <2>1. \A l \in LinkIds : e[l] = <<>>
    BY <1>2
  <2>2. ASSUME NEW V PROVE e \in Family(LinkIds, V)
    <3>1. <<>> \in Seq(V)
      OBVIOUS
    <3> QED BY <1>2, <3>1 DEF Family
  <2>3. DOMAIN e = LinkIds
    BY <1>2
  <2> QED BY <2>1, <2>2, <2>3, NothingCounted
<1>5. Remains \in Seq(AnyImage)
  BY <1>1, RestCounted
<1>6. Stored'
  <2>1. PICK q : q = Remains
    OBVIOUS
  <2>2. useCount' \in [Images -> Int]
    BY <1>1, <1>3, <1>5, <2>1, CountsReleased
  <2> QED BY <1>1, <1>3, <1>4, <2>2 DEF Stored
<1>7. ASSUME NEW i \in SourceImages PROVE Accounted(i)'
  <2>1. Number(sourceQ, i) = 0
    <3>1. DOMAIN sourceQ = Ports
      BY <1>1 DEF Stored, Family
    <3> QED BY <3>1, NothingCounted
  <2>2. Number(outQ, i) = 0
    <3>1. PICK V, W, Q, D : V = AnyImage /\ W = Made /\ Q = outQ /\ D = LinkIds
      OBVIOUS
    <3>2. Q \in Family(D, W) /\ W \subseteq V /\ i \notin W
      BY <1>1, <3>1, SourcesAreNotMade DEF Stored, AnyImage
    <3> QED BY <3>1, <3>2, NotThere
  <2>3. Used(i)' = 0 + 0 + 0
    BY <1>1, <1>3, <1>4, <2>1 DEF Used
  <2>4. Used(i) = Used(i)' + Refs(i, Remains)
    <3>1. Number(inQ, i) \in Nat /\ Number(usingQ, i) \in Nat
      BY <1>1, UsedCounted
    <3>2. Refs(i, Remains) = Number(inQ, i) + Number(usingQ, i) + Number(outQ, i)
      BY <1>1, RestCounted
    <3> QED BY <2>1, <2>2, <2>3, <3>1, <3>2 DEF Used
  <2>5. Accounted(i) /\ toCome' = toCome
    BY <1>1 DEF Kept
  <2> QED BY <1>1, <1>3, <1>5, <1>6, <2>4, <2>5, ReleasedAccounted
<1> QED BY <1>3, <1>4, <1>6, <1>7 DEF Kept

\* The queues of A, those of L under new names, and no others.
Renaming(A, L, f, B) ==
  /\ \A x \in L : A[x] = B[f[x]]
  /\ \A x \in DOMAIN A : x \notin L => A[x] = <<>>
  /\ \A x, y \in L : f[x] = f[y] => x = y
  /\ \A y \in DOMAIN B : (\A x \in L : f[x] # y) => B[y] = <<>>

LEMMA Renamed ==
  ASSUME NEW D, IsFiniteSet(D), NEW E, IsFiniteSet(E), NEW V, NEW A \in Family(D, V),
         NEW B \in Family(E, V), NEW L \in SUBSET D, NEW f \in [L -> E], Renaming(A, L, f, B), NEW i
  PROVE  Number(A, i) = Number(B, i)
<1>1. /\ DOMAIN A = D /\ DOMAIN B = E
      /\ \A x \in L : A[x] = B[f[x]] /\ f[x] \in E /\ x \in D
      /\ \A x \in D : x \notin L => A[x] = <<>>
      /\ \A x, y \in L : f[x] = f[y] => x = y
      /\ \A y \in E : (\A x \in L : f[x] # y) => B[y] = <<>>
  BY DEF Renaming, Family
<1>2. PICK S, T : S = Spots(A, i) /\ T = Spots(B, i)
  OBVIOUS
<1>3. Len(<<>>) = 0 /\ \A k \in 1 .. 0 : FALSE
  OBVIOUS
<1>4. \A z : z \in S <=> \E x \in D : \E k \in 1 .. Len(A[x]) : A[x][k] = i /\ z = <<x, k>>
  BY <1>2, SpotsKnown
<1>5. \A z : z \in T <=> \E y \in E : \E k \in 1 .. Len(B[y]) : B[y][k] = i /\ z = <<y, k>>
  BY <1>2, SpotsKnown
<1>6. \A z : z \in S <=> \E x \in L : \E k \in 1 .. Len(A[x]) : A[x][k] = i /\ z = <<x, k>>
  <2>1. \A x \in D : \A k \in 1 .. Len(A[x]) : x \in L
    BY <1>1, <1>3
  <2> QED BY <1>1, <1>4, <2>1
<1>7. \A z : z \in T <=> \E x \in L : \E k \in 1 .. Len(A[x]) : A[x][k] = i /\ z = <<f[x], k>>
  <2>1. \A y \in E : \A k \in 1 .. Len(B[y]) : \E x \in L : f[x] = y
    BY <1>1, <1>3
  <2>2. ASSUME NEW z \in T
        PROVE  \E x \in L : \E k \in 1 .. Len(A[x]) : A[x][k] = i /\ z = <<f[x], k>>
    <3>0. PICK y \in E : \E k \in 1 .. Len(B[y]) : B[y][k] = i /\ z = <<y, k>>
      BY <1>5, <2>2
    <3>1. PICK k \in 1 .. Len(B[y]) : B[y][k] = i /\ z = <<y, k>>
      BY <3>0
    <3>2. PICK x \in L : f[x] = y
      BY <2>1, <3>1
    <3>3. A[x] = B[y]
      BY <1>1, <3>2
    <3> QED BY <3>1, <3>2, <3>3
  <2>3. ASSUME NEW x \in L, NEW k \in 1 .. Len(A[x]), A[x][k] = i
        PROVE  <<f[x], k>> \in T
    <3>1. A[x] = B[f[x]] /\ f[x] \in E
      BY <1>1
    <3> QED BY <1>5, <2>3, <3>1
  <2> QED BY <2>2, <2>3
<1> DEFINE g == [z \in S |-> <<f[z[1]], z[2]>>]
<1>8. ASSUME NEW z \in S PROVE z[1] \in L /\ z = <<z[1], z[2]>> /\ g[z] = <<f[z[1]], z[2]>> /\ g[z] \in T
  <2>0. PICK x \in L : \E k \in 1 .. Len(A[x]) : A[x][k] = i /\ z = <<x, k>>
    BY <1>6, <1>8
  <2>1. PICK k \in 1 .. Len(A[x]) : A[x][k] = i /\ z = <<x, k>>
    BY <2>0
  <2>2. z[1] = x /\ z[2] = k
    BY <2>1
  <2> QED BY <1>7, <2>1, <2>2
<1>9. g \in [S -> T]
  <2>1. DOMAIN g = S
    OBVIOUS
  <2> HIDE DEF g
  <2>2. \A z \in S : g[z] \in T
    BY <1>8
  <2> QED
    <3>1. g = [z \in S |-> g[z]]
      BY DEF g
    <3> QED BY <2>2, <3>1
<1>10. ASSUME NEW a \in S, NEW b \in S, g[a] = g[b] PROVE a = b
  <2>1. f[a[1]] = f[b[1]] /\ a[2] = b[2] /\ a[1] \in L /\ b[1] \in L
    BY <1>8, <1>10
  <2>2. a[1] = b[1]
    BY <1>1, <2>1
  <2> QED BY <1>8, <2>1, <2>2
<1>11. ASSUME NEW c \in T PROVE \E a \in S : g[a] = c
  <2>0. PICK x \in L : \E k \in 1 .. Len(A[x]) : A[x][k] = i /\ c = <<f[x], k>>
    BY <1>7, <1>11
  <2>1. PICK k \in 1 .. Len(A[x]) : A[x][k] = i /\ c = <<f[x], k>>
    BY <2>0
  <2>2. <<x, k>> \in S
    BY <1>6, <2>1
  <2>3. <<x, k>>[1] = x /\ <<x, k>>[2] = k
    OBVIOUS
  <2> QED BY <2>1, <2>2, <2>3
<1> HIDE DEF g
<1>12. IsFiniteSet(S)
  BY <1>2, FiniteSpots
<1>13. Cardinality(T) = Cardinality(S)
  BY <1>9, <1>10, <1>11, <1>12, OneToOne
<1> QED BY <1>2, <1>13 DEF Number

\* Images that are made are no source images.
LEMMA NewImages ==
  ASSUME Typed, NEW n \in Nodes, NEW l \in LinkIds
  PROVE  NewOutput(n, l) \in Seq(Made)
<1> DEFINE first == IF Has(n, "SIGGETOUTPUT") THEN node[n].frames + 1 ELSE 1
           last == IF Has(n, "SIGGETOUTPUT") THEN first ELSE links[l].num
<1>1. node[n].frames \in Nat /\ links[l].num \in Nat
  BY PipelineAssumption DEF Typed, Threads
<1>2. first \in Nat /\ first >= 1 /\ last - first + 1 \in Nat
  BY <1>1
<1>3. NewOutput(n, l) = [k \in 1 .. last - first + 1 |-> <<Type(l), l, first + k - 1>>]
  BY DEF NewOutput
<1> HIDE DEF first, last
<1>4. PICK m \in Nat : m = last - first + 1
  BY <1>2
<1>5. \A k \in 1 .. m : first + k - 1 \in Nat
  BY <1>2
<1>6. \A k \in 1 .. m : <<Type(l), l, first + k - 1>> \in Made
  BY <1>5 DEF Made
<1> QED BY <1>3, <1>4, <1>6

LEMMA OutputKeepsImages ==
  ASSUME Kept, Typed, NEW n \in Nodes, GetOutput(n)
  PROVE  Kept'
<1>1. Stored /\ UNCHANGED <<toCome, sourceQ, inQ, usingQ, returned>>
  BY DEF Kept, GetOutput, sourceVars
<1>2. CASE NeedsOutput(n)
  <2>1. /\ outQ' = [l \in LinkIds |-> IF l \in OutLinks[n] THEN outQ[l] \o NewOutput(n, l) ELSE outQ[l]]
        /\ useCount' = [i \in Images |-> IF \E l \in OutLinks[n] : Refs(i, NewOutput(n, l)) > 0
                                         THEN 1 ELSE useCount[i]]
    BY <1>2 DEF GetOutput
  <2>2. ASSUME NEW l \in LinkIds
        PROVE  (IF l \in OutLinks[n] THEN outQ[l] \o NewOutput(n, l) ELSE outQ[l]) \in Seq(Made)
    <3>1. outQ[l] \in Seq(Made) /\ NewOutput(n, l) \in Seq(Made)
      BY <1>1, Lengths, NewImages DEF Stored
    <3> QED BY <3>1, ConcatProperties
  <2>3. outQ' \in Family(LinkIds, Made)
    BY <2>1, <2>2 DEF Family
  <2>4. useCount \in [Images -> Int]
    BY <1>1 DEF Stored
  <2>5. useCount' \in [Images -> Int]
    BY <2>1, <2>4
  <2>6. ASSUME NEW i \in SourceImages PROVE useCount'[i] = useCount[i]
    <3>1. i \in Images /\ i \notin Made
      BY SourcesAreNotMade
    <3>2. \A l \in OutLinks[n] : Refs(i, NewOutput(n, l)) = 0
      BY <3>1, NewImages, RefsElsewhere, LinksOut
    <3>3. \A l \in OutLinks[n] : ~(Refs(i, NewOutput(n, l)) > 0)
      BY <3>2
    <3> QED BY <2>1, <3>1, <3>3
  <2>7. Stored'
    BY <1>1, <2>3, <2>5 DEF Stored
  <2> QED BY <1>1, <2>6, <2>7, KeptSame DEF Used
<1>3. CASE ~NeedsOutput(n)
  <2>1. UNCHANGED <<outQ, useCount>>
    BY <1>3 DEF GetOutput
  <2> QED BY <1>1, <2>1, NothingMoved
<1> QED BY <1>2, <1>3

\* What a node takes from the queue of link l, and what it leaves.
Share(n, l) == Least(Wanted(n, l), Len(InputQueue(l)))
Took(n, l) == SubSeq(InputQueue(l), 1, Share(n, l))
Left(n, l) == SubSeq(InputQueue(l), Len(Took(n, l)) + 1, Len(InputQueue(l)))

LEMMA TookAndLeft ==
  ASSUME Stored, NEW n \in Nodes, NEW l \in InLinks[n]
  PROVE  /\ InputQueue(l) \in Seq(AnyImage) /\ Took(n, l) \in Seq(AnyImage) /\ Left(n, l) \in Seq(AnyImage)
         /\ InputQueue(l) = Took(n, l) \o Left(n, l)
<1>1. l \in LinkIds /\ (l \in SourceLinks => links[l].src \in Ports) /\ (Type(l) = "SourceLink" <=> l \in SourceLinks)
  <2>1. l \in LinkIds
    BY LinksInto
  <2> QED BY <2>1, PipelineAssumption DEF SourceLinks
<1>2. InputQueue(l) \in Seq(AnyImage)
  <2>1. CASE l \in SourceLinks
    <3>1. sourceQ[links[l].src] \in Seq(AnyImage)
      BY <1>1, <2>1, Lengths DEF Stored
    <3> QED BY <1>1, <2>1, <3>1 DEF InputQueue, Source
  <2>2. CASE l \notin SourceLinks
    <3>1. inQ[l] \in Seq(AnyImage)
      BY <1>1, Lengths DEF Stored
    <3> QED BY <1>1, <2>2, <3>1 DEF InputQueue
  <2> QED BY <2>1, <2>2
<1>3. Wanted(n, l) \in Nat
  <2>1. Len(inQ[l]) \in Nat
    BY <1>1, Lengths DEF Stored
  <2> QED BY <2>1, PipelineAssumption DEF Wanted
<1>4. PICK q, w, k : q = InputQueue(l) /\ w = Wanted(n, l) /\ k = Least(w, Len(q))
  OBVIOUS
<1>5. q \in Seq(AnyImage) /\ w \in Int /\ w >= 0 /\ Len(q) \in Nat /\ Len(q) \in Int
  <2>1. q \in Seq(AnyImage)
    BY <1>2, <1>4
  <2>2. Len(q) \in Nat
    BY <2>1, LenProperties
  <2> QED BY <1>3, <1>4, <2>1, <2>2
<1>6. k \in Int /\ k <= Len(q) /\ (k = w \/ k = Len(q))
  BY <1>4, <1>5, LeastOfTwo
<1>7. k \in 0 .. Len(q)
  BY <1>5, <1>6
<1>8. /\ SubSeq(q, 1, k) \in Seq(AnyImage) /\ SubSeq(q, k + 1, Len(q)) \in Seq(AnyImage)
      /\ q = SubSeq(q, 1, k) \o SubSeq(q, k + 1, Len(q)) /\ Len(SubSeq(q, 1, k)) = k
  BY <1>5, <1>7, Halves
<1>9. Took(n, l) = SubSeq(q, 1, k)
  BY <1>4 DEF Took, Share
<1>10. Left(n, l) = SubSeq(q, k + 1, Len(q))
  BY <1>4, <1>8, <1>9 DEF Left
<1> QED BY <1>4, <1>5, <1>8, <1>9, <1>10

\* The images taken: by link, by inner link, by source link and by port.
Shares(n) == [l \in LinkIds |-> IF l \in InLinks[n] THEN Took(n, l) ELSE <<>>]
LinkOf(n, p) == CHOOSE l \in InLinks[n] \cap SourceLinks : links[l].src = p
PortsOf(n) == {links[l].src : l \in InLinks[n] \cap SourceLinks}
PortShares(n) == [p \in Ports |-> IF p \in PortsOf(n) THEN Took(n, LinkOf(n, p)) ELSE <<>>]

LEMMA PortLinks ==
  ASSUME NEW n \in Nodes
  PROVE  /\ \A l \in InLinks[n] \cap SourceLinks : /\ links[l].src \in PortsOf(n) /\ links[l].src \in Ports
                                                   /\ LinkOf(n, links[l].src) = l
         /\ \A p \in PortsOf(n) : LinkOf(n, p) \in InLinks[n] \cap SourceLinks /\ links[LinkOf(n, p)].src = p
<1>1. ASSUME NEW p \in PortsOf(n)
      PROVE  LinkOf(n, p) \in InLinks[n] \cap SourceLinks /\ links[LinkOf(n, p)].src = p
  <2>1. \E l \in InLinks[n] \cap SourceLinks : links[l].src = p
    BY DEF PortsOf
  <2> QED BY <2>1 DEF LinkOf
<1>2. ASSUME NEW l \in InLinks[n] \cap SourceLinks
      PROVE  /\ links[l].src \in PortsOf(n) /\ links[l].src \in Ports
             /\ LinkOf(n, links[l].src) = l
  <2>1. links[l].src \in PortsOf(n)
    BY DEF PortsOf
  <2>2. PICK k : k = LinkOf(n, links[l].src)
    OBVIOUS
  <2>3. k \in InLinks[n] \cap SourceLinks /\ links[k].src = links[l].src
    BY <1>1, <2>1, <2>2
  <2>4. links[k].dst = n /\ links[l].dst = n
    BY <2>3 DEF InLinks
  <2> QED BY <2>1, <2>2, <2>3, <2>4, PipelineAssumption
<1> QED BY <1>1, <1>2

\* Images are moved from the queues to the input a node works on.
LEMMA InputTaken ==
  ASSUME Stored, NEW n \in Nodes, TakeInput(n)
  PROVE  /\ usingQ' \in Family(LinkIds, AnyImage) /\ inQ' \in Family(LinkIds, AnyImage)
         /\ sourceQ' \in Family(Ports, AnyImage)
         /\ \A i : Number(sourceQ', i) + Number(inQ', i) + Number(usingQ', i) = Used(i)
<1>1. /\ usingQ' = [l \in LinkIds |-> IF l \in InLinks[n] THEN usingQ[l] \o Took(n, l) ELSE usingQ[l]]
      /\ inQ' = [l \in LinkIds |-> IF l \in InLinks[n] \ SourceLinks
                                   THEN SubSeq(inQ[l], Len(Took(n, l)) + 1, Len(inQ[l])) ELSE inQ[l]]
      /\ sourceQ' = [p \in Ports |-> IF p \in PortsOf(n)
                       THEN SubSeq(sourceQ[p], Len(Took(n, LinkOf(n, p))) + 1, Len(sourceQ[p])) ELSE sourceQ[p]]
  BY DEF TakeInput, Took, Share, Least, PortsOf, LinkOf
<1>2. PICK N, D, P, S, T, TI, TS, TP :
        /\ N = InLinks[n] /\ D = LinkIds /\ P = Ports /\ S = N \cap SourceLinks /\ T = Shares(n)
        /\ TI = Only(T, D \ SourceLinks) /\ TS = Only(T, SourceLinks) /\ TP = PortShares(n)
  OBVIOUS
<1>3. PICK Q, R, A, B, U, W :
        Q = inQ /\ R = inQ' /\ A = usingQ /\ B = usingQ' /\ U = sourceQ /\ W = sourceQ'
  OBVIOUS
<1>4. IsFiniteSet(D) /\ IsFiniteSet(P) /\ N \subseteq D
  BY <1>2, FiniteKeys, LinksInto
<1>5. Q \in Family(D, AnyImage) /\ A \in Family(D, AnyImage) /\ U \in Family(P, AnyImage)
  BY <1>2, <1>3 DEF Stored
<1>6. \A l \in D : Q[l] \in Seq(AnyImage) /\ A[l] \in Seq(AnyImage)
  BY <1>5, Lengths
<1>7. \A p \in P : U[p] \in Seq(AnyImage)
  BY <1>5, Lengths
<1>8. \A l \in N : Took(n, l) \in Seq(AnyImage)
  BY <1>2, TookAndLeft
<1>9. T \in Family(D, AnyImage)
  <2>1. <<>> \in Seq(AnyImage)
    OBVIOUS
  <2>2. \A l \in D : (IF l \in N THEN Took(n, l) ELSE <<>>) \in Seq(AnyImage)
    BY <1>8, <2>1
  <2>3. T = [l \in D |-> IF l \in N THEN Took(n, l) ELSE <<>>]
    BY <1>2 DEF Shares
  <2> QED BY <2>2, <2>3 DEF Family
<1>10. /\ TI \in Family(D, AnyImage) /\ TS \in Family(D, AnyImage)
       /\ \A l \in D : TI[l] = IF l \notin SourceLinks THEN T[l] ELSE <<>>
       /\ \A l \in D : TS[l] = IF l \in SourceLinks THEN T[l] ELSE <<>>
       /\ \A l \in D : T[l] = IF l \in N THEN Took(n, l) ELSE <<>>
  <2>1. TI \in Family(D, AnyImage) /\ TS \in Family(D, AnyImage)
    BY <1>2, <1>9, OnlyTyped
  <2>2. \A l \in D : T[l] = IF l \in N THEN Took(n, l) ELSE <<>>
    BY <1>2 DEF Shares
  <2> QED BY <1>2, <2>1, <2>2 DEF Only
<1>11. ASSUME NEW i PROVE Number(T, i) = Number(TI, i) + Number(TS, i)
  <2>1. Appending(TI, TS, T)
    <3>1. \A l \in D : T[l] \in Seq(AnyImage)
      BY <1>9, Lengths
    <3>2. \A l \in D : T[l] \o <<>> = T[l] /\ <<>> \o T[l] = T[l]
      BY <3>1, ConcatEmptySeq
    <3>3. DOMAIN TI = D
      BY <1>10 DEF Family
    <3> QED BY <1>10, <3>2, <3>3 DEF Appending
  <2> QED BY <1>4, <1>9, <1>10, <2>1, Appended
<1>12. B \in Family(D, AnyImage) /\ Appending(A, T, B)
  <2>1. \A l \in D : A[l] \o T[l] \in Seq(AnyImage) /\ A[l] \o <<>> = A[l]
    <3>1. \A l \in D : T[l] \in Seq(AnyImage)
      BY <1>9, Lengths
    <3> QED BY <1>6, <3>1, ConcatProperties, ConcatEmptySeq
  <2>2. B = [l \in D |-> A[l] \o T[l]]
    <3>1. B = [l \in D |-> IF l \in N THEN A[l] \o Took(n, l) ELSE A[l]]
      BY <1>1, <1>2, <1>3
    <3>2. \A l \in D : (IF l \in N THEN A[l] \o Took(n, l) ELSE A[l]) = A[l] \o T[l]
      BY <1>10, <2>1
    <3> QED BY <3>1, <3>2
  <2>3. DOMAIN A = D
    BY <1>5 DEF Family
  <2> QED BY <2>1, <2>2, <2>3 DEF Family, Appending
<1>13. R \in Family(D, AnyImage) /\ Appending(TI, R, Q)
  <2>1. ASSUME NEW l \in D
        PROVE  R[l] \in Seq(AnyImage) /\ Q[l] = TI[l] \o R[l]
    <3>1. CASE l \in N /\ l \notin SourceLinks
      <4>1. InputQueue(l) = Q[l]
        BY <1>2, <1>3, <1>4, <3>1 DEF InputQueue, SourceLinks
      <4>2. R[l] = Left(n, l)
        <5>1. R[l] = SubSeq(Q[l], Len(Took(n, l)) + 1, Len(Q[l]))
          BY <1>1, <1>2, <1>3, <3>1
        <5>2. Left(n, l) = SubSeq(InputQueue(l), Len(Took(n, l)) + 1, Len(InputQueue(l)))
          BY DEF Left
        <5> QED BY <4>1, <5>1, <5>2
      <4>3. TI[l] = Took(n, l)
        BY <1>10, <3>1
      <4>4. Left(n, l) \in Seq(AnyImage) /\ InputQueue(l) = Took(n, l) \o Left(n, l)
        BY <1>2, <3>1, TookAndLeft
      <4> QED BY <4>1, <4>2, <4>3, <4>4
    <3>2. CASE l \notin N \/ l \in SourceLinks
      <4>1. R[l] = Q[l] /\ TI[l] = <<>>
        BY <1>1, <1>2, <1>3, <1>10, <3>2
      <4> QED BY <1>6, <4>1, ConcatEmptySeq
    <3> QED BY <3>1, <3>2
  <2>2. R = [l \in D |-> IF l \in N \ SourceLinks
                         THEN SubSeq(Q[l], Len(Took(n, l)) + 1, Len(Q[l])) ELSE Q[l]]
    BY <1>1, <1>2, <1>3
  <2>3. R = [l \in D |-> R[l]]
    BY <2>2
  <2>4. R \in Family(D, AnyImage)
    BY <2>1, <2>3 DEF Family
  <2>5. DOMAIN TI = D
    BY <1>10 DEF Family
  <2> QED BY <2>1, <2>4, <2>5 DEF Appending
<1>14. TP \in Family(P, AnyImage) /\ W \in Family(P, AnyImage) /\ Appending(TP, W, U)
  <2>1. TP = [p \in P |-> IF p \in PortsOf(n) THEN Took(n, LinkOf(n, p)) ELSE <<>>]
    BY <1>2 DEF PortShares
  <2>2. ASSUME NEW p \in P
        PROVE  TP[p] \in Seq(AnyImage) /\ W[p] \in Seq(AnyImage) /\ U[p] = TP[p] \o W[p]
    <3>1. CASE p \in PortsOf(n)
      <4>1. PICK l : l = LinkOf(n, p)
        OBVIOUS
      <4>2. l \in N /\ l \in SourceLinks /\ links[l].src = p
        BY <1>2, <3>1, <4>1, PortLinks
      <4>3. InputQueue(l) = U[p]
        BY <1>3, <4>2 DEF InputQueue, Source, SourceLinks
      <4>4. TP[p] = Took(n, l) /\ W[p] = Left(n, l)
        <5>1. TP[p] = Took(n, l)
          BY <2>1, <3>1, <4>1
        <5>2. W[p] = SubSeq(U[p], Len(Took(n, l)) + 1, Len(U[p]))
          BY <1>1, <1>2, <1>3, <3>1, <4>1
        <5> QED BY <4>3, <5>1, <5>2 DEF Left
      <4> QED BY <1>2, <4>2, <4>3, <4>4, TookAndLeft
    <3>2. CASE p \notin PortsOf(n)
      <4>1. W[p] = U[p] /\ TP[p] = <<>>
        BY <1>1, <1>2, <1>3, <2>1, <3>2
      <4>2. <<>> \in Seq(AnyImage)
        OBVIOUS
      <4> QED BY <1>7, <4>1, <4>2, ConcatEmptySeq
    <3> QED BY <3>1, <3>2
  <2>3. DOMAIN TP = P /\ TP = [p \in P |-> TP[p]]
    BY <2>1
  <2>4. W = [p \in P |-> IF p \in PortsOf(n)
                         THEN SubSeq(U[p], Len(Took(n, LinkOf(n, p))) + 1, Len(U[p])) ELSE U[p]]
    BY <1>1, <1>2, <1>3
  <2>5. W = [p \in P |-> W[p]]
    BY <2>4
  <2> QED BY <2>2, <2>3, <2>5 DEF Family, Appending
<1>15. ASSUME NEW i PROVE Number(TS, i) = Number(TP, i)
  <2>1. PICK f : f = [l \in S |-> links[l].src]
    OBVIOUS
  <2>2. \A l \in S : f[l] = links[l].src /\ f[l] \in P /\ f[l] \in PortsOf(n) /\ LinkOf(n, f[l]) = l
    BY <1>2, <2>1, PortLinks
  <2>3. f \in [S -> P] /\ S \in SUBSET D
    BY <1>2, <1>4, <2>1, <2>2
  <2>4. \A l \in S : TS[l] = TP[f[l]]
    <3>1. \A l \in S : TP[f[l]] = Took(n, l)
      BY <1>2, <2>2 DEF PortShares
    <3>2. \A l \in S : TS[l] = Took(n, l)
      BY <1>2, <1>10, <2>3
    <3> QED BY <3>1, <3>2
  <2>5. \A l \in D : l \notin S => TS[l] = <<>>
    BY <1>2, <1>10
  <2>6. \A k, l \in S : f[k] = f[l] => k = l
    BY <2>2
  <2>7. \A p \in P : (\A l \in S : f[l] # p) => TP[p] = <<>>
    <3>1. ASSUME NEW p \in PortsOf(n) PROVE LinkOf(n, p) \in S /\ f[LinkOf(n, p)] = p
      BY <1>2, <2>2, PortLinks
    <3> QED BY <1>2, <3>1 DEF PortShares
  <2>8. DOMAIN TS = D /\ DOMAIN TP = P
    BY <1>10, <1>14 DEF Family
  <2>9. Renaming(TS, S, f, TP)
    BY <2>4, <2>5, <2>6, <2>7, <2>8 DEF Renaming
  <2> QED BY <1>4, <1>10, <1>14, <2>3, <2>9, Renamed
<1>16. ASSUME NEW i PROVE Number(W, i) + Number(R, i) + Number(B, i) = Number(U, i) + Number(Q, i) + Number(A, i)
  <2>1. Number(B, i) = Number(A, i) + Number(T, i)
    BY <1>4, <1>5, <1>9, <1>12, Appended
  <2>2. Number(Q, i) = Number(TI, i) + Number(R, i)
    BY <1>4, <1>5, <1>10, <1>13, Appended
  <2>3. Number(U, i) = Number(TP, i) + Number(W, i)
    BY <1>4, <1>5, <1>14, Appended
  <2>4. Number(W, i) \in Nat /\ Number(R, i) \in Nat /\ Number(A, i) \in Nat /\ Number(TI, i) \in Nat /\ Number(TP, i) \in Nat
    <3>1. Number(W, i) \in Nat /\ Number(TP, i) \in Nat
      BY <1>4, <1>14, FiniteSpots
    <3>2. Number(R, i) \in Nat /\ Number(A, i) \in Nat /\ Number(TI, i) \in Nat
      BY <1>4, <1>5, <1>10, <1>13, FiniteSpots
    <3> QED BY <3>1, <3>2
  <2> QED BY <1>11, <1>15, <2>1, <2>2, <2>3, <2>4
<1>17. ASSUME NEW i PROVE Used(i) = Number(U, i) + Number(Q, i) + Number(A, i)
  BY <1>3 DEF Used
<1> QED BY <1>2, <1>3, <1>12, <1>13, <1>14, <1>16, <1>17

LEMMA GetInputKeepsImages ==
  ASSUME Kept, NEW n \in Nodes, GetInput(n)
  PROVE  Kept'
<1>1. Stored /\ TakeInput(n) /\ UNCHANGED <<toCome, outQ, useCount, returned>>
  BY DEF Kept, GetInput, imageVars
<1>2. Stored'
  <2>1. /\ usingQ' \in Family(LinkIds, AnyImage) /\ inQ' \in Family(LinkIds, AnyImage)
        /\ sourceQ' \in Family(Ports, AnyImage)
    BY <1>1, InputTaken
  <2> QED BY <1>1, <2>1 DEF Stored
<1>3. \A i \in SourceImages : Used(i)' = Used(i)
  BY <1>1, InputTaken DEF Used
<1> QED BY <1>1, <1>2, <1>3, KeptSame

-----------------------------------------------------------------------------
(* Every step keeps account of the source images *)

\* The children of a node that passes its input on have queues that take it.
LEMMA OpenQueues ==
  ASSUME Inv, Flushes, Lossless, NEW n \in Nodes, PassesOn(n), At(n, "release in") \/ At(n, "release all")
  PROVE  OutLinks[n] \cap inClosed = {}
<1>1. CASE FALSE \notin QuickKinds
  BY <1>1 DEF Flushes
<1>2. CASE ~Has(n, "SIGFRAME")
  <2>1. At(n, "release all") /\ UnderWay
    BY <1>2 DEF Inv, Local, At, UnderWay
  <2>2. ASSUME NEW l \in OutLinks[n] \cap inClosed PROVE FALSE
    <3>1. l \in OutLinks[n] \ SinkLinks /\ l \in inClosed
      BY <2>2 DEF Flushes
    <3>2. links[l].src = n /\ links[l].dst \in Nodes /\ l \in Into(links[l].dst)
      BY <3>1, LinksOut
    <3>3. Settled(l) \/ Streaming(l)
      BY <2>1, <3>1, <3>2 DEF Flushes
    <3> QED BY <1>2, <2>1, <3>2, <3>3 DEF Settled, Streaming, At
  <2> QED BY <2>2
<1> QED BY <1>1, <1>2 DEF Lossless

\* What a node releases of its input, at once or in the end.
LEMMA TakenFromUse ==
  ASSUME Stored, NEW n \in Nodes, ReleaseOneInput(n) \/ ReleaseAllInput(n)
  PROVE  /\ UNCHANGED <<sourceQ, outQ>>
         /\ \/ UNCHANGED <<inQ, usingQ, useCount, returned>>
            \/ \E q \in Seq(AnyImage) : Gone(q) /\ ReleaseInput(n, q)
<1>1. CASE ReleaseOneInput(n)
  <2>1. PICK l : l = Min(InLinks[n])
    OBVIOUS
  <2>2. l \in LinkIds /\ UNCHANGED <<sourceQ, outQ>>
    <3>1. InLinks[n] \subseteq LinkIds /\ InLinks[n] # {}
      BY LinksInto, PipelineAssumption
    <3> QED BY <1>1, <2>1, <3>1, MinLink DEF ReleaseOneInput, sourceVars
  <2>3. CASE Has(n, "SIGRELEASEINPUT") /\ usingQ[l] # <<>>
    <3>1. ReleaseInput(n, <<Head(usingQ[l])>>) /\ usingQ' = [usingQ EXCEPT ![l] = Tail(usingQ[l])]
      BY <1>1, <2>1, <2>3 DEF ReleaseOneInput
    <3>2. <<Head(usingQ[l])>> \in Seq(AnyImage) /\ Gone(<<Head(usingQ[l])>>)
      BY <2>2, <2>3, <3>1, FirstGone
    <3> QED BY <2>2, <3>1, <3>2
  <2>4. CASE ~(Has(n, "SIGRELEASEINPUT") /\ usingQ[l] # <<>>)
    <3>1. UNCHANGED <<inQ, usingQ, imageVars>>
      BY <1>1, <2>1, <2>4 DEF ReleaseOneInput
    <3> QED BY <2>2, <3>1 DEF imageVars
  <2> QED BY <2>3, <2>4
<1>2. CASE ReleaseAllInput(n)
  <2>1. /\ ReleaseInput(n, Joined(usingQ, InLinks[n]))
        /\ usingQ' = [l \in LinkIds |-> IF l \in InLinks[n] THEN <<>> ELSE usingQ[l]]
        /\ UNCHANGED <<sourceQ, outQ>>
    BY <1>2 DEF ReleaseAllInput, sourceVars
  <2>2. Joined(usingQ, InLinks[n]) \in Seq(AnyImage) /\ Gone(Joined(usingQ, InLinks[n]))
    BY <2>1, AllGone
  <2> QED BY <2>1, <2>2
<1> QED BY <1>1, <1>2

\* What it releases of its output.
LEMMA ReleasesOutput ==
  ASSUME Inv, Stored, NEW n \in Nodes,
         ReleaseOneOutput(n) \/ ReleaseLink(n) \/ ReleaseSinkOnError(n) \/ PluginReleasesOutput(n)
  PROVE  /\ UNCHANGED <<sourceQ, usingQ>>
         /\ \/ UNCHANGED <<inQ, outQ, useCount, returned>>
            \/ \E j \in LinkIds, m \in Nat : releaseOutBuffers(j, m)
<1>1. 1 \in Nat /\ OutLinks[n] \subseteq LinkIds /\ Min(OutLinks[n]) \in LinkIds
  BY LinksOut, MinLink
<1>2. CASE ReleaseOneOutput(n)
  <2>1. (UNCHANGED <<outQ, inQ, imageVars>>) \/ releaseOutBuffers(Min(OutLinks[n]), 1)
    BY <1>2 DEF ReleaseOneOutput
  <2> QED BY <1>1, <1>2, <2>1 DEF ReleaseOneOutput, sourceVars, imageVars
<1>3. CASE PluginReleasesOutput(n)
  <2>1. \E l \in OutLinks[n] : releaseOutBuffers(l, 1)
    BY <1>3 DEF PluginReleasesOutput
  <2> QED BY <1>1, <1>3, <2>1 DEF PluginReleasesOutput, sourceVars
<1>4. CASE ReleaseLink(n) \/ ReleaseSinkOnError(n)
  <2>1. PICK l : l = Min(node[n].left)
    OBVIOUS
  <2>2. l \in LinkIds
    <3>1. node[n].left \subseteq LinkIds
      BY DEF Inv, Typed, Threads
    <3>2. node[n].left # {}
      BY <1>4 DEF ReleaseLink, ReleaseSinkOnError
    <3> QED BY <2>1, <3>1, <3>2, MinLink
  <2>3. releaseOutBuffers(l, Len(outQ[l])) /\ UNCHANGED <<sourceQ, usingQ>>
    BY <1>4, <2>1 DEF ReleaseLink, ReleaseSinkOnError, sourceVars
  <2>4. Len(outQ[l]) \in Nat
    BY <2>2, Lengths DEF Stored
  <2> QED BY <2>2, <2>3, <2>4
<1> QED BY <1>2, <1>3, <1>4

LEMMA ReleasedInputKeepsImages ==
  ASSUME Inv, Flushes, Kept, NEW n \in Nodes, ReleaseOneInput(n) \/ ReleaseAllInput(n)
  PROVE  Kept'
<1>1. Stored /\ toCome' = toCome /\ (At(n, "release in") \/ At(n, "release all"))
  BY DEF Kept, ReleaseOneInput, ReleaseAllInput, sourceVars
<1>2. /\ UNCHANGED <<sourceQ, outQ>>
      /\ \/ UNCHANGED <<inQ, usingQ, useCount, returned>>
         \/ \E q \in Seq(AnyImage) : Gone(q) /\ ReleaseInput(n, q)
  BY <1>1, TakenFromUse
<1>3. CASE UNCHANGED <<inQ, usingQ, useCount, returned>>
  BY <1>1, <1>2, <1>3, NothingMoved
<1>4. CASE \E q \in Seq(AnyImage) : Gone(q) /\ ReleaseInput(n, q)
  <2>1. PICK q \in Seq(AnyImage) : Gone(q) /\ ReleaseInput(n, q)
    BY <1>4
  <2>2. CASE PassesOn(n)
    BY <1>1, <1>2, <2>1, <2>2, OpenQueues, InputMoved DEF ReleaseInput
  <2>3. CASE ~PassesOn(n)
    BY <1>1, <1>2, <2>1, <2>3, InputReleased DEF ReleaseInput
  <2> QED BY <2>2, <2>3
<1> QED BY <1>2, <1>3, <1>4

\* A node's output goes to its child, or to the application.
LEMMA ReleasedOutputKeepsImages ==
  ASSUME Inv, Kept, NEW n \in Nodes,
         ReleaseOneOutput(n) \/ ReleaseLink(n) \/ ReleaseSinkOnError(n) \/ PluginReleasesOutput(n)
  PROVE  Kept'
<1>1. Stored /\ toCome' = toCome
  BY DEF Kept, ReleaseOneOutput, ReleaseLink, ReleaseSinkOnError, PluginReleasesOutput, sourceVars
<1>2. /\ UNCHANGED <<sourceQ, usingQ>>
      /\ \/ UNCHANGED <<inQ, outQ, useCount, returned>>
         \/ \E j \in LinkIds, m \in Nat : releaseOutBuffers(j, m)
  BY <1>1, ReleasesOutput
<1> QED BY <1>1, <1>2, NothingMoved, OutputReleased

LEMMA ThreadKeepsImages ==
  ASSUME Inv, Flushes, Kept, NEW n \in Nodes, processTask(n)
  PROVE  Kept'
<1>1. CASE GetInput(n)
  BY <1>1, GetInputKeepsImages
<1>2. CASE GetOutput(n)
  BY <1>2, OutputKeepsImages DEF Inv
<1>3. CASE ReleaseOneInput(n) \/ ReleaseAllInput(n)
  BY <1>3, ReleasedInputKeepsImages
<1>4. CASE ReleaseOneOutput(n) \/ ReleaseLink(n) \/ ReleaseSinkOnError(n)
  BY <1>4, ReleasedOutputKeepsImages
<1>5. CASE \/ NotEffective(n) \/ NoOutput(n) \/ PluginFails(n) \/ PluginReturns(n) \/ DependInput(n)
           \/ DependOutput(n) \/ Notify(n) \/ DependLink(n) \/ Finish(n) \/ Callback(n) \/ Fail(n)
  <2>1. UNCHANGED <<sourceVars, bufferVars, imageVars>>
    BY <1>5 DEF NotEffective, NoOutput, PluginFails, PluginReturns, DependInput, DependOutput,
                StartChildren, Notify, DependLink, Finish, Callback, Fail
  <2> QED BY <2>1, NothingMoved DEF sourceVars, bufferVars, imageVars
<1> QED BY <1>1, <1>2, <1>3, <1>4, <1>5 DEF processTask, betweenFrames, notifyNextNode

LEMMA PluginKeepsImages ==
  ASSUME Inv, Kept, NEW n \in Nodes, PluginReleasesInput(n) \/ PluginReleasesOutput(n)
  PROVE  Kept'
<1>1. Stored
  BY DEF Kept
<1>2. CASE PluginReleasesInput(n)
  <2>1. PICK l \in InLinks[n] : /\ usingQ[l] # <<>> /\ ReleaseBuffers(<<Head(usingQ[l])>>)
                                /\ usingQ' = [usingQ EXCEPT ![l] = Tail(usingQ[l])]
    BY <1>2 DEF PluginReleasesInput
  <2>2. l \in LinkIds /\ UNCHANGED <<toCome, inQ, sourceQ, outQ>>
    BY <1>2, LinksInto DEF PluginReleasesInput, sourceVars
  <2> QED BY <1>1, <2>1, <2>2, FirstGone, InputReleased
<1>3. CASE PluginReleasesOutput(n)
  BY <1>3, ReleasedOutputKeepsImages
<1> QED BY <1>2, <1>3

LEMMA PortKeepsImages ==
  ASSUME Inv, Kept, ReleasePort
  PROVE  Kept'
<1>1. UNCHANGED <<toCome, inQ, usingQ, outQ>>
  BY DEF ReleasePort, bufferVars
<1>2. CASE main.ports = {}
  <2>1. UNCHANGED <<sourceQ, imageVars>>
    BY <1>2 DEF ReleasePort
  <2> QED BY <1>1, <2>1, NothingMoved DEF imageVars
<1>3. CASE main.ports # {}
  <2>1. PICK p \in main.ports : ReleaseBuffers(sourceQ[p]) /\ sourceQ' = [sourceQ EXCEPT ![p] = <<>>]
    BY <1>3 DEF ReleasePort
  <2>2. p \in Ports
    BY <2>1, MainTyped
  <2> QED BY <1>1, <2>1, <2>2, PortReleased
<1> QED BY <1>2, <1>3

\* postProcTask empties the ports, and then the nodes' queues.
Emptied ==
  /\ main.pc \notin {"release ports", "release rest", "finished"} => main.ports = Ports
  /\ main.pc \in {"release rest", "finished"} => main.ports = {}
  /\ \A p \in Ports \ main.ports : p \in closed /\ sourceQ[p] = <<>>
  /\ main.pc = "finished" => \A l \in LinkIds : inQ[l] = <<>> /\ usingQ[l] = <<>>

LEMMA MainKeepsImages ==
  ASSUME Inv, Kept, Emptied, postProcTask
  PROVE  Kept'
<1>1. CASE ReleasePort
  BY <1>1, PortKeepsImages
<1>2. CASE ReleaseRest
  <2>1. \A p \in Ports : sourceQ[p] = <<>>
    BY <1>2 DEF ReleaseRest, Emptied
  <2> QED BY <1>2, <2>1, RestKeepsImages
<1>3. CASE Start \/ Prepare \/ Take \/ Post \/ CountRunning \/ WaitForNodes
  <2>1. UNCHANGED <<sourceVars, bufferVars, imageVars>>
    BY <1>3 DEF Start, Prepare, Take, Post, CountRunning, WaitForNodes
  <2> QED BY <2>1, NothingMoved DEF sourceVars, bufferVars, imageVars
<1> QED BY <1>1, <1>2, <1>3 DEF postProcTask

LEMMA ImagesKept ==
  ASSUME Inv, Flushes, Kept, Emptied, [Next]_vars
  PROVE  Kept'
<1>1. CASE \E p \in Ports : Deliver(p)
  BY <1>1, DeliverKeepsImages
<1>2. CASE postProcTask
  BY <1>2, MainKeepsImages
<1>3. CASE \E n \in Nodes : processTask(n) \/ PluginReleasesInput(n) \/ PluginReleasesOutput(n)
  BY <1>3, ThreadKeepsImages, PluginKeepsImages
<1>4. CASE quickFinish
  <2>1. UNCHANGED <<toCome, sourceQ, inQ, usingQ, outQ, useCount, returned>>
    BY <1>4 DEF quickFinish, SetFlushStatus, ReleasePorts, ReleaseNodes, sourceVars, bufferVars, imageVars
  <2> QED BY <2>1, NothingMoved
<1>5. CASE UNCHANGED vars
  BY <1>5, NothingMoved DEF vars, sourceVars, bufferVars, imageVars
<1> QED BY <1>1, <1>2, <1>3, <1>4, <1>5 DEF Next

LEMMA QueuesEmptied ==
  ASSUME Inv, Emptied, Kept, ReleaseRest
  PROVE  Emptied'
<1>1. main.pc = "release rest" /\ main.ports = {} /\ main'.pc = "finished" /\ main'.ports = {}
  <2>1. main.pc = "release rest" /\ MainGoto("finished")
    BY DEF ReleaseRest
  <2>2. main' = [main EXCEPT !.pc = "finished"]
    BY <2>1 DEF MainGoto
  <2> QED BY <2>1, <2>2, MainTyped DEF Emptied
<1>2. /\ \A p \in Ports : p \in closed /\ sourceQ[p] = <<>>
      /\ closed' = closed /\ sourceQ' = sourceQ
  BY <1>1 DEF Emptied, ReleaseRest, sourceVars
<1>3. \A l \in LinkIds : inQ'[l] = <<>> /\ usingQ'[l] = <<>>
  BY <1>2, RestKeepsImages
<1> QED BY <1>1, <1>2, <1>3 DEF Emptied

LEMMA PortEmptied ==
  ASSUME Inv, Emptied, Kept, ReleasePort
  PROVE  Emptied'
<1>1. /\ main.pc = "release ports" /\ main \in [pc : MainPcs, node : Nodes \cup {NoNode}, ok : BOOLEAN, ports : SUBSET Ports]
      /\ sourceQ \in [Ports -> Seq(AnyImage)]
  BY MainTyped DEF ReleasePort, Kept, Stored, Family
<1>2. CASE main.ports = {}
  <2>1. main' = [main EXCEPT !.pc = "release rest"] /\ UNCHANGED <<sourceQ, closed>>
    BY <1>2 DEF ReleasePort, MainGoto
  <2>2. main'.pc = "release rest" /\ main'.ports = {}
    BY <1>1, <1>2, <2>1
  <2> QED BY <1>2, <2>1, <2>2 DEF Emptied
<1>3. CASE main.ports # {}
  <2>1. PICK p \in main.ports : /\ closed' = closed \cup {p} /\ sourceQ' = [sourceQ EXCEPT ![p] = <<>>]
                                /\ main' = [main EXCEPT !.ports = @ \ {p}]
    BY <1>3 DEF ReleasePort
  <2>2. main'.pc = "release ports" /\ main'.ports = main.ports \ {p} /\ p \in Ports
    BY <1>1, <2>1
  <2>3. \A o \in Ports : sourceQ'[o] = IF o = p THEN <<>> ELSE sourceQ[o]
    BY <1>1, <2>1, <2>2
  <2> QED BY <2>1, <2>2, <2>3 DEF Emptied
<1> QED BY <1>2, <1>3

\* As long as nodes are at work nothing has been emptied.
LEMMA NothingEmptied ==
  ASSUME main'.ports = Ports, main'.pc \notin {"release rest", "finished"}
  PROVE  Emptied'
BY DEF Emptied

LEMMA EmptiedKept ==
  ASSUME Inv, Emptied, Kept, [Next]_vars
  PROVE  Emptied'
<1>1. CASE \E p \in Ports : Deliver(p)
  <2>1. PICK p \in Ports : Deliver(p)
    BY <1>1
  <2>2. UNCHANGED <<main, closed, inQ, usingQ>> /\ sourceQ \in [Ports -> Seq(AnyImage)]
    BY <2>1 DEF Deliver, bufferVars, Kept, Stored, Family
  <2>3. p \in closed => UNCHANGED sourceQ
    BY <2>1 DEF Deliver
  <2>4. \A o \in Ports : o # p => sourceQ'[o] = sourceQ[o]
    BY <2>1, <2>2 DEF Deliver
  <2> QED BY <2>2, <2>3, <2>4 DEF Emptied
<1>2. CASE ReleasePort \/ ReleaseRest
  BY <1>2, PortEmptied, QueuesEmptied
<1>3. CASE Start \/ Prepare \/ Take \/ Post \/ CountRunning \/ WaitForNodes
  <2>1. main.ports = Ports
    BY <1>3 DEF Start, Prepare, Take, Post, CountRunning, WaitForNodes, Emptied
  <2>2. \E pc \in {"release ports", "prepare", "loop", "post", "count", "wait", "asleep"} :
          \E n, ok : main' = [main EXCEPT !.pc = pc, !.node = n, !.ok = ok]
    <3>1. CASE Start
      <4>1. PICK pc \in {"release ports", "prepare"} : MainGoto(pc)
        BY <3>1 DEF Start
      <4>2. main' = [main EXCEPT !.pc = pc, !.node = main.node, !.ok = main.ok]
        BY <4>1, MainTyped DEF MainGoto
      <4> QED BY <4>2
    <3>2. CASE Prepare
      <4>1. PICK pc \in {"release ports", "loop"} : MainGoto(pc)
        BY <3>2 DEF Prepare
      <4>2. main' = [main EXCEPT !.pc = pc, !.node = main.node, !.ok = main.ok]
        BY <4>1, MainTyped DEF MainGoto
      <4> QED BY <4>2
    <3>3. CASE Take
      <4>1. MainGoto("release ports") \/ main' = [main EXCEPT !.pc = "post", !.node = Head(mRunSequence)]
        BY <3>3 DEF Take
      <4>2. \/ main' = [main EXCEPT !.pc = "release ports", !.node = main.node, !.ok = main.ok]
            \/ main' = [main EXCEPT !.pc = "post", !.node = Head(mRunSequence), !.ok = main.ok]
        BY <4>1, MainTyped DEF MainGoto
      <4> QED BY <4>2
    <3>4. CASE Post
      <4>1. main' = [main EXCEPT !.pc = "count", !.node = main.node, !.ok = main.node \notin Missing]
        BY <3>4, MainTyped DEF Post
      <4> QED BY <4>1
    <3>5. CASE CountRunning \/ WaitForNodes
      <4>1. PICK pc \in {"wait", "loop", "asleep"} : MainGoto(pc)
        BY <3>5 DEF CountRunning, WaitForNodes
      <4>2. main' = [main EXCEPT !.pc = pc, !.node = main.node, !.ok = main.ok]
        BY <4>1, MainTyped DEF MainGoto
      <4> QED BY <4>2
    <3> QED BY <1>3, <3>1, <3>2, <3>3, <3>4, <3>5
  <2>3. main'.ports = main.ports /\ main'.pc \notin {"release rest", "finished"}
    BY <2>2, MainTyped
  <2> QED BY <2>1, <2>3, NothingEmptied
<1>4. CASE \E n \in Nodes : processTask(n) \/ PluginReleasesInput(n) \/ PluginReleasesOutput(n)
  <2>1. PICK n \in Nodes : processTask(n) \/ PluginReleasesInput(n) \/ PluginReleasesOutput(n)
    BY <1>4
  <2>2. /\ node[n].pc \notin {"idle", "done"}
        /\ main'.pc = main.pc \/ main'.pc = "wait"
        /\ main'.ports = main.ports
    <3>1. CASE processTask(n)
      BY <3>1, NodeStep DEF Inv, Moves, Woken
    <3>2. CASE PluginReleasesInput(n) \/ PluginReleasesOutput(n)
      BY <3>2 DEF PluginReleasesInput, PluginReleasesOutput, At
    <3> QED BY <2>1, <3>1, <3>2
  <2>3. n \in Active
    BY <2>2 DEF Active
  <2>4. main.pc \notin {"release ports", "release rest", "finished"}
    BY <2>3, MainTyped DEF Running
  <2> QED BY <2>2, <2>4, NothingEmptied DEF Emptied
<1>5. CASE quickFinish
  <2>1. UNCHANGED <<main, sourceQ, inQ, usingQ>>
    BY <1>5 DEF quickFinish, SetFlushStatus, ReleasePorts, ReleaseNodes, sourceVars, bufferVars
  <2>2. \A p \in Ports : p \in closed => p \in closed'
    BY <1>5 DEF quickFinish, SetFlushStatus, ReleasePorts, ReleaseNodes, sourceVars
  <2> QED BY <2>1, <2>2 DEF Emptied
<1>6. CASE UNCHANGED vars
  <2>1. UNCHANGED <<main, closed, sourceQ, inQ, usingQ>>
    BY <1>6 DEF vars, sourceVars, bufferVars
  <2> QED BY <2>1 DEF Emptied
<1> QED BY <1>1, <1>2, <1>3, <1>4, <1>5, <1>6 DEF Next, postProcTask

\* The inductive invariant of the images, on top of Inv.
ImageInv == Flushes /\ Told /\ Kept /\ Emptied

LEMMA ImagesAtFirst == Init => ImageInv
<1> SUFFICES ASSUME Init PROVE ImageInv
  OBVIOUS
<1>1. /\ toCome = [p \in Ports |-> FrameNum] /\ sourceQ = [p \in Ports |-> <<>>]
      /\ inQ = [l \in LinkIds |-> <<>>] /\ usingQ = [l \in LinkIds |-> <<>>]
      /\ outQ = [l \in LinkIds |-> <<>>] /\ inClosed = {} /\ useCount = [i \in Images |-> 0]
      /\ returned = {} /\ mCurrentProcessNodes = {} /\ abnormalCalls = 0
      /\ mFlushStatus = "NoFlush" /\ quick = "none"
  BY DEF Init
<1>2. main.pc = "start" /\ main.ports = Ports
  BY DEF Init
<1>3. Flushes /\ Told
  BY <1>1, <1>2 DEF Flushes, Told
<1>4. Emptied
  BY <1>2 DEF Emptied
<1>5. ASSUME NEW D, NEW V, NEW Q, Q = [x \in D |-> <<>>]
      PROVE  Q \in Family(D, V) /\ \A i : Number(Q, i) = 0
  <2>1. <<>> \in Seq(V) /\ DOMAIN <<>> = {}
    OBVIOUS
  <2>2. Q \in Family(D, V)
    BY <1>5, <2>1 DEF Family
  <2>3. ASSUME NEW i PROVE Spots(Q, i) = {}
    BY <1>5, <2>1 DEF Spots
  <2> QED BY <2>2, <2>3, FS_EmptySet DEF Number
<1>6. Stored
  <2>1. useCount \in [Images -> Int]
    BY <1>1
  <2>2. toCome \in [Ports -> 0 .. FrameNum]
    <3>1. FrameNum \in 0 .. FrameNum
      BY PipelineAssumption
    <3> QED BY <1>1, <3>1
  <2>3. /\ sourceQ \in Family(Ports, AnyImage) /\ inQ \in Family(LinkIds, AnyImage)
        /\ usingQ \in Family(LinkIds, AnyImage) /\ outQ \in Family(LinkIds, Made)
    BY <1>1, <1>5
  <2> QED BY <2>1, <2>2, <2>3 DEF Stored
<1>7. ASSUME NEW i \in SourceImages PROVE Accounted(i)
  <2>1. PICK p \in Ports, k \in 1 .. FrameNum : i = <<"source", p, k>>
    BY DEF SourceImages
  <2>2. i[2] = p /\ i[3] = k /\ toCome[p] = FrameNum /\ FrameNum \in Int
    BY <1>1, <2>1, PipelineAssumption
  <2>3. ~(k <= FrameNum - FrameNum)
    BY <2>2
  <2>4. i \notin Delivered
    BY <2>2, <2>3 DEF Delivered
  <2>5. Used(i) = 0 + 0 + 0
    BY <1>1, <1>5 DEF Used
  <2>6. useCount[i] = 0
    BY <1>1, SourcesAreNotMade
  <2> QED BY <1>1, <2>4, <2>5, <2>6 DEF Accounted
<1> QED BY <1>3, <1>4, <1>6, <1>7 DEF ImageInv, Kept

LEMMA ImagesStay == Inv /\ Inv' /\ ImageInv /\ [Next]_vars => ImageInv'
BY FlushesKept, ImagesKept, EmptiedKept DEF ImageInv

\* The images stay accounted for: every push, pop, release and flush of a queue moves
\* the use counts and the images in step.
THEOREM ImageInvAlways == Spec => []ImageInv
<1>1. Init => Inv /\ ImageInv
  BY InvAtFirst, ImagesAtFirst
<1>2. Inv /\ ImageInv /\ [Next]_vars => (Inv /\ ImageInv)'
  BY InvStays, ImagesStay
<1> QED BY <1>1, <1>2, PTL DEF Spec, Safe

\* releaseBuffer hands a source image back to the application only when no queue
\* of the pipeline or of a node holds it any more: the application may reuse it.
\* This is so whatever the nodes and the flushes do.
NotHandedBackEarly == \A i \in SourceImages : i \in returned => Places(i) = {}

THEOREM ReturnedIsOut == Spec => []NotHandedBackEarly
<1>1. ImageInv => NotHandedBackEarly
  <2> SUFFICES ASSUME ImageInv, NEW i \in SourceImages, i \in returned PROVE Places(i) = {}
    BY DEF NotHandedBackEarly
  <2>1. Stored /\ Accounted(i)
    BY DEF ImageInv, Kept
  <2>2. useCount[i] = 0 /\ useCount[i] >= Used(i) /\ Used(i) \in Nat
    BY <2>1, UsedCounted DEF Accounted
  <2>3. Used(i) = 0
    BY <2>2
  <2> QED BY <2>1, <2>3, PlacesCounted, FS_EmptySet
<1> QED BY <1>1, ImageInvAlways, PTL

\* mUseCount of a source image is the number of queues it is in, in whatever graph
\* of nodes, unless a pipeline that may be given up has a node that passes its
\* input on frame by frame (Lossless).
THEOREM SourcesAreCounted == Lossless => (Spec => []SourceUseCounts)
<1> SUFFICES ASSUME Lossless PROVE Spec => []SourceUseCounts
  OBVIOUS
<1>1. ImageInv => SourceUseCounts
  <2> SUFFICES ASSUME ImageInv, NEW i \in SourceImages PROVE useCount[i] = Cardinality(Places(i))
    BY DEF SourceUseCounts
  <2>1. Stored /\ Accounted(i)
    BY DEF ImageInv, Kept
  <2> QED BY <2>1, PlacesCounted DEF Accounted
<1> QED BY <1>1, ImageInvAlways, PTL

\* When postProcTask has cleaned up (releaseUnusedBuffer), the application has
\* every source image back that it had delivered.
THEOREM SourcesComeBack == Lossless => (Spec => []SourcesReturned)
<1> SUFFICES ASSUME Lossless PROVE Spec => []SourcesReturned
  OBVIOUS
<1>1. ImageInv => SourcesReturned
  <2> SUFFICES ASSUME ImageInv, main.pc = "finished", NEW p \in Ports, NEW k \in 1 .. FrameNum - toCome[p]
               PROVE  <<"source", p, k>> \in returned
    BY DEF SourcesReturned
  <2>1. PICK i : i = <<"source", p, k>>
    OBVIOUS
  <2>2. Stored /\ toCome[p] \in 0 .. FrameNum /\ FrameNum \in Nat
    BY PipelineAssumption DEF ImageInv, Kept, Stored
  <2>3. k \in 1 .. FrameNum /\ k <= FrameNum - toCome[p]
    BY <2>2
  <2>4. i \in SourceImages /\ i[2] = p /\ i[3] = k
    BY <2>1, <2>3 DEF SourceImages
  <2>5. i \in Delivered /\ Accounted(i)
    BY <2>3, <2>4 DEF Delivered, ImageInv, Kept
  <2>6. Used(i) = 0
    <3>1. /\ \A o \in Ports : sourceQ[o] = <<>>
          /\ \A l \in LinkIds : inQ[l] = <<>> /\ usingQ[l] = <<>>
      BY DEF ImageInv, Emptied
    <3>2. DOMAIN sourceQ = Ports /\ DOMAIN inQ = LinkIds /\ DOMAIN usingQ = LinkIds /\ DOMAIN <<>> = {}
      BY <2>2 DEF Stored, Family
    <3>3. Spots(sourceQ, i) = {} /\ Spots(inQ, i) = {} /\ Spots(usingQ, i) = {}
      BY <3>1, <3>2 DEF Spots
    <3> QED BY <3>3, FS_EmptySet DEF Used, Number
  <2> QED BY <2>1, <2>5, <2>6 DEF Accounted
<1> QED BY <1>1, ImageInvAlways, PTL

\* The abnormal callback reaches the application at most once, however many nodes
\* fail (mIsCallExternal); a request whose graph could not be pruned starts no node
\* that might tell it again.
THEOREM ToldAtMostOnce == Spec => [](abnormalCalls <= 1)
<1>1. ImageInv => abnormalCalls <= 1
  BY DEF ImageInv, Told
<1> QED BY <1>1, ImageInvAlways, PTL

-----------------------------------------------------------------------------
(* A node that asks for its output has an input *)

\* A node that takes its input as a whole gets it from the application, or from
\* nodes that make new images.
Fed ==
  \A n \in Nodes : ~Has(n, "SIGFRAME") =>
    \A l \in Into(n) : ~PassesOn(links[l].src) /\ links[l].num > 0

\* Nodes that end well have taken a frame.
Succeeding(n) == node[n].ok /\ node[n].pc \in {"notify", "release all", "links", "depend", "done"}
Earned(n) ==
  /\ node[n].pc \in {"callback", "error links"} => ~node[n].ok
  /\ ~Has(n, "VIRTUAL") /\ Succeeding(n) => node[n].frames > 0

\* The node before has released its output on link l.
Released(l) ==
  LET m == links[l].src
  IN node[m].pc \in {"links", "depend", "done"} /\ node[m].ok /\ l \notin node[m].left

\* What the node before has made is kept for a node that has not begun.
Waiting(n) == node[n].pc \in {"idle", "input"}
Supplied(n) ==
  ~Has(n, "SIGFRAME") /\ Waiting(n) =>
    \A l \in Into(n) : /\ node[links[l].src].frames > 0 => outQ[l] # <<>> \/ inQ[l] # <<>>
                       /\ Released(l) => inQ[l] # <<>>

InHand(n) == At(n, "check") /\ node[n].got => \A l \in InLinks[n] : usingQ[l] # <<>>

Feeding ==
  /\ \A n \in Nodes : Earned(n) /\ InHand(n)
  /\ main.pc # "finished" => \A n \in Nodes : Supplied(n)

LEMMA NonEmpty ==
  ASSUME NEW V, NEW p \in Seq(V), NEW q \in Seq(V)
  PROVE  (p \o q # <<>> <=> p # <<>> \/ q # <<>>) /\ (Len(p) > 0 <=> p # <<>>)
<1>1. Len(p) \in Nat /\ Len(q) \in Nat /\ p \o q \in Seq(V) /\ Len(p \o q) = Len(p) + Len(q)
  BY LenProperties, ConcatProperties
<1>2. \A s \in Seq(V) : s = <<>> <=> Len(s) = 0
  BY EmptySeq
<1> QED BY <1>1, <1>2

LEMMA Reached ==
  ASSUME Typed, NEW n \in Nodes, NEW l \in NodePcs, Goto(n, l)
  PROVE  /\ node'[n].pc = l /\ node'[n].ok = node[n].ok /\ node'[n].frames = node[n].frames
         /\ node'[n].left = node[n].left /\ node'[n].got = node[n].got
         /\ \A m \in Nodes : m # n => node'[m] = node[m]
<1> DEFINE r == [node[n] EXCEPT !.pc = l]
<1>1. node' = [node EXCEPT ![n].pc = l]
  BY DEF Goto
<1>2. node \in [Nodes -> Threads] /\ node[n] \in Threads
  BY RecordTyped
<1>3. r.pc = l /\ r.frames = node[n].frames /\ r.ok = node[n].ok /\ r.left = node[n].left /\ r.got = node[n].got
  BY <1>2 DEF Threads
<1>4. node'[n] = r /\ \A m \in Nodes : m # n => node'[m] = node[m]
  BY <1>1, <1>2
<1> HIDE DEF r
<1> QED BY <1>3, <1>4

LEMMA EndedWith ==
  ASSUME Typed, NEW n \in Nodes, NEW b \in BOOLEAN, EndRequest(n, b)
  PROVE  node'[n].pc = "notify" /\ node'[n].ok = b /\ node'[n].frames = node[n].frames
<1> DEFINE r == [node[n] EXCEPT !.pc = "notify", !.ok = b]
<1>1. node' = [node EXCEPT ![n].pc = "notify", ![n].ok = b]
  BY DEF EndRequest
<1>2. node \in [Nodes -> Threads] /\ node[n] \in Threads
  BY RecordTyped
<1>3. r.pc = "notify" /\ r.ok = b /\ r.frames = node[n].frames
  BY <1>2 DEF Threads
<1>4. node'[n] = r
  BY <1>1, <1>2
<1> HIDE DEF r
<1> QED BY <1>3, <1>4

LEMMA AfterTaking ==
  ASSUME Typed, NEW n \in Nodes, NEW got \in BOOLEAN, AfterInput(n, got)
  PROVE  /\ node'[n].pc \in {"check", "notify", "release in"} /\ node'[n].got = got
         /\ ~Has(n, "VIRTUAL") => node'[n].pc = "check" /\ node'[n].frames = node[n].frames
<1> DEFINE l == IF ~Has(n, "VIRTUAL") THEN "check"
                ELSE IF ~Has(n, "SIGFRAME") \/ ~got \/ node[n].frames + 1 = MergeNum(n) THEN "notify"
                ELSE "release in"
           b == Has(n, "VIRTUAL") /\ Has(n, "SIGFRAME") => got
           f == IF Has(n, "VIRTUAL") THEN node[n].frames + 1 ELSE node[n].frames
           r == [node[n] EXCEPT !.pc = l, !.got = got, !.ok = b, !.frames = f]
<1>1. l \in {"check", "notify", "release in"} /\ (~Has(n, "VIRTUAL") => l = "check" /\ f = node[n].frames)
  OBVIOUS
<1>2. node' = [node EXCEPT ![n].pc = l, ![n].got = got, ![n].ok = b,
                           ![n].frames = IF Has(n, "VIRTUAL") THEN node[n].frames + 1 ELSE @]
  BY Zenon DEF AfterInput
<1>3. node' = [node EXCEPT ![n].pc = l, ![n].got = got, ![n].ok = b, ![n].frames = f]
  BY <1>2
<1> HIDE DEF l, b, f
<1>4. node \in [Nodes -> Threads] /\ node[n] \in Threads
  BY RecordTyped
<1>5. r.pc = l /\ r.got = got /\ r.frames = f
  BY <1>4 DEF Threads
<1>6. node'[n] = r
  BY <1>3, <1>4
<1> HIDE DEF r
<1> QED BY <1>1, <1>5, <1>6

\* What a step does to the frames a thread has counted, and to the links it has
\* still to settle; and where it goes on from.
Turns(n) ==
  /\ node'[n].pc = "check" => GetInput(n)
  /\ node'[n].pc = "input" => Has(n, "SIGFRAME")
  /\ node'[n].pc = "error links" => Callback(n) \/ At(n, "error links")
  /\ node'[n].pc = "done" => Finish(n) \/ Fail(n)
  /\ ~Has(n, "VIRTUAL") => node'[n].frames = node[n].frames \/ GetOutput(n)
  /\ node'[n].pc \in {"links", "depend", "done"} /\ node'[n].ok =>
       \/ node'[n].left = OutLinks[n]
       \/ /\ node[n].pc \in {"links", "depend"} /\ node[n].ok
          /\ \/ node'[n].left = node[n].left
             \/ ReleaseLink(n) /\ node'[n].left = node[n].left \ {Min(node[n].left)}

LEMMA LinkTurns ==
  ASSUME Typed, NEW n \in Nodes, Local(n), ReleaseLink(n) \/ DependLink(n) \/ Finish(n)
  PROVE  /\ node[n].ok /\ node[n].pc \in {"links", "depend"}
         /\ node'[n].ok = node[n].ok /\ node'[n].frames = node[n].frames
         /\ \/ node'[n].left = node[n].left
            \/ ReleaseLink(n) /\ node'[n].left = node[n].left \ {Min(node[n].left)}
<1>1. node \in [Nodes -> Threads] /\ node[n] \in Threads
  BY RecordTyped
<1>2. node[n].pc \in {"links", "depend"} /\ node[n].ok
  BY DEF ReleaseLink, DependLink, Finish, At, Local
<1>3. CASE ReleaseLink(n)
  <2>1. PICK L, p, k : /\ L = node[n].left \ {Min(node[n].left)}
                       /\ node' = [node EXCEPT ![n].pc = p, ![n].left = L, ![n].link = k]
    BY <1>3 DEF ReleaseLink
  <2> DEFINE r == [node[n] EXCEPT !.pc = p, !.left = L, !.link = k]
  <2>2. r.ok = node[n].ok /\ r.frames = node[n].frames /\ r.left = L
    BY <1>1 DEF Threads
  <2>3. node'[n] = r
    BY <1>1, <2>1
  <2> HIDE DEF r
  <2> QED BY <1>2, <1>3, <2>1, <2>2, <2>3
<1>4. CASE DependLink(n)
  <2> DEFINE r == [node[n] EXCEPT !.pc = "links", !.link = 0]
  <2>1. node' = [node EXCEPT ![n].pc = "links", ![n].link = 0]
    BY <1>4 DEF DependLink
  <2>2. r.ok = node[n].ok /\ r.frames = node[n].frames /\ r.left = node[n].left
    BY <1>1 DEF Threads
  <2>3. node'[n] = r
    BY <1>1, <2>1
  <2> HIDE DEF r
  <2> QED BY <1>2, <2>2, <2>3
<1>5. CASE Finish(n)
  <2>1. Goto(n, "done") /\ "done" \in NodePcs
    BY <1>5 DEF Finish, NodePcs
  <2> QED BY <1>2, <2>1, Reached
<1> QED BY <1>3, <1>4, <1>5

LEMMA EarnedStep ==
  ASSUME Inv, NEW n \in Nodes, Earned(n), processTask(n)
  PROVE  Earned(n)' /\ Turns(n)
<1>1. Typed /\ Local(n) /\ Moves(n)
  BY NodeStep DEF Inv
<1>2. CASE GetInput(n)
  <2>1. PICK got \in BOOLEAN : AfterInput(n, got)
    BY <1>2 DEF GetInput
  <2>2. /\ node'[n].pc \in {"check", "notify", "release in"}
        /\ ~Has(n, "VIRTUAL") => node'[n].pc = "check" /\ node'[n].frames = node[n].frames
    BY <1>1, <2>1, AfterTaking
  <2>3. Earned(n)'
    BY <2>2 DEF Earned, Succeeding
  <2> QED BY <1>2, <2>2, <2>3 DEF Turns
<1>3. CASE NotEffective(n) \/ NoOutput(n) \/ PluginFails(n)
  <2>1. PICK b \in BOOLEAN : EndRequest(n, b) /\ (b => node[n].frames > 0)
    BY <1>3 DEF NotEffective, NoOutput, PluginFails
  <2> QED BY <1>1, <2>1, EndedWith DEF Earned, Succeeding, Turns
<1>4. CASE PluginReturns(n)
  <2>1. node[n].frames > 0
    BY <1>1, <1>4 DEF Local, PluginReturns, At
  <2>2. Goto(n, "release in") \/ EndRequest(n, TRUE)
    BY <1>4 DEF PluginReturns
  <2>3. "release in" \in NodePcs
    BY DEF NodePcs
  <2> QED BY <1>1, <2>1, <2>2, <2>3, EndedWith, Reached DEF Earned, Succeeding, Turns
<1>5. CASE GetOutput(n)
  <2>1. node' = [node EXCEPT ![n].pc = "plugin", ![n].frames = node[n].frames + 1]
    BY <1>5 DEF GetOutput
  <2>2. node'[n].pc = "plugin"
    BY <1>1, <2>1, RecordTyped DEF Threads
  <2> QED BY <1>5, <2>2 DEF Earned, Succeeding, Turns
<1>6. CASE betweenFrames(n)
  <2>1. PICK l \in {"depend in", "release out", "depend out", "input"} : Goto(n, l)
    <3>1. CASE ReleaseOneInput(n)
      BY <3>1 DEF ReleaseOneInput
    <3>2. CASE ReleaseOneOutput(n)
      BY <3>2 DEF ReleaseOneOutput
    <3>3. CASE DependInput(n) \/ DependOutput(n)
      BY <3>3 DEF DependInput, DependOutput, StartChildren
    <3> QED BY <1>6, <3>1, <3>2, <3>3 DEF betweenFrames
  <2>2. l \in NodePcs
    BY DEF NodePcs
  <2>3. Has(n, "SIGFRAME")
    BY <1>1, <1>6 DEF betweenFrames, ReleaseOneInput, DependInput, ReleaseOneOutput, DependOutput, At, Local
  <2> QED BY <1>1, <2>1, <2>2, <2>3, Reached DEF Earned, Succeeding, Turns
<1>7. CASE Notify(n)
  <2>1. node[n].pc = "notify" /\ ((node[n].ok /\ Goto(n, "release all")) \/ (~node[n].ok /\ Goto(n, "callback")))
    BY <1>7 DEF Notify, At
  <2>2. "release all" \in NodePcs /\ "callback" \in NodePcs
    BY DEF NodePcs
  <2> QED BY <1>1, <2>1, <2>2, Reached DEF Earned, Succeeding, Turns
<1>8. CASE ReleaseAllInput(n)
  <2>1. /\ node[n].pc = "release all" /\ node[n].ok
        /\ node' = [node EXCEPT ![n].pc = "links", ![n].left = OutLinks[n]]
    BY <1>1, <1>8 DEF ReleaseAllInput, At, Local
  <2> DEFINE r == [node[n] EXCEPT !.pc = "links", !.left = OutLinks[n]]
  <2>2. node'[n] = r
    BY <1>1, <2>1, RecordTyped
  <2>3. r.pc = "links" /\ r.ok = node[n].ok /\ r.frames = node[n].frames /\ r.left = OutLinks[n]
    BY <1>1, RecordTyped DEF Threads
  <2> HIDE DEF r
  <2> QED BY <2>1, <2>2, <2>3 DEF Earned, Succeeding, Turns
<1>9. CASE ReleaseLink(n) \/ DependLink(n) \/ Finish(n)
  <2>1. /\ node[n].ok /\ node[n].pc \in {"links", "depend"}
        /\ node'[n].ok = node[n].ok /\ node'[n].frames = node[n].frames
        /\ \/ node'[n].left = node[n].left
           \/ ReleaseLink(n) /\ node'[n].left = node[n].left \ {Min(node[n].left)}
    BY <1>1, <1>9, LinkTurns
  <2>2. node'[n].pc \in {"links", "depend", "done"}
    BY <1>1, <2>1 DEF Moves
  <2>3. Earned(n)'
    BY <2>1, <2>2 DEF Earned, Succeeding
  <2>4. node'[n].pc = "done" => Finish(n) \/ Fail(n)
    <3>1. CASE DependLink(n)
      BY <1>1, <3>1, DependLinkStep
    <3>2. CASE ReleaseLink(n)
      BY <1>1, <3>2, LinkStep
    <3> QED BY <1>9, <3>1, <3>2
  <2> QED BY <2>1, <2>2, <2>3, <2>4 DEF Turns
<1>10. CASE Callback(n) \/ ReleaseSinkOnError(n) \/ Fail(n)
  <2>1. ~node[n].ok
    BY <1>10 DEF Callback, ReleaseSinkOnError, Fail, At, Earned
  <2>2. /\ node'[n].ok = node[n].ok /\ node'[n].frames = node[n].frames
        /\ node'[n].pc \in {"error links", "done"}
    <3>1. CASE Callback(n)
      <4>1. PICK L : node' = [node EXCEPT ![n].pc = "error links", ![n].left = L]
        BY <3>1 DEF Callback
      <4> DEFINE r == [node[n] EXCEPT !.pc = "error links", !.left = L]
      <4>2. node'[n] = r
        BY <1>1, <4>1, RecordTyped
      <4>3. r.ok = node[n].ok /\ r.frames = node[n].frames /\ r.pc = "error links"
        BY <1>1, RecordTyped DEF Threads
      <4> HIDE DEF r
      <4> QED BY <4>2, <4>3
    <3>2. CASE ReleaseSinkOnError(n)
      <4>1. PICK L : node' = [node EXCEPT ![n].left = L]
        BY <3>2 DEF ReleaseSinkOnError
      <4> DEFINE r == [node[n] EXCEPT !.left = L]
      <4>2. node'[n] = r
        BY <1>1, <4>1, RecordTyped
      <4>3. r.ok = node[n].ok /\ r.frames = node[n].frames /\ r.pc = node[n].pc
        BY <1>1, RecordTyped DEF Threads
      <4> HIDE DEF r
      <4> QED BY <3>2, <4>2, <4>3 DEF ReleaseSinkOnError, At
    <3>3. CASE Fail(n)
      BY <1>1, <3>3, Reached DEF Fail, NodePcs
    <3> QED BY <1>10, <3>1, <3>2, <3>3
  <2>3. Earned(n)' /\ (node'[n].pc = "error links" => Callback(n) \/ At(n, "error links"))
    BY <1>10, <2>1, <2>2 DEF Earned, Succeeding, ReleaseSinkOnError, Fail
  <2>4. node'[n].pc = "done" => Finish(n) \/ Fail(n)
    BY <1>1, <1>10, CallbackStep, ErrorSinkStep
  <2> QED BY <2>1, <2>2, <2>3, <2>4 DEF Turns
<1> QED BY <1>2, <1>3, <1>4, <1>5, <1>6, <1>7, <1>8, <1>9, <1>10 DEF processTask, notifyNextNode

\* What the node before has made is behind a link, and stays there in a step.
Stock(l) == outQ[l] # <<>> \/ inQ[l] # <<>>
Holds(l) == (inQ[l] # <<>> => inQ'[l] # <<>>) /\ (Stock(l) => Stock(l)')

LEMMA OutputHolds ==
  ASSUME Stored, NEW j \in LinkIds, NEW c \in Nat, releaseOutBuffers(j, c),
         NEW l \in LinkIds, Type(l) # "SinkLink", l = j => l \notin inClosed
  PROVE  Holds(l) /\ (l = j /\ c = Len(outQ[l]) /\ Stock(l) => inQ'[l] # <<>>)
<1>1. inQ[l] \in Seq(AnyImage) /\ outQ[l] \in Seq(Made) /\ outQ[j] \in Seq(Made) /\ Made \subseteq AnyImage
  BY Lengths, SourcesAreNotMade DEF Stored, AnyImage
<1>2. DOMAIN inQ = LinkIds /\ DOMAIN outQ = LinkIds
  BY DEF Stored, Family
<1>3. CASE l # j
  <2>1. PICK x, y : outQ' = [outQ EXCEPT ![j] = x] /\ (inQ' = inQ \/ inQ' = [inQ EXCEPT ![j] = y])
    <3>1. CASE Type(j) = "SinkLink"
      BY <3>1 DEF releaseOutBuffers
    <3>2. CASE Type(j) # "SinkLink"
      <4>1. PICK k : /\ outQ' = [outQ EXCEPT ![j] = SubSeq(outQ[j], k + 1, Len(outQ[j]))]
                     /\ inQ' = IF j \in inClosed THEN inQ ELSE [inQ EXCEPT ![j] = inQ[j] \o SubSeq(outQ[j], 1, k)]
        BY <3>2 DEF releaseOutBuffers
      <4> QED BY <4>1
    <3> QED BY <3>1, <3>2
  <2>2. outQ'[l] = outQ[l] /\ inQ'[l] = inQ[l]
    BY <1>2, <1>3, <2>1
  <2> QED BY <1>3, <2>2 DEF Holds, Stock
<1>4. CASE l = j
  <2> DEFINE k == Min({c, Len(outQ[l])})
             a == SubSeq(outQ[l], 1, k)
             b == SubSeq(outQ[l], k + 1, Len(outQ[l]))
  <2>1. k \in 0 .. Len(outQ[l]) /\ (c = Len(outQ[l]) => k = Len(outQ[l]))
    <3>1. PICK h : h = Len(outQ[l])
      OBVIOUS
    <3>2. h \in Nat /\ c \in Int /\ h \in Int /\ c >= 0
      BY <1>1, <3>1
    <3>3. k = Least(c, h)
      BY <3>1 DEF Least
    <3>4. Least(c, h) \in Int /\ Least(c, h) <= h /\ (Least(c, h) = c \/ Least(c, h) = h)
      BY <3>2, LeastOfTwo
    <3> HIDE DEF k
    <3> QED BY <3>1, <3>2, <3>3, <3>4
  <2>2. outQ' = [outQ EXCEPT ![l] = b] /\ inQ' = [inQ EXCEPT ![l] = inQ[l] \o a]
    <3>1. /\ outQ' = [outQ EXCEPT ![l] = SubSeq(@, k + 1, Len(@))]
          /\ inQ' = IF l \in inClosed THEN inQ ELSE [inQ EXCEPT ![l] = @ \o SubSeq(outQ[l], 1, k)]
      BY <1>4 DEF releaseOutBuffers
    <3> HIDE DEF k
    <3> QED BY <1>4, <3>1
  <2>3. outQ'[l] = b /\ inQ'[l] = inQ[l] \o a
    BY <1>2, <2>2
  <2> HIDE DEF k
  <2>4. a \in Seq(Made) /\ b \in Seq(Made) /\ outQ[l] = a \o b /\ Len(a) = k
    BY <1>1, <2>1, Halves
  <2> HIDE DEF a, b
  <2>5. /\ outQ[l] # <<>> <=> a # <<>> \/ b # <<>>
        /\ (Len(a) > 0 <=> a # <<>>) /\ (Len(outQ[l]) > 0 <=> outQ[l] # <<>>)
    BY <1>1, <2>4, NonEmpty
  <2>6. a \in Seq(AnyImage)
    BY <1>1, <2>4
  <2>7. inQ[l] \o a # <<>> <=> inQ[l] # <<>> \/ a # <<>>
    BY <1>1, <2>6, NonEmpty
  <2> QED BY <2>1, <2>3, <2>4, <2>5, <2>7 DEF Holds, Stock
<1> QED BY <1>3, <1>4

LEMMA InputHolds ==
  ASSUME Stored, NEW n \in Nodes, NEW q \in Seq(AnyImage), ReleaseInput(n, q), UNCHANGED outQ,
         NEW l \in LinkIds
  PROVE  Holds(l)
<1>1. inQ[l] \in Seq(AnyImage)
  BY Lengths DEF Stored
<1>2. inQ'[l] = inQ[l] \/ inQ'[l] = inQ[l] \o q
  <2>1. CASE PassesOn(n)
    <3>1. inQ' = [k \in LinkIds |-> IF k \in OutLinks[n] \ inClosed THEN inQ[k] \o q ELSE inQ[k]]
      BY <2>1 DEF ReleaseInput, MoveToChildren
    <3> QED BY <3>1
  <2>2. CASE ~PassesOn(n)
    BY <2>2 DEF ReleaseInput
  <2> QED BY <2>1, <2>2
<1>3. inQ[l] \o q # <<>> <=> inQ[l] # <<>> \/ q # <<>>
  BY <1>1, NonEmpty
<1> QED BY <1>2, <1>3 DEF Holds, Stock

LEMMA MadeOutput ==
  ASSUME Inv, Stored, NEW n \in Nodes, GetOutput(n), NEW l \in LinkIds
  PROVE  /\ Holds(l)
         /\ l \in OutLinks[n] /\ links[l].num > 0 /\ ~isInplaceNode(n) /\ node[n].frames = 0 => Stock(l)'
<1>1. outQ[l] \in Seq(Made) /\ NewOutput(n, l) \in Seq(Made) /\ inQ' = inQ
  BY Lengths, NewImages DEF Stored, Inv, GetOutput
<1>2. outQ[l] \o NewOutput(n, l) # <<>> <=> outQ[l] # <<>> \/ NewOutput(n, l) # <<>>
  BY <1>1, NonEmpty
<1>3. CASE NeedsOutput(n)
  <2>1. outQ' = [k \in LinkIds |-> IF k \in OutLinks[n] THEN outQ[k] \o NewOutput(n, k) ELSE outQ[k]]
    BY <1>3 DEF GetOutput
  <2>2. outQ'[l] = IF l \in OutLinks[n] THEN outQ[l] \o NewOutput(n, l) ELSE outQ[l]
    BY <2>1
  <2>3. ASSUME links[l].num > 0, node[n].frames = 0 PROVE NewOutput(n, l) # <<>>
    <3>1. PICK m \in Nat : m = links[l].num
      BY PipelineAssumption
    <3>2. PICK first, last : /\ first = (IF Has(n, "SIGGETOUTPUT") THEN node[n].frames + 1 ELSE 1)
                             /\ last = (IF Has(n, "SIGGETOUTPUT") THEN first ELSE links[l].num)
      OBVIOUS
    <3>3. first = 1 /\ last \in Nat /\ last > 0
      BY <2>3, <3>1, <3>2
    <3>4. NewOutput(n, l) = [k \in 1 .. last - first + 1 |-> <<Type(l), l, first + k - 1>>]
      BY <3>2 DEF NewOutput
    <3>5. last - first + 1 = last
      BY <3>3
    <3>6. DOMAIN NewOutput(n, l) = 1 .. last
      BY <3>4, <3>5
    <3>7. 1 \in DOMAIN NewOutput(n, l)
      BY <3>3, <3>6
    <3> QED BY <3>7
  <2> QED BY <1>1, <1>2, <2>2, <2>3 DEF Holds, Stock
<1>4. CASE ~NeedsOutput(n)
  <2>1. outQ' = outQ
    BY <1>4 DEF GetOutput
  <2>2. isInplaceNode(n) \/ node[n].frames # 0
    BY <1>4 DEF NeedsOutput
  <2> QED BY <1>1, <2>1, <2>2 DEF Holds, Stock
<1> QED BY <1>3, <1>4

\* A thread takes images from the links into its own node only, and those that it
\* releases get to the next node's queue, unless this one is given up.
LEMMA ThreadHolds ==
  ASSUME Inv, Stored, NEW k \in Nodes, processTask(k) \/ PluginReleasesInput(k) \/ PluginReleasesOutput(k),
         NEW l \in LinkIds \ SinkLinks, l \notin InLinks[k],
         l \in OutLinks[k] /\ ~Settled(l) => l \notin inClosed
  PROVE  Holds(l)
<1>1. Type(l) # "SinkLink" /\ Local(k) /\ Typed
  BY DEF SinkLinks, Inv
<1>2. CASE inQ' = inQ /\ outQ' = outQ
  BY <1>2 DEF Holds, Stock
<1>3. CASE GetInput(k)
  <2>1. inQ'[l] = inQ[l] /\ outQ' = outQ
    BY <1>3 DEF GetInput, TakeInput
  <2> QED BY <2>1 DEF Holds, Stock
<1>4. CASE GetOutput(k)
  BY <1>4, MadeOutput
<1>5. CASE ReleaseOneInput(k)
  <2>1. PICK j : j = Min(InLinks[k])
    OBVIOUS
  <2>2. j \in LinkIds
    <3>1. InLinks[k] \subseteq LinkIds /\ InLinks[k] # {}
      BY LinksInto, PipelineAssumption
    <3> QED BY <2>1, <3>1, MinLink
  <2>3. CASE Has(k, "SIGRELEASEINPUT") /\ usingQ[j] # <<>>
    <3>1. ReleaseInput(k, <<Head(usingQ[j])>>) /\ usingQ' = [usingQ EXCEPT ![j] = Tail(usingQ[j])] /\ outQ' = outQ
      BY <1>5, <2>1, <2>3 DEF ReleaseOneInput
    <3>2. PICK q : q = <<Head(usingQ[j])>>
      OBVIOUS
    <3>3. q \in Seq(AnyImage) /\ ReleaseInput(k, q)
      BY <2>2, <2>3, <3>1, <3>2, FirstGone
    <3> QED BY <3>1, <3>3, InputHolds
  <2>4. CASE ~(Has(k, "SIGRELEASEINPUT") /\ usingQ[j] # <<>>)
    BY <1>2, <1>5, <2>1, <2>4 DEF ReleaseOneInput
  <2> QED BY <2>3, <2>4
<1>6. CASE ReleaseAllInput(k)
  <2>1. PICK q : q = Joined(usingQ, InLinks[k])
    OBVIOUS
  <2>2. q \in Seq(AnyImage) /\ ReleaseInput(k, q) /\ outQ' = outQ
    BY <1>6, <2>1, AllGone DEF ReleaseAllInput
  <2> QED BY <2>2, InputHolds
<1>7. CASE \E j \in LinkIds, c \in Nat : releaseOutBuffers(j, c) /\ (l = j => l \notin inClosed)
  BY <1>1, <1>7, OutputHolds
<1>8. ASSUME NEW j \in OutLinks[k], NEW c \in Nat, releaseOutBuffers(j, c), l = j => ~Settled(l)
      PROVE  Holds(l)
  BY <1>7, <1>8, LinksOut
<1>9. \A j \in OutLinks[k] : links[j].src = k /\ Len(outQ[j]) \in Nat
  <2>1. \A j \in OutLinks[k] : outQ[j] \in Seq(Made)
    BY LinksOut, Lengths DEF Stored
  <2> QED BY <2>1, LinksOut, LenProperties
<1>10. CASE ReleaseOneOutput(k)
  <2>1. At(k, "release out") /\ Min(OutLinks[k]) \in OutLinks[k]
    BY <1>10, LinksOut, MinLink DEF ReleaseOneOutput
  <2>2. releaseOutBuffers(Min(OutLinks[k]), 1) \/ (inQ' = inQ /\ outQ' = outQ)
    BY <1>10 DEF ReleaseOneOutput
  <2>3. \A j \in OutLinks[k] : ~Settled(j)
    BY <1>9, <2>1 DEF Settled, At
  <2> QED BY <1>2, <1>8, <2>1, <2>2, <2>3
<1>11. CASE PluginReleasesOutput(k)
  <2>1. PICK j \in OutLinks[k] : releaseOutBuffers(j, 1) /\ At(k, "plugin")
    BY <1>11 DEF PluginReleasesOutput
  <2>2. ~Settled(j)
    BY <1>9, <2>1 DEF Settled, At
  <2> QED BY <1>8, <2>1, <2>2
<1>12. CASE ReleaseLink(k) \/ ReleaseSinkOnError(k)
  <2>1. PICK j : j = Min(node[k].left)
    OBVIOUS
  <2>2. node[k].left # {} /\ releaseOutBuffers(j, Len(outQ[j])) /\ node[k].pc \in {"links", "error links"}
    BY <1>12, <2>1 DEF ReleaseLink, ReleaseSinkOnError, At
  <2>3. node[k].left \subseteq OutLinks[k]
    BY <1>1, <2>2 DEF Local
  <2>4. j \in node[k].left /\ j \in OutLinks[k]
    <3>1. node[k].left \subseteq LinkIds
      BY <2>3, LinksOut
    <3> QED BY <2>1, <2>2, <2>3, <3>1, MinLink
  <2>5. ~Settled(j) /\ Len(outQ[j]) \in Nat
    BY <1>9, <2>4 DEF Settled
  <2> QED BY <1>8, <2>2, <2>4, <2>5
<1>13. CASE \/ NotEffective(k) \/ NoOutput(k) \/ PluginFails(k) \/ PluginReturns(k) \/ Notify(k) \/ DependLink(k)
            \/ Finish(k) \/ Callback(k) \/ Fail(k) \/ DependInput(k) \/ DependOutput(k) \/ PluginReleasesInput(k)
  BY <1>2, <1>13 DEF NotEffective, NoOutput, PluginFails, PluginReturns, Notify, DependLink, Finish, Callback,
    Fail, DependInput, DependOutput, StartChildren, PluginReleasesInput, bufferVars
<1> QED BY <1>3, <1>4, <1>5, <1>6, <1>10, <1>11, <1>12, <1>13 DEF processTask, betweenFrames, notifyNextNode

\* What a node that has not begun will find in its queues is there.
LEMMA StaysSupplied ==
  ASSUME Inv, ImageInv, Fed, NEW k \in Nodes, \A m \in Nodes : Earned(m), NEW n \in Nodes, Supplied(n),
         processTask(k) \/ PluginReleasesInput(k) \/ PluginReleasesOutput(k)
  PROVE  Supplied(n)'
<1> SUFFICES ASSUME ~Has(n, "SIGFRAME"), Waiting(n)', NEW l \in Into(n)
             PROVE  /\ node'[links[l].src].frames > 0 => Stock(l)'
                    /\ Released(l)' => inQ'[l] # <<>>
  BY DEF Supplied, Stock
<1>1. PICK m : m = links[l].src
  OBVIOUS
<1>2. /\ Typed /\ Stored /\ Flushes /\ Local(k) /\ m \in Nodes /\ l \in LinkIds \ SinkLinks /\ l \in OutLinks[m]
      /\ links[l].dst = n /\ ~PassesOn(m) /\ links[l].num > 0
  <2>1. m \in Nodes /\ links[l].dst = n /\ l \in LinkIds
    BY <1>1, LinksInto
  <2>2. Type(l) # "SourceLink" /\ Type(l) # "SinkLink"
    BY <2>1 DEF Into, InLinks, SourceLinks
  <2>3. l \in OutLinks[m] /\ l \notin SinkLinks
    BY <1>1, <2>1, <2>2 DEF OutLinks, SinkLinks
  <2> QED BY <1>1, <2>1, <2>3 DEF Inv, ImageInv, Kept, Fed
<1>3. n # k /\ Waiting(n) /\ UnderWay
  <2>1. CASE processTask(k)
    <3>1. Moves(k) /\ Turns(k)
      BY <1>2, <2>1, NodeStep, EarnedStep
    <3>2. ASSUME n = k PROVE FALSE
      BY <3>1, <3>2 DEF Moves, Turns, Waiting
    <3> QED BY <3>1, <3>2 DEF Moves, Waiting, UnderWay, At
  <2>2. CASE PluginReleasesInput(k) \/ PluginReleasesOutput(k)
    BY <2>2 DEF PluginReleasesInput, PluginReleasesOutput, At, Waiting, UnderWay
  <2> QED BY <2>1, <2>2
<1>4. l \notin InLinks[k]
  BY <1>2, <1>3 DEF InLinks
<1>5. ~Settled(l) => l \notin inClosed
  BY <1>2, <1>3 DEF Flushes
<1>6. Holds(l)
  BY <1>2, <1>4, <1>5, ThreadHolds
<1>7. (node[m].frames > 0 => Stock(l)) /\ (Released(l) => inQ[l] # <<>>)
  BY <1>1, <1>3 DEF Supplied, Stock
<1>8. CASE m # k \/ node' = node
  <2>1. node'[m] = node[m]
    <3>1. CASE processTask(k)
      BY <1>2, <1>8, <3>1, NodeStep DEF Moves
    <3>2. CASE PluginReleasesInput(k) \/ PluginReleasesOutput(k)
      BY <3>2 DEF PluginReleasesInput, PluginReleasesOutput
    <3> QED BY <3>1, <3>2
  <2>2. Released(l)' => Released(l)
    BY <1>1, <2>1 DEF Released
  <2> QED BY <1>1, <1>6, <1>7, <2>1, <2>2 DEF Holds
<1>9. CASE m = k /\ processTask(k)
  <2>1. Moves(k) /\ Turns(k) /\ ~Has(k, "VIRTUAL") /\ ~isInplaceNode(k)
    BY <1>2, <1>9, NodeStep, EarnedStep DEF PassesOn
  <2>2. ASSUME node'[m].frames > 0 PROVE Stock(l)'
    <3>1. CASE node[m].frames > 0
      BY <1>6, <1>7, <3>1 DEF Holds
    <3>2. CASE ~(node[m].frames > 0)
      <4>1. node[m].frames = 0
        BY <1>2, <3>2, RecordTyped
      <4>2. GetOutput(k)
        <5>1. node'[k].frames # node[k].frames
          BY <1>9, <2>2, <4>1
        <5>2. ~Has(k, "VIRTUAL") => node'[k].frames = node[k].frames \/ GetOutput(k)
          BY <2>1 DEF Turns
        <5> QED BY <2>1, <5>1, <5>2
      <4>3. k \in Nodes /\ l \in OutLinks[k] /\ l \in LinkIds /\ links[l].num > 0
        BY <1>2, <1>9
      <4>4. Inv /\ Stored /\ node[k].frames = 0
        BY <1>2, <1>9, <4>1
      <4> QED BY <2>1, <4>2, <4>3, <4>4, MadeOutput
    <3> QED BY <3>1, <3>2
  <2>3. ASSUME Released(l)' PROVE inQ'[l] # <<>>
    <3>1. CASE Released(l)
      BY <1>6, <1>7, <3>1 DEF Holds
    <3>2. CASE ~Released(l)
      <4>1. node'[m].pc \in {"links", "depend", "done"} /\ node'[m].ok /\ l \notin node'[m].left
        BY <1>1, <2>3 DEF Released
      <4>2. node[m].pc \in {"links", "depend"} /\ node[m].ok => l \in node[m].left
        BY <1>1, <3>2 DEF Released
      <4>3. ReleaseLink(m) /\ l = Min(node[m].left) /\ node[m].pc \in {"links", "depend"} /\ node[m].ok
        BY <1>2, <1>9, <2>1, <4>1, <4>2 DEF Turns
      <4>4. node[m].frames > 0
        BY <1>2, <1>9, <2>1, <4>3 DEF Earned, Succeeding
      <4>5. releaseOutBuffers(l, Len(outQ[l])) /\ Len(outQ[l]) \in Nat
        <5>1. outQ[l] \in Seq(Made)
          BY <1>2, Lengths DEF Stored
        <5> QED BY <4>3, <5>1, LenProperties DEF ReleaseLink
      <4>6. l \notin inClosed /\ Type(l) # "SinkLink"
        BY <1>1, <1>2, <1>5, <4>2, <4>3 DEF Settled, SinkLinks
      <4> QED BY <1>2, <1>7, <4>4, <4>5, <4>6, OutputHolds
    <3> QED BY <3>1, <3>2
  <2> QED BY <1>1, <2>2, <2>3
<1>10. node' = node \/ processTask(k)
  BY DEF PluginReleasesInput, PluginReleasesOutput
<1> QED BY <1>8, <1>9, <1>10

\* A node that has its input has at least one image of each link.
LEMMA TakesSome ==
  ASSUME Inv, ImageInv, Fed, NEW n \in Nodes, Supplied(n), GetInput(n), node'[n].pc = "check", node'[n].got,
         NEW l \in InLinks[n]
  PROVE  usingQ'[l] # <<>>
<1>1. Typed /\ Stored /\ l \in LinkIds
  BY LinksInto DEF Inv, ImageInv, Kept
<1>2. InputComplete(n)
  <2>1. ~AfterInput(n, FALSE)
    BY <1>1, AfterTaking
  <2> QED BY <2>1 DEF GetInput
<1>3. PICK w, q : w = Wanted(n, l) /\ q = InputQueue(l)
  OBVIOUS
<1>4. q \in Seq(AnyImage) /\ Took(n, l) \in Seq(AnyImage) /\ usingQ[l] \in Seq(AnyImage) /\ inQ[l] \in Seq(AnyImage)
  <2>1. usingQ[l] \in Seq(AnyImage) /\ inQ[l] \in Seq(AnyImage)
    BY <1>1, Lengths DEF Stored
  <2> QED BY <1>1, <1>3, <2>1, TookAndLeft
<1>5. w \in Nat /\ w > 0 /\ Len(q) >= w
  <2>1. Len(q) >= w
    BY <1>2, <1>3 DEF InputComplete
  <2>2. CASE Has(n, "SIGFRAME")
    BY <1>3, <2>1, <2>2 DEF Wanted
  <2>3. CASE ~Has(n, "SIGFRAME") /\ Type(l) = "SourceLink"
    BY <1>3, <2>1, <2>3, PipelineAssumption DEF Wanted
  <2>4. CASE ~Has(n, "SIGFRAME") /\ Type(l) # "SourceLink"
    <3>1. l \in Into(n) /\ At(n, "input")
      BY <2>4 DEF Into, SourceLinks, GetInput
    <3>2. Settled(l)
      <4>1. mDependenceNum[n] <= 0 /\ UnderWay
        BY <3>1 DEF Inv, Once, At, UnderWay
      <4>2. mDependenceNum[n] >= Cardinality(Unsettled(n)) /\ mDependenceNum[n] \in Int
        BY <2>4, <4>1 DEF Inv, Outstanding, Typed
      <4>3. IsFiniteSet(Unsettled(n))
        <5>1. Unsettled(n) \subseteq LinkIds
          BY LinksInto DEF Unsettled
        <5> QED BY <5>1, FiniteLinks
      <4>4. Unsettled(n) = {}
        BY <4>1, <4>2, <4>3, FS_CardinalityType, FS_EmptySet
      <4> QED BY <3>1, <4>4 DEF Unsettled
    <3>3. inQ[l] # <<>>
      <4>1. Released(l)
        BY <3>2 DEF Settled, Released
      <4> QED BY <2>4, <3>1, <4>1 DEF Supplied, Waiting, At
    <3>4. w = Len(inQ[l])
      BY <1>3, <2>4 DEF Wanted
    <3>5. Len(inQ[l]) \in Nat /\ Len(inQ[l]) > 0
      BY <1>4, <3>3, LenProperties, NonEmpty
    <3> QED BY <2>1, <3>4, <3>5
  <2> QED BY <2>2, <2>3, <2>4
<1>6. Took(n, l) # <<>>
  <2>1. PICK h : h = Len(q)
    OBVIOUS
  <2>2. h \in Int /\ w \in Int /\ h > 0
    BY <1>4, <1>5, <2>1
  <2>3. PICK k : k = Least(w, h)
    OBVIOUS
  <2>4. k \in 0 .. Len(q) /\ k > 0
    <3>1. k \in Int /\ k <= h /\ (k = w \/ k = h)
      BY <2>2, <2>3, LeastOfTwo
    <3> QED BY <1>5, <2>1, <2>2, <3>1
  <2>5. Took(n, l) = SubSeq(q, 1, k)
    BY <1>3, <2>1, <2>3 DEF Took, Share
  <2>6. Len(SubSeq(q, 1, k)) = k
    BY <1>4, <2>4, Halves
  <2> QED BY <1>4, <2>4, <2>5, <2>6, NonEmpty
<1>7. usingQ'[l] = usingQ[l] \o Took(n, l)
  <2>1. usingQ' = [j \in LinkIds |-> IF j \in InLinks[n] THEN usingQ[j] \o Took(n, j) ELSE usingQ[j]]
    BY DEF GetInput, TakeInput, Took, Share, Least
  <2> QED BY <1>1, <2>1
<1> QED BY <1>4, <1>6, <1>7, NonEmpty

LEMMA StaysInHand ==
  ASSUME Inv, ImageInv, Fed, NEW k \in Nodes, NEW n \in Nodes, Earned(k), InHand(n), Supplied(n),
         processTask(k) \/ PluginReleasesInput(k) \/ PluginReleasesOutput(k)
  PROVE  InHand(n)'
<1> SUFFICES ASSUME node'[n].pc = "check", node'[n].got, NEW l \in InLinks[n]
             PROVE  usingQ'[l] # <<>>
  BY DEF InHand, At
<1>1. Typed /\ Local(k) /\ l \in LinkIds /\ links[l].dst = n
  BY LinksInto DEF Inv, InLinks
<1>2. CASE k = n /\ processTask(k)
  <2>1. GetInput(n)
    BY <1>2, EarnedStep DEF Turns
  <2> QED BY <2>1, TakesSome
<1>3. CASE k = n /\ ~processTask(k)
  BY <1>3 DEF PluginReleasesInput, PluginReleasesOutput, At
<1>4. CASE k # n
  <2>1. node'[n] = node[n]
    <3>1. CASE processTask(k)
      BY <1>1, <1>4, <3>1, NodeStep DEF Moves
    <3>2. CASE PluginReleasesInput(k) \/ PluginReleasesOutput(k)
      BY <3>2 DEF PluginReleasesInput, PluginReleasesOutput
    <3> QED BY <3>1, <3>2
  <2>2. l \notin InLinks[k]
    BY <1>1, <1>4 DEF InLinks
  <2>3. usingQ'[l] = usingQ[l]
    <3>0. usingQ \in [LinkIds -> Seq(AnyImage)]
      BY DEF ImageInv, Kept, Stored, Family
    <3>1. CASE GetInput(k)
      BY <1>1, <2>2, <3>1 DEF GetInput, TakeInput
    <3>2. CASE ReleaseAllInput(k)
      BY <1>1, <2>2, <3>2 DEF ReleaseAllInput
    <3>3. CASE ReleaseOneInput(k)
      <4>1. PICK j : j = Min(InLinks[k])
        OBVIOUS
      <4>2. j \in InLinks[k]
        BY <4>1, LinksInto, MinLink, PipelineAssumption
      <4>3. usingQ' = usingQ \/ usingQ' = [usingQ EXCEPT ![j] = Tail(usingQ[j])]
        BY <3>3, <4>1 DEF ReleaseOneInput
      <4> QED BY <1>1, <2>2, <3>0, <4>2, <4>3
    <3>4. CASE PluginReleasesInput(k)
      <4>1. PICK j \in InLinks[k] : usingQ' = [usingQ EXCEPT ![j] = Tail(usingQ[j])]
        BY <3>4 DEF PluginReleasesInput
      <4> QED BY <1>1, <2>2, <3>0, <4>1
    <3>5. CASE usingQ' = usingQ
      BY <3>5
    <3>6. CASE \/ NotEffective(k) \/ GetOutput(k) \/ NoOutput(k) \/ PluginFails(k) \/ PluginReturns(k) \/ Notify(k)
               \/ ReleaseLink(k) \/ DependLink(k) \/ Finish(k) \/ Callback(k) \/ ReleaseSinkOnError(k) \/ Fail(k)
               \/ DependInput(k) \/ DependOutput(k) \/ ReleaseOneOutput(k) \/ PluginReleasesOutput(k)
      BY <3>6 DEF NotEffective, GetOutput, NoOutput, PluginFails, PluginReturns, Notify, ReleaseLink, DependLink,
        Finish, Callback, ReleaseSinkOnError, Fail, DependInput, DependOutput, StartChildren, ReleaseOneOutput,
        PluginReleasesOutput, bufferVars
    <3> QED BY <3>1, <3>2, <3>3, <3>4, <3>6 DEF processTask, betweenFrames, notifyNextNode
  <2> QED BY <2>1, <2>3 DEF InHand, At
<1> QED BY <1>2, <1>3, <1>4

LEMMA NoneAfterEnd ==
  ASSUME Inv, NEW k \in Nodes, processTask(k) \/ PluginReleasesInput(k) \/ PluginReleasesOutput(k)
  PROVE  main.pc # "finished"
<1>1. node[k].pc \notin {"idle", "done"}
  <2>1. CASE processTask(k)
    BY <2>1, NodeStep DEF Inv, Moves
  <2>2. CASE PluginReleasesInput(k) \/ PluginReleasesOutput(k)
    BY <2>2 DEF PluginReleasesInput, PluginReleasesOutput, At
  <2> QED BY <2>1, <2>2
<1>2. k \in Active
  BY <1>1 DEF Active, At
<1> QED BY <1>2 DEF Inv, Running

LEMMA FeedingSame ==
  ASSUME Feeding, UNCHANGED <<node, inQ, usingQ, outQ>>, main.pc = "finished" => main'.pc = "finished"
  PROVE  Feeding'
<1>1. \A n \in Nodes : Earned(n)' /\ InHand(n)'
  BY DEF Feeding, Earned, Succeeding, InHand, At
<1>2. \A n \in Nodes : Supplied(n) => Supplied(n)'
  BY DEF Supplied, Waiting, Released
<1> QED BY <1>1, <1>2 DEF Feeding

LEMMA PostFeeds ==
  ASSUME Inv, Feeding, Post
  PROVE  Feeding'
<1>1. PICK n : n = main.node
  OBVIOUS
<1>2. /\ n \in Nodes /\ At(n, "idle") /\ UNCHANGED <<inQ, usingQ, outQ>> /\ main.pc # "finished"
      /\ UNCHANGED node \/ Goto(n, "input")
  <2>1. /\ main.pc = "post" /\ (UNCHANGED node \/ Goto(n, "input"))
        /\ UNCHANGED <<inQ, usingQ, outQ>>
    BY <1>1 DEF Post, bufferVars
  <2> QED BY <1>1, <2>1, MainTyped DEF Once, Held
<1>3. CASE UNCHANGED node
  BY <1>2, <1>3, FeedingSame
<1>4. CASE Goto(n, "input")
  <2>1. /\ node'[n].pc = "input" /\ node'[n].frames = node[n].frames
        /\ \A m \in Nodes : m # n => node'[m] = node[m]
    BY <1>2, <1>4, Reached DEF Inv, NodePcs
  <2>2. ASSUME NEW m \in Nodes PROVE Earned(m)' /\ InHand(m)'
    BY <1>2, <2>1 DEF Feeding, Earned, Succeeding, InHand, At
  <2>3. ASSUME NEW m \in Nodes PROVE Supplied(m)'
    <3> SUFFICES ASSUME ~Has(m, "SIGFRAME"), Waiting(m)', NEW l \in Into(m)
                 PROVE  /\ node'[links[l].src].frames > 0 => outQ'[l] # <<>> \/ inQ'[l] # <<>>
                        /\ Released(l)' => inQ'[l] # <<>>
      BY DEF Supplied
    <3>1. PICK s \in Nodes : s = links[l].src
      BY LinksInto
    <3>2. Waiting(m)
      BY <1>2, <2>1 DEF Waiting, At
    <3>3. node'[s].frames = node[s].frames
      BY <2>1
    <3>4. Released(l)' => Released(l)
      BY <2>1, <3>1 DEF Released
    <3>5. Supplied(m)
      BY <1>2 DEF Feeding
    <3> QED BY <1>2, <3>1, <3>2, <3>3, <3>4, <3>5 DEF Supplied
  <2> QED BY <2>2, <2>3 DEF Feeding
<1> QED BY <1>2, <1>3, <1>4

LEMMA FeedingStays ==
  ASSUME Fed, Inv, ImageInv, Feeding, [Next]_vars
  PROVE  Feeding'
<1>t. Typed /\ main \in [pc : MainPcs, node : Nodes \cup {NoNode}, ok : BOOLEAN, ports : SUBSET Ports]
  BY MainTyped DEF Inv
<1>1. CASE \E k \in Nodes : processTask(k) \/ PluginReleasesInput(k) \/ PluginReleasesOutput(k)
  <2>1. PICK k \in Nodes : processTask(k) \/ PluginReleasesInput(k) \/ PluginReleasesOutput(k)
    BY <1>1
  <2>2. main.pc # "finished"
    BY <2>1, NoneAfterEnd
  <2>3. \A n \in Nodes : Earned(n) /\ InHand(n) /\ Supplied(n)
    BY <2>2 DEF Feeding
  <2>4. ASSUME NEW n \in Nodes PROVE Earned(n)'
    <3>1. CASE processTask(k)
      <4>1. CASE n = k
        BY <2>3, <3>1, <4>1, EarnedStep
      <4>2. CASE n # k
        <5>1. node'[n] = node[n]
          BY <3>1, <4>2, NodeStep DEF Inv, Moves
        <5> QED BY <2>3, <5>1 DEF Earned, Succeeding
      <4> QED BY <4>1, <4>2
    <3>2. CASE PluginReleasesInput(k) \/ PluginReleasesOutput(k)
      BY <2>3, <3>2 DEF PluginReleasesInput, PluginReleasesOutput, Earned, Succeeding
    <3> QED BY <2>1, <3>1, <3>2
  <2>5. ASSUME NEW n \in Nodes PROVE InHand(n)' /\ Supplied(n)'
    BY <2>1, <2>3, StaysInHand, StaysSupplied
  <2> QED BY <2>4, <2>5 DEF Feeding
<1>2. CASE Post
  BY <1>2, PostFeeds
<1>3. CASE ReleaseRest
  <2>1. main.pc = "release rest" /\ MainGoto("finished") /\ node' = node
    BY <1>3 DEF ReleaseRest
  <2>2. main'.pc = "finished"
    BY <1>t, <2>1 DEF MainGoto
  <2>3. \A n \in Nodes : ~At(n, "check")
    BY <2>1 DEF Inv, Running, Active, At
  <2>4. \A n \in Nodes : Earned(n)' /\ InHand(n)'
    BY <2>1, <2>3 DEF Feeding, Earned, Succeeding, InHand, At
  <2> QED BY <2>2, <2>4 DEF Feeding
<1>4. CASE Start \/ Prepare \/ Take \/ CountRunning \/ WaitForNodes \/ ReleasePort
  <2>1. UNCHANGED <<node, inQ, usingQ, outQ>>
    BY <1>4 DEF Start, Prepare, Take, CountRunning, WaitForNodes, ReleasePort, bufferVars
  <2>2. main.pc # "finished"
    BY <1>4 DEF Start, Prepare, Take, CountRunning, WaitForNodes, ReleasePort
  <2> QED BY <2>1, <2>2, FeedingSame
<1>5. CASE (\E p \in Ports : Deliver(p)) \/ quickFinish \/ UNCHANGED vars
  <2>1. UNCHANGED <<node, inQ, usingQ, outQ, main>>
    BY <1>5 DEF Deliver, quickFinish, SetFlushStatus, ReleasePorts, ReleaseNodes, bufferVars, vars
  <2> QED BY <2>1, FeedingSame
<1> QED BY <1>1, <1>2, <1>3, <1>4, <1>5 DEF Next, postProcTask

\* getOutputImage takes the first image of each of the node's links without looking
\* whether there is one.  There is one, if every node that takes its input as a whole
\* gets it from the application or from nodes that make new images (Fed): a node that
\* ended well has then made some, and they are kept for its children.
THEOREM InputIsThere == Fed => (Spec => []InputBeforeOutput)
<1> SUFFICES ASSUME Fed PROVE Spec => []InputBeforeOutput
  OBVIOUS
<1>1. Init => Feeding
  <2> SUFFICES ASSUME Init PROVE Feeding
    OBVIOUS
  <2>1. \A n \in Nodes : node[n].pc = "idle" /\ node[n].frames = 0
    BY DEF Init
  <2>2. \A n \in Nodes : Earned(n) /\ InHand(n)
    BY <2>1 DEF Earned, Succeeding, InHand, At
  <2>3. ASSUME NEW n \in Nodes PROVE Supplied(n)
    <3>1. \A l \in Into(n) : links[l].src \in Nodes
      BY LinksInto
    <3> QED BY <2>1, <3>1 DEF Supplied, Released
  <2> QED BY <2>2, <2>3 DEF Feeding
<1>2. Inv /\ ImageInv /\ Feeding /\ [Next]_vars => Feeding'
  BY FeedingStays
<1>3. Feeding => InputBeforeOutput
  BY DEF Feeding, InHand, InputBeforeOutput
<1> QED BY <1>1, <1>2, <1>3, InvAlways, ImageInvAlways, PTL DEF Spec, Safe

-----------------------------------------------------------------------------
(* The application learns how a request ended *)

\* What goes to a sink link is new, and made all at once.
MadeAtOnce(l) == ~Has(links[l].src, "VIRTUAL") /\ (Has(links[l].src, "SIGGETOUTPUT") => links[l].num <= 1)

\* The application gives a request up, or makes haste with it, but does not do one
\* after the other.
OneWish == QuickKinds # BOOLEAN \/ QuickCalls <= 1
Asked == quickCalls \in Nat /\ (quickCalls = 0 => mFlushStatus = "NoFlush")

\* A graph of nodes that all exist, ordered by its links.
Sound ==
  /\ Missing = {} /\ ~TopologyError /\ OneWish
  /\ \E rank \in [Nodes -> Nat] : \A n \in Nodes : \A l \in Into(n) : rank[links[l].src] < rank[n]
  /\ \A l \in SinkLinks : MadeAtOnce(l)

\* The application is told before postProcTask hears of a failure.
TellsFirst(n) ==
  /\ At(n, "error links") => abnormalCalls = 1
  /\ At(n, "done") => IF node[n].ok THEN node[n].left = {} ELSE abnormalCalls = 1

\* A node's count covers no more than the links that are unsettled, and a node
\* whose count is used up is on its way.
OnItsWay(n) == Queued(n) \/ Held(n) \/ ~At(n, "idle")
Due(n) == mDependenceNum[n] <= Cardinality(Unsettled(n)) /\ (mDependenceNum[n] <= 0 => OnItsWay(n))

WellAndWanted == abnormalCalls = 0 /\ mFlushStatus # "ForcedFlush"
Scheduling ==
  /\ mHasProcessError => abnormalCalls = 1
  /\ \A n \in Nodes : TellsFirst(n)
  /\ main.pc \notin {"start", "prepare"} /\ WellAndWanted => \A n \in Nodes : Due(n)

LEMMA AllListed ==
  ASSUME NEW S, S \subseteq Nodes, NEW x \in S
  PROVE  \E k \in DOMAIN SetToSeq(S) : SetToSeq(S)[k] = x
<1> DEFINE c == Cardinality(S)
<1>1. IsFiniteSet(S) /\ c \in Nat
  BY FiniteNodes
<1>2. PICK f \in Bijection(1 .. c, S) : TRUE
  BY <1>1, FS_CardinalityType, Fun_ExistsBij
<1>3. f \in [1 .. c -> S] /\ IsInjective(f)
  BY <1>2 DEF Bijection, Injection, IsInjective
<1>4. PICK g : g = SetToSeq(S)
  OBVIOUS
<1>5. g \in [1 .. c -> S] /\ IsInjective(g)
  BY <1>3, <1>4 DEF SetToSeq
<1>6. g \in Injection(1 .. c, S)
  BY <1>5 DEF Injection, IsInjective
<1>7. Cardinality(1 .. c) = c
  BY <1>1, FS_Interval
<1>8. g \in Surjection(1 .. c, S)
  BY <1>1, <1>6, <1>7, FS_Injection
<1>9. \E k \in 1 .. c : g[k] = x
  BY <1>8 DEF Surjection
<1> QED BY <1>4, <1>5, <1>9

\* What is queued stays queued as others are.
LEMMA QueuedBehind ==
  ASSUME NEW s \in Seq(Nodes), NEW t \in Seq(Nodes), NEW n,
         (\E k \in DOMAIN s : s[k] = n) \/ (\E k \in DOMAIN t : t[k] = n)
  PROVE  \E k \in DOMAIN (s \o t) : (s \o t)[k] = n
<1>1. /\ DOMAIN s = 1 .. Len(s) /\ DOMAIN t = 1 .. Len(t) /\ Len(s) \in Nat /\ Len(t) \in Nat
      /\ Len(s \o t) = Len(s) + Len(t) /\ DOMAIN (s \o t) = 1 .. Len(s \o t)
      /\ \A i \in 1 .. Len(s) + Len(t) : (s \o t)[i] = IF i <= Len(s) THEN s[i] ELSE t[i - Len(s)]
  BY ConcatProperties, LenProperties
<1>2. CASE \E k \in DOMAIN s : s[k] = n
  <2>1. PICK k \in 1 .. Len(s) : s[k] = n
    BY <1>1, <1>2
  <2>2. k \in 1 .. Len(s) + Len(t) /\ k <= Len(s)
    BY <1>1
  <2> QED BY <1>1, <2>1, <2>2
<1>3. CASE \E k \in DOMAIN t : t[k] = n
  <2>1. PICK k \in 1 .. Len(t) : t[k] = n
    BY <1>1, <1>3
  <2>2. PICK i : i = Len(s) + k
    OBVIOUS
  <2>3. i \in 1 .. Len(s) + Len(t) /\ ~(i <= Len(s)) /\ i - Len(s) = k
    BY <1>1, <2>2
  <2> QED BY <1>1, <2>1, <2>3
<1> QED BY <1>2, <1>3

\* As long as no node has failed, each link settled counts, and a node whose count
\* is used up is queued.
LEMMA DependAll ==
  ASSUME Typed, NEW L, L \subseteq LinkIds, Depend(L), ~mHasProcessError, NEW n \in Nodes
  PROVE  /\ Queued(n) => Queued(n)'
         /\ mDependenceNum[n] > 0 /\ mDependenceNum'[n] <= 0 => Queued(n)'
         /\ mDependenceNum'[n] <= mDependenceNum[n]
         /\ \A l : L = {l} /\ links[l].dst = n => mDependenceNum'[n] = mDependenceNum[n] - 1
<1> DEFINE Hit(m) == {l \in L : links[l].dst = m}
           Count(m) == Cardinality(Hit(m))
           Ready == {m \in Nodes : Count(m) > 0 /\ mDependenceNum[m] \in 1 .. Count(m)}
<1>1. mRunSequence \in Seq(Nodes) /\ mDependenceNum \in [Nodes -> Int] /\ mDependenceNum[n] \in Int
  BY DEF Typed
<1>2. /\ mDependenceNum' = [m \in Nodes |-> mDependenceNum[m] - Count(m)]
      /\ mRunSequence' = mRunSequence \o SetToSeq(Ready)
  BY DEF Depend
<1>3. Count(n) \in Nat
  <2>1. Hit(n) \subseteq LinkIds
    OBVIOUS
  <2> QED BY <2>1, FiniteLinks
<1>4. ASSUME NEW l, L = {l}, links[l].dst = n PROVE Count(n) = 1
  <2>1. Hit(n) = {l}
    BY <1>4
  <2> QED BY <2>1, FS_Singleton
<1>5. n \in Ready <=> Count(n) > 0 /\ mDependenceNum[n] \in 1 .. Count(n)
  OBVIOUS
<1>6. Ready \subseteq Nodes
  OBVIOUS
<1>7. mDependenceNum'[n] = mDependenceNum[n] - Count(n)
  BY <1>2
<1> HIDE DEF Count, Ready
<1>8. mDependenceNum[n] > 0 /\ mDependenceNum'[n] <= 0 => n \in Ready
  BY <1>1, <1>3, <1>5, <1>7
<1>9. SetToSeq(Ready) \in Seq(Nodes) /\ (n \in Ready => \E k \in DOMAIN SetToSeq(Ready) : SetToSeq(Ready)[k] = n)
  BY <1>6, Listed, AllListed
<1>10. Queued(n) \/ n \in Ready => Queued(n)'
  BY <1>1, <1>2, <1>9, QueuedBehind DEF Queued
<1>11. mDependenceNum'[n] <= mDependenceNum[n]
  BY <1>1, <1>3, <1>7
<1> QED BY <1>1, <1>4, <1>7, <1>8, <1>10, <1>11

\* A link into a node is settled by DependLink only.
LEMMA SettledBy ==
  ASSUME Inv, NEW k \in Nodes, processTask(k), Earned(k), TellsFirst(k), NEW n \in Nodes, NEW l \in Into(n),
         Settled(l)', ~Settled(l)
  PROVE  DependLink(k) /\ l = node[k].link
<1>1. Typed /\ Local(k) /\ Moves(k) /\ Turns(k)
  BY NodeStep, EarnedStep DEF Inv
<1>2. links[l].src = k
  <2>1. CASE links[l].src # k
    <3>1. node'[links[l].src] = node[links[l].src]
      BY <1>1, <2>1, LinksInto DEF Moves
    <3> QED BY <3>1 DEF Settled
  <2> QED BY <2>1
<1>3. /\ node'[k].pc \in {"links", "depend", "done"} /\ node'[k].ok /\ l \notin node'[k].left
      /\ ~(node'[k].pc = "depend" /\ node'[k].link = l)
  BY <1>2 DEF Settled
<1>4. l \in OutLinks[k] /\ Type(l) # "SinkLink" /\ l \in LinkIds
  <2>1. l \in LinkIds /\ Type(l) # "SinkLink" /\ Type(l) # "SourceLink"
    BY LinksInto DEF Into, InLinks, SourceLinks
  <2> QED BY <1>2, <2>1 DEF OutLinks
<1>5. node[k].pc \in {"links", "depend"} /\ node[k].ok
  BY <1>1, <1>3, <1>4 DEF Turns
<1>6. CASE ReleaseLink(k)
  <2>1. PICK j : j = Min(node[k].left)
    OBVIOUS
  <2>2. /\ At(k, "links") /\ node[k].left # {}
        /\ node' = [node EXCEPT ![k].pc = IF Type(j) = "SinkLink" THEN "links" ELSE "depend",
                                ![k].left = node[k].left \ {j},
                                ![k].link = IF Type(j) = "SinkLink" THEN 0 ELSE j]
    BY <1>6, <2>1 DEF ReleaseLink
  <2>3. l \in node[k].left
    BY <1>2, <1>5, <2>2 DEF Settled, At
  <2>4. CASE l = j
    <3> DEFINE r == [node[k] EXCEPT !.pc = "depend", !.left = node[k].left \ {j}, !.link = j]
    <3>1. r.pc = "depend" /\ r.link = j
      BY <1>1, RecordTyped DEF Threads
    <3>2. node' = [node EXCEPT ![k].pc = "depend", ![k].left = node[k].left \ {j}, ![k].link = j]
      BY <1>4, <2>2, <2>4
    <3>3. node'[k] = r
      BY <1>1, <3>2, RecordTyped
    <3> HIDE DEF r
    <3> QED BY <1>3, <2>4, <3>1, <3>3
  <2>5. CASE l # j
    <3> DEFINE pc == IF Type(j) = "SinkLink" THEN "links" ELSE "depend"
               i == IF Type(j) = "SinkLink" THEN 0 ELSE j
               r == [node[k] EXCEPT !.pc = pc, !.left = node[k].left \ {j}, !.link = i]
    <3> HIDE DEF pc, i
    <3>1. r.left = node[k].left \ {j}
      BY <1>1, RecordTyped DEF Threads
    <3>2. node' = [node EXCEPT ![k].pc = pc, ![k].left = node[k].left \ {j}, ![k].link = i]
      BY <2>2 DEF pc, i
    <3>3. node'[k] = r
      BY <1>1, <3>2, RecordTyped
    <3> HIDE DEF r
    <3> QED BY <1>3, <2>3, <2>5, <3>1, <3>3
  <2> QED BY <2>4, <2>5
<1>7. CASE ~ReleaseLink(k)
  <2>1. node'[k].left = node[k].left
    BY <1>1, <1>3, <1>4, <1>7 DEF Turns
  <2>2. node[k].pc = "depend" /\ node[k].link = l
    BY <1>2, <1>3, <1>5, <2>1 DEF Settled
  <2>3. DependLink(k)
    BY <1>5, <2>2 DEF processTask, betweenFrames, notifyNextNode, GetInput, NotEffective, GetOutput, NoOutput,
      PluginFails, PluginReturns, ReleaseOneInput, DependInput, ReleaseOneOutput, DependOutput, Notify,
      ReleaseAllInput, ReleaseLink, Finish, Callback, ReleaseSinkOnError, Fail, At
  <2> QED BY <2>2, <2>3
<1> QED BY <1>6, <1>7

\* What a thread's step tells postProcTask and the application.
LEMMA Telling ==
  ASSUME Inv, Told, NEW n \in Nodes, processTask(n), Earned(n), Scheduling
  PROVE  /\ (abnormalCalls = 1 => abnormalCalls' = 1) /\ mFlushStatus' = mFlushStatus
         /\ mHasProcessError' => abnormalCalls' = 1
         /\ \A m \in Nodes : TellsFirst(m)'
<1>1. Typed /\ Local(n) /\ Moves(n) /\ Turns(n)
  BY NodeStep, EarnedStep DEF Inv
<1>2. abnormalCalls \in {0, 1} /\ \A m \in Nodes : TellsFirst(m)
  BY DEF Told, Scheduling
<1>3. /\ abnormalCalls' = abnormalCalls \/ Callback(n)
      /\ mHasProcessError' = mHasProcessError \/ Fail(n)
      /\ mFlushStatus' = mFlushStatus
  BY DEF processTask, betweenFrames, notifyNextNode, GetInput, NotEffective, GetOutput, NoOutput, PluginFails,
    PluginReturns, ReleaseOneInput, DependInput, ReleaseOneOutput, DependOutput, StartChildren, Notify,
    ReleaseAllInput, ReleaseLink, DependLink, Finish, Callback, ReleaseSinkOnError, Fail, runVars, flushVars
<1>4. Callback(n) => abnormalCalls' = 1
  BY <1>2 DEF Callback
<1>5. abnormalCalls = 1 => abnormalCalls' = 1
  BY <1>3, <1>4
<1>6. Fail(n) => abnormalCalls = 1 /\ At(n, "error links")
  BY <1>2 DEF Fail, TellsFirst
<1>7. mHasProcessError' => abnormalCalls' = 1
  BY <1>3, <1>5, <1>6 DEF Scheduling
<1>8. ASSUME NEW m \in Nodes, m # n PROVE TellsFirst(m)'
  <2>1. node'[m] = node[m] /\ TellsFirst(m)
    BY <1>1, <1>2, <1>8 DEF Moves
  <2>2. At(m, "error links")' => abnormalCalls' = 1
    BY <1>5, <2>1 DEF TellsFirst, At
  <2>3. node'[m].pc = "done" => IF node'[m].ok THEN node'[m].left = {} ELSE abnormalCalls' = 1
    BY <1>5, <2>1 DEF TellsFirst, At
  <2> QED BY <2>2, <2>3 DEF TellsFirst, At
<1>9. node'[n].pc = "error links" => abnormalCalls' = 1
  BY <1>1, <1>2, <1>4, <1>5 DEF Turns, TellsFirst
<1>10. ASSUME node'[n].pc = "done" PROVE IF node'[n].ok THEN node'[n].left = {} ELSE abnormalCalls' = 1
  <2>1. CASE Finish(n)
    <3>1. At(n, "links") /\ node[n].left = {} /\ Goto(n, "done")
      BY <2>1 DEF Finish
    <3>2. node'[n].ok = node[n].ok /\ node'[n].left = node[n].left
      BY <1>1, <3>1, Reached DEF NodePcs
    <3>3. node[n].ok
      BY <1>1, <3>1 DEF Local, At
    <3> QED BY <3>1, <3>2, <3>3
  <2>2. CASE Fail(n)
    <3>1. At(n, "error links") /\ Goto(n, "done") /\ abnormalCalls' = 1
      BY <1>5, <1>6, <2>2 DEF Fail
    <3>2. node'[n].ok = node[n].ok /\ ~node[n].ok
      BY <1>1, <3>1, Reached DEF NodePcs, Earned, At
    <3> QED BY <3>1, <3>2
  <2> QED BY <1>1, <1>10, <2>1, <2>2 DEF Turns
<1>11. TellsFirst(n)'
  BY <1>9, <1>10 DEF TellsFirst, At
<1> QED BY <1>3, <1>5, <1>7, <1>8, <1>11

\* A link that is settled is counted, and what is unsettled stays so else.
LEMMA UnsettledStays ==
  ASSUME Inv, NEW k \in Nodes, processTask(k), Earned(k), TellsFirst(k), ~mHasProcessError, NEW n \in Nodes,
         mDependenceNum[n] <= Cardinality(Unsettled(n))
  PROVE  mDependenceNum'[n] <= Cardinality(Unsettled(n)')
<1>1. Typed /\ Local(k)
  BY DEF Inv
<1>2. Depends
  BY <1>1, NodeStep, NodeDepends
<1>3. mDependenceNum[n] \in Int /\ mDependenceNum'[n] \in Int /\ mDependenceNum'[n] <= mDependenceNum[n]
  BY <1>1, <1>2 DEF Typed, Depends
<1>4. Unsettled(n) \subseteq LinkIds /\ Unsettled(n)' \subseteq LinkIds /\ Unsettled(n)' \subseteq Into(n)
  BY LinksInto DEF Unsettled
<1>5. /\ IsFiniteSet(Unsettled(n)) /\ Cardinality(Unsettled(n)) \in Nat
      /\ IsFiniteSet(Unsettled(n)') /\ Cardinality(Unsettled(n)') \in Nat
  BY <1>4, FiniteLinks
<1>6. CASE \E l \in Unsettled(n) : Settled(l)'
  <2>1. PICK l \in Unsettled(n) : Settled(l)'
    BY <1>6
  <2>2. l \in Into(n) /\ ~Settled(l) /\ l \in LinkIds /\ links[l].dst = n
    BY <1>4, LinksInto DEF Unsettled
  <2>3. DependLink(k) /\ l = node[k].link
    BY <2>1, <2>2, SettledBy
  <2>4. Depend({l})
    BY <2>3 DEF DependLink
  <2>5. mDependenceNum'[n] = mDependenceNum[n] - 1
    BY <1>1, <2>2, <2>4, DependAll
  <2>6. \A j \in Unsettled(n) : j # l => j \in Unsettled(n)'
    <3> SUFFICES ASSUME NEW j \in Unsettled(n), j # l, Settled(j)' PROVE FALSE
      BY DEF Unsettled
    <3>1. j \in Into(n) /\ ~Settled(j)
      BY DEF Unsettled
    <3> QED BY <2>3, <3>1, SettledBy
  <2>7. Unsettled(n) \ {l} \subseteq Unsettled(n)'
    BY <2>6
  <2>8. /\ IsFiniteSet(Unsettled(n) \ {l})
        /\ Cardinality(Unsettled(n) \ {l}) = Cardinality(Unsettled(n)) - 1
    BY <1>5, FS_RemoveElement
  <2>9. Cardinality(Unsettled(n) \ {l}) <= Cardinality(Unsettled(n)')
    BY <1>5, <2>7, FS_Subset
  <2> QED BY <1>3, <1>5, <2>5, <2>8, <2>9
<1>7. CASE \A l \in Unsettled(n) : ~Settled(l)'
  <2>1. Unsettled(n) \subseteq Unsettled(n)'
    BY <1>7 DEF Unsettled
  <2>2. Cardinality(Unsettled(n)) <= Cardinality(Unsettled(n)')
    BY <1>5, <2>1, FS_Subset
  <2> QED BY <1>3, <1>5, <2>2
<1> QED BY <1>6, <1>7

LEMMA ThreadSchedules ==
  ASSUME Inv, Told, NEW k \in Nodes, processTask(k), Earned(k), Scheduling
  PROVE  Scheduling'
<1>1. Typed /\ Local(k)
  BY DEF Inv
<1>2. Moves(k) /\ Woken /\ (Streams(k) \/ Settles(k) \/ Ends(k) \/ Continues(k))
  BY <1>1, NodeStep
<1>3. /\ (abnormalCalls = 1 => abnormalCalls' = 1) /\ mFlushStatus' = mFlushStatus
      /\ mHasProcessError' => abnormalCalls' = 1
      /\ \A m \in Nodes : TellsFirst(m)'
  BY Telling
<1>4. main.pc \notin {"start", "prepare"}
  BY ThreadSinks
<1>5. ASSUME WellAndWanted', NEW n \in Nodes PROVE Due(n)'
  <2>1. WellAndWanted /\ ~mHasProcessError /\ TellsFirst(k)
    BY <1>3, <1>5 DEF WellAndWanted, Told, Scheduling
  <2>2. mDependenceNum[n] <= Cardinality(Unsettled(n)) /\ (mDependenceNum[n] <= 0 => OnItsWay(n))
    BY <1>4, <2>1 DEF Scheduling, Due
  <2>3. mDependenceNum'[n] <= Cardinality(Unsettled(n)')
    BY <2>1, <2>2, UnsettledStays
  <2>4. \/ \E L : L \subseteq LinkIds /\ Depend(L)
        \/ UNCHANGED <<mRunSequence, mDependenceNum>>
    <3>1. CASE Streams(k)
      <4>1. StreamedLinks(k) \subseteq LinkIds
        BY LinksOut DEF StreamedLinks
      <4> QED BY <3>1, <4>1 DEF Streams
    <3>2. CASE Settles(k)
      <4>1. node[k].link \in LinkIds
        BY <1>1, <3>2, LinksOut DEF Settles, Local
      <4>2. {node[k].link} \subseteq LinkIds
        BY <4>1
      <4> QED BY <3>2, <4>2 DEF Settles
    <3>3. CASE Ends(k) \/ Continues(k)
      BY <3>3 DEF Ends, Continues
    <3> QED BY <1>2, <3>1, <3>2, <3>3
  <2>5. /\ Queued(n) => Queued(n)'
        /\ mDependenceNum[n] > 0 /\ mDependenceNum'[n] <= 0 => Queued(n)'
    <3>1. CASE \E L : L \subseteq LinkIds /\ Depend(L)
      BY <1>1, <2>1, <3>1, DependAll
    <3>2. CASE UNCHANGED <<mRunSequence, mDependenceNum>>
      <4>1. mDependenceNum[n] \in Int
        BY <1>1 DEF Typed
      <4> QED BY <3>2, <4>1 DEF Queued
    <3> QED BY <2>4, <3>1, <3>2
  <2>6. Held(n) => Held(n)'
    BY <1>2 DEF Held, Woken
  <2>7. ~At(n, "idle") => ~At(n, "idle")'
    BY <1>2 DEF Moves, At
  <2>8. mDependenceNum'[n] <= 0 => OnItsWay(n)'
    <3>1. mDependenceNum[n] \in Int
      BY <1>1 DEF Typed
    <3>2. CASE mDependenceNum[n] > 0
      BY <2>5, <3>2 DEF OnItsWay
    <3>3. CASE mDependenceNum[n] <= 0
      BY <2>2, <2>5, <2>6, <2>7, <3>3 DEF OnItsWay
    <3> QED BY <3>1, <3>2, <3>3
  <2> QED BY <2>3, <2>8 DEF Due
<1> QED BY <1>3, <1>5 DEF Scheduling

\* Steps that leave the nodes alone and take none from its way.
LEMMA SchedulingKept ==
  ASSUME Scheduling, UNCHANGED <<node, mDependenceNum, mHasProcessError, abnormalCalls>>,
         main'.pc \notin {"start", "prepare"} => main.pc \notin {"start", "prepare"},
         WellAndWanted' => WellAndWanted,
         \A n \in Nodes : Queued(n) \/ Held(n) => Queued(n)' \/ Held(n)'
  PROVE  Scheduling'
<1>1. mHasProcessError' => abnormalCalls' = 1
  BY DEF Scheduling
<1>2. ASSUME NEW n \in Nodes PROVE TellsFirst(n)'
  <2>1. TellsFirst(n)
    BY DEF Scheduling
  <2> QED BY <2>1 DEF TellsFirst, At
<1>3. ASSUME main'.pc \notin {"start", "prepare"}, WellAndWanted', NEW n \in Nodes PROVE Due(n)'
  <2>1. Due(n)
    BY <1>3 DEF Scheduling
  <2>2. Unsettled(n)' = Unsettled(n)
    BY DEF Unsettled, Settled
  <2>3. OnItsWay(n) => OnItsWay(n)'
    BY DEF OnItsWay, At
  <2> QED BY <2>1, <2>2, <2>3 DEF Due
<1> QED BY <1>1, <1>2, <1>3 DEF Scheduling

LEMMA OthersSchedule ==
  ASSUME Inv, Flushes, Scheduling, OneWish, Asked,
         \/ \E p \in Ports : Deliver(p)
         \/ \E n \in Nodes : PluginReleasesInput(n) \/ PluginReleasesOutput(n)
         \/ quickFinish \/ UNCHANGED vars
  PROVE  Scheduling'
<1>1. UNCHANGED <<node, main, mRunSequence, mDependenceNum, mHasProcessError, abnormalCalls>>
  BY DEF Deliver, PluginReleasesInput, PluginReleasesOutput, quickFinish, SetFlushStatus, ReleasePorts,
    ReleaseNodes, vars, runVars
<1>2. \A n \in Nodes : Queued(n) \/ Held(n) => Queued(n)' \/ Held(n)'
  BY <1>1 DEF Queued, Held
<1>3. mFlushStatus' = mFlushStatus \/ \E b \in QuickKinds : SetFlushStatus(b)
  BY DEF Deliver, PluginReleasesInput, PluginReleasesOutput, quickFinish, ReleasePorts, ReleaseNodes,
    vars, flushVars
<1>4. ASSUME mFlushStatus' # "ForcedFlush" PROVE mFlushStatus # "ForcedFlush"
  <2>1. CASE mFlushStatus' = mFlushStatus
    BY <1>4, <2>1
  <2>2. CASE \E b \in QuickKinds : SetFlushStatus(b)
    <3>1. PICK b \in QuickKinds : SetFlushStatus(b)
      BY <2>2
    <3>2. CASE QuickKinds # BOOLEAN
      <4>1. b
        BY <1>4, <3>1 DEF SetFlushStatus
      <4>2. QuickKinds \subseteq BOOLEAN
        BY PipelineAssumption
      <4>3. TRUE \in QuickKinds
        BY <3>1, <4>1, <4>2
      <4>4. FALSE \notin QuickKinds
        BY <3>2, <4>2, <4>3
      <4> QED BY <4>4 DEF Flushes
    <3>3. CASE QuickCalls <= 1
      <4>1. quickCalls < QuickCalls /\ QuickCalls \in Nat /\ quickCalls \in Nat
        BY <3>1, PipelineAssumption DEF SetFlushStatus, Asked
      <4>2. quickCalls = 0
        BY <3>3, <4>1
      <4> QED BY <4>2 DEF Asked
    <3> QED BY <3>2, <3>3 DEF OneWish
  <2> QED BY <1>3, <2>1, <2>2
<1>5. WellAndWanted' => WellAndWanted
  BY <1>1, <1>4 DEF WellAndWanted
<1> QED BY <1>1, <1>2, <1>5, SchedulingKept

LEMMA StartSchedules ==
  ASSUME Inv, Told, Scheduling, Start
  PROVE  Scheduling'
<1>1. main.pc = "start" /\ UNCHANGED <<node, mDependenceNum, mHasProcessError>>
  BY DEF Start, runVars
<1>2. \A n \in Nodes : At(n, "idle")
  BY <1>1 DEF Inv, Once
<1>3. abnormalCalls = 0 /\ ~mHasProcessError
  BY <1>1 DEF Told, Scheduling
<1>4. \A n \in Nodes : TellsFirst(n)'
  BY <1>1, <1>2 DEF TellsFirst, At
<1>5. main'.pc \notin {"start", "prepare"} => ~WellAndWanted'
  <2>1. CASE mFlushStatus = "ForcedFlush" /\ UNCHANGED mFlushStatus
    BY <2>1 DEF WellAndWanted
  <2>2. CASE abnormalCalls' = abnormalCalls + 1
    BY <1>3, <2>2 DEF WellAndWanted
  <2>3. CASE main' = [main EXCEPT !.pc = "prepare"]
    <3>1. main'.pc = "prepare"
      BY <2>3, MainTyped
    <3> QED BY <3>1
  <2> QED BY <2>1, <2>2, <2>3 DEF Start, MainGoto, flushVars
<1> QED BY <1>1, <1>3, <1>4, <1>5 DEF Scheduling

LEMMA PrepareSchedules ==
  ASSUME Inv, Scheduling, Prepare, ~TopologyError
  PROVE  Scheduling'
<1> DEFINE Dependence(n) == Cardinality(InLinks[n] \ SourceLinks)
           Performable == {n \in Nodes : Dependence(n) = 0}
<1>1. /\ main.pc = "prepare" /\ mDependenceNum' = [n \in Nodes |-> Dependence(n)]
      /\ mRunSequence' = SetToSeq(Performable) /\ UNCHANGED <<node, mHasProcessError, abnormalCalls>>
  BY DEF Prepare
<1>2. \A n \in Nodes : At(n, "idle")
  BY <1>1 DEF Inv, Once
<1>3. ASSUME NEW n \in Nodes PROVE TellsFirst(n)' /\ Due(n)'
  <2>1. TellsFirst(n)'
    BY <1>1, <1>2 DEF TellsFirst, At
  <2>2. \A l \in Into(n) : ~Settled(l)'
    BY <1>1, <1>2, LinksInto DEF Settled, At
  <2>3. Unsettled(n)' = InLinks[n] \ SourceLinks
    BY <2>2 DEF Unsettled, Into
  <2>4. mDependenceNum'[n] = Cardinality(Unsettled(n)')
    BY <1>1, <2>3
  <2>5. Unsettled(n)' \subseteq LinkIds
    BY <2>3, LinksInto
  <2>6. Cardinality(Unsettled(n)') \in Nat
    BY <2>5, FiniteLinks
  <2>7. n \in Performable => Queued(n)'
    <3>1. Performable \subseteq Nodes
      OBVIOUS
    <3> HIDE DEF Performable
    <3> QED BY <1>1, <3>1, AllListed DEF Queued
  <2>8. mDependenceNum'[n] <= 0 => Dependence(n) = 0
    BY <2>3, <2>4, <2>6
  <2> HIDE DEF Dependence
  <2>9. mDependenceNum'[n] <= 0 => Queued(n)'
    BY <2>7, <2>8
  <2> QED BY <2>1, <2>4, <2>6, <2>9 DEF Due, OnItsWay
<1>4. mHasProcessError' => abnormalCalls' = 1
  BY <1>1 DEF Scheduling
<1> QED BY <1>3, <1>4 DEF Scheduling

LEMMA TakeSchedules ==
  ASSUME Inv, Scheduling, Take
  PROVE  Scheduling'
<1>1. /\ main.pc = "loop"
      /\ UNCHANGED <<node, mDependenceNum, mHasProcessError, abnormalCalls, mFlushStatus>>
  BY DEF Take, flushVars
<1>2. mRunSequence \in Seq(Nodes) /\ Typed
  BY DEF Inv, Typed
<1>3. ASSUME NEW n \in Nodes, Queued(n) PROVE Queued(n)' \/ Held(n)'
  <2>1. PICK k \in DOMAIN mRunSequence : mRunSequence[k] = n
    BY <1>3 DEF Queued
  <2>2. mRunSequence # <<>>
    BY <1>2, <2>1
  <2>3. main' = [main EXCEPT !.pc = "post", !.node = Head(mRunSequence)] /\ mRunSequence' = Tail(mRunSequence)
    BY <2>2 DEF Take
  <2>4. k \in 1 .. Len(mRunSequence) /\ Len(mRunSequence) \in Nat
    BY <1>2, <2>1
  <2>5. CASE k = 1
    <3>1. Head(mRunSequence) = n
      BY <1>2, <2>1, <2>2, <2>5
    <3>2. main'.pc = "post" /\ main'.node = n
      BY <1>2, <2>3, <3>1, MainTyped
    <3> QED BY <3>2 DEF Held
  <2>6. CASE k # 1
    <3>1. k - 1 \in 1 .. Len(mRunSequence) - 1
      BY <2>4, <2>6
    <3>2. DOMAIN Tail(mRunSequence) = 1 .. Len(mRunSequence) - 1
          /\ Tail(mRunSequence)[k - 1] = mRunSequence[(k - 1) + 1]
      BY <1>2, <2>2, <3>1, HeadTailProperties, LenProperties
    <3>3. (k - 1) + 1 = k
      BY <2>4
    <3>4. k - 1 \in DOMAIN mRunSequence' /\ mRunSequence'[k - 1] = n
      BY <2>1, <2>3, <3>1, <3>2, <3>3
    <3> QED BY <3>4 DEF Queued
  <2> QED BY <2>5, <2>6
<1>4. \A n \in Nodes : ~Held(n)
  BY <1>1 DEF Held
<1> QED BY <1>1, <1>3, <1>4, SchedulingKept DEF WellAndWanted

\* A node that is there starts.
LEMMA PostSchedules ==
  ASSUME Inv, Scheduling, Post, Missing = {}
  PROVE  Scheduling'
<1>1. PICK n : n = main.node
  OBVIOUS
<1>2. /\ main.pc = "post" /\ Goto(n, "input") /\ main' = [main EXCEPT !.pc = "count", !.ok = main.node \notin Missing]
      /\ UNCHANGED <<mDependenceNum, mRunSequence, mHasProcessError, abnormalCalls, mFlushStatus>>
  BY <1>1 DEF Post, runVars, flushVars
<1>3. n \in Nodes /\ At(n, "idle") /\ Typed
  BY <1>1, <1>2 DEF Inv, Once, Held
<1>4. /\ node'[n].pc = "input" /\ \A m \in Nodes : m # n => node'[m] = node[m]
  BY <1>2, <1>3, Reached DEF NodePcs
<1>5. ASSUME NEW m \in Nodes PROVE TellsFirst(m)'
  <2>1. TellsFirst(m)
    BY DEF Scheduling
  <2>2. CASE m = n
    BY <1>4, <2>2 DEF TellsFirst, At
  <2>3. CASE m # n
    BY <1>2, <1>4, <2>1, <2>3 DEF TellsFirst, At
  <2> QED BY <2>2, <2>3
<1>6. ASSUME WellAndWanted', NEW m \in Nodes PROVE Due(m)'
  <2>1. Due(m)
    BY <1>2, <1>6 DEF Scheduling, WellAndWanted
  <2>2. ASSUME NEW l \in Into(m), ~Settled(l) PROVE ~Settled(l)'
    <3>1. CASE links[l].src = n
      BY <1>4, <3>1 DEF Settled
    <3>2. CASE links[l].src # n
      <4>1. node'[links[l].src] = node[links[l].src]
        BY <1>4, <3>2, LinksInto
      <4> QED BY <2>2, <4>1 DEF Settled
    <3> QED BY <3>1, <3>2
  <2>3. ASSUME NEW l \in Into(m), Settled(l) PROVE Settled(l)'
    BY <2>3, PostSettles, LinksInto DEF Settling
  <2>4. Unsettled(m)' = Unsettled(m)
    BY <2>2, <2>3 DEF Unsettled
  <2>5. OnItsWay(m) => OnItsWay(m)'
    <3>1. Held(m) => m = n
      BY <1>1 DEF Held
    <3>2. Queued(m) => Queued(m)'
      BY <1>2 DEF Queued
    <3>3. m = n => ~At(m, "idle")'
      BY <1>4 DEF At
    <3>4. m # n => (At(m, "idle")' <=> At(m, "idle"))
      BY <1>4 DEF At
    <3> QED BY <3>1, <3>2, <3>3, <3>4 DEF OnItsWay
  <2> QED BY <1>2, <2>1, <2>4, <2>5 DEF Due
<1>7. mHasProcessError' => abnormalCalls' = 1
  BY <1>2 DEF Scheduling
<1> QED BY <1>5, <1>6, <1>7 DEF Scheduling

LEMMA MainSchedules ==
  ASSUME Inv, Told, Scheduling, Missing = {}, ~TopologyError, postProcTask
  PROVE  Scheduling'
<1>1. CASE CountRunning \/ WaitForNodes \/ ReleasePort \/ ReleaseRest
  <2>1. /\ UNCHANGED <<node, mDependenceNum, mHasProcessError, abnormalCalls, mFlushStatus, mRunSequence>>
        /\ main.pc \notin {"start", "prepare", "post"}
    BY <1>1 DEF CountRunning, WaitForNodes, ReleasePort, ReleaseRest, runVars, flushVars
  <2>2. \A n \in Nodes : Queued(n) \/ Held(n) => Queued(n)' \/ Held(n)'
    BY <2>1 DEF Queued, Held
  <2> QED BY <2>1, <2>2, SchedulingKept DEF WellAndWanted
<1> QED BY <1>1, StartSchedules, PrepareSchedules, TakeSchedules, PostSchedules DEF postProcTask

\* Nodes that end well have taken a frame, whatever their input.
LEMMA EarnedKept ==
  ASSUME Inv, \A n \in Nodes : Earned(n), [Next]_vars
  PROVE  \A n \in Nodes : Earned(n)'
<1>1. CASE UNCHANGED node
  BY <1>1 DEF Earned, Succeeding
<1>2. CASE \E k \in Nodes : processTask(k)
  <2>1. PICK k \in Nodes : processTask(k)
    BY <1>2
  <2>2. Earned(k)' /\ \A m \in Nodes : m # k => node'[m] = node[m]
    BY <2>1, EarnedStep, NodeStep DEF Moves, Inv
  <2> QED BY <2>2 DEF Earned, Succeeding
<1>3. CASE Post /\ Goto(main.node, "input")
  <2>1. main.node \in Nodes /\ Typed
    BY <1>3 DEF Inv, Once, Post
  <2>2. node'[main.node].pc = "input" /\ \A m \in Nodes : m # main.node => node'[m] = node[m]
    BY <1>3, <2>1, Reached DEF NodePcs
  <2> QED BY <2>2 DEF Earned, Succeeding
<1>4. ASSUME [Next]_vars
      PROVE  UNCHANGED node \/ (\E k \in Nodes : processTask(k)) \/ (Post /\ Goto(main.node, "input"))
  BY <1>4 DEF Next, vars, Deliver, postProcTask, Start, Prepare, Take, Post, CountRunning, WaitForNodes,
    ReleasePort, ReleaseRest, PluginReleasesInput, PluginReleasesOutput, quickFinish, SetFlushStatus,
    ReleasePorts, ReleaseNodes
<1> QED BY <1>1, <1>2, <1>3, <1>4

LEMMA AskedKept == Asked /\ [Next]_vars => Asked'
<1> SUFFICES ASSUME Asked, [Next]_vars PROVE Asked'
  OBVIOUS
<1>1. UNCHANGED <<quickCalls, mFlushStatus>> \/ quickCalls' = quickCalls + 1
  <2>1. CASE \E p \in Ports : Deliver(p)
    BY <2>1 DEF Deliver, flushVars
  <2>2. CASE postProcTask
    BY <2>2 DEF postProcTask, Start, Prepare, Take, Post, CountRunning, WaitForNodes, ReleasePort,
      ReleaseRest, flushVars
  <2>3. ASSUME NEW n \in Nodes, processTask(n) PROVE UNCHANGED <<quickCalls, mFlushStatus>>
    <3>1. CASE betweenFrames(n) \/ notifyNextNode(n)
      BY <3>1 DEF betweenFrames, notifyNextNode, ReleaseOneInput, DependInput, ReleaseOneOutput, DependOutput,
        StartChildren, Notify, ReleaseAllInput, ReleaseLink, DependLink, Finish, Callback,
        ReleaseSinkOnError, Fail, flushVars
    <3>2. CASE ~(betweenFrames(n) \/ notifyNextNode(n))
      BY <2>3, <3>2 DEF processTask, GetInput, NotEffective, GetOutput, NoOutput, PluginFails, PluginReturns,
        flushVars
    <3> QED BY <3>1, <3>2
  <2>4. CASE \E n \in Nodes : PluginReleasesInput(n) \/ PluginReleasesOutput(n)
    BY <2>4 DEF PluginReleasesInput, PluginReleasesOutput, flushVars
  <2>5. CASE quickFinish
    BY <2>5 DEF quickFinish, SetFlushStatus, ReleasePorts, ReleaseNodes
  <2>6. CASE UNCHANGED vars
    BY <2>6 DEF vars, flushVars
  <2> QED BY <2>1, <2>2, <2>3, <2>4, <2>5, <2>6 DEF Next
<1> QED BY <1>1 DEF Asked

\* Of some nodes, one comes first.
LEMMA FirstByRank ==
  ASSUME NEW rank \in [Nodes -> Nat], NEW S, S \subseteq Nodes, S # {}
  PROVE  \E n \in S : \A m \in S : ~(rank[m] < rank[n])
<1> DEFINE Below(n) == {k \in S : rank[k] < rank[n]}
           All == {Below(n) : n \in S}
<1>1. IsFiniteSet(S)
  BY FiniteNodes
<1>2. All \subseteq FiniteSubsetsOf(S) /\ All # {}
  <2>1. FiniteSubsetsOf(S) = SUBSET S
    BY <1>1, FS_FiniteSubsetsOfFinite
  <2>2. \A n \in S : Below(n) \in SUBSET S
    OBVIOUS
  <2> HIDE DEF Below
  <2> QED BY <2>1, <2>2
<1>3. \E x \in All : \A y \in All : <<y, x>> \notin StrictSubsetOrdering(S)
  BY <1>2, FS_StrictSubsetOrderingWellFounded, WFMin
<1>4. PICK n \in S : \A k \in S : <<Below(k), Below(n)>> \notin StrictSubsetOrdering(S)
  BY <1>3
<1>5. ASSUME NEW k \in S, rank[k] < rank[n] PROVE FALSE
  <2>0. \A m \in S : rank[m] \in Nat
    OBVIOUS
  <2>1. Below(k) \subseteq Below(n)
    BY <1>5, <2>0
  <2>2. k \in Below(n) /\ k \notin Below(k)
    BY <1>5, <2>0
  <2>3. Below(k) \in SUBSET S /\ Below(n) \in SUBSET S
    OBVIOUS
  <2> HIDE DEF Below
  <2>4. <<Below(k), Below(n)>> \in StrictSubsetOrdering(S)
    BY <2>1, <2>2, <2>3 DEF StrictSubsetOrdering
  <2> QED BY <1>4, <2>4
<1> QED BY <1>4, <1>5

\* A request that nobody has given up, and of which no failure was told, ends with
\* all its nodes: a node that was left out would have one before it that was left
\* out too.
LEMMA AllEndWell ==
  ASSUME Inv, Told, Scheduling, WellAndWanted, main.pc = "finished",
         NEW rank \in [Nodes -> Nat],
         \A n \in Nodes : \A l \in Into(n) : rank[links[l].src] < rank[n]
  PROVE  \A n \in Nodes : At(n, "done") /\ node[n].ok
<1>1. mRunSequence = <<>> /\ Active = {} /\ DOMAIN <<>> = {}
  BY DEF Inv, Running
<1>2. \A n \in Nodes : At(n, "idle") \/ At(n, "done")
  BY <1>1 DEF Active, At
<1>3. \A n \in Nodes : At(n, "done") => node[n].ok /\ node[n].left = {}
  <2> SUFFICES ASSUME NEW n \in Nodes, At(n, "done") PROVE node[n].ok /\ node[n].left = {}
    OBVIOUS
  <2>1. TellsFirst(n)
    BY DEF Scheduling
  <2>2. abnormalCalls # 1
    BY DEF WellAndWanted
  <2> QED BY <2>1, <2>2 DEF TellsFirst
<1> DEFINE S == {n \in Nodes : At(n, "idle")}
<1>4. ASSUME S # {} PROVE FALSE
  <2>1. S \subseteq Nodes
    OBVIOUS
  <2> HIDE DEF S
  <2>2. PICK n \in S : \A m \in S : ~(rank[m] < rank[n])
    BY <1>4, <2>1, FirstByRank
  <2> USE DEF S
  <2>3. n \in Nodes /\ At(n, "idle")
    OBVIOUS
  <2>4. ~OnItsWay(n)
    BY <1>1, <2>3 DEF OnItsWay, Queued, Held
  <2>5. Due(n) /\ mDependenceNum[n] \in Int
    BY <2>3 DEF Scheduling, Inv, Typed
  <2>6. Cardinality(Unsettled(n)) > 0
    <3>1. Unsettled(n) \subseteq LinkIds
      BY <2>3, LinksInto DEF Unsettled
    <3>2. Cardinality(Unsettled(n)) \in Nat
      BY <3>1, FiniteLinks
    <3> QED BY <2>4, <2>5, <3>2 DEF Due
  <2>7. PICK l : l \in Unsettled(n)
    BY <2>6, FS_EmptySet
  <2>8. l \in Into(n) /\ ~Settled(l) /\ links[l].src \in Nodes
    BY <2>3, <2>7, LinksInto DEF Unsettled
  <2>9. rank[links[l].src] < rank[n]
    BY <2>3, <2>8
  <2>10. ~At(links[l].src, "idle")
    BY <2>2, <2>8, <2>9
  <2>11. At(links[l].src, "done")
    BY <1>2, <2>8, <2>10
  <2> QED BY <1>3, <2>8, <2>11 DEF Settled, At
<1> QED BY <1>2, <1>3, <1>4

-----------------------------------------------------------------------------
(* Sink images *)

Output(l) == {<<Type(l), l, k>> : k \in Nat}
ImagesOf(l) == {<<"SinkLink", l, k>> : k \in 1 .. links[l].num}

\* A node that takes all its images at once makes its output once.
Fresh(n) ==
  ~Has(n, "VIRTUAL") /\ ~Has(n, "SIGFRAME") /\ node[n].pc \in {"idle", "input", "check"} => node[n].frames = 0

\* A sink image is only ever in the queue of its link: first not yet, then it is
\* there, and then the application has it.
Shown(l, i) ==
  /\ Used(i) = 0 /\ useCount[i] = Refs(i, outQ[l])
  /\ IF node[links[l].src].frames = 0 THEN Refs(i, outQ[l]) = 0 ELSE Refs(i, outQ[l]) > 0 \/ i \in returned

Owned == \A l \in LinkIds : outQ[l] \in Seq(Output(l))

SinksKept ==
  /\ Owned /\ (main.pc = "finished" => \A l \in LinkIds : outQ[l] = <<>>)
  /\ \A n \in Nodes : Fresh(n)
  /\ \A l \in SinkLinks : \A i \in ImagesOf(l) : Shown(l, i)

LEMMA SinkKnown ==
  ASSUME NEW l \in SinkLinks
  PROVE  /\ l \in LinkIds /\ Type(l) = "SinkLink" /\ links[l].src \in Nodes
         /\ l \in OutLinks[links[l].src] /\ ~isInplaceNode(links[l].src) /\ links[l].num \in Nat
         /\ \A n \in Nodes : l \in OutLinks[n] => n = links[l].src
<1>1. l \in LinkIds /\ Type(l) = "SinkLink"
  BY DEF SinkLinks
<1>2. links[l].src \in Nodes /\ links[l].num \in Nat
  BY <1>1, PipelineAssumption
<1>3. l \in OutLinks[links[l].src]
  BY <1>1, <1>2 DEF OutLinks
<1>4. ~isInplaceNode(links[l].src)
  BY <1>1, <1>3 DEF isInplaceNode
<1> QED BY <1>1, <1>2, <1>3, <1>4, LinksOut

LEMMA SinkImageKnown ==
  ASSUME NEW l \in SinkLinks, NEW i \in ImagesOf(l)
  PROVE  /\ i \in SinkImages /\ i \in Images /\ i \notin SourceImages /\ i \in Output(l)
         /\ \A j \in LinkIds : j # l => i \notin Output(j)
<1>1. PICK k \in 1 .. links[l].num : i = <<"SinkLink", l, k>>
  BY DEF ImagesOf
<1>2. l \in LinkIds /\ Type(l) = "SinkLink" /\ links[l].num \in Nat
  BY SinkKnown
<1>3. l \in LinkIds \ SourceLinks
  BY <1>2 DEF SourceLinks
<1>4. i \in {<<Type(l), l, j>> : j \in 1 .. links[l].num}
  BY <1>1, <1>2
<1>5. i \in MadeImages
  BY <1>3, <1>4 DEF MadeImages
<1>6. i \in SinkImages /\ i \in Images
  BY <1>1, <1>5 DEF SinkImages, Images
<1>7. i \notin SourceImages
  BY <1>1 DEF SourceImages
<1>8. k \in Nat
  BY <1>1, <1>2
<1>9. i \in Output(l)
  BY <1>1, <1>2, <1>8 DEF Output
<1>10. \A j \in LinkIds : j # l => i \notin Output(j)
  BY <1>1 DEF Output
<1> QED BY <1>6, <1>7, <1>9, <1>10

LEMMA SinkImagesAre == \A i \in SinkImages : \E l \in SinkLinks : i \in ImagesOf(l)
<1> SUFFICES ASSUME NEW i \in SinkImages PROVE \E l \in SinkLinks : i \in ImagesOf(l)
  OBVIOUS
<1>1. PICK l \in LinkIds \ SourceLinks : \E k \in 1 .. links[l].num : i = <<Type(l), l, k>>
  BY DEF SinkImages, MadeImages
<1>2. Type(l) = "SinkLink"
  BY <1>1 DEF SinkImages
<1> QED BY <1>1, <1>2 DEF SinkLinks, ImagesOf

\* Steps that leave a sink image where it is.
LEMMA ShownSame ==
  ASSUME NEW l \in SinkLinks, NEW i, Shown(l, i), Used(i)' = Used(i), useCount'[i] = useCount[i],
         outQ'[l] = outQ[l], returned \subseteq returned',
         node'[links[l].src].frames = node[links[l].src].frames
  PROVE  Shown(l, i)'
BY DEF Shown

LEMMA OthersReleased ==
  ASSUME Stored, NEW V, NEW q \in Seq(V), ReleaseBuffers(q), NEW i \in Images, Refs(i, q) = 0
  PROVE  useCount'[i] = useCount[i] /\ returned \subseteq returned'
<1>1. useCount'[i] = useCount[i] - Refs(i, q) /\ useCount[i] \in Int
  BY CountsReleased
<1>2. returned \subseteq returned'
  BY DEF ReleaseBuffers
<1> QED BY <1>1, <1>2

LEMMA Parts ==
  ASSUME NEW V, NEW W, NEW a \in Seq(V), NEW b \in Seq(V), a \o b \in Seq(W)
  PROVE  a \in Seq(W) /\ b \in Seq(W)
<1>1. /\ Len(a) \in Nat /\ Len(b) \in Nat /\ Len(a \o b) = Len(a) + Len(b)
      /\ \A k \in 1 .. Len(a) : (a \o b)[k] = a[k]
      /\ \A k \in 1 .. Len(b) : (a \o b)[Len(a) + k] = b[k]
  <2>1. Len(a) \in Nat /\ Len(b) \in Nat
    OBVIOUS
  <2>2. ASSUME NEW k \in 1 .. Len(b) PROVE (a \o b)[Len(a) + k] = b[k]
    BY <2>1
  <2> QED BY <2>1, <2>2
<1>2. PICK c : c = a \o b
  OBVIOUS
<1>3. c \in Seq(W) /\ \A k \in 1 .. Len(c) : c[k] \in W
  BY <1>2
<1>4. ASSUME NEW k \in 1 .. Len(a) PROVE a[k] \in W
  <2>1. k \in 1 .. Len(c) /\ c[k] = a[k]
    BY <1>1, <1>2
  <2> QED BY <1>3, <2>1
<1>5. ASSUME NEW k \in 1 .. Len(b) PROVE b[k] \in W
  <2>1. Len(a) + k \in 1 .. Len(c) /\ c[Len(a) + k] = b[k]
    BY <1>1, <1>2
  <2> QED BY <1>3, <2>1
<1>6. a \in Seq(W)
  BY <1>4
<1>7. b \in Seq(W)
  BY <1>5
<1> QED BY <1>6, <1>7

\* releaseOutBuffers leaves the images of other links alone, and gives those of a
\* sink link to the application.
LEMMA OutputShown ==
  ASSUME Stored, Owned, NEW j \in LinkIds, NEW n \in Nat, releaseOutBuffers(j, n),
         UNCHANGED <<sourceQ, usingQ>>
  PROVE  /\ Owned'
         /\ \A l \in SinkLinks : \A i \in ImagesOf(l) :
              Shown(l, i) /\ node'[links[l].src].frames = node[links[l].src].frames => Shown(l, i)'
<1>1. outQ \in [LinkIds -> Seq(Made)]
  BY DEF Stored, Family
<1>2. CASE Type(j) = "SinkLink"
  <2>1. PICK q : q = outQ[j]
    OBVIOUS
  <2>2. ReleaseBuffers(q) /\ outQ' = [outQ EXCEPT ![j] = <<>>] /\ inQ' = inQ /\ q \in Seq(Output(j))
    BY <1>2, <2>1 DEF releaseOutBuffers, Owned
  <2>3. Owned'
    <3>1. <<>> \in Seq(Output(j))
      OBVIOUS
    <3> QED BY <1>1, <2>2, <3>1 DEF Owned
  <2>4. ASSUME NEW l \in SinkLinks, NEW i \in ImagesOf(l), Shown(l, i),
               node'[links[l].src].frames = node[links[l].src].frames
        PROVE  Shown(l, i)'
    <3>1. Used(i)' = Used(i)
      BY <2>2 DEF Used
    <3>2. CASE j = l
      <4>1. i \in Images /\ i \in SinkImages
        BY SinkImageKnown
      <4>2. useCount'[i] = useCount[i] - Refs(i, q) /\ useCount[i] \in Int
        BY <2>2, <4>1, CountsReleased
      <4>3. useCount[i] = Refs(i, q)
        BY <2>1, <2>4, <3>2 DEF Shown
      <4>4. Refs(i, q) > 0 \/ i \in returned => i \in returned'
        BY <2>2, <4>1, <4>3 DEF ReleaseBuffers
      <4>5. outQ'[l] = <<>> /\ Refs(i, <<>>) = 0
        <5>1. outQ'[l] = <<>>
          BY <1>1, <2>2, <3>2
        <5>2. {k \in DOMAIN <<>> : <<>>[k] = i} = {}
          OBVIOUS
        <5> QED BY <5>1, <5>2, FS_EmptySet DEF Refs
      <4>6. Used(i) = 0 /\ (node[links[l].src].frames # 0 => Refs(i, q) > 0 \/ i \in returned)
        BY <2>1, <2>4, <3>2 DEF Shown
      <4> QED BY <2>4, <3>1, <4>2, <4>3, <4>4, <4>5, <4>6 DEF Shown
    <3>3. CASE j # l
      <4>1. i \in Images /\ i \notin Output(j) /\ l \in LinkIds
        BY <3>3, SinkImageKnown, SinkKnown
      <4>2. Refs(i, q) = 0
        BY <2>2, <4>1, RefsElsewhere
      <4>3. useCount'[i] = useCount[i] /\ returned \subseteq returned'
        BY <2>2, <4>1, <4>2, OthersReleased
      <4>4. outQ'[l] = outQ[l]
        BY <1>1, <2>2, <3>3, <4>1
      <4> QED BY <2>4, <3>1, <4>3, <4>4, ShownSame
    <3> QED BY <3>2, <3>3
  <2> QED BY <2>3, <2>4
<1>3. CASE Type(j) # "SinkLink"
  <2>1. PICK a, b :
          /\ a \in Seq(Made) /\ b \in Seq(Made) /\ outQ[j] = a \o b /\ outQ' = [outQ EXCEPT ![j] = b]
          /\ UNCHANGED <<useCount, returned>>
          /\ \A i : Number(inQ', i) = Number(inQ, i) \/ Number(inQ', i) = Number(inQ, i) + Refs(i, a)
    BY <1>3, OutputPushed
  <2>2. a \in Seq(Output(j)) /\ b \in Seq(Output(j))
    <3>1. a \o b \in Seq(Output(j))
      BY <2>1 DEF Owned
    <3> QED BY <2>1, <3>1, Parts
  <2>3. Owned'
    BY <1>1, <2>1, <2>2 DEF Owned
  <2>4. ASSUME NEW l \in SinkLinks, NEW i \in ImagesOf(l), Shown(l, i),
               node'[links[l].src].frames = node[links[l].src].frames
        PROVE  Shown(l, i)'
    <3>1. j # l /\ l \in LinkIds
      BY <1>3, SinkKnown
    <3>2. i \notin Output(j)
      BY <3>1, SinkImageKnown
    <3>3. Refs(i, a) = 0
      BY <2>2, <3>2, RefsElsewhere
    <3>4. Number(inQ, i) \in Nat
      BY UsedCounted
    <3>5. Number(inQ', i) = Number(inQ, i)
      BY <2>1, <3>3, <3>4
    <3>6. Used(i)' = Used(i)
      BY <3>5 DEF Used
    <3>7. outQ'[l] = outQ[l]
      BY <1>1, <2>1, <3>1
    <3> QED BY <2>1, <2>4, <3>6, <3>7, ShownSame
  <2> QED BY <2>3, <2>4
<1> QED BY <1>2, <1>3

LEMMA NewOwn ==
  ASSUME Typed, NEW n \in Nodes, NEW l \in LinkIds
  PROVE  /\ NewOutput(n, l) \in Seq(Output(l))
         /\ \A k \in 1 .. links[l].num :
              (Has(n, "SIGGETOUTPUT") => links[l].num <= 1) =>
                Refs(<<Type(l), l, k>>, NewOutput(n, l)) =
                  IF node[n].frames = 0 \/ ~Has(n, "SIGGETOUTPUT") THEN 1 ELSE 0
<1>1. PICK first, last, m :
        /\ first = (IF Has(n, "SIGGETOUTPUT") THEN node[n].frames + 1 ELSE 1)
        /\ last = (IF Has(n, "SIGGETOUTPUT") THEN first ELSE links[l].num) /\ m = last - first + 1
  OBVIOUS
<1>2. node[n].frames \in Nat /\ links[l].num \in Nat
  BY PipelineAssumption DEF Typed, Threads
<1>3. first \in Nat /\ first >= 1 /\ m \in Nat /\ (Has(n, "SIGGETOUTPUT") => first = node[n].frames + 1 /\ m = 1)
  <2>1. CASE Has(n, "SIGGETOUTPUT")
    <3>1. first = node[n].frames + 1 /\ last = first
      BY <1>1, <2>1
    <3>2. first \in Nat /\ first >= 1
      BY <1>2, <3>1
    <3>3. m = first - first + 1
      BY <1>1, <3>1
    <3> QED BY <3>1, <3>2, <3>3
  <2>2. CASE ~Has(n, "SIGGETOUTPUT")
    <3>1. first = 1 /\ last = links[l].num
      BY <1>1, <2>2
    <3>2. m = last - first + 1
      BY <1>1
    <3> QED BY <1>2, <2>2, <3>1, <3>2
  <2> QED BY <2>1, <2>2
<1>4. NewOutput(n, l) = [k \in 1 .. m |-> <<Type(l), l, first + k - 1>>]
  BY <1>1 DEF NewOutput
<1>5. \A k \in 1 .. m : <<Type(l), l, first + k - 1>> \in Output(l)
  <2>1. \A k \in 1 .. m : first + k - 1 \in Nat
    BY <1>3
  <2> QED BY <2>1 DEF Output
<1>6. NewOutput(n, l) \in Seq(Output(l))
  <2>1. PICK V, c : V = Output(l) /\ c = m /\ c \in Nat
    BY <1>3
  <2>2. \A k \in 1 .. c : <<Type(l), l, first + k - 1>> \in V
    BY <1>5, <2>1
  <2>3. [k \in 1 .. c |-> <<Type(l), l, first + k - 1>>] \in Seq(V)
    BY <2>1, <2>2
  <2> QED BY <1>4, <2>1, <2>3
<1>7. ASSUME NEW k \in 1 .. links[l].num, Has(n, "SIGGETOUTPUT") => links[l].num <= 1
      PROVE  Refs(<<Type(l), l, k>>, NewOutput(n, l)) =
               IF node[n].frames = 0 \/ ~Has(n, "SIGGETOUTPUT") THEN 1 ELSE 0
  <2>1. PICK i, q, S : i = <<Type(l), l, k>> /\ q = NewOutput(n, l) /\ S = {j \in DOMAIN q : q[j] = i}
    OBVIOUS
  <2>2. S = {j \in 1 .. m : first + j - 1 = k}
    <3>1. DOMAIN q = 1 .. m
      BY <1>4, <2>1
    <3>2. ASSUME NEW j \in 1 .. m PROVE q[j] = i <=> first + j - 1 = k
      <4>1. q[j] = <<Type(l), l, first + j - 1>>
        BY <1>4, <2>1
      <4> QED BY <2>1, <4>1
    <3> QED BY <2>1, <3>1, <3>2
  <2>3. k \in Nat /\ k >= 1 /\ k <= links[l].num
    BY <1>2
  <2>4. CASE ~Has(n, "SIGGETOUTPUT")
    <3>1. first = 1 /\ m = links[l].num
      BY <1>1, <1>2, <2>4
    <3>2. S = {k}
      BY <1>3, <2>2, <2>3, <3>1
    <3> QED BY <2>1, <2>4, <3>2, FS_Singleton DEF Refs
  <2>5. CASE Has(n, "SIGGETOUTPUT")
    <3>1. first = node[n].frames + 1 /\ m = 1 /\ k = 1
      BY <1>2, <1>3, <1>7, <2>3, <2>5
    <3>2. CASE node[n].frames = 0
      <4>1. S = {1}
        BY <2>2, <3>1, <3>2
      <4> QED BY <2>1, <3>2, <4>1, FS_Singleton DEF Refs
    <3>3. CASE node[n].frames # 0
      <4>1. S = {}
        BY <1>2, <2>2, <3>1, <3>3
      <4> QED BY <2>1, <2>5, <3>3, <4>1, FS_EmptySet DEF Refs
    <3> QED BY <3>2, <3>3
  <2> QED BY <2>4, <2>5
<1> QED BY <1>6, <1>7

\* A node makes each of its sink images with its first frame.
LEMMA OutputMade ==
  ASSUME Typed, Stored, Owned, NEW n \in Nodes, Fresh(n), GetOutput(n)
  PROVE  /\ Owned'
         /\ \A l \in SinkLinks : \A i \in ImagesOf(l) :
              MadeAtOnce(l) /\ Shown(l, i) => Shown(l, i)'
<1>1. /\ node' = [node EXCEPT ![n].pc = "plugin", ![n].frames = node[n].frames + 1] /\ node[n].pc = "check"
      /\ UNCHANGED <<sourceQ, inQ, usingQ, returned>>
  BY DEF GetOutput, sourceVars, At
<1>2. /\ node'[n].frames = node[n].frames + 1 /\ node[n].frames \in Nat
      /\ \A m \in Nodes : m # n => node'[m].frames = node[m].frames
  BY <1>1, RecordTyped DEF Threads
<1>3. outQ \in [LinkIds -> Seq(Made)]
  BY DEF Stored, Family
<1>4. CASE ~NeedsOutput(n)
  <2>1. UNCHANGED <<outQ, useCount>>
    BY <1>4 DEF GetOutput
  <2>2. ASSUME NEW l \in SinkLinks, NEW i \in ImagesOf(l), Shown(l, i) PROVE Shown(l, i)'
    <3>1. n = links[l].src => node[n].frames # 0
      BY <1>4, SinkKnown DEF NeedsOutput
    <3>2. node'[links[l].src].frames = 0 <=> node[links[l].src].frames = 0
      BY <1>2, <3>1, SinkKnown
    <3> QED BY <1>1, <2>1, <2>2, <3>2 DEF Shown, Used
  <2> QED BY <2>1, <2>2 DEF Owned
<1>5. CASE NeedsOutput(n)
  <2>1. /\ outQ' = [l \in LinkIds |-> IF l \in OutLinks[n] THEN outQ[l] \o NewOutput(n, l) ELSE outQ[l]]
        /\ useCount' = [i \in Images |-> IF \E l \in OutLinks[n] : Refs(i, NewOutput(n, l)) > 0
                                         THEN 1 ELSE useCount[i]]
    BY <1>5 DEF GetOutput
  <2>2. Owned'
    <3>1. ASSUME NEW l \in LinkIds PROVE outQ'[l] \in Seq(Output(l))
      <4>1. outQ[l] \in Seq(Output(l)) /\ NewOutput(n, l) \in Seq(Output(l))
        BY NewOwn DEF Owned
      <4>2. outQ[l] \o NewOutput(n, l) \in Seq(Output(l))
        BY <4>1, ConcatProperties
      <4> QED BY <2>1, <4>1, <4>2
    <3> QED BY <3>1 DEF Owned
  <2>3. ASSUME NEW l \in SinkLinks, NEW i \in ImagesOf(l), Shown(l, i), MadeAtOnce(l)
        PROVE  Shown(l, i)'
    <3>1. l \in LinkIds /\ Type(l) = "SinkLink" /\ links[l].src \in Nodes /\ (l \in OutLinks[n] <=> n = links[l].src)
      BY SinkKnown
    <3>2. i \in Images /\ Used(i)' = Used(i)
      BY <1>1, SinkImageKnown DEF Used
    <3>3. ASSUME NEW m \in OutLinks[n], m # l PROVE Refs(i, NewOutput(n, m)) = 0
      <4>1. m \in LinkIds
        BY LinksOut
      <4>2. i \notin Output(m) /\ NewOutput(n, m) \in Seq(Output(m))
        BY <3>3, <4>1, SinkImageKnown, NewOwn
      <4> QED BY <4>2, RefsElsewhere
    <3>4. CASE n # links[l].src
      <4>1. \A m \in OutLinks[n] : ~(Refs(i, NewOutput(n, m)) > 0)
        BY <3>1, <3>3, <3>4
      <4>2. useCount'[i] = useCount[i] /\ outQ'[l] = outQ[l]
        BY <2>1, <3>1, <3>2, <3>4, <4>1
      <4>3. node'[links[l].src].frames = node[links[l].src].frames /\ returned \subseteq returned'
        BY <1>1, <1>2, <3>1, <3>4
      <4> QED BY <2>3, <3>2, <4>2, <4>3, ShownSame
    <3>5. CASE n = links[l].src
      <4>1. PICK k \in 1 .. links[l].num : i = <<Type(l), l, k>>
        BY <3>1 DEF ImagesOf
      <4>2. PICK q : q = NewOutput(n, l)
        OBVIOUS
      <4>3. Refs(i, q) = IF node[n].frames = 0 \/ ~Has(n, "SIGGETOUTPUT") THEN 1 ELSE 0
        <5>1. Has(n, "SIGGETOUTPUT") => links[l].num <= 1
          BY <2>3, <3>5 DEF MadeAtOnce
        <5>2. Refs(<<Type(l), l, k>>, NewOutput(n, l)) =
                IF node[n].frames = 0 \/ ~Has(n, "SIGGETOUTPUT") THEN 1 ELSE 0
          BY <3>1, <4>1, <5>1, NewOwn
        <5> QED BY <4>1, <4>2, <5>2
      <4>4. outQ'[l] = outQ[l] \o q /\ Refs(i, outQ'[l]) = Refs(i, outQ[l]) + Refs(i, q) /\ Refs(i, outQ[l]) \in Nat
        <5>1. outQ[l] \in Seq(Output(l)) /\ q \in Seq(Output(l))
          BY <3>1, <4>2, NewOwn DEF Owned
        <5>2. outQ'[l] = outQ[l] \o q
          BY <2>1, <3>1, <3>5, <4>2
        <5>3. Refs(i, outQ[l] \o q) = Refs(i, outQ[l]) + Refs(i, q)
          BY <5>1, ConcatCounted
        <5> QED BY <5>1, <5>2, <5>3, RefsAreCounted
      <4>5. Used(i) = 0 /\ useCount[i] = Refs(i, outQ[l])
        BY <2>3 DEF Shown
      <4>6. CASE node[n].frames = 0
        <5>1. Refs(i, q) = 1 /\ Refs(i, outQ[l]) = 0
          BY <2>3, <3>5, <4>3, <4>6 DEF Shown
        <5>2. useCount'[i] = 1
          <6>1. Refs(i, NewOutput(n, l)) > 0 /\ l \in OutLinks[n]
            BY <3>1, <3>5, <4>2, <5>1
          <6> QED BY <2>1, <3>2, <6>1
        <5>3. Refs(i, outQ'[l]) = 1
          BY <4>4, <5>1
        <5>4. Used(i)' = 0
          BY <3>2, <4>5
        <5> QED BY <1>2, <3>5, <4>6, <5>2, <5>3, <5>4 DEF Shown
      <4>7. CASE node[n].frames # 0
        <5>1. Has(n, "SIGGETOUTPUT")
          BY <1>1, <1>5, <2>3, <3>5, <4>7 DEF Fresh, NeedsOutput, MadeAtOnce
        <5>2. Refs(i, q) = 0
          BY <4>3, <4>7, <5>1
        <5>3. \A m \in OutLinks[n] : ~(Refs(i, NewOutput(n, m)) > 0)
          BY <3>3, <4>2, <5>2
        <5>4. useCount'[i] = useCount[i]
          BY <2>1, <3>2, <5>3
        <5>5. Refs(i, outQ'[l]) = Refs(i, outQ[l])
          BY <4>4, <5>2
        <5>6. Refs(i, outQ[l]) > 0 \/ i \in returned
          BY <2>3, <3>5, <4>7 DEF Shown
        <5>7. Used(i)' = 0 /\ useCount'[i] = Refs(i, outQ'[l])
          BY <3>2, <4>5, <5>4, <5>5
        <5>8. node'[links[l].src].frames # 0 /\ (Refs(i, outQ'[l]) > 0 \/ i \in returned')
          BY <1>1, <1>2, <3>5, <5>5, <5>6
        <5> QED BY <5>7, <5>8 DEF Shown
      <4> QED BY <4>6, <4>7
    <3> QED BY <3>4, <3>5
  <2> QED BY <2>2, <2>3
<1> QED BY <1>4, <1>5

\* Input images that are released or passed on are no sink images.
LEMMA InputShown ==
  ASSUME Stored, NEW n \in Nodes, NEW q \in Seq(AnyImage), Gone(q),
         MoveToChildren(n, q) \/ (ReleaseBuffers(q) /\ UNCHANGED inQ), UNCHANGED <<sourceQ, outQ>>,
         NEW l \in SinkLinks, NEW i \in ImagesOf(l), Shown(l, i),
         node'[links[l].src].frames = node[links[l].src].frames
  PROVE  Shown(l, i)'
<1>1. i \in Images
  BY SinkImageKnown
<1>2. Number(sourceQ, i) = 0 /\ Number(inQ, i) = 0 /\ Number(usingQ, i) = 0
  <2>1. Number(sourceQ, i) \in Nat /\ Number(inQ, i) \in Nat /\ Number(usingQ, i) \in Nat
    BY UsedCounted
  <2> QED BY <2>1 DEF Shown, Used
<1>3. Refs(i, q) = 0 /\ Number(usingQ', i) = 0
  <2>1. PICK R : R = usingQ'
    OBVIOUS
  <2>2. R \in Family(LinkIds, AnyImage) /\ Number(usingQ, i) = Number(R, i) + Refs(i, q)
    BY <2>1 DEF Gone
  <2>3. Number(R, i) \in Nat /\ Refs(i, q) \in Nat
    BY <2>2, FiniteKeys, FiniteSpots, RefsAreCounted
  <2> QED BY <1>2, <2>1, <2>2, <2>3
<1>4. CASE MoveToChildren(n, q)
  <2>1. PICK c, d : c = Cardinality(OutLinks[n] \ inClosed) /\ d = Cardinality(OutLinks[n])
    OBVIOUS
  <2>2. c \in Nat /\ d \in Nat
    <3>1. OutLinks[n] \subseteq LinkIds /\ OutLinks[n] \ inClosed \subseteq LinkIds
      BY LinksOut
    <3> QED BY <2>1, <3>1, FiniteLinks
  <2>3. Number(inQ', i) = Number(inQ, i) + c * Refs(i, q)
    BY <1>4, <2>1, PassedOnCounted
  <2>4. useCount'[i] = useCount[i] + (d - 1) * Refs(i, q) /\ useCount[i] \in Int /\ returned' = returned
    BY <1>1, <1>4, <2>1 DEF MoveToChildren, Stored
  <2>5. c * 0 = 0 /\ (d - 1) * 0 = 0
    BY <2>2
  <2>6. Number(inQ', i) = 0 /\ useCount'[i] = useCount[i]
    BY <1>2, <1>3, <2>3, <2>4, <2>5
  <2>7. Used(i)' = Used(i)
    BY <1>2, <1>3, <2>6 DEF Used
  <2> QED BY <2>4, <2>6, <2>7, ShownSame
<1>5. CASE ReleaseBuffers(q) /\ UNCHANGED inQ
  <2>1. useCount'[i] = useCount[i] /\ returned \subseteq returned'
    BY <1>1, <1>3, <1>5, OthersReleased
  <2>2. Used(i)' = Used(i)
    BY <1>2, <1>3, <1>5 DEF Used
  <2> QED BY <2>1, <2>2, ShownSame
<1> QED BY <1>4, <1>5

\* A node's thread leaves the frames of nodes that are not virtual alone until it
\* gets output images.
LEMMA FramesStay ==
  ASSUME Inv, NEW n \in Nodes, Earned(n), processTask(n), ~GetOutput(n),
         NEW m \in Nodes, ~Has(m, "VIRTUAL")
  PROVE  node'[m].frames = node[m].frames
<1>1. Turns(n) /\ Moves(n)
  BY EarnedStep, NodeStep DEF Inv
<1> QED BY <1>1 DEF Turns, Moves

LEMMA StaysFresh ==
  ASSUME Inv, NEW n \in Nodes, Earned(n), processTask(n), NEW m \in Nodes, Fresh(m)
  PROVE  Fresh(m)'
<1>1. Turns(n) /\ Moves(n)
  BY EarnedStep, NodeStep DEF Inv
<1>2. CASE m # n
  BY <1>1, <1>2 DEF Moves, Fresh
<1>3. CASE m = n
  <2> SUFFICES ASSUME ~Has(n, "VIRTUAL"), ~Has(n, "SIGFRAME"), node'[n].pc \in {"idle", "input", "check"}
               PROVE  node'[n].frames = 0
    BY <1>3 DEF Fresh
  <2>1. GetInput(n)
    BY <1>1 DEF Turns, Moves
  <2>2. node[n].pc = "input" /\ ~GetOutput(n)
    BY <2>1 DEF GetInput, GetOutput, At
  <2>3. node[n].frames = 0
    BY <1>3, <2>2 DEF Fresh
  <2> QED BY <2>2, <2>3, FramesStay
<1> QED BY <1>2, <1>3

\* A node's thread, or its plugin, moves sink images on.
LEMMA ThreadShows ==
  ASSUME Inv, Stored, NEW n \in Nodes, Earned(n), Fresh(n), Owned,
         processTask(n) \/ PluginReleasesInput(n) \/ PluginReleasesOutput(n)
  PROVE  Owned' /\ \A l \in SinkLinks : \A i \in ImagesOf(l) : MadeAtOnce(l) /\ Shown(l, i) => Shown(l, i)'
<1>1. CASE processTask(n) /\ GetOutput(n)
  BY <1>1, OutputMade DEF Inv
<1> DEFINE Still(l) == node'[links[l].src].frames = node[links[l].src].frames
<1> SUFFICES ASSUME ~(processTask(n) /\ GetOutput(n))
             PROVE  Owned' /\ \A l \in SinkLinks : \A i \in ImagesOf(l) :
                                 Shown(l, i) /\ Still(l) => Shown(l, i)'
  <2>1. ASSUME NEW l \in SinkLinks, MadeAtOnce(l), ~(processTask(n) /\ GetOutput(n)) PROVE Still(l)
    <3>1. links[l].src \in Nodes /\ ~Has(links[l].src, "VIRTUAL")
      BY <2>1, SinkKnown DEF MadeAtOnce
    <3>2. CASE processTask(n)
      BY <2>1, <3>1, <3>2, FramesStay
    <3>3. CASE PluginReleasesInput(n) \/ PluginReleasesOutput(n)
      BY <3>3 DEF PluginReleasesInput, PluginReleasesOutput
    <3> QED BY <3>2, <3>3
  <2> QED BY <1>1, <2>1
<1> HIDE DEF Still
<1>2. CASE ReleaseOneOutput(n) \/ ReleaseLink(n) \/ ReleaseSinkOnError(n) \/ PluginReleasesOutput(n)
  <2>1. /\ UNCHANGED <<sourceQ, usingQ>>
        /\ \/ UNCHANGED <<inQ, outQ, useCount, returned>>
           \/ \E j \in LinkIds, m \in Nat : releaseOutBuffers(j, m)
    BY <1>2, ReleasesOutput
  <2>2. CASE \E j \in LinkIds, m \in Nat : releaseOutBuffers(j, m)
    BY <2>1, <2>2, OutputShown DEF Still
  <2>3. CASE UNCHANGED <<inQ, outQ, useCount, returned>>
    BY <2>1, <2>3, ShownSame DEF Owned, Still, Used
  <2> QED BY <2>1, <2>2, <2>3
<1>3. CASE ReleaseOneInput(n) \/ ReleaseAllInput(n)
  <2>1. /\ UNCHANGED <<sourceQ, outQ>>
        /\ \/ UNCHANGED <<inQ, usingQ, useCount, returned>>
           \/ \E q \in Seq(AnyImage) : Gone(q) /\ ReleaseInput(n, q)
    BY <1>3, TakenFromUse
  <2>2. CASE \E q \in Seq(AnyImage) : Gone(q) /\ ReleaseInput(n, q)
    BY <2>1, <2>2, InputShown DEF ReleaseInput, Owned, Still
  <2>3. CASE UNCHANGED <<inQ, usingQ, useCount, returned>>
    BY <2>1, <2>3, ShownSame DEF Owned, Still, Used
  <2> QED BY <2>1, <2>2, <2>3
<1>4. CASE PluginReleasesInput(n)
  <2>1. PICK l \in InLinks[n] : /\ usingQ[l] # <<>> /\ ReleaseBuffers(<<Head(usingQ[l])>>)
                                /\ usingQ' = [usingQ EXCEPT ![l] = Tail(usingQ[l])]
    BY <1>4 DEF PluginReleasesInput
  <2>2. l \in LinkIds /\ UNCHANGED <<inQ, sourceQ, outQ>>
    BY <1>4, LinksInto DEF PluginReleasesInput, sourceVars
  <2>3. PICK q : q = <<Head(usingQ[l])>>
    OBVIOUS
  <2>4. q \in Seq(AnyImage) /\ Gone(q) /\ ReleaseBuffers(q)
    BY <2>1, <2>2, <2>3, FirstGone
  <2> QED BY <2>2, <2>4, InputShown DEF Owned, Still
<1>5. CASE GetInput(n)
  <2>1. TakeInput(n) /\ UNCHANGED <<outQ, useCount, returned>>
    BY <1>5 DEF GetInput, imageVars
  <2>2. \A i : Used(i)' = Used(i)
    BY <2>1, InputTaken DEF Used
  <2> QED BY <2>1, <2>2, ShownSame DEF Owned, Still
<1>6. CASE \/ NotEffective(n) \/ NoOutput(n) \/ PluginFails(n) \/ PluginReturns(n) \/ DependInput(n)
           \/ DependOutput(n) \/ Notify(n) \/ DependLink(n) \/ Finish(n) \/ Callback(n) \/ Fail(n)
  <2>1. UNCHANGED <<sourceVars, bufferVars, imageVars>>
    BY <1>6 DEF NotEffective, NoOutput, PluginFails, PluginReturns, DependInput, DependOutput,
                StartChildren, Notify, DependLink, Finish, Callback, Fail
  <2>2. UNCHANGED <<sourceQ, inQ, usingQ, outQ, useCount, returned>>
    BY <2>1 DEF sourceVars, bufferVars, imageVars
  <2> QED BY <2>2, ShownSame DEF Owned, Still, Used
<1> QED BY <1>2, <1>3, <1>4, <1>5, <1>6 DEF processTask, betweenFrames, notifyNextNode

\* The ports' queues hold no sink images, and what is left in the nodes' queues is
\* given to the application.
LEMMA PortShows ==
  ASSUME Inv, Stored, ReleasePort, NEW l \in SinkLinks, NEW i \in ImagesOf(l), Shown(l, i)
  PROVE  Shown(l, i)'
<1>1. UNCHANGED <<inQ, usingQ, outQ, node>>
  BY DEF ReleasePort, bufferVars
<1>2. CASE main.ports = {}
  <2>1. UNCHANGED <<sourceQ, imageVars>>
    BY <1>2 DEF ReleasePort
  <2> QED BY <1>1, <2>1, ShownSame DEF imageVars, Used
<1>3. CASE main.ports # {}
  <2>1. PICK p \in main.ports : ReleaseBuffers(sourceQ[p]) /\ sourceQ' = [sourceQ EXCEPT ![p] = <<>>]
    BY <1>3 DEF ReleasePort
  <2>2. p \in Ports
    BY <2>1, MainTyped
  <2>3. PICK q : q = sourceQ[p]
    OBVIOUS
  <2>4. q \in Seq(AnyImage) /\ Number(sourceQ, i) = Number(sourceQ', i) + Refs(i, q)
        /\ sourceQ' \in Family(Ports, AnyImage)
    BY <2>1, <2>2, <2>3, PortCounted
  <2>5. Number(sourceQ', i) \in Nat /\ Refs(i, q) \in Nat
    <3>1. PICK R : R = sourceQ'
      OBVIOUS
    <3>2. Number(R, i) \in Nat
      BY <2>4, <3>1, FiniteKeys, FiniteSpots
    <3> QED BY <2>4, <3>1, <3>2, RefsAreCounted
  <2>6. Number(sourceQ, i) = 0
    <3>1. Number(sourceQ, i) \in Nat /\ Number(inQ, i) \in Nat /\ Number(usingQ, i) \in Nat
      BY UsedCounted
    <3> QED BY <3>1 DEF Shown, Used
  <2>7. Refs(i, q) = 0 /\ Number(sourceQ', i) = Number(sourceQ, i)
    BY <2>4, <2>5, <2>6
  <2>8. useCount'[i] = useCount[i] /\ returned \subseteq returned'
    BY <2>1, <2>3, <2>4, <2>7, SinkImageKnown, OthersReleased
  <2>9. Used(i)' = Used(i)
    BY <1>1, <2>7 DEF Used
  <2> QED BY <1>1, <2>8, <2>9, ShownSame
<1> QED BY <1>2, <1>3

LEMMA RestShows ==
  ASSUME Stored, Owned, ReleaseRest, NEW l \in SinkLinks, NEW i \in ImagesOf(l), Shown(l, i)
  PROVE  Shown(l, i)'
<1>1. PICK e, q : e = [j \in LinkIds |-> <<>>] /\ q = Remains
  OBVIOUS
<1>2. inQ' = e /\ usingQ' = e /\ outQ' = e /\ ReleaseBuffers(q) /\ UNCHANGED <<sourceQ, node>>
  BY <1>1 DEF ReleaseRest, Remains, sourceVars
<1>3. l \in LinkIds /\ i \in Images /\ i \in SinkImages
  BY SinkKnown, SinkImageKnown
<1>4. DOMAIN e = LinkIds /\ (\A j \in LinkIds : e[j] = <<>>) /\ Number(e, i) = 0 /\ Refs(i, <<>>) = 0
  <2>1. DOMAIN e = LinkIds /\ \A j \in LinkIds : e[j] = <<>>
    BY <1>1
  <2>2. {k \in DOMAIN <<>> : <<>>[k] = i} = {}
    OBVIOUS
  <2> QED BY <2>1, <2>2, NothingCounted, FS_EmptySet DEF Refs
<1>5. Number(outQ, i) = Refs(i, outQ[l])
  <2>1. PICK Q, R, D, W, a, b : /\ Q = outQ /\ R = [outQ EXCEPT ![l] = <<>>] /\ D = LinkIds
                                /\ W = Made \ {i} /\ a = outQ[l] /\ b = <<>>
    OBVIOUS
  <2>2. Q \in Family(D, Made) /\ a \in Seq(Made) /\ b \in Seq(Made) /\ a \o b = a /\ IsFiniteSet(D) /\ l \in D
    <3>1. outQ[l] \in Seq(Made)
      BY <1>3, Lengths DEF Stored
    <3> QED BY <1>3, <2>1, <3>1, FiniteKeys, ConcatEmptySeq DEF Stored
  <2>3. Taking(Q, l, a, b, R)
    BY <2>1, <2>2 DEF Taking
  <2>4. Number(Q, i) = Number(R, i) + Refs(i, a)
    BY <2>2, <2>3, FrontTaken
  <2>5. Number(R, i) = 0
    <3>1. ASSUME NEW j \in D PROVE R[j] \in Seq(W)
      <4>1. CASE j = l
        <5>1. R[j] = <<>>
          BY <2>1, <2>2, <4>1 DEF Family
        <5> QED BY <5>1
      <4>2. CASE j # l
        <5>1. R[j] = outQ[j]
          BY <2>1, <2>2, <3>1, <4>2 DEF Family
        <5>2. outQ[j] \in Seq(Output(j)) /\ i \notin Output(j)
          BY <2>1, <3>1, <4>2, SinkImageKnown DEF Owned
        <5>3. Output(j) \subseteq W
          BY <2>1, <3>1, <5>2 DEF Output, Made
        <5>4. PICK s, V : s = outQ[j] /\ V = Output(j)
          OBVIOUS
        <5>5. s \in Seq(V) /\ V \subseteq W
          BY <5>2, <5>3, <5>4
        <5>6. s \in Seq(W)
          BY <5>5
        <5> QED BY <5>1, <5>4, <5>6
      <4> QED BY <4>1, <4>2
    <3>2. R \in Family(D, W)
      <4>1. R = [j \in D |-> R[j]]
        BY <2>1, <2>2 DEF Family
      <4> QED BY <3>1, <4>1 DEF Family
    <3>3. W \subseteq Made /\ i \notin W
      BY <2>1
    <3> QED BY <3>2, <3>3, NotThere
  <2>6. Refs(i, a) \in Nat
    BY <2>2, RefsAreCounted
  <2> QED BY <2>1, <2>4, <2>5, <2>6
<1>6. Number(sourceQ, i) = 0 /\ Number(inQ, i) = 0 /\ Number(usingQ, i) = 0
  <2>1. Number(sourceQ, i) \in Nat /\ Number(inQ, i) \in Nat /\ Number(usingQ, i) \in Nat
    BY UsedCounted
  <2> QED BY <2>1 DEF Shown, Used
<1>7. Refs(i, outQ[l]) \in Nat
  <2>1. outQ[l] \in Seq(Made)
    BY <1>3, Lengths DEF Stored
  <2> QED BY <2>1, RefsAreCounted
<1>8. Refs(i, q) = Refs(i, outQ[l]) /\ q \in Seq(AnyImage)
  <2>1. Refs(i, q) = Number(inQ, i) + Number(usingQ, i) + Number(outQ, i) /\ q \in Seq(AnyImage)
    BY <1>1, RestCounted
  <2> QED BY <1>5, <1>6, <1>7, <2>1
<1>9. useCount[i] = Refs(i, q)
  BY <1>8 DEF Shown
<1>10. useCount'[i] = 0
  <2>1. useCount'[i] = useCount[i] - Refs(i, q)
    BY <1>2, <1>3, <1>8, CountsReleased
  <2> QED BY <1>7, <1>8, <1>9, <2>1
<1>11. Refs(i, q) > 0 \/ i \in returned => i \in returned'
  BY <1>2, <1>3, <1>9 DEF ReleaseBuffers
<1>12. Used(i)' = 0
  <2>1. Used(i)' = Number(sourceQ, i) + Number(e, i) + Number(e, i)
    BY <1>2 DEF Used
  <2> QED BY <1>4, <1>6, <2>1
<1>13. outQ'[l] = <<>>
  BY <1>2, <1>3, <1>4
<1> QED BY <1>2, <1>4, <1>8, <1>10, <1>11, <1>12, <1>13 DEF Shown

LEMMA DeliveryShows ==
  ASSUME Stored, NEW p \in Ports, Deliver(p), NEW l \in SinkLinks, NEW i \in ImagesOf(l), Shown(l, i)
  PROVE  Shown(l, i)'
<1>1. PICK x : x = <<"source", p, FrameNum - toCome[p] + 1>>
  OBVIOUS
<1>2. UNCHANGED <<inQ, usingQ, outQ, node>>
  BY DEF Deliver, bufferVars
<1>3. i \notin SourceImages /\ i \in Images
  BY SinkImageKnown
<1>4. x \in SourceImages /\ x \in AnyImage
  <2>1. toCome[p] \in 0 .. FrameNum /\ toCome[p] > 0 /\ FrameNum \in Nat
    BY PipelineAssumption DEF Stored, Deliver
  <2>2. FrameNum - toCome[p] + 1 \in 1 .. FrameNum
    BY <2>1
  <2>3. x \in SourceImages
    BY <1>1, <2>2 DEF SourceImages
  <2> QED BY <2>3, SourcesAreNotMade
<1>5. \/ UNCHANGED <<sourceQ, useCount>> /\ returned' = returned \cup {x}
      \/ /\ sourceQ' = [sourceQ EXCEPT ![p] = Append(@, x)] /\ useCount' = [useCount EXCEPT ![x] = 1]
         /\ returned' = returned
  BY <1>1 DEF Deliver
<1>6. useCount'[i] = useCount[i] /\ returned \subseteq returned'
  <2>1. useCount \in [Images -> Int] /\ i # x
    BY <1>3, <1>4 DEF Stored
  <2> QED BY <1>3, <1>5, <2>1
<1>7. Used(i)' = Used(i)
  <2>1. CASE sourceQ' = [sourceQ EXCEPT ![p] = Append(@, x)]
    <3>1. Number(sourceQ', i) = Number(sourceQ, i) + 0
      BY <1>3, <1>4, <2>1, QueuedAtPort
    <3>2. Number(sourceQ, i) \in Nat
      BY UsedCounted
    <3> QED BY <1>2, <3>1, <3>2 DEF Used
  <2>2. CASE sourceQ' = sourceQ
    BY <1>2, <2>2 DEF Used
  <2> QED BY <1>5, <2>1, <2>2
<1> QED BY <1>2, <1>6, <1>7, ShownSame

\* The queues are empty when postProcTask has ended.
LEMMA NothingIsLeft ==
  ASSUME Inv, [Next]_vars, main.pc = "finished" => \A l \in LinkIds : outQ[l] = <<>>, main'.pc = "finished"
  PROVE  \A l \in LinkIds : outQ'[l] = <<>>
<1>1. main \in [pc : MainPcs, node : Nodes \cup {NoNode}, ok : BOOLEAN, ports : SUBSET Ports]
  BY MainTyped
<1>2. CASE \E k \in Nodes : processTask(k) \/ PluginReleasesInput(k) \/ PluginReleasesOutput(k)
  <2>1. PICK k \in Nodes : processTask(k) \/ PluginReleasesInput(k) \/ PluginReleasesOutput(k)
    BY <1>2
  <2>2. main'.pc = main.pc \/ main'.pc = "wait"
    <3>1. CASE processTask(k)
      BY <3>1, NodeStep DEF Inv, Woken
    <3>2. CASE PluginReleasesInput(k) \/ PluginReleasesOutput(k)
      BY <3>2 DEF PluginReleasesInput, PluginReleasesOutput
    <3> QED BY <2>1, <3>1, <3>2
  <2> QED BY <2>1, <2>2, NoneAfterEnd
<1>3. CASE ReleaseRest
  <2>1. outQ' = [l \in LinkIds |-> <<>>]
    BY <1>3 DEF ReleaseRest
  <2> QED BY <2>1
<1>4. CASE Start \/ Prepare \/ Take \/ Post \/ CountRunning \/ WaitForNodes \/ ReleasePort
  <2>1. PICK pc : pc = main'.pc
    OBVIOUS
  <2>2. pc \in {"release ports", "prepare", "loop", "post", "count", "wait", "asleep", "release rest"}
    <3>1. CASE Start \/ Prepare
      <4>1. main' = [main EXCEPT !.pc = "release ports"] \/ main' = [main EXCEPT !.pc = "prepare"]
            \/ main' = [main EXCEPT !.pc = "loop"]
        BY <3>1 DEF Start, Prepare, MainGoto
      <4> QED BY <1>1, <2>1, <4>1
    <3>2. CASE Take
      <4>1. \/ main' = [main EXCEPT !.pc = "release ports"]
            \/ main' = [main EXCEPT !.pc = "post", !.node = Head(mRunSequence)]
        BY <3>2 DEF Take, MainGoto
      <4> QED BY <1>1, <2>1, <4>1
    <3>3. CASE Post
      <4>1. main' = [main EXCEPT !.pc = "count", !.ok = main.node \notin Missing]
        BY <3>3 DEF Post
      <4> QED BY <1>1, <2>1, <4>1
    <3>4. CASE CountRunning \/ WaitForNodes
      <4>1. \/ main' = [main EXCEPT !.pc = "wait"] \/ main' = [main EXCEPT !.pc = "loop"]
            \/ main' = [main EXCEPT !.pc = "asleep"]
        BY <3>4 DEF CountRunning, WaitForNodes, MainGoto
      <4> QED BY <1>1, <2>1, <4>1
    <3>5. CASE ReleasePort
      <4>1. main.pc = "release ports"
            /\ \/ main' = [main EXCEPT !.pc = "release rest"]
               \/ \E p \in main.ports : main' = [main EXCEPT !.ports = main.ports \ {p}]
        BY <3>5 DEF ReleasePort, MainGoto
      <4> QED BY <1>1, <2>1, <4>1
    <3> QED BY <1>4, <3>1, <3>2, <3>3, <3>4, <3>5
  <2> QED BY <2>1, <2>2
<1>5. CASE (\E p \in Ports : Deliver(p)) \/ quickFinish \/ UNCHANGED vars
  <2>1. UNCHANGED <<main, outQ>>
    BY <1>5 DEF Deliver, quickFinish, SetFlushStatus, ReleasePorts, ReleaseNodes, bufferVars, vars
  <2> QED BY <2>1
<1> QED BY <1>2, <1>3, <1>4, <1>5 DEF Next, postProcTask

LEMMA SinksMove ==
  ASSUME Inv, Stored, SinksKept, \A n \in Nodes : Earned(n), \A l \in SinkLinks : MadeAtOnce(l), [Next]_vars
  PROVE  /\ Owned' /\ \A n \in Nodes : Fresh(n)'
         /\ \A l \in SinkLinks : \A i \in ImagesOf(l) : Shown(l, i)'
<1>1. /\ Owned /\ (\A n \in Nodes : Fresh(n))
      /\ \A l \in SinkLinks : \A i \in ImagesOf(l) : Shown(l, i)
  BY DEF SinksKept
<1>2. CASE \E k \in Nodes : processTask(k) \/ PluginReleasesInput(k) \/ PluginReleasesOutput(k)
  <2>1. PICK k \in Nodes : processTask(k) \/ PluginReleasesInput(k) \/ PluginReleasesOutput(k)
    BY <1>2
  <2>2. \A n \in Nodes : Fresh(n)'
    <3>1. CASE processTask(k)
      BY <1>1, <3>1, StaysFresh
    <3>2. CASE PluginReleasesInput(k) \/ PluginReleasesOutput(k)
      BY <1>1, <3>2 DEF PluginReleasesInput, PluginReleasesOutput, Fresh
    <3> QED BY <2>1, <3>1, <3>2
  <2> QED BY <1>1, <2>1, <2>2, ThreadShows
<1>3. CASE ReleasePort
  <2>1. UNCHANGED <<node, outQ>>
    BY <1>3 DEF ReleasePort, bufferVars
  <2> QED BY <1>1, <1>3, <2>1, PortShows DEF Owned, Fresh
<1>4. CASE ReleaseRest
  <2>1. node' = node /\ outQ' = [l \in LinkIds |-> <<>>]
    BY <1>4 DEF ReleaseRest
  <2>2. Owned'
    <3>1. ASSUME NEW l \in LinkIds PROVE outQ'[l] \in Seq(Output(l))
      <4>1. outQ'[l] = <<>>
        BY <2>1
      <4> QED BY <4>1
    <3> QED BY <3>1 DEF Owned
  <2> QED BY <1>1, <1>4, <2>1, <2>2, RestShows DEF Fresh
<1>5. CASE Start \/ Prepare \/ Take \/ Post \/ CountRunning \/ WaitForNodes
  <2>1. UNCHANGED <<sourceQ, inQ, usingQ, outQ, useCount, returned>>
    BY <1>5 DEF Start, Prepare, Take, Post, CountRunning, WaitForNodes, sourceVars, bufferVars, imageVars
  <2>2. ASSUME NEW m \in Nodes PROVE node'[m].frames = node[m].frames /\ Fresh(m)'
    <3>1. CASE UNCHANGED node
      BY <1>1, <3>1 DEF Fresh
    <3>2. CASE Post /\ Goto(main.node, "input")
      <4>1. Typed /\ main.node \in Nodes /\ At(main.node, "idle")
        BY <3>2, MainTyped DEF Post, Inv, Once, Held
      <4>2. /\ node'[main.node].frames = node[main.node].frames
            /\ \A n \in Nodes : n # main.node => node'[n] = node[n]
        BY <3>2, <4>1, Reached DEF NodePcs
      <4> QED BY <1>1, <4>1, <4>2 DEF Fresh, At
    <3>3. UNCHANGED node \/ (Post /\ Goto(main.node, "input"))
      BY <1>5 DEF Start, Prepare, Take, Post, CountRunning, WaitForNodes
    <3> QED BY <3>1, <3>2, <3>3
  <2>3. \A l \in SinkLinks : links[l].src \in Nodes
    BY SinkKnown
  <2> QED BY <1>1, <2>1, <2>2, <2>3, ShownSame DEF Owned, Used
<1>6. CASE \E p \in Ports : Deliver(p)
  <2>1. UNCHANGED <<node, outQ>>
    BY <1>6 DEF Deliver, bufferVars
  <2> QED BY <1>1, <1>6, <2>1, DeliveryShows DEF Owned, Fresh
<1>7. CASE quickFinish \/ UNCHANGED vars
  <2>1. UNCHANGED <<node, sourceQ, inQ, usingQ, outQ, useCount, returned>>
    BY <1>7 DEF quickFinish, SetFlushStatus, ReleasePorts, ReleaseNodes, sourceVars, bufferVars, imageVars,
      vars
  <2> QED BY <1>1, <2>1 DEF Owned, Fresh, Shown, Used
<1> QED BY <1>2, <1>3, <1>4, <1>5, <1>6, <1>7 DEF Next, postProcTask

LEMMA SinksStay ==
  ASSUME Inv, Stored, SinksKept, \A n \in Nodes : Earned(n), \A l \in SinkLinks : MadeAtOnce(l), [Next]_vars
  PROVE  SinksKept'
<1>1. main'.pc = "finished" => \A l \in LinkIds : outQ'[l] = <<>>
  BY NothingIsLeft DEF SinksKept
<1> QED BY <1>1, SinksMove DEF SinksKept

LEMMA SinksAtFirst ==
  ASSUME Init
  PROVE  Scheduling /\ SinksKept /\ Asked /\ \A n \in Nodes : Earned(n)
<1>1. /\ sourceQ = [p \in Ports |-> <<>>] /\ inQ = [l \in LinkIds |-> <<>>] /\ usingQ = [l \in LinkIds |-> <<>>]
      /\ outQ = [l \in LinkIds |-> <<>>] /\ useCount = [i \in Images |-> 0]
      /\ main.pc = "start" /\ mHasProcessError = FALSE
      /\ \A n \in Nodes : node[n].pc = "idle" /\ node[n].frames = 0
  BY DEF Init
<1>2. Scheduling /\ Asked
  BY <1>1 DEF Init, Scheduling, TellsFirst, At, Asked
<1>3. \A n \in Nodes : Earned(n) /\ Fresh(n)
  BY <1>1 DEF Earned, Succeeding, Fresh
<1>4. Owned
  <2>1. ASSUME NEW l \in LinkIds PROVE outQ[l] \in Seq(Output(l))
    <3>1. outQ[l] = <<>>
      BY <1>1
    <3> QED BY <3>1
  <2> QED BY <2>1 DEF Owned
<1>5. ASSUME NEW l \in SinkLinks, NEW i \in ImagesOf(l) PROVE Shown(l, i)
  <2>1. ASSUME NEW D, NEW Q, Q = [x \in D |-> <<>>] PROVE Number(Q, i) = 0
    <3>1. DOMAIN Q = D /\ \A x \in D : Q[x] = <<>>
      BY <2>1
    <3> QED BY <3>1, NothingCounted
  <2>2. Number(sourceQ, i) = 0 /\ Number(inQ, i) = 0 /\ Number(usingQ, i) = 0
    BY <1>1, <2>1
  <2>3. l \in LinkIds /\ links[l].src \in Nodes /\ i \in Images
    BY SinkKnown, SinkImageKnown
  <2>4. Refs(i, <<>>) = 0
    <3>1. {k \in DOMAIN <<>> : <<>>[k] = i} = {}
      OBVIOUS
    <3> QED BY <3>1, FS_EmptySet DEF Refs
  <2>5. useCount[i] = 0 /\ Refs(i, outQ[l]) = 0
    BY <1>1, <2>3, <2>4
  <2> QED BY <1>1, <2>2, <2>3, <2>5 DEF Shown, Used
<1> QED BY <1>1, <1>2, <1>3, <1>4, <1>5 DEF SinksKept

LEMMA SchedulingStays ==
  ASSUME Sound, Inv, ImageInv, Scheduling, Asked, \A n \in Nodes : Earned(n), [Next]_vars
  PROVE  Scheduling'
<1>1. Flushes /\ Told /\ Missing = {} /\ ~TopologyError /\ OneWish
  BY DEF ImageInv, Sound
<1> QED BY <1>1, ThreadSchedules, MainSchedules, OthersSchedule DEF Next

\* The application learns how each request ended that it has not given up: it is told
\* that the request failed, once, or it has all its sink images.
THEOREM OutcomeIsKnown == Sound => (Spec => []OutcomeReported)
<1> SUFFICES ASSUME Sound PROVE Spec => []OutcomeReported
  OBVIOUS
<1> DEFINE Outcome == Scheduling /\ SinksKept /\ Asked /\ \A n \in Nodes : Earned(n)
<1>1. Init => Outcome
  BY SinksAtFirst
<1>2. Inv /\ ImageInv /\ Outcome /\ [Next]_vars => Outcome'
  <2> SUFFICES ASSUME Inv, ImageInv, Outcome, [Next]_vars PROVE Outcome'
    OBVIOUS
  <2>1. \A n \in Nodes : Earned(n)'
    BY EarnedKept
  <2>2. Scheduling' /\ Asked'
    BY SchedulingStays, AskedKept
  <2>3. SinksKept'
    BY SinksStay DEF Sound, ImageInv, Kept
  <2> QED BY <2>1, <2>2, <2>3
<1>3. ASSUME Inv, ImageInv, Outcome PROVE OutcomeReported
  <2>1. abnormalCalls <= 1
    BY <1>3 DEF ImageInv, Told
  <2>2. ASSUME main.pc = "finished", mFlushStatus # "ForcedFlush", abnormalCalls # 1,
               NEW i \in SinkImages
        PROVE  i \in returned
    <3>1. PICK l \in SinkLinks : i \in ImagesOf(l)
      BY SinkImagesAre
    <3>2. links[l].src \in Nodes /\ l \in LinkIds /\ MadeAtOnce(l)
      BY <3>1, SinkKnown DEF Sound
    <3>3. WellAndWanted
      BY <1>3, <2>2 DEF ImageInv, Told, WellAndWanted
    <3>4. node[links[l].src].pc = "done" /\ node[links[l].src].ok
      <4>1. Told /\ Scheduling
        BY <1>3 DEF ImageInv
      <4>2. \E rank \in [Nodes -> Nat] : \A n \in Nodes : \A j \in Into(n) : rank[links[j].src] < rank[n]
        BY DEF Sound
      <4> QED BY <1>3, <2>2, <3>2, <3>3, <4>1, <4>2, AllEndWell DEF At
    <3>5. node[links[l].src].frames > 0
      BY <1>3, <3>2, <3>4 DEF Earned, Succeeding, MadeAtOnce
    <3>6. Shown(l, i) /\ outQ[l] = <<>>
      BY <1>3, <2>2, <3>1, <3>2 DEF SinksKept
    <3>7. Refs(i, <<>>) = 0
      <4>1. {k \in DOMAIN <<>> : <<>>[k] = i} = {}
        OBVIOUS
      <4> QED BY <4>1, FS_EmptySet DEF Refs
    <3> QED BY <3>5, <3>6, <3>7 DEF Shown
  <2> QED BY <2>1, <2>2 DEF OutcomeReported
<1> QED BY <1>1, <1>2, <1>3, InvAlways, ImageInvAlways, PTL DEF Spec, Safe

=============================================================================
