------------------------- MODULE BufferQueueProofs -------------------------
(***************************************************************************)
(* What holds of BufferQueue for any number of threads and of images they  *)
(* need, and for any depths and threshold.  Inv is the inductive           *)
(* invariant: to the two properties it adds that the queue holds no image  *)
(* twice, who is inside acquireOutputBuffer, and what the monitor has in   *)
(* its hand.                                                               *)
(***************************************************************************)
EXTENDS BufferQueue, FiniteSetTheorems, SequenceTheorems, TLAPS

Distinct(queue) == \A a, b \in DOMAIN queue : queue[a] = queue[b] => a = b
Members(queue) == {queue[i] : i \in DOMAIN queue}

\* The mutex is held by the one thread that is inside acquireOutputBuffer.
Acquiring == {"check", "increase", "push", "pop"}
Locked == \A t \in Threads : mAcquireBufferMutex = t <=> pc[t] \in Acquiring

\* The monitor has one image in its hand from the pop until that is freed.
Freeing ==
  IF monitor = "free" THEN \E i \in Images : victim = {i} ELSE victim = {}

Inv ==
  TypeOK /\ Distinct(mBufferQueue) /\ Locked /\ Freeing /\ UseCountsExact /\ CountsMatchMemory

-----------------------------------------------------------------------------
(* Queues without repetitions *)

LEMMA Appended ==
  ASSUME NEW queue \in Seq(Images), NEW i \in Images
  PROVE  /\ Append(queue, i) \in Seq(Images) /\ Len(Append(queue, i)) = Len(queue) + 1
         /\ Members(Append(queue, i)) = Members(queue) \cup {i}
         /\ i \notin Members(queue) /\ Distinct(queue) => Distinct(Append(queue, i))
<1>1. /\ Append(queue, i) \in Seq(Images) /\ Len(Append(queue, i)) = Len(queue) + 1
      /\ DOMAIN queue = 1 .. Len(queue) /\ Len(queue) \in Nat
      /\ DOMAIN Append(queue, i) = 1 .. Len(queue) + 1
  OBVIOUS
<1>2. \A j \in 1 .. Len(queue) + 1 :
        Append(queue, i)[j] = IF j = Len(queue) + 1 THEN i ELSE queue[j]
  OBVIOUS
<1>3. Members(Append(queue, i)) = Members(queue) \cup {i}
  <2>1. ASSUME NEW x \in Members(Append(queue, i)) PROVE x \in Members(queue) \cup {i}
    <3>1. PICK j \in 1 .. Len(queue) + 1 : x = Append(queue, i)[j]
      BY <1>1 DEF Members
    <3> QED BY <3>1, <1>1, <1>2 DEF Members
  <2>2. ASSUME NEW x \in Members(queue) PROVE x \in Members(Append(queue, i))
    <3>1. PICK j \in 1 .. Len(queue) : x = queue[j]
      BY <1>1 DEF Members
    <3>2. j \in 1 .. Len(queue) + 1 /\ x = Append(queue, i)[j]
      BY <3>1, <1>1, <1>2
    <3> QED BY <3>2, <1>1 DEF Members
  <2>3. i \in Members(Append(queue, i))
    <3>1. Len(queue) + 1 \in 1 .. Len(queue) + 1 /\ i = Append(queue, i)[Len(queue) + 1]
      BY <1>1, <1>2
    <3> QED BY <3>1, <1>1 DEF Members
  <2> QED BY <2>1, <2>2, <2>3
<1>4. i \notin Members(queue) /\ Distinct(queue) => Distinct(Append(queue, i))
  BY <1>1, <1>2 DEF Distinct, Members
<1> QED BY <1>1, <1>3, <1>4

LEMMA Popped ==
  ASSUME NEW queue \in Seq(Images), queue # <<>>, Distinct(queue)
  PROVE  /\ Head(queue) \in Images /\ Head(queue) \in Members(queue)
         /\ Tail(queue) \in Seq(Images) /\ Len(Tail(queue)) = Len(queue) - 1
         /\ Members(Tail(queue)) = Members(queue) \ {Head(queue)}
         /\ Distinct(Tail(queue))
<1>1. /\ Head(queue) \in Images /\ Head(queue) = queue[1]
      /\ Tail(queue) \in Seq(Images) /\ Len(Tail(queue)) = Len(queue) - 1
      /\ DOMAIN queue = 1 .. Len(queue) /\ Len(queue) \in Nat /\ Len(queue) >= 1
      /\ DOMAIN Tail(queue) = 1 .. Len(queue) - 1
  BY HeadTailProperties, EmptySeq
<1>2. \A j \in 1 .. Len(queue) - 1 : Tail(queue)[j] = queue[j + 1]
  BY <1>1
<1>3. Members(Tail(queue)) = Members(queue) \ {Head(queue)}
  <2>1. ASSUME NEW x \in Members(Tail(queue)) PROVE x \in Members(queue) \ {Head(queue)}
    <3>1. PICK j \in 1 .. Len(queue) - 1 : x = Tail(queue)[j]
      BY <1>1 DEF Members
    <3>2. x = queue[j + 1] /\ j + 1 \in 1 .. Len(queue) /\ j + 1 # 1 /\ 1 \in 1 .. Len(queue)
      BY <3>1, <1>1, <1>2
    <3> QED BY <3>2, <1>1 DEF Members, Distinct
  <2>2. ASSUME NEW x \in Members(queue) \ {Head(queue)} PROVE x \in Members(Tail(queue))
    <3>1. PICK j \in 1 .. Len(queue) : x = queue[j]
      BY <1>1 DEF Members
    <3>2. j - 1 \in 1 .. Len(queue) - 1
      BY <3>1, <1>1
    <3>3. x = Tail(queue)[j - 1]
      BY <3>1, <3>2, <1>1, <1>2
    <3> QED BY <3>2, <3>3, <1>1 DEF Members
  <2> QED BY <2>1, <2>2
<1>4. Distinct(Tail(queue))
  <2> SUFFICES ASSUME NEW a \in 1 .. Len(queue) - 1, NEW b \in 1 .. Len(queue) - 1,
                      Tail(queue)[a] = Tail(queue)[b]
               PROVE  a = b
    BY <1>1 DEF Distinct
  <2>1. queue[a + 1] = queue[b + 1]
    BY <1>2
  <2>2. a + 1 = b + 1
    BY <2>1, <1>1 DEF Distinct
  <2> QED BY <2>2
<1>5. Head(queue) \in Members(queue)
  BY <1>1 DEF Members
<1> QED BY <1>1, <1>3, <1>4, <1>5

-----------------------------------------------------------------------------
(* Finite sets *)

LEMMA MembersFinite ==
  ASSUME NEW S, S \subseteq Images \/ S \subseteq Threads
  PROVE  IsFiniteSet(S) /\ Cardinality(S) \in Nat
<1>1. IsFiniteSet(Images) /\ IsFiniteSet(Threads)
  BY FS_Interval, QueueAssumption DEF Images
<1>2. IsFiniteSet(S)
  BY <1>1, FS_Subset
<1> QED BY <1>2, FS_CardinalityType

LEMMA OneMore ==
  ASSUME NEW S, S \subseteq Images \/ S \subseteq Threads, NEW x, x \notin S
  PROVE  Cardinality(S \cup {x}) = Cardinality(S) + 1
BY MembersFinite, FS_AddElement

LEMMA OneLess ==
  ASSUME NEW S, S \subseteq Images \/ S \subseteq Threads, NEW x \in S
  PROVE  Cardinality(S \ {x}) = Cardinality(S) - 1 /\ Cardinality(S) >= 1
<1>1. IsFiniteSet(S) /\ Cardinality(S) \in Nat /\ Cardinality(S \ {x}) \in Nat
  BY MembersFinite
<1>2. Cardinality(S \ {x}) = Cardinality(S) - 1
  BY <1>1, FS_RemoveElement
<1> QED BY <1>1, <1>2

LEMMA NoMembers == ASSUME NEW S, S \subseteq Images \/ S \subseteq Threads
                   PROVE  Cardinality(S) = 0 <=> S = {}
BY MembersFinite, FS_EmptySet

LEMMA UsersCounted ==
  ASSUME NEW i PROVE Users(i) \subseteq Threads /\ Cardinality(Users(i)) \in Nat
BY MembersFinite DEF Users

-----------------------------------------------------------------------------
LEMMA InvInit == Init => Inv
<1> SUFFICES ASSUME Init PROVE Inv
  OBVIOUS
<1>1. InitDepth \in Nat /\ MaxDepth \in Nat /\ 1 .. InitDepth \subseteq Images
  BY QueueAssumption DEF Images
<1>2. mBufferQueue \in Seq(Images) /\ Len(mBufferQueue) = InitDepth
  <2>1. mBufferQueue \in [1 .. InitDepth -> Images]
    BY <1>1 DEF Init
  <2> QED BY <2>1, <1>1
<1>3. DOMAIN mBufferQueue = 1 .. InitDepth /\ \A i \in 1 .. InitDepth : mBufferQueue[i] = i
  BY DEF Init
<1>4. TypeOK
  BY <1>1, <1>2, QueueAssumption DEF Init, TypeOK
<1>5. Distinct(mBufferQueue) /\ Locked /\ Freeing
  BY <1>3, QueueAssumption DEF Init, Distinct, Locked, Acquiring, Freeing
<1>6. FreeImages = 1 .. InitDepth
  BY <1>3 DEF FreeImages
<1>7. Cardinality(1 .. InitDepth) = InitDepth
  BY <1>1, FS_Interval, QueueAssumption
<1>8. UseCountsExact
  <2>1. \A i \in Images : Users(i) = {}
    BY DEF Init, Users
  <2>2. \A i \in live : mUseCount[i] = Cardinality(Users(i))
    BY <1>1, <2>1, FS_EmptySet DEF Init
  <2>3. \A i \in live : (i \in FreeImages \/ i \in victim) <=> Users(i) = {}
    BY <1>1, <1>6, <2>1 DEF Init
  <2>4. UNION {holding[t] : t \in Threads} = {}
    BY DEF Init
  <2>5. /\ Len(mBufferQueue) = Cardinality(FreeImages) /\ FreeImages \cap victim = {}
        /\ (UNION {holding[t] : t \in Threads}) \cup FreeImages \cup victim = live
    BY <1>2, <1>6, <1>7, <2>4 DEF Init
  <2> QED BY <2>2, <2>3, <2>5 DEF UseCountsExact
<1>9. CountsMatchMemory
  <2>1. Growing = {} /\ Shrinking = 0
    BY DEF Init, Growing, Shrinking
  <2> QED BY <2>1, <1>1, <1>7, FS_EmptySet, QueueAssumption DEF Init, CountsMatchMemory
<1> QED BY <1>4, <1>5, <1>8, <1>9 DEF Inv

-----------------------------------------------------------------------------
(* What follows from Inv *)

LEMMA Whereabouts ==
  ASSUME Inv
  PROVE  /\ \A t \in Threads : holding[t] \subseteq live
         /\ FreeImages \subseteq live /\ victim \subseteq live /\ live \subseteq Images
         /\ \A i \in Images \ live : Users(i) = {} /\ i \notin FreeImages /\ i \notin victim
         /\ FreeImages = Members(mBufferQueue)
<1>1. live \subseteq Images /\ FreeImages = Members(mBufferQueue)
  BY DEF Inv, TypeOK, FreeImages, Members
<1>2. (UNION {holding[t] : t \in Threads}) \cup FreeImages \cup victim = live
  BY DEF Inv, UseCountsExact
<1>3. \A t \in Threads : holding[t] \subseteq live
  BY <1>2
<1> QED BY <1>1, <1>2, <1>3 DEF Users

LEMMA Heads ==
  ASSUME Inv, mBufferQueue # <<>>
  PROVE  /\ Head(mBufferQueue) \in live /\ Head(mBufferQueue) \in FreeImages
         /\ Head(mBufferQueue) \notin victim
         /\ Users(Head(mBufferQueue)) = {} /\ mUseCount[Head(mBufferQueue)] = 0
         /\ Tail(mBufferQueue) \in Seq(Images) /\ Len(Tail(mBufferQueue)) = Len(mBufferQueue) - 1
         /\ Members(Tail(mBufferQueue)) = FreeImages \ {Head(mBufferQueue)}
         /\ Distinct(Tail(mBufferQueue))
<1>1. mBufferQueue \in Seq(Images) /\ Distinct(mBufferQueue) /\ UseCountsExact
  BY DEF Inv, TypeOK
<1>2. Head(mBufferQueue) \in FreeImages /\ Head(mBufferQueue) \in live
  BY <1>1, Popped, Whereabouts
<1>3. Head(mBufferQueue) \notin victim /\ Users(Head(mBufferQueue)) = {}
  BY <1>1, <1>2 DEF UseCountsExact
<1>4. mUseCount[Head(mBufferQueue)] = 0
  BY <1>1, <1>2, <1>3, FS_EmptySet DEF UseCountsExact
<1> QED BY <1>1, <1>2, <1>3, <1>4, Popped, Whereabouts

LEMMA Gains ==
  ASSUME TypeOK, NEW t \in Threads, NEW i \in Images,
         holding' = [holding EXCEPT ![t] = @ \cup {i}]
  PROVE  /\ Users(i)' = Users(i) \cup {t}
         /\ \A j \in Images : j # i => Users(j)' = Users(j)
         /\ UNION {holding'[u] : u \in Threads} = (UNION {holding[u] : u \in Threads}) \cup {i}
<1>1. \A u \in Threads : holding'[u] = IF u = t THEN holding[u] \cup {i} ELSE holding[u]
  BY DEF TypeOK
<1> QED BY <1>1 DEF Users

LEMMA Loses ==
  ASSUME TypeOK, NEW t \in Threads, NEW i \in holding[t],
         holding' = [holding EXCEPT ![t] = @ \ {i}]
  PROVE  /\ Users(i)' = Users(i) \ {t}
         /\ \A j \in Images : j # i => Users(j)' = Users(j)
<1>1. \A u \in Threads : holding'[u] = IF u = t THEN holding[u] \ {i} ELSE holding[u]
  BY DEF TypeOK
<1> QED BY <1>1 DEF Users

-----------------------------------------------------------------------------
(* The typing, the mutex and the monitor *)

LEMMA TypeNext == ASSUME Inv, [Next]_vars PROVE TypeOK'
<1> USE DEF TypeOK
<1>1. TypeOK /\ mNumBuffers \in Nat
  BY DEF Inv
<1>2. ASSUME NEW t \in Threads,
             Acquire(t) \/ CheckEmpty(t) \/ CannotIncrease(t) \/ Increase(t)
      PROVE  TypeOK'
  BY <1>1, <1>2 DEF Acquire, CheckEmpty, CannotIncrease, Increase, Goto
<1>3. ASSUME NEW t \in Threads, PushNew(t) PROVE TypeOK'
  <2>1. PICK i \in Images \ live : /\ live' = live \cup {i}
                                   /\ mUseCount' = [mUseCount EXCEPT ![i] = 0]
                                   /\ mBufferQueue' = Append(mBufferQueue, i)
    BY <1>3 DEF PushNew
  <2>2. mBufferQueue' \in Seq(Images)
    BY <1>1, <2>1, Appended
  <2> QED BY <1>1, <1>3, <2>1, <2>2 DEF PushNew, Goto
<1>4. ASSUME NEW t \in Threads, Pop(t) PROVE TypeOK'
  <2>1. /\ Head(mBufferQueue) \in Images /\ Tail(mBufferQueue) \in Seq(Images)
    BY <1>4, Heads, Whereabouts DEF Pop
  <2> QED BY <1>1, <1>4, <2>1 DEF Pop, Goto
<1>5. ASSUME NEW t \in Threads, NEW u \in Threads, Share(t, u) PROVE TypeOK'
  <2>1. PICK i \in holding[t] \ holding[u] :
          /\ mUseCount' = [mUseCount EXCEPT ![i] = @ + 1]
          /\ holding' = [holding EXCEPT ![u] = @ \cup {i}]
    BY <1>5 DEF Share
  <2>2. i \in Images
    BY <1>1, <2>1
  <2>3. mUseCount' \in [Images -> Nat]
    BY <1>1, <2>1
  <2>4. holding' \in [Threads -> SUBSET Images]
    BY <1>1, <2>1, <2>2
  <2>5. pc' = [pc EXCEPT ![t] = "releasing", ![u] = "releasing"]
        /\ UNCHANGED <<mBufferQueue, mNumBuffers, live, mAcquireBufferMutex, monitor, victim>>
    BY <1>5 DEF Share
  <2> QED BY <1>1, <2>3, <2>4, <2>5
<1>6. ASSUME NEW t \in Threads, Release(t) PROVE TypeOK'
  <2>1. PICK i \in holding[t] :
          /\ mUseCount' = [mUseCount EXCEPT ![i] = @ - 1]
          /\ mBufferQueue' = IF LastUser(i) THEN Append(mBufferQueue, i) ELSE mBufferQueue
          /\ holding' = [holding EXCEPT ![t] = @ \ {i}]
    BY <1>6 DEF Release
  <2>2. i \in Images /\ i \in live /\ t \in Users(i)
    BY <2>1, Whereabouts DEF Users
  <2>3. mUseCount[i] >= 1
    <3>1. mUseCount[i] = Cardinality(Users(i))
      BY <2>2 DEF Inv, UseCountsExact
    <3>2. Cardinality(Users(i)) >= 1
      BY <2>2, UsersCounted, OneLess
    <3> QED BY <3>1, <3>2
  <2>4. mBufferQueue' \in Seq(Images)
    BY <1>1, <2>1, <2>2, Appended
  <2> QED BY <1>1, <1>6, <2>1, <2>2, <2>3, <2>4 DEF Release, Goto
<1>7. CASE MonitorStart \/ MonitorSize
  BY <1>1, <1>7 DEF MonitorStart, MonitorSize
<1>8. CASE MonitorPop
  <2>1. CASE mBufferQueue # <<>>
    <3>1. Head(mBufferQueue) \in Images /\ Tail(mBufferQueue) \in Seq(Images)
      BY <2>1, Heads, Whereabouts
    <3> QED BY <1>1, <1>8, <2>1, <3>1 DEF MonitorPop
  <2>2. CASE mBufferQueue = <<>>
    BY <1>1, <1>8, <2>2 DEF MonitorPop
  <2> QED BY <2>1, <2>2
<1>9. CASE MonitorFree
  BY <1>1, <1>9 DEF MonitorFree
<1>10. CASE MonitorCount
  <2>1. Shrinking = 1 /\ Cardinality(live) \in Nat /\ Cardinality(Growing) \in Nat
    BY <1>1, <1>10, MembersFinite DEF MonitorCount, Shrinking, Growing
  <2>2. mNumBuffers >= 1
    BY <2>1 DEF Inv, CountsMatchMemory
  <2> QED BY <1>1, <1>10, <2>2 DEF MonitorCount
<1>11. CASE UNCHANGED vars
  BY <1>1, <1>11 DEF vars
<1> QED BY <1>2, <1>3, <1>4, <1>5, <1>6, <1>7, <1>8, <1>9, <1>10, <1>11
        DEF Next, acquireOutputBuffer, memoryMonitor

LEMMA LockedNext == ASSUME Inv, [Next]_vars PROVE Locked'
<1> USE DEF Locked, Acquiring, TypeOK
<1>1. TypeOK /\ Locked /\ Free \notin Threads
  BY QueueAssumption DEF Inv
<1>2. ASSUME NEW t \in Threads, Acquire(t) PROVE Locked'
  BY <1>1, <1>2 DEF Acquire, Goto
<1>3. ASSUME NEW t \in Threads, CheckEmpty(t) \/ CannotIncrease(t) \/ Increase(t) \/ PushNew(t)
      PROVE  Locked'
  BY <1>1, <1>3 DEF CheckEmpty, CannotIncrease, Increase, PushNew, Goto
<1>4. ASSUME NEW t \in Threads, Pop(t) PROVE Locked'
  BY <1>1, <1>4 DEF Pop, Goto
<1>5. ASSUME NEW t \in Threads, NEW u \in Threads, Share(t, u) PROVE Locked'
  BY <1>1, <1>5 DEF Share
<1>6. ASSUME NEW t \in Threads, Release(t) PROVE Locked'
  BY <1>1, <1>6 DEF Release, Goto
<1>7. CASE memoryMonitor
  BY <1>1, <1>7 DEF memoryMonitor, MonitorStart, MonitorSize, MonitorPop, MonitorFree,
                    MonitorCount
<1>8. CASE UNCHANGED vars
  BY <1>1, <1>8 DEF vars
<1> QED BY <1>2, <1>3, <1>4, <1>5, <1>6, <1>7, <1>8 DEF Next, acquireOutputBuffer

LEMMA FreeingNext == ASSUME Inv, [Next]_vars PROVE Freeing'
<1> USE DEF Freeing
<1>1. TypeOK /\ Freeing
  BY DEF Inv
<1>2. CASE UNCHANGED <<monitor, victim>>
  BY <1>1, <1>2
<1>3. CASE MonitorStart \/ MonitorSize \/ MonitorFree \/ MonitorCount
  BY <1>1, <1>3 DEF MonitorStart, MonitorSize, MonitorFree, MonitorCount
<1>4. CASE MonitorPop
  <2>1. CASE mBufferQueue # <<>>
    BY <1>4, <2>1, Heads, Whereabouts DEF MonitorPop
  <2>2. CASE mBufferQueue = <<>>
    BY <1>1, <1>4, <2>2 DEF MonitorPop
  <2> QED BY <2>1, <2>2
<1> QED BY <1>2, <1>3, <1>4
        DEF Next, acquireOutputBuffer, memoryMonitor, Acquire, CheckEmpty, CannotIncrease,
            Increase, PushNew, Pop, Share, Release, vars

LEMMA DistinctNext == ASSUME Inv, [Next]_vars PROVE Distinct(mBufferQueue)'
<1>1. Distinct(mBufferQueue) /\ mBufferQueue \in Seq(Images)
  BY DEF Inv, TypeOK
<1>2. CASE UNCHANGED mBufferQueue
  BY <1>1, <1>2
<1>3. ASSUME NEW t \in Threads, PushNew(t) PROVE Distinct(mBufferQueue)'
  <2>1. PICK i \in Images \ live : mBufferQueue' = Append(mBufferQueue, i)
    BY <1>3 DEF PushNew
  <2> QED BY <1>1, <2>1, Whereabouts, Appended
<1>4. ASSUME NEW t \in Threads, Release(t) PROVE Distinct(mBufferQueue)'
  <2>1. PICK i \in holding[t] :
          mBufferQueue' = IF LastUser(i) THEN Append(mBufferQueue, i) ELSE mBufferQueue
    BY <1>4 DEF Release
  <2>2. i \in Images /\ i \notin Members(mBufferQueue)
    BY <2>1, Whereabouts DEF Inv, UseCountsExact, Users
  <2> QED BY <1>1, <2>1, <2>2, Appended
<1>5. CASE mBufferQueue # <<>> /\ mBufferQueue' = Tail(mBufferQueue)
  BY <1>5, Heads
<1> QED BY <1>2, <1>3, <1>4, <1>5
        DEF Next, acquireOutputBuffer, memoryMonitor, Acquire, CheckEmpty, CannotIncrease,
            Increase, Pop, Share, MonitorStart, MonitorSize, MonitorPop, MonitorFree,
            MonitorCount, vars

-----------------------------------------------------------------------------
(* Use counts *)

\* UseCountsExact image by image.
Used(i) ==
  /\ i \in live => mUseCount[i] = Cardinality(Users(i))
  /\ i \in live => ((i \in FreeImages \/ i \in victim) <=> Users(i) = {})
  /\ ~(i \in FreeImages /\ i \in victim)
  /\ Users(i) # {} \/ i \in FreeImages \/ i \in victim => i \in live

Named ==
  /\ live \subseteq Images /\ FreeImages \subseteq Images /\ victim \subseteq Images
  /\ \A t \in Threads : holding[t] \subseteq Images

EachUsed == (\A i \in Images : Used(i)) /\ Len(mBufferQueue) = Cardinality(FreeImages)

LEMMA UsedIsExact == Named => (UseCountsExact <=> EachUsed)
<1> SUFFICES ASSUME Named PROVE UseCountsExact <=> EachUsed
  OBVIOUS
<1> USE DEF Named
<1>1. ASSUME \A i \in Images : Used(i)
      PROVE  (UNION {holding[t] : t \in Threads}) \cup FreeImages \cup victim = live
  <2>1. ASSUME NEW i \in Images
        PROVE  i \in live <=> Users(i) # {} \/ i \in FreeImages \/ i \in victim
    BY <1>1 DEF Used
  <2>2. ASSUME NEW i \in Images
        PROVE  i \in UNION {holding[t] : t \in Threads} <=> Users(i) # {}
    BY DEF Users
  <2> QED BY <2>1, <2>2
<1>2. ASSUME UseCountsExact, NEW i \in Images PROVE Used(i)
  <2>1. i \in live <=> i \in UNION {holding[t] : t \in Threads} \/ i \in FreeImages \/ i \in victim
    BY <1>2 DEF UseCountsExact
  <2>2. i \in UNION {holding[t] : t \in Threads} <=> Users(i) # {}
    BY DEF Users
  <2> QED BY <1>2, <2>1, <2>2 DEF UseCountsExact, Used
<1>3. ASSUME \A i \in Images : Used(i), Len(mBufferQueue) = Cardinality(FreeImages)
      PROVE  UseCountsExact
  <2>1. FreeImages \cap victim = {}
    BY <1>3 DEF Used
  <2>2. \A i \in live : /\ mUseCount[i] = Cardinality(Users(i))
                        /\ (i \in FreeImages \/ i \in victim) <=> Users(i) = {}
    BY <1>3 DEF Used
  <2> QED BY <1>1, <1>3, <2>1, <2>2 DEF UseCountsExact
<1> QED BY <1>2, <1>3 DEF UseCountsExact, EachUsed

LEMMA UsedNow == ASSUME Inv PROVE \A i \in Images : Used(i)
<1>1. Named
  BY Whereabouts DEF Named
<1> QED BY <1>1, UsedIsExact DEF Inv, EachUsed

\* An image for which nothing changes is still used as it was.
LEMMA SameUse ==
  ASSUME NEW i \in Images, Used(i), Users(i)' = Users(i), mUseCount'[i] = mUseCount[i],
         i \in live' <=> i \in live, i \in FreeImages' <=> i \in FreeImages,
         i \in victim' <=> i \in victim
  PROVE  Used(i)'
BY DEF Used

LEMMA UsedNext ==
  ASSUME Inv, [Next]_vars, NEW i \in Images
  PROVE  Used(i)'
<1>1. TypeOK /\ mBufferQueue \in Seq(Images) /\ Used(i) /\ FreeImages = Members(mBufferQueue)
      /\ FreeImages' = Members(mBufferQueue')
  BY UsedNow, Whereabouts DEF Inv, TypeOK, FreeImages, Members
<1>2. CASE UNCHANGED <<mBufferQueue, mUseCount, live, holding, victim>>
  <2>1. Users(i)' = Users(i)
    BY <1>2 DEF Users
  <2> QED BY <1>1, <1>2, <2>1, SameUse
<1>3. ASSUME NEW t \in Threads, PushNew(t) PROVE Used(i)'
  <2>1. PICK j \in Images \ live : /\ live' = live \cup {j}
                                   /\ mUseCount' = [mUseCount EXCEPT ![j] = 0]
                                   /\ mBufferQueue' = Append(mBufferQueue, j)
    BY <1>3 DEF PushNew
  <2>2. FreeImages' = FreeImages \cup {j}
    BY <1>1, <2>1, Appended
  <2>3. Users(i)' = Users(i) /\ victim' = victim
    BY <1>3 DEF PushNew, Users
  <2>4. CASE i = j
    <3>1. Users(i) = {} /\ i \notin victim
      BY <2>1, <2>4, Whereabouts
    <3>2. mUseCount'[i] = 0
      BY <1>1, <2>1, <2>4 DEF TypeOK
    <3> QED BY <2>1, <2>2, <2>3, <2>4, <3>1, <3>2, FS_EmptySet DEF Used
  <2>5. CASE i # j
    <3>1. mUseCount'[i] = mUseCount[i]
      BY <1>1, <2>1, <2>5 DEF TypeOK
    <3> QED BY <1>1, <2>1, <2>2, <2>3, <2>5, <3>1, SameUse
  <2> QED BY <2>4, <2>5
<1>4. ASSUME NEW t \in Threads, Pop(t) PROVE Used(i)'
  <2>1. PICK j \in Images : j = Head(mBufferQueue)
    BY <1>4, Heads, Whereabouts DEF Pop
  <2>2. /\ mBufferQueue # <<>> /\ mBufferQueue' = Tail(mBufferQueue)
        /\ mUseCount' = [mUseCount EXCEPT ![j] = @ + 1]
        /\ holding' = [holding EXCEPT ![t] = @ \cup {j}]
        /\ live' = live /\ victim' = victim
    BY <1>4, <2>1 DEF Pop
  <2>3. /\ j \in live /\ j \notin victim /\ Users(j) = {} /\ mUseCount[j] = 0
        /\ FreeImages' = FreeImages \ {j}
    BY <1>1, <2>1, <2>2, Heads
  <2>4. Users(j)' = Users(j) \cup {t} /\ (i # j => Users(i)' = Users(i))
    BY <1>1, <2>2, Gains
  <2>5. CASE i = j
    <3>1. mUseCount'[i] = 1
      BY <1>1, <2>2, <2>3, <2>5 DEF TypeOK
    <3>2. Users(i)' = {t} /\ Cardinality(Users(i)') = 1
      BY <2>3, <2>4, <2>5, FS_Singleton
    <3> QED BY <2>2, <2>3, <2>5, <3>1, <3>2 DEF Used
  <2>6. CASE i # j
    <3>1. mUseCount'[i] = mUseCount[i]
      BY <1>1, <2>2, <2>6 DEF TypeOK
    <3> QED BY <1>1, <2>2, <2>3, <2>4, <2>6, <3>1, SameUse
  <2> QED BY <2>5, <2>6
<1>5. ASSUME NEW t \in Threads, NEW u \in Threads, Share(t, u) PROVE Used(i)'
  <2>1. PICK j \in holding[t] \ holding[u] :
          /\ mUseCount' = [mUseCount EXCEPT ![j] = @ + 1]
          /\ holding' = [holding EXCEPT ![u] = @ \cup {j}]
    BY <1>5 DEF Share
  <2>2. UNCHANGED <<mBufferQueue, live, victim>>
    BY <1>5 DEF Share
  <2>3. j \in live /\ j \in Images /\ u \notin Users(j) /\ Users(j) # {}
    BY <2>1, Whereabouts DEF Users
  <2>4. Users(j)' = Users(j) \cup {u} /\ (i # j => Users(i)' = Users(i))
    BY <1>1, <2>1, <2>3, Gains
  <2>5. CASE i = j
    <3>1. mUseCount'[i] = mUseCount[i] + 1
      BY <1>1, <2>1, <2>3, <2>5 DEF TypeOK
    <3>2. Cardinality(Users(i)') = Cardinality(Users(i)) + 1
      BY <2>3, <2>4, <2>5, UsersCounted, OneMore
    <3>3. Users(i)' # {}
      BY <2>4, <2>5
    <3> QED BY <1>1, <2>2, <2>3, <2>5, <3>1, <3>2, <3>3 DEF Used
  <2>6. CASE i # j
    <3>1. mUseCount'[i] = mUseCount[i]
      BY <1>1, <2>1, <2>3, <2>6 DEF TypeOK
    <3> QED BY <1>1, <2>2, <2>4, <2>6, <3>1, SameUse
  <2> QED BY <2>5, <2>6
<1>6. ASSUME NEW t \in Threads, Release(t) PROVE Used(i)'
  <2>1. PICK j \in holding[t] :
          /\ mUseCount' = [mUseCount EXCEPT ![j] = @ - 1]
          /\ mBufferQueue' = IF LastUser(j) THEN Append(mBufferQueue, j) ELSE mBufferQueue
          /\ holding' = [holding EXCEPT ![t] = @ \ {j}]
    BY <1>6 DEF Release
  <2>2. UNCHANGED <<live, victim>>
    BY <1>6 DEF Release
  <2>3. j \in live /\ j \in Images /\ t \in Users(j) /\ Used(j)
    BY <2>1, Whereabouts, UsedNow DEF Users
  <2>4. Users(j)' = Users(j) \ {t} /\ (i # j => Users(i)' = Users(i))
    BY <1>1, <2>1, Loses
  <2>5. mUseCount[j] = Cardinality(Users(j)) /\ j \notin FreeImages /\ j \notin victim
    BY <2>3 DEF Used
  <2>6. Cardinality(Users(j)') = mUseCount[j] - 1
    BY <2>3, <2>4, <2>5, UsersCounted, OneLess
  <2>7. LastUser(j) <=> Users(j)' = {}
    <3>1. Users(j)' \subseteq Threads
      BY <2>4, UsersCounted
    <3> QED BY <2>6, <3>1, NoMembers DEF LastUser
  <2>8. FreeImages' = IF LastUser(j) THEN FreeImages \cup {j} ELSE FreeImages
    BY <1>1, <2>1, <2>3, Appended
  <2>9. CASE i = j
    <3>1. mUseCount'[i] = mUseCount[i] - 1
      BY <1>1, <2>1, <2>3, <2>9 DEF TypeOK
    <3> QED BY <2>2, <2>3, <2>5, <2>6, <2>7, <2>8, <2>9, <3>1 DEF Used
  <2>10. CASE i # j
    <3>1. mUseCount'[i] = mUseCount[i]
      BY <1>1, <2>1, <2>3, <2>10 DEF TypeOK
    <3> QED BY <1>1, <2>2, <2>4, <2>8, <2>10, <3>1, SameUse
  <2> QED BY <2>9, <2>10
<1>7. CASE MonitorPop /\ mBufferQueue # <<>>
  <2>1. /\ victim' = {Head(mBufferQueue)} /\ mBufferQueue' = Tail(mBufferQueue)
        /\ UNCHANGED <<mUseCount, live, holding>>
    BY <1>7 DEF MonitorPop
  <2>2. victim = {}
    BY <1>7 DEF Inv, Freeing, MonitorPop
  <2>3. FreeImages' = FreeImages \ {Head(mBufferQueue)} /\ Head(mBufferQueue) \in FreeImages
    BY <1>1, <1>7, <2>1, Heads
  <2>4. Users(i)' = Users(i)
    BY <2>1 DEF Users
  <2> QED BY <1>1, <2>1, <2>2, <2>3, <2>4 DEF Used
<1>8. CASE MonitorFree
  <2>1. live' = live \ victim /\ victim' = {} /\ UNCHANGED <<mBufferQueue, mUseCount, holding>>
    BY <1>8 DEF MonitorFree
  <2>2. Users(i)' = Users(i) /\ FreeImages' = FreeImages
    BY <1>1, <2>1 DEF Users
  <2> QED BY <1>1, <2>1, <2>2 DEF Used
<1> QED BY <1>2, <1>3, <1>4, <1>5, <1>6, <1>7, <1>8
        DEF Next, acquireOutputBuffer, memoryMonitor, Acquire, CheckEmpty, CannotIncrease,
            Increase, MonitorStart, MonitorSize, MonitorPop, MonitorCount, vars

LEMMA UsesNext == ASSUME Inv, [Next]_vars PROVE UseCountsExact'
<1>1. TypeOK' /\ Distinct(mBufferQueue)'
  BY TypeNext, DistinctNext
<1>2. \A i \in Images : Used(i)'
  BY UsedNext
<1>3. Named'
  BY <1>1 DEF TypeOK, FreeImages, Named
<1>4. Len(mBufferQueue') = Cardinality(FreeImages')
  <2>1. /\ mBufferQueue \in Seq(Images) /\ Distinct(mBufferQueue)
        /\ Len(mBufferQueue) = Cardinality(FreeImages)
        /\ FreeImages = Members(mBufferQueue) /\ FreeImages' = Members(mBufferQueue')
        /\ FreeImages \subseteq Images
    BY Whereabouts DEF Inv, TypeOK, UseCountsExact, FreeImages, Members
  <2>2. CASE UNCHANGED mBufferQueue
    BY <2>1, <2>2
  <2>3. ASSUME NEW j \in Images, j \notin FreeImages, mBufferQueue' = Append(mBufferQueue, j)
        PROVE  Len(mBufferQueue') = Cardinality(FreeImages')
    BY <2>1, <2>3, Appended, OneMore
  <2>4. CASE mBufferQueue # <<>> /\ mBufferQueue' = Tail(mBufferQueue)
    BY <2>1, <2>4, Heads, OneLess
  <2>5. ASSUME NEW t \in Threads, PushNew(t) PROVE Len(mBufferQueue') = Cardinality(FreeImages')
    <3>1. PICK j \in Images \ live : mBufferQueue' = Append(mBufferQueue, j)
      BY <2>5 DEF PushNew
    <3> QED BY <2>3, <3>1, Whereabouts
  <2>6. ASSUME NEW t \in Threads, Release(t) PROVE Len(mBufferQueue') = Cardinality(FreeImages')
    <3>1. PICK j \in holding[t] :
            mBufferQueue' = IF LastUser(j) THEN Append(mBufferQueue, j) ELSE mBufferQueue
      BY <2>6 DEF Release
    <3>2. j \in Images /\ j \notin FreeImages
      BY <3>1, Whereabouts DEF Inv, UseCountsExact, Users
    <3> QED BY <2>2, <2>3, <3>1, <3>2
  <2> QED BY <2>2, <2>4, <2>5, <2>6
          DEF Next, acquireOutputBuffer, memoryMonitor, Acquire, CheckEmpty, CannotIncrease,
              Increase, Pop, Share, MonitorStart, MonitorSize, MonitorPop, MonitorFree,
              MonitorCount, vars
<1>5. EachUsed'
  BY <1>2, <1>4 DEF EachUsed
<1> QED BY <1>3, <1>5, UsedIsExact, PTL

-----------------------------------------------------------------------------
(* The count of buffers *)

\* Only the thread that holds the mutex can be adding an image.
LEMMA OneGrows ==
  ASSUME Locked, NEW t \in Threads, pc[t] \in Acquiring
  PROVE  Growing \subseteq {t}
BY DEF Locked, Growing, Acquiring

LEMMA CountsNext == ASSUME Inv, [Next]_vars PROVE CountsMatchMemory'
<1>1. /\ TypeOK /\ Locked /\ CountsMatchMemory /\ MaxDepth \in Nat
      /\ Cardinality(live) \in Nat /\ Cardinality(Growing) \in Nat /\ Shrinking \in {0, 1}
  BY MembersFinite, QueueAssumption DEF Inv, TypeOK, Growing, Shrinking
<1>2. ASSUME UNCHANGED <<mNumBuffers, live>>, Growing' = Growing, Shrinking' = Shrinking
      PROVE  CountsMatchMemory'
  BY <1>1, <1>2 DEF CountsMatchMemory
<1>3. ASSUME NEW t \in Threads, Acquire(t) \/ CheckEmpty(t) \/ CannotIncrease(t) \/ Pop(t)
      PROVE  CountsMatchMemory'
  <2>1. /\ Growing' = Growing
    BY <1>1, <1>3 DEF Acquire, CheckEmpty, CannotIncrease, Pop, Goto, Growing, TypeOK
  <2> QED BY <1>2, <1>3, <2>1 DEF Acquire, CheckEmpty, CannotIncrease, Pop, Shrinking
<1>4. ASSUME NEW t \in Threads, Release(t) PROVE CountsMatchMemory'
  <2>1. Growing' = Growing
    BY <1>1, <1>4 DEF Release, Goto, Growing, TypeOK
  <2> QED BY <1>2, <1>4, <2>1 DEF Release, Shrinking
<1>5. ASSUME NEW t \in Threads, NEW u \in Threads, Share(t, u) PROVE CountsMatchMemory'
  <2>1. Growing' = Growing
    BY <1>1, <1>5 DEF Share, Growing, TypeOK
  <2> QED BY <1>2, <1>5, <2>1 DEF Share, Shrinking
<1>6. ASSUME NEW t \in Threads, Increase(t) PROVE CountsMatchMemory'
  <2>1. Growing = {} /\ Growing' = {t}
    <3>1. pc[t] = "increase" /\ pc' = [pc EXCEPT ![t] = "push"]
      BY <1>6 DEF Increase, Goto
    <3>2. Growing = {}
      BY <1>1, <3>1, OneGrows DEF Acquiring, Growing
    <3> QED BY <1>1, <3>1, <3>2 DEF Growing, TypeOK
  <2>2. Cardinality(Growing) = 0 /\ Cardinality(Growing') = 1
    BY <2>1, FS_EmptySet, FS_Singleton
  <2>3. mNumBuffers' = mNumBuffers + 1 /\ mNumBuffers < MaxDepth /\ live' = live
        /\ Shrinking' = Shrinking
    BY <1>1, <1>6 DEF Increase, AtTheCap, Shrinking, TypeOK
  <2> QED BY <1>1, <2>2, <2>3 DEF CountsMatchMemory, TypeOK
<1>7. ASSUME NEW t \in Threads, PushNew(t) PROVE CountsMatchMemory'
  <2>1. PICK i \in Images \ live : live' = live \cup {i}
    BY <1>7 DEF PushNew
  <2>2. Growing = {t} /\ Growing' = {}
    <3>1. pc[t] = "push" /\ pc' = [pc EXCEPT ![t] = "pop"]
      BY <1>7 DEF PushNew, Goto
    <3>2. Growing = {t}
      BY <1>1, <3>1, OneGrows DEF Acquiring, Growing
    <3> QED BY <1>1, <3>1, <3>2 DEF Growing, TypeOK
  <2>3. Cardinality(Growing) = 1 /\ Cardinality(Growing') = 0
    BY <2>2, FS_EmptySet, FS_Singleton
  <2>4. Cardinality(live') = Cardinality(live) + 1
    BY <1>1, <2>1, OneMore DEF TypeOK
  <2>5. mNumBuffers' = mNumBuffers /\ Shrinking' = Shrinking
    BY <1>7 DEF PushNew, Shrinking
  <2> QED BY <1>1, <2>3, <2>4, <2>5 DEF CountsMatchMemory, TypeOK
<1>8. CASE MonitorStart \/ MonitorSize \/ MonitorPop
  <2>1. Growing' = Growing /\ Shrinking' = Shrinking /\ UNCHANGED <<mNumBuffers, live>>
    BY <1>8 DEF MonitorStart, MonitorSize, MonitorPop, Growing, Shrinking
  <2> QED BY <1>2, <2>1
<1>9. CASE MonitorFree
  <2>1. PICK i \in Images : victim = {i}
    BY <1>9 DEF Inv, Freeing, MonitorFree
  <2>2. i \in live /\ live' = live \ {i}
    BY <1>9, <2>1, Whereabouts DEF MonitorFree
  <2>3. Cardinality(live') = Cardinality(live) - 1
    BY <1>1, <2>2, OneLess DEF TypeOK
  <2>4. mNumBuffers' = mNumBuffers /\ Growing' = Growing /\ Shrinking = 0 /\ Shrinking' = 1
    BY <1>9 DEF MonitorFree, Growing, Shrinking
  <2> QED BY <1>1, <2>3, <2>4 DEF CountsMatchMemory, TypeOK
<1>10. CASE MonitorCount
  <2>1. /\ mNumBuffers' = mNumBuffers - 1 /\ live' = live /\ Growing' = Growing
        /\ Shrinking = 1 /\ Shrinking' = 0
    BY <1>10 DEF MonitorCount, Growing, Shrinking
  <2> QED BY <1>1, <2>1 DEF CountsMatchMemory, TypeOK
<1>11. CASE UNCHANGED vars
  BY <1>2, <1>11 DEF vars, Growing, Shrinking
<1> QED BY <1>3, <1>4, <1>5, <1>6, <1>7, <1>8, <1>9, <1>10, <1>11
        DEF Next, acquireOutputBuffer, memoryMonitor

-----------------------------------------------------------------------------
LEMMA InvNext == Inv /\ [Next]_vars => Inv'
BY TypeNext, LockedNext, FreeingNext, DistinctNext, UsesNext, CountsNext DEF Inv

LEMMA InvAlways == Spec => []Inv
BY InvInit, InvNext, PTL DEF Spec, Safe

\* Every reachable state of the queue is well typed.
THEOREM TypeCorrect == Spec => []TypeOK
<1>1. Inv => TypeOK
  BY DEF Inv
<1> QED BY <1>1, InvAlways, PTL

\* No image is queued twice, handed to two acquirers, freed under a user, or lost,
\* however acquirers, releasers and the memory monitor meet.
THEOREM ImagesAreCounted == Spec => []UseCountsExact
<1>1. Inv => UseCountsExact
  BY DEF Inv
<1> QED BY <1>1, InvAlways, PTL

\* The count that steers growing and shrinking is the number of images, and the
\* cap holds.
THEOREM MemoryIsCounted == Spec => []CountsMatchMemory
<1>1. Inv => CountsMatchMemory
  BY DEF Inv
<1> QED BY <1>1, InvAlways, PTL
=============================================================================
