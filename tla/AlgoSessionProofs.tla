-------------------------- MODULE AlgoSessionProofs --------------------------
(***************************************************************************)
(* Theorems about AlgoSession, for any previews, snapshots and threads of  *)
(* the vendor's HAL.  Core says where threads, executors and the flush can *)
(* be; AcceptedAreAnswered is inductive with it.  FinishedIsErased follows *)
(* from StatusesAgree, that an executor's status is what it was told if no *)
(* two updates overlapped, and FinishedInUse, its like for the status.     *)
(* Debts says exactly what the count by which SessionManager waits stands  *)
(* for, for SessionSafe; Tokens says who may still bring a buffer back,    *)
(* for BuffersAccounted, from which NeededExact follows.  At the end all   *)
(* of them, with what the vendor's answers leave behind, give              *)
(* ReclaimedWhenQuiet.                                                     *)
(***************************************************************************)
EXTENDS AlgoSession, FiniteSetTheorems, TLAPS

-----------------------------------------------------------------------------
(* Executors and threads *)

\* The vendor's threads are at frames the vendor was given, the other two at early
\* pictures of snapshots; the darkroom has answered for the frame it is at.
Positioned(t) ==
  /\ at[t].step = "idle" <=> at[t] = Idle
  /\ at[t].frame = Nobody <=> at[t] = Idle
  /\ at[t].step \in {"decrease", "signal"} => t = Darkroom
  /\ t \in VendorThreads /\ at[t] # Idle =>
       at[t].event \in Notifications \cup Results /\ InVendor(at[t].frame)
  /\ t \in {Loop, Darkroom} /\ at[t] # Idle => at[t].event = "early" /\ at[t].frame \in Snapshots

Positions ==
  /\ \A t \in Threads : Positioned(t)
  /\ at[Darkroom] # Idle => darkroom[at[Darkroom].frame] = "answered"

\* A request's executor is made after its record.
Fresh == {"none", "rejected", "rejecting", "admitted", "recorded", "answered"}
Making == \A f \in Frames :
  /\ executor[f] = "none" <=> request[f] \in Fresh
  /\ executor[f] # "alive" =>
       mStatus[f] = {} /\ flags[f] = {} /\ told[f] = {} /\ f \notin overlapped
  /\ f \in Snapshots /\ "final" \notin flags[f] /\ executor[f] # "gone" => darkroom[f] = "none"

\* An executor lives as long as somebody has a pointer to it.
Living == \A f \in Frames :
  executor[f] = "alive" <=>
    f \in mVendorInflights \/ HeldByRequest(f) \/ \E t \in Threads : Holds(t, f)

\* The attached request of a snapshot counts until it is taken off.
Attaching == \A f \in Snapshots :
  /\ f \in mAttachVendorFrame \/ request[f] = "in flight" => mAttachedCount[f] = 1
  /\ request[f] \in Fresh \cup {"in flight"} => f \notin mAttachVendorFrame

\* What the steps of a flush leave behind, and what an offline session is rid of.
Flushing ==
  /\ flush \in {"vendor", "loop", "join", "drain", "returned"} => mFlush
  /\ flush \in {"join", "drain", "returned"} => mExitThread
  /\ flush \in {"drain", "returned"} => at[Loop] = Idle
  /\ registry # "active" => 
       /\ flush = "returned" /\ \A f \in Frames : request[f] \in Over
       /\ \A t \in VendorThreads : at[t] = Idle

Core == TypeOK /\ Positions /\ Making /\ Living /\ Attaching /\ Flushing

\* A result for the framework's buffer is yet to come.
BringsBuffer(t, f) ==
  at[t].frame = f /\ at[t].step = "update" /\ at[t].event \in {"buffer", "bad buffer"}
Owing(f) == owed[f] \cap {"buffer", "bad buffer"} # {}
Submitting(f) == request[f] \in {"recorded", "in flight", "attached", "submitting"}
Unspent(f) == Submitting(f) \/ Owing(f) \/ \E t \in VendorThreads : BringsBuffer(t, f)

Tokens ==
  /\ \A f \in Frames : owed[f] \subseteq Parts \/ owed[f] = {"bad buffer"}
  /\ \A f \in Frames : owed[f] # {} => InVendor(f)
  /\ \A t \in VendorThreads, f \in Frames : BringsBuffer(t, f) => ~Owing(f)
  /\ \A t \in VendorThreads, f \in Frames : at[t].frame = f /\ at[t].event \in Results =>
       \A u \in VendorThreads : at[u].frame = f /\ at[u].event \in Results => u = t
  /\ \A f \in Previews : Pending(f) /\ Unspent(f) => "buffer" \in mPendingFwkRecords[f]
  /\ \A f \in Snapshots : Pending(f) /\ "early" \notin flags[f] /\ executor[f] # "gone" =>
       "buffer" \in mPendingFwkRecords[f]

\* What mihal keeps of a snapshot, or works at, is of one the vendor was given.
Entrusted ==
  /\ \A f \in Snapshots :
       f \in mVndAnchorFrames \/ darkroom[f] # "none" \/ "final" \in flags[f] => InVendor(f)
  /\ at[Loop] # Idle => InVendor(at[Loop].frame)
  /\ \A t \in Threads : at[t].step = "finish" => at[t].event \in Results

\* A snapshot has its outcome before its result counts as given, and before its
\* executor is let go, unless it was refused at the submit.
Completing(t, f) ==
  /\ at[t].frame = f
  /\ \/ at[t].step \in {"complete", "completed"}
     \/ at[t].step = "notified" /\ "RESULT" \in loaded[t]

Finals == \A f \in Snapshots :
  /\ "RESULT" \in mStatus[f] \/ "reported" \in flags[f] => "final" \in flags[f]
  /\ \A t \in Threads : Completing(t, f) => "final" \in flags[f]
  /\ executor[f] = "alive" /\ f \notin mVendorInflights =>
       "final" \in flags[f] \/ request[f] = "refusing"

\* Snapshots without an outcome, and those whose image is made.
Undecided(f) == executor[f] = "alive" /\ "final" \notin flags[f]
InDarkroom(f) ==
  \/ darkroom[f] \in {"working", "working early"}
  \/ at[Darkroom].frame = f /\ at[Darkroom].step # "signal"

\* What mPendingMiHALSnapCount still has to let go; it never does so for a snapshot that
\* was refused at the submit.
Debt(f) == Undecided(f) \/ InDarkroom(f)
Indebted == {f \in Snapshots : Debt(f) \/ request[f] = "refused"}

Debts == mPendingMiHALSnapCount = Cardinality(Indebted)

-----------------------------------------------------------------------------
(* Frames, threads and their moves *)

LEMMA Constants ==
  /\ Nobody \notin Frames
  /\ Previews \subseteq Frames /\ Snapshots \subseteq Frames /\ Frames = Previews \cup Snapshots
  /\ Previews \cap Snapshots = {}
  /\ Loop \in Threads /\ Darkroom \in Threads /\ Loop # Darkroom
  /\ Loop \notin VendorThreads /\ Darkroom \notin VendorThreads
  /\ VendorThreads \subseteq Threads /\ \A t \in Threads : t \in VendorThreads \cup {Loop, Darkroom}
BY SessionAssumption DEF SessionAssumption, Threads

LEMMA FiniteSets ==
  IsFiniteSet(Frames) /\ IsFiniteSet(Snapshots) /\ IsFiniteSet(Threads)
<1>1. IsFiniteSet(Frames)
  BY FramesAssumption DEF FramesAssumption
<1>2. IsFiniteSet(VendorThreads)
  BY SessionAssumption DEF SessionAssumption
<1>3. IsFiniteSet({Loop, Darkroom})
  <2>1. {Loop, Darkroom} = {Loop} \cup {Darkroom}
    OBVIOUS
  <2>2. IsFiniteSet({Loop}) /\ IsFiniteSet({Darkroom})
    BY FS_Singleton, Zenon
  <2> QED BY <2>1, <2>2, FS_Union
<1>4. IsFiniteSet(Threads)
  BY <1>2, <1>3, FS_Union DEF Threads
<1> QED BY <1>1, <1>4, Constants, FS_Subset

\* A thread goes on with the event it is at.
LEMMA Going ==
  ASSUME ThreadsTyped, NEW t \in Threads, NEW step \in Steps, Goto(t, step)
  PROVE  /\ ThreadsTyped'
         /\ at'[t] = [frame |-> at[t].frame, event |-> at[t].event, step |-> step]
         /\ \A u \in Threads \ {t} : at'[u] = at[u]
BY DEF Goto, ThreadsTyped, Places

LEMMA GoingTo ==
  ASSUME ThreadsTyped, NEW t \in Threads, NEW step, Goto(t, step)
  PROVE  /\ at'[t].frame = at[t].frame /\ at'[t].event = at[t].event /\ at'[t].step = step
         /\ at' # [at EXCEPT ![t] = Idle] \/ step = "idle"
BY DEF Goto, ThreadsTyped, Places, Idle

\* A thread looks for the executor of a frame.
LEMMA Beginning ==
  ASSUME ThreadsTyped, NEW t \in Threads, NEW f \in Frames,
         NEW event \in Notifications \cup Results \cup {"early"}, BeginAt(t, f, event)
  PROVE  /\ ThreadsTyped'
         /\ at'[t] = IF f \in mVendorInflights
                     THEN [frame |-> f, event |-> event, step |-> "update"] ELSE Idle
         /\ \A u \in Threads \ {t} : at'[u] = at[u]
BY DEF BeginAt, ThreadsTyped, Places, Idle, Steps

\* Steps that only concern the flush and the registry.
Manages ==
  /\ \/ Flush \/ flush2Vendor \/ waitLoop \/ waitAndResetToInitStatus
     \/ unregisterSession \/ sessionReclaimLoop \/ UNCHANGED <<flushVars, managerVars>>
  /\ UNCHANGED <<recordVars, request, owed, executorVars, statusVars, flags, snapVars, at>>

LEMMA Cases ==
  ASSUME [Next]_vars
  PROVE  \/ \E f \in Frames : ProcessRequest(f)
         \/ \E t \in VendorThreads, f \in Frames, event \in Notifications \cup Results :
               Arrive(t, f, event)
         \/ \E t \in Threads : Callback(t)
         \/ \E f \in Frames : TakeAnchor(f)
         \/ \E f \in Snapshots : AnswerOf(f)
         \/ decreasePendingFinalSnapCount \/ SignalReclaim
         \/ flushPendingFwkRecords \/ Manages
<1>1. UNCHANGED vars => Manages
  BY DEF vars, Manages, flushVars, managerVars
<1>2. Flush \/ flush2Vendor \/ waitLoop \/ waitAndResetToInitStatus => Manages
  BY DEF Manages, Flush, flush2Vendor, waitLoop, waitAndResetToInitStatus
<1>3. unregisterSession \/ sessionReclaimLoop => Manages
  BY DEF Manages, unregisterSession, sessionReclaimLoop
<1>4. Begin => \/ \E f \in Frames : ProcessRequest(f) \/ TakeAnchor(f)
               \/ \E t \in VendorThreads, f \in Frames, event \in Notifications \cup Results :
                     Arrive(t, f, event)
               \/ Flush \/ unregisterSession
  BY DEF Begin, ProcessRequest
<1> QED BY <1>1, <1>2, <1>3, <1>4 DEF Next, RequestGoesOn, DarkroomNext, FlushNext

\* A callback reads or stores the status of its executor.
Stores(t) == Load(t) \/ StoreNotified(t) \/ complete(t)

LEMMA StoresOnly ==
  ASSUME NEW t, Stores(t)
  PROVE  /\ UNCHANGED <<recordVars, request, owed, executorVars, snapVars, flushVars, managerVars>>
         /\ at[t].step \in {"notify", "notified", "complete", "completed"}
         /\ \E step \in {"notified", "completed", "complete", "erase"} : Goto(t, step)
         /\ \/ UNCHANGED flags
            \/ flags' = [flags EXCEPT ![at[t].frame] = @ \cup Learnt(at[t].event)]
BY DEF Stores, Load, StoreNotified, complete, Store

-----------------------------------------------------------------------------
(* Types *)

LEMMA NextInts == \A n \in Int : n + 1 \in Int /\ n - 1 \in Int
OBVIOUS

LEMMA Flushable == Cardinality({f \in Frames : "buffer" \in mPendingFwkRecords[f]}) \in Nat
BY FiniteSets, FS_Subset, FS_CardinalityType

LEMMA RecordsTyped ==
  ASSUME RecordsTypeOK,
         \/ CountBuffer \/ UncountBuffer \/ flushRecords \/ UNCHANGED recordVars
         \/ \E f \in Frames : \/ insertPendingFwkRecords(f) \/ process_capture_result(f)
                              \/ \E parts \in SUBSET Parts : updatePendingFwkRecords(f, parts)
  PROVE  RecordsTypeOK'
<1>1. CASE CountBuffer
  BY <1>1 DEF RecordsTypeOK, CountBuffer
<1>2. CASE UncountBuffer
  BY <1>2 DEF RecordsTypeOK, UncountBuffer, CountBack
<1>3. CASE flushRecords
  <2>1. \A n \in Nat : CountBack(n) \in Nat
    BY DEF CountBack, RecordsTypeOK
  <2>2. mBufferNeededNum' \in Nat
    BY <1>3, <2>1, Flushable DEF flushRecords
  <2>3. back' \in [Frames -> Nat] /\ mPendingFwkRecords' \in [Frames -> SUBSET Parts]
    BY <1>3 DEF flushRecords, RecordsTypeOK
  <2> QED BY <2>2, <2>3 DEF RecordsTypeOK
<1>4. CASE UNCHANGED recordVars
  BY <1>4 DEF RecordsTypeOK, recordVars
<1>5. ASSUME NEW f \in Frames, insertPendingFwkRecords(f)
      PROVE  RecordsTypeOK'
  BY <1>5 DEF RecordsTypeOK, insertPendingFwkRecords
<1>6. ASSUME NEW f \in Frames, process_capture_result(f)
      PROVE  RecordsTypeOK'
  BY <1>6 DEF RecordsTypeOK, process_capture_result
<1>7. ASSUME NEW f \in Frames, NEW parts \in SUBSET Parts, updatePendingFwkRecords(f, parts)
      PROVE  RecordsTypeOK'
  BY <1>7 DEF RecordsTypeOK, updatePendingFwkRecords
<1> QED BY <1>1, <1>2, <1>3, <1>4, <1>5, <1>6, <1>7

LEMMA Answering ==
  ASSUME NEW f, NEW event
  PROVE  Answered(f, event) \in SUBSET Parts
BY DEF Answered, Parts

\* A thread that is at work is at a frame.
LEMMA AtFrame ==
  ASSUME ThreadsTyped, Positions, NEW t \in Threads, at[t].step # "idle"
  PROVE  at[t].frame \in Frames
BY DEF ThreadsTyped, Positions, Positioned, Places, Idle

LEMMA RecordsTypedNext ==
  ASSUME TypeOK, Positions, [Next]_vars
  PROVE  RecordsTypeOK'
<1>1. ASSUME NEW f \in Frames, ProcessRequest(f)
      PROVE  RecordsTypeOK'
  <2>1. \/ CountBuffer \/ UncountBuffer \/ process_capture_result(f)
        \/ insertPendingFwkRecords(f) \/ UNCHANGED recordVars
    BY <1>1 DEF ProcessRequest, processCaptureRequest, setReqErrorAndForwardResult, Record, Attach,
                createExecutor, submitRequest2Vendor, process_capture_request, Return
  <2> QED BY <2>1, RecordsTyped DEF TypeOK
<1>2. ASSUME NEW t \in Threads, Callback(t)
      PROVE  RecordsTypeOK'
  <2>1. CASE Update(t)
    <3>1. updatePendingFwkRecords(at[t].frame, Answered(at[t].frame, at[t].event))
      BY <2>1 DEF Update
    <3>2. at[t].frame \in Frames
      BY <2>1, AtFrame DEF Update, TypeOK
    <3> QED BY <3>1, <3>2, Answering, RecordsTyped DEF TypeOK
  <2>2. CASE processCaptureResult(t)
    <3>1. at[t].frame \in Frames
      BY <2>2, AtFrame DEF processCaptureResult, TypeOK
    <3> QED BY <2>2, <3>1, RecordsTyped DEF processCaptureResult, TypeOK
  <2>3. CASE PassEarly(t) \/ Finish(t) \/ Stores(t) \/ Erase(t)
    <3>1. UNCHANGED recordVars
      BY <2>3, StoresOnly DEF PassEarly, Finish, Erase
    <3> QED BY <3>1, RecordsTyped DEF TypeOK
  <2> QED BY <1>2, <2>1, <2>2, <2>3 DEF Callback, Stores
<1>3. CASE flushPendingFwkRecords
  BY <1>3, RecordsTyped DEF flushPendingFwkRecords, TypeOK
<1>4. CASE decreasePendingFinalSnapCount \/ SignalReclaim \/ Manages
  <2>1. UNCHANGED recordVars
    BY <1>4 DEF decreasePendingFinalSnapCount, SignalReclaim, Manages
  <2> QED BY <2>1, RecordsTyped DEF TypeOK
<1>5. CASE \/ \E f \in Frames : TakeAnchor(f)
           \/ \E f \in Snapshots : AnswerOf(f)
           \/ \E t \in VendorThreads, f \in Frames, event \in Notifications \cup Results :
                 Arrive(t, f, event)
  <2>1. UNCHANGED recordVars
    BY <1>5 DEF TakeAnchor, AnswerOf, Arrive
  <2> QED BY <2>1, RecordsTyped DEF TypeOK
<1> QED BY <1>1, <1>2, <1>3, <1>4, <1>5, Cases

LEMMA RequestsTypedNext ==
  ASSUME RequestsTyped, [Next]_vars
  PROVE  RequestsTyped'
<1>1. ASSUME NEW f \in Frames, ProcessRequest(f)
      PROVE  RequestsTyped'
  BY <1>1 DEF RequestsTyped, Advance, ProcessRequest, processCaptureRequest, Record, Attach,
              setReqErrorAndForwardResult, createExecutor, submitRequest2Vendor,
              process_capture_request, Return
<1>2. ASSUME NEW t \in VendorThreads, NEW f \in Frames, NEW event \in Notifications \cup Results,
             Arrive(t, f, event)
      PROVE  RequestsTyped'
  BY <1>2 DEF RequestsTyped, Arrive
<1>3. ASSUME NEW t \in Threads, Callback(t)
      PROVE  UNCHANGED <<request, owed>>
  BY <1>3 DEF Callback, Update, PassEarly, processCaptureResult, Load, StoreNotified, complete,
              Store, Finish, Erase
<1>4. CASE \/ \E f \in Frames : TakeAnchor(f)
           \/ \E f \in Snapshots : AnswerOf(f)
           \/ decreasePendingFinalSnapCount \/ SignalReclaim \/ flushPendingFwkRecords \/ Manages
  BY <1>4 DEF RequestsTyped, TakeAnchor, AnswerOf, decreasePendingFinalSnapCount, SignalReclaim,
              flushPendingFwkRecords, Manages
<1> QED BY <1>1, <1>2, <1>3, <1>4, Cases DEF RequestsTyped

LEMMA Adding ==
  ASSUME NEW T, NEW known \in [Frames -> SUBSET T], NEW f \in Frames, NEW new \in SUBSET T
  PROVE  [known EXCEPT ![f] = @ \cup new] \in [Frames -> SUBSET T]
OBVIOUS

LEMMA DestroyedTyped ==
  ASSUME ExecutorsTyped, StatusTyped, NEW frames, Destroyed(frames), mVendorInflights' \subseteq Frames
  PROVE  ExecutorsTyped' /\ StatusTyped'
BY DEF ExecutorsTyped, StatusTyped, Destroyed

Learnings == {"meta", "no meta", "buffer", "error", "final", "reported", "early"}

LEMMA LearntTyped ==
  ASSUME ExecutorsTyped, NEW f \in Frames, NEW new \in SUBSET Learnings,
         flags' = [flags EXCEPT ![f] = @ \cup new]
  PROVE  flags' \in [Frames -> SUBSET Learnings]
<1>1. flags \in [Frames -> SUBSET Learnings]
  BY DEF ExecutorsTyped, Learnings
<1> QED BY <1>1, Adding

LEMMA LearntOf == \A event : Learnt(event) \in SUBSET Learnings
BY DEF Learnt, Learnings

\* A callback uses one executor, and only its thread's copy of the status.
LEMMA CallbackTyped ==
  ASSUME TypeOK, Positions, NEW t \in Threads, Callback(t)
  PROVE  ExecutorsTyped' /\ StatusTyped'
<1>0. ExecutorsTyped /\ StatusTyped
  BY DEF TypeOK
<1> DEFINE f == at[t].frame
<1>1. f \in Frames
  BY AtFrame DEF TypeOK, Callback, Update, PassEarly, processCaptureResult, Finish, Load,
                 StoreNotified, complete, Store, Erase
<1>2. ASSUME UNCHANGED executorVars \/ UNCHANGED <<mVendorInflights, executor>>,
             flags' \in [Frames -> SUBSET Learnings]
      PROVE  ExecutorsTyped'
  BY <1>0, <1>2 DEF ExecutorsTyped, executorVars, Learnings
<1>3. UNCHANGED flags => flags' \in [Frames -> SUBSET Learnings]
  BY <1>0 DEF ExecutorsTyped, Learnings
<1>4. UNCHANGED statusVars => StatusTyped'
  BY <1>0 DEF StatusTyped, statusVars
<1>5. CASE Update(t)
  <2>1. /\ UNCHANGED <<mVendorInflights, executor>> /\ UNCHANGED statusVars
        /\ flags' = [flags EXCEPT ![f] = @ \cup (IF at[t].event \in Notifications THEN {}
                                                ELSE Learnt(at[t].event))]
    BY <1>5 DEF Update
  <2>2. (IF at[t].event \in Notifications THEN {} ELSE Learnt(at[t].event)) \in SUBSET Learnings
    BY LearntOf
  <2>3. flags' \in [Frames -> SUBSET Learnings]
    BY <1>0, <1>1, <2>1, <2>2, LearntTyped
  <2> QED BY <1>2, <1>4, <2>1, <2>3
<1>6. CASE PassEarly(t) \/ processCaptureResult(t)
  BY <1>2, <1>3, <1>4, <1>6 DEF PassEarly, processCaptureResult
<1>7. CASE Finish(t)
  <2>1. UNCHANGED executorVars /\ UNCHANGED statusVars
    BY <1>7 DEF Finish
  <2>2. \/ UNCHANGED flags
        \/ flags' = [flags EXCEPT ![f] = @ \cup {"final"}]
        \/ flags' = [flags EXCEPT ![f] = @ \cup {"final", "reported"}]
    BY <1>7 DEF Finish, goToDarkroom, GiveUp
  <2>3. {"final"} \in SUBSET Learnings /\ {"final", "reported"} \in SUBSET Learnings
    BY DEF Learnings
  <2>4. flags' \in [Frames -> SUBSET Learnings]
    BY <1>0, <1>1, <1>3, <2>2, <2>3, LearntTyped
  <2> QED BY <1>2, <1>4, <2>1, <2>4
<1>8. CASE Stores(t)
  <2>1. flags' \in [Frames -> SUBSET Learnings]
    BY <1>0, <1>1, <1>3, <1>8, StoresOnly, LearntOf, LearntTyped
  <2>2. ASSUME Load(t)
        PROVE  StatusTyped'
    <3>1. /\ loaded' = [loaded EXCEPT ![t] = mStatus[f]] /\ mStatus[f] \in SUBSET ALL_FINISH
          /\ UNCHANGED mStatus /\ UNCHANGED told
      BY <1>0, <1>1, <2>2 DEF Load, StatusTyped
    <3>2. overlapped' \subseteq Frames
      BY <1>0, <1>1, <2>2 DEF Load, StatusTyped
    <3> QED BY <1>0, <3>1, <3>2 DEF StatusTyped
  <2>3. ASSUME NEW finish \in ALL_FINISH, Store(t, f, finish)
        PROVE  StatusTyped'
    <3>1. loaded[t] \cup {finish} \in SUBSET ALL_FINISH
      BY <1>0, <2>3 DEF StatusTyped
    <3>2. mStatus' \in [Frames -> SUBSET ALL_FINISH] /\ loaded' \in [Threads -> SUBSET ALL_FINISH]
      BY <1>0, <2>3, <3>1 DEF Store, StatusTyped
    <3>3. told' \in [Frames -> SUBSET ALL_FINISH]
      BY <1>0, <1>1, <2>3, Adding DEF Store, StatusTyped
    <3> QED BY <1>0, <2>3, <3>2, <3>3 DEF Store, StatusTyped
  <2>4. "NOTIFY" \in ALL_FINISH /\ "RESULT" \in ALL_FINISH
    BY DEF ALL_FINISH
  <2> QED BY <1>2, <1>8, <2>1, <2>2, <2>3, <2>4, StoresOnly DEF Stores, StoreNotified, complete
<1>9. CASE Erase(t)
  <2>1. mVendorInflights' \subseteq Frames
    BY <1>0, <1>9 DEF Erase, ExecutorsTyped
  <2> QED BY <1>0, <1>9, <2>1, DestroyedTyped DEF Erase
<1> QED BY <1>5, <1>6, <1>7, <1>8, <1>9 DEF Callback, Stores

LEMMA ExecutorsTypedNext ==
  ASSUME TypeOK, Positions, [Next]_vars
  PROVE  ExecutorsTyped' /\ StatusTyped'
<1>0. ExecutorsTyped /\ StatusTyped
  BY DEF TypeOK
<1>1. ASSUME UNCHANGED <<executor, flags, statusVars>>, mVendorInflights' \subseteq Frames
      PROVE  ExecutorsTyped' /\ StatusTyped'
  BY <1>0, <1>1 DEF ExecutorsTyped, StatusTyped, statusVars
<1>2. ASSUME NEW f \in Frames, ProcessRequest(f)
      PROVE  ExecutorsTyped' /\ StatusTyped'
  <2>1. mVendorInflights' \subseteq Frames
    BY <1>0, <1>2 DEF ExecutorsTyped, ProcessRequest, processCaptureRequest, Record, Attach,
                      setReqErrorAndForwardResult, createExecutor, submitRequest2Vendor,
                      process_capture_request, Return, executorVars
  <2>2. CASE createExecutor(f)
    BY <1>0, <2>1, <2>2 DEF createExecutor, ExecutorsTyped, StatusTyped, statusVars
  <2>3. CASE Return(f)
    BY <1>0, <2>1, <2>3, DestroyedTyped DEF Return
  <2>4. CASE ~createExecutor(f) /\ ~Return(f)
    <3>1. UNCHANGED <<executor, flags, statusVars>>
      BY <1>2, <2>4 DEF ProcessRequest, processCaptureRequest, Record, Attach, executorVars,
                        setReqErrorAndForwardResult, submitRequest2Vendor, process_capture_request
    <3> QED BY <1>1, <2>1, <3>1
  <2> QED BY <2>2, <2>3, <2>4
<1>3. CASE flushPendingFwkRecords
  <2>1. mVendorInflights' \subseteq Frames
    BY <1>0, <1>3 DEF flushPendingFwkRecords, ExecutorsTyped
  <2> QED BY <1>0, <1>3, <2>1, DestroyedTyped DEF flushPendingFwkRecords
<1>4. CASE \/ \E f \in Frames : TakeAnchor(f)
           \/ \E f \in Snapshots : AnswerOf(f)
           \/ \E t \in VendorThreads, f \in Frames, event \in Notifications \cup Results :
                 Arrive(t, f, event)
           \/ decreasePendingFinalSnapCount \/ SignalReclaim \/ Manages
  <2>1. UNCHANGED <<executor, flags, statusVars>> /\ UNCHANGED mVendorInflights
    BY <1>4 DEF TakeAnchor, AnswerOf, Arrive, decreasePendingFinalSnapCount, SignalReclaim,
                Manages, executorVars
  <2> QED BY <1>0, <1>1, <2>1 DEF ExecutorsTyped
<1> QED BY <1>2, <1>3, <1>4, CallbackTyped, Cases

\* mAttachedCount falls only for attached requests, which count.
LEMMA AttachedTypedNext ==
  ASSUME TypeOK, Positions, Attaching, [Next]_vars
  PROVE  AttachedTyped'
<1> USE DEF AttachedTyped
<1>1. ASSUME NEW frames, removeAttachFwkRequest(frames)
      PROVE  AttachedTyped'
  <2>1. \A f \in mAttachVendorFrame : mAttachedCount[f] = 1
    BY DEF TypeOK, Attaching
  <2>2. \A f \in Frames : mAttachedCount'[f] = IF f \in frames \cap mAttachVendorFrame \cap mVendorInflights
                                               THEN 0 ELSE mAttachedCount[f]
    BY <1>1, <2>1 DEF removeAttachFwkRequest
  <2>3. mAttachedCount' = [f \in Frames |-> mAttachedCount'[f]]
    BY <1>1 DEF removeAttachFwkRequest
  <2>4. mAttachedCount' \in [Frames -> {0, 1}]
    BY <2>2, <2>3 DEF TypeOK
  <2> QED BY <1>1, <2>4 DEF TypeOK, removeAttachFwkRequest
<1>2. ASSUME NEW f \in Frames, ProcessRequest(f)
      PROVE  AttachedTyped'
  <2>1. CASE createExecutor(f) \/ Attach(f)
    BY <2>1 DEF TypeOK, createExecutor, Attach
  <2>2. CASE ~(createExecutor(f) \/ Attach(f))
    BY <1>2, <2>2 DEF TypeOK, ProcessRequest, processCaptureRequest, setReqErrorAndForwardResult,
                      Record, submitRequest2Vendor, process_capture_request, Return, executorVars
  <2> QED BY <2>1, <2>2
<1>3. ASSUME NEW t \in Threads, Callback(t)
      PROVE  AttachedTyped'
  <2>1. CASE Update(t)
    BY <1>1, <2>1 DEF Update
  <2>2. CASE ~Update(t)
    BY <1>3, <2>2 DEF TypeOK, Callback, PassEarly, processCaptureResult, Load, StoreNotified,
                      complete, Store, Finish, Erase, executorVars
  <2> QED BY <2>1, <2>2
<1>4. CASE flushPendingFwkRecords
  BY <1>1, <1>4 DEF flushPendingFwkRecords
<1>5. CASE \/ \E f \in Frames : TakeAnchor(f)
           \/ \E f \in Snapshots : AnswerOf(f)
           \/ \E t \in VendorThreads, f \in Frames, event \in Notifications \cup Results :
                 Arrive(t, f, event)
           \/ decreasePendingFinalSnapCount \/ SignalReclaim \/ Manages
  BY <1>5 DEF TypeOK, TakeAnchor, AnswerOf, Arrive, decreasePendingFinalSnapCount, SignalReclaim,
              Manages, executorVars
<1> QED BY <1>2, <1>3, <1>4, <1>5, Cases

\* Most steps leave the snapshots' pictures alone.
LEMMA SnapsKept ==
  ASSUME [Next]_vars
  PROVE  \/ UNCHANGED snapVars
         \/ \E f \in Frames : createExecutor(f) \/ TakeAnchor(f)
         \/ \E f \in Snapshots : AnswerOf(f)
         \/ \E t \in Threads : Update(t) \/ Finish(t) \/ Erase(t)
         \/ decreasePendingFinalSnapCount
<1>1. ASSUME NEW f \in Frames, ProcessRequest(f)
      PROVE  UNCHANGED snapVars \/ createExecutor(f)
  BY <1>1 DEF ProcessRequest, processCaptureRequest, setReqErrorAndForwardResult, Record, Attach,
              submitRequest2Vendor, process_capture_request, Return
<1>2. ASSUME NEW t \in Threads, Callback(t)
      PROVE  UNCHANGED snapVars \/ Update(t) \/ Finish(t) \/ Erase(t)
  BY <1>2 DEF Callback, PassEarly, processCaptureResult, Load, StoreNotified, complete, Store
<1>3. CASE SignalReclaim \/ flushPendingFwkRecords \/ Manages
  BY <1>3 DEF SignalReclaim, flushPendingFwkRecords, Manages
<1>4. CASE \E t \in VendorThreads, f \in Frames, event \in Notifications \cup Results :
             Arrive(t, f, event)
  BY <1>4 DEF Arrive
<1> QED BY <1>1, <1>2, <1>3, <1>4, Cases

LEMMA SnapsTypedNext ==
  ASSUME TypeOK, Positions, [Next]_vars
  PROVE  SnapsTyped'
<1> DEFINE Pictures == [Snapshots -> {"none", "working", "working early", "answered"}]
<1>1. /\ mPendingMiHALSnapCount \in Int /\ darkroom \in Pictures
      /\ mVndAnchorFrames \subseteq Snapshots
  BY DEF TypeOK, SnapsTyped
<1>2. ASSUME NEW t \in Threads, Finish(t)
      PROVE  /\ darkroom' \in Pictures
             /\ mPendingMiHALSnapCount' \in {mPendingMiHALSnapCount, mPendingMiHALSnapCount - 1}
  BY <1>1, <1>2 DEF Finish, goToDarkroom, GiveUp
<1>3. ASSUME NEW t \in Threads, Update(t) \/ Erase(t)
      PROVE  /\ mVndAnchorFrames' \subseteq Snapshots
             /\ UNCHANGED <<darkroom, mPendingMiHALSnapCount>>
  BY <1>1, <1>3 DEF Update, Erase
<1>4. ASSUME NEW f \in Frames, createExecutor(f) \/ TakeAnchor(f)
      PROVE  /\ mVndAnchorFrames' \subseteq Snapshots /\ UNCHANGED darkroom
             /\ mPendingMiHALSnapCount' \in {mPendingMiHALSnapCount, mPendingMiHALSnapCount + 1}
  BY <1>1, <1>4 DEF createExecutor, TakeAnchor
<1>5. ASSUME NEW f \in Snapshots, AnswerOf(f)
      PROVE  darkroom' \in Pictures /\ UNCHANGED <<mVndAnchorFrames, mPendingMiHALSnapCount>>
  BY <1>1, <1>5 DEF AnswerOf
<1>6. mVndAnchorFrames' \subseteq Snapshots /\ darkroom' \in Pictures
  BY <1>1, <1>2, <1>3, <1>4, <1>5, SnapsKept
     DEF snapVars, Finish, decreasePendingFinalSnapCount
<1>7. mPendingMiHALSnapCount' \in
        {mPendingMiHALSnapCount, mPendingMiHALSnapCount + 1, mPendingMiHALSnapCount - 1}
  BY <1>2, <1>3, <1>4, <1>5, SnapsKept DEF snapVars, decreasePendingFinalSnapCount
<1>8. mPendingMiHALSnapCount' \in Int
  BY <1>1, <1>7, NextInts, Zenon
<1> QED BY <1>6, <1>8 DEF SnapsTyped

LEMMA FlushTypedNext ==
  ASSUME FlushTyped, [Next]_vars
  PROVE  FlushTyped'
<1> USE DEF FlushTyped
<1>1. ASSUME NEW frames, Destroyed(frames), UNCHANGED <<flushVars, registry>>
      PROVE  FlushTyped'
  BY <1>1 DEF Destroyed, signalReclaimSession, flushVars
<1>2. ASSUME NEW f \in Frames, ProcessRequest(f)
      PROVE  FlushTyped'
  <2>1. CASE Return(f)
    BY <1>1, <2>1 DEF Return
  <2>2. CASE ~Return(f)
    BY <1>2, <2>2 DEF ProcessRequest, processCaptureRequest, setReqErrorAndForwardResult, Record,
                      createExecutor, Attach, submitRequest2Vendor, process_capture_request,
                      flushVars, managerVars
  <2> QED BY <2>1, <2>2
<1>3. ASSUME NEW t \in Threads, Callback(t)
      PROVE  FlushTyped'
  <2>1. CASE Erase(t)
    BY <1>1, <2>1 DEF Erase
  <2>2. CASE ~Erase(t)
    BY <1>3, <2>2 DEF Callback, Update, PassEarly, processCaptureResult, Load, StoreNotified,
                      complete, Store, Finish, flushVars, managerVars
  <2> QED BY <2>1, <2>2
<1>4. CASE flushPendingFwkRecords
  BY <1>4 DEF flushPendingFwkRecords, FlushStep, Destroyed, signalReclaimSession
<1>5. CASE \/ \E f \in Frames : TakeAnchor(f)
           \/ \E f \in Snapshots : AnswerOf(f)
           \/ \E t \in VendorThreads, f \in Frames, event \in Notifications \cup Results :
                 Arrive(t, f, event)
           \/ decreasePendingFinalSnapCount \/ SignalReclaim
  BY <1>5 DEF TakeAnchor, AnswerOf, Arrive, decreasePendingFinalSnapCount, SignalReclaim,
              signalReclaimSession, flushVars, managerVars
<1>6. CASE Manages
  BY <1>6 DEF Manages, Flush, flush2Vendor, waitLoop, waitAndResetToInitStatus, unregisterSession,
              sessionReclaimLoop, FlushStep, flushVars, managerVars
<1> QED BY <1>2, <1>3, <1>4, <1>5, <1>6, Cases

LEMMA ThreadsTypedNext ==
  ASSUME TypeOK, Positions, [Next]_vars
  PROVE  ThreadsTyped'
<1>1. ThreadsTyped
  BY DEF TypeOK
<1>2. ASSUME NEW t \in Threads, at' = [at EXCEPT ![t] = Idle]
      PROVE  ThreadsTyped'
  BY <1>1, <1>2 DEF ThreadsTyped, Places, Idle, Steps
<1>3. ASSUME NEW t \in Threads, Callback(t)
      PROVE  ThreadsTyped'
  <2>1. \A event : AfterAnswer(event) \in Steps
    BY DEF AfterAnswer, Steps
  <2>2. (\E step \in Steps : Goto(t, step)) \/ at' = [at EXCEPT ![t] = Idle]
    BY <1>3, <2>1 DEF Callback, Update, PassEarly, processCaptureResult, Load, StoreNotified,
                      complete, Store, Finish, Erase, Steps
  <2> QED BY <1>1, <1>2, <2>2, Going
<1>4. ASSUME NEW t \in VendorThreads, NEW f \in Frames, NEW event \in Notifications \cup Results,
             Arrive(t, f, event)
      PROVE  ThreadsTyped'
  BY <1>1, <1>4, Beginning, Constants DEF Arrive
<1>5. ASSUME NEW f \in Frames, TakeAnchor(f)
      PROVE  ThreadsTyped'
  BY <1>1, <1>5, Beginning, Constants DEF TakeAnchor
<1>6. ASSUME NEW f \in Snapshots, AnswerOf(f)
      PROVE  ThreadsTyped'
  <2>1. f \in Frames
    BY Constants
  <2> QED BY <1>1, <1>6, <2>1 DEF AnswerOf, ThreadsTyped, Places, Steps
<1>7. CASE decreasePendingFinalSnapCount
  BY <1>1, <1>7, Going, Constants DEF decreasePendingFinalSnapCount, Steps
<1>8. CASE SignalReclaim
  BY <1>2, <1>8, Constants DEF SignalReclaim
<1>9. ASSUME NEW f \in Frames, ProcessRequest(f)
      PROVE  UNCHANGED at
  BY <1>9 DEF ProcessRequest, processCaptureRequest, setReqErrorAndForwardResult, Record, Attach,
              createExecutor, submitRequest2Vendor, process_capture_request, Return
<1>10. CASE flushPendingFwkRecords \/ Manages
  BY <1>1, <1>10 DEF flushPendingFwkRecords, Manages, ThreadsTyped
<1> QED BY <1>1, <1>3, <1>4, <1>5, <1>6, <1>7, <1>8, <1>9, <1>10, Cases DEF ThreadsTyped

LEMMA TypeNext ==
  ASSUME TypeOK, Positions, Attaching, [Next]_vars
  PROVE  TypeOK'
BY RecordsTypedNext, RequestsTypedNext, ExecutorsTypedNext, AttachedTypedNext, SnapsTypedNext,
   FlushTypedNext, ThreadsTypedNext DEF TypeOK

-----------------------------------------------------------------------------
(* Where the threads are *)

LEMMA VendorStays ==
  ASSUME RequestsTyped, [Next]_vars, NEW f \in Frames, InVendor(f)
  PROVE  InVendor(f)'
<1>1. ASSUME NEW g \in Frames, ProcessRequest(g)
      PROVE  InVendor(f)'
  BY <1>1 DEF RequestsTyped, InVendor, Advance, ProcessRequest, processCaptureRequest, Record, Attach,
              setReqErrorAndForwardResult, createExecutor, submitRequest2Vendor,
              process_capture_request, Return
<1>2. ASSUME NEW t \in Threads, Callback(t)
      PROVE  UNCHANGED request
  BY <1>2 DEF Callback, Update, PassEarly, processCaptureResult, Load, StoreNotified, complete,
              Store, Finish, Erase
<1>3. CASE \/ \E g \in Frames : TakeAnchor(g)
           \/ \E g \in Snapshots : AnswerOf(g)
           \/ \E t \in VendorThreads, g \in Frames, event \in Notifications \cup Results :
                 Arrive(t, g, event)
           \/ decreasePendingFinalSnapCount \/ SignalReclaim \/ flushPendingFwkRecords \/ Manages
  BY <1>3 DEF InVendor, TakeAnchor, AnswerOf, Arrive, decreasePendingFinalSnapCount, SignalReclaim,
              flushPendingFwkRecords, Manages
<1> QED BY <1>1, <1>2, <1>3, Cases DEF InVendor

\* Only one thread moves in a step.
LEMMA ThreadMoves ==
  ASSUME TypeOK, Positions, [Next]_vars
  PROVE  \/ UNCHANGED at
         \/ \E t \in Threads :
              /\ \A u \in Threads \ {t} : at'[u] = at[u]
              /\ \/ at'[t] = Idle
                 \/ \E step \in Steps \ {"idle"} :
                      /\ at[t] # Idle /\ (step \in {"decrease", "signal"} => t = Darkroom)
                      /\ at'[t] = [frame |-> at[t].frame, event |-> at[t].event, step |-> step]
                 \/ \E f \in Frames, event \in Notifications \cup Results, step \in {"update"} :
                      /\ t \in VendorThreads /\ Arrive(t, f, event)
                      /\ at'[t] = [frame |-> f, event |-> event, step |-> step]
                 \/ \E f \in Snapshots, step \in {"update", "decrease"} :
                      /\ \/ t = Loop /\ step = "update" /\ TakeAnchor(f)
                         \/ t = Darkroom /\ AnswerOf(f)
                      /\ at'[t] = [frame |-> f, event |-> "early", step |-> step]
<1>1. ThreadsTyped
  BY DEF TypeOK
<1>2. ASSUME NEW t \in Threads, at' = [at EXCEPT ![t] = Idle]
      PROVE  at'[t] = Idle /\ \A u \in Threads \ {t} : at'[u] = at[u]
  BY <1>1, <1>2 DEF ThreadsTyped
<1>3. ASSUME NEW t \in Threads, Callback(t)
      PROVE  /\ \A u \in Threads \ {t} : at'[u] = at[u]
             /\ \/ at'[t] = Idle
                \/ \E step \in Steps \ {"idle"} :
                     /\ at[t] # Idle /\ (step \in {"decrease", "signal"} => t = Darkroom)
                     /\ at'[t] = [frame |-> at[t].frame, event |-> at[t].event, step |-> step]
  <2>1. \A event : AfterAnswer(event) \in Steps \ {"idle", "decrease", "signal"}
    BY DEF AfterAnswer, Steps
  <2>2. at[t] # Idle
    BY <1>3 DEF Callback, Update, PassEarly, processCaptureResult, Load, StoreNotified, complete,
                Store, Finish, Erase, Idle
  <2>3. \/ at' = [at EXCEPT ![t] = Idle]
        \/ \E step \in Steps \ {"idle"} :
             Goto(t, step) /\ (step \in {"decrease", "signal"} => t = Darkroom)
    BY <1>3, <2>1 DEF Callback, Update, PassEarly, processCaptureResult, Load, StoreNotified,
                      complete, Store, Finish, Erase, Steps
  <2> QED BY <1>1, <1>2, <2>2, <2>3, Going
<1>4. ASSUME NEW t \in VendorThreads, NEW f \in Frames, NEW event \in Notifications \cup Results,
             Arrive(t, f, event)
      PROVE  /\ \A u \in Threads \ {t} : at'[u] = at[u]
             /\ \/ at'[t] = Idle
                \/ at'[t] = [frame |-> f, event |-> event, step |-> "update"]
  BY <1>1, <1>4, Beginning, Constants DEF Arrive
<1>5. ASSUME NEW f \in Frames, TakeAnchor(f)
      PROVE  /\ f \in Snapshots /\ \A u \in Threads \ {Loop} : at'[u] = at[u]
             /\ \/ at'[Loop] = Idle
                \/ at'[Loop] = [frame |-> f, event |-> "early", step |-> "update"]
  <2>1. f \in Snapshots
    BY <1>5 DEF TakeAnchor, TypeOK, SnapsTyped
  <2> QED BY <1>1, <1>5, <2>1, Beginning, Constants DEF TakeAnchor
<1>6. ASSUME NEW f \in Snapshots, AnswerOf(f)
      PROVE  \E step \in {"update", "decrease"} :
               /\ at'[Darkroom] = [frame |-> f, event |-> "early", step |-> step]
               /\ \A u \in Threads \ {Darkroom} : at'[u] = at[u]
  BY <1>1, <1>6, Constants DEF AnswerOf, ThreadsTyped
<1>7. CASE decreasePendingFinalSnapCount
  <2>1. Goto(Darkroom, "signal") /\ "signal" \in Steps \ {"idle"} /\ at[Darkroom] # Idle
    BY <1>7 DEF decreasePendingFinalSnapCount, Steps, Idle
  <2>2. /\ Darkroom \in Threads /\ \A u \in Threads \ {Darkroom} : at'[u] = at[u]
        /\ at'[Darkroom] = [frame |-> at[Darkroom].frame, event |-> at[Darkroom].event,
                            step |-> "signal"]
    BY <1>1, <2>1, Going, Constants
  <2> QED BY <2>1, <2>2
<1>8. CASE SignalReclaim
  BY <1>2, <1>8, Constants DEF SignalReclaim
<1>9. ASSUME NEW f \in Frames, ProcessRequest(f)
      PROVE  UNCHANGED at
  BY <1>9 DEF ProcessRequest, processCaptureRequest, setReqErrorAndForwardResult, Record, Attach,
              createExecutor, submitRequest2Vendor, process_capture_request, Return
<1>10. CASE flushPendingFwkRecords \/ Manages
  BY <1>10 DEF flushPendingFwkRecords, Manages
<1>11. Loop \in Threads /\ Darkroom \in Threads /\ VendorThreads \subseteq Threads
  BY Constants
<1>12. CASE \E t \in VendorThreads, f \in Frames, event \in Notifications \cup Results :
              Arrive(t, f, event)
  BY <1>4, <1>11, <1>12
<1>13. CASE \E f \in Frames : TakeAnchor(f)
  BY <1>5, <1>11, <1>13
<1>14. CASE \E f \in Snapshots : AnswerOf(f)
  BY <1>6, <1>11, <1>14
<1> QED BY <1>3, <1>7, <1>8, <1>9, <1>10, <1>12, <1>13, <1>14, Cases

\* The same for a given thread.
LEMMA ThreadStep ==
  ASSUME TypeOK, Positions, [Next]_vars, NEW t \in Threads
  PROVE  \/ at'[t] = at[t]
         \/ at'[t] = Idle
         \/ \E step \in Steps \ {"idle"} :
              /\ at[t] # Idle /\ (step \in {"decrease", "signal"} => t = Darkroom)
              /\ at'[t] = [frame |-> at[t].frame, event |-> at[t].event, step |-> step]
         \/ \E f \in Frames, event \in Notifications \cup Results, step \in {"update"} :
              /\ t \in VendorThreads /\ Arrive(t, f, event)
              /\ at'[t] = [frame |-> f, event |-> event, step |-> step]
         \/ \E f \in Snapshots, step \in {"update", "decrease"} :
              /\ \/ t = Loop /\ step = "update" /\ TakeAnchor(f)
                 \/ t = Darkroom /\ AnswerOf(f)
              /\ at'[t] = [frame |-> f, event |-> "early", step |-> step]
BY ThreadMoves

LEMMA PositionsNext ==
  ASSUME Core, [Next]_vars
  PROVE  Positions'
<1> USE DEF Core
<1>1. ThreadsTyped /\ RequestsTyped /\ \A t \in Threads : Positioned(t)
  BY DEF TypeOK, Positions
<1>2. ASSUME NEW t \in Threads, at'[t] = at[t]
      PROVE  Positioned(t)'
  <2>1. at[t] # Idle => at[t].frame \in Frames
    BY <1>1, AtFrame DEF Positioned
  <2> QED BY <1>1, <1>2, <2>1, VendorStays DEF Positioned, Idle
<1>3. ASSUME NEW t \in Threads, at'[t] = Idle
      PROVE  Positioned(t)'
  BY <1>3 DEF Positioned, Idle
<1>4. ASSUME NEW t \in Threads, NEW step \in Steps \ {"idle"}, at[t] # Idle,
             step \in {"decrease", "signal"} => t = Darkroom,
             at'[t] = [frame |-> at[t].frame, event |-> at[t].event, step |-> step]
      PROVE  Positioned(t)'
  <2>1. at[t].frame \in Frames
    BY <1>1, <1>4, AtFrame DEF Positioned
  <2>2. at'[t] # Idle /\ at'[t].frame # Nobody
    BY <1>4, <2>1, Constants DEF Idle
  <2>3. /\ t \in VendorThreads =>
             at[t].event \in Notifications \cup Results /\ InVendor(at[t].frame)'
        /\ t \in {Loop, Darkroom} => at[t].event = "early" /\ at[t].frame \in Snapshots
    BY <1>1, <1>4, <2>1, VendorStays DEF Positioned
  <2> QED BY <1>4, <2>2, <2>3 DEF Positioned
<1>5. ASSUME NEW t \in VendorThreads, NEW f \in Frames, NEW event \in Notifications \cup Results,
             Arrive(t, f, event), at'[t] = [frame |-> f, event |-> event, step |-> "update"]
      PROVE  Positioned(t)'
  <2>1. InVendor(f)'
    BY <1>1, <1>5, VendorStays DEF Arrive
  <2>2. at'[t] # Idle /\ at'[t].frame # Nobody /\ t \notin {Loop, Darkroom}
    BY <1>5, Constants DEF Idle
  <2> QED BY <1>5, <2>1, <2>2 DEF Positioned
<1>6. ASSUME NEW t \in {Loop, Darkroom}, NEW f \in Snapshots, NEW step \in {"update", "decrease"},
             at'[t] = [frame |-> f, event |-> "early", step |-> step],
             t = Loop => step = "update"
      PROVE  Positioned(t)'
  <2>1. at'[t] # Idle /\ at'[t].frame # Nobody /\ t \notin VendorThreads
    BY <1>6, Constants DEF Idle
  <2> QED BY <1>6, <2>1 DEF Positioned
<1>7. ASSUME NEW t \in Threads
      PROVE  Positioned(t)'
  <2>1. CASE at'[t] = at[t]
    BY <1>2, <2>1
  <2>2. CASE at'[t] = Idle
    BY <1>3, <2>2
  <2>3. CASE \E step \in Steps \ {"idle"} :
               /\ at[t] # Idle /\ (step \in {"decrease", "signal"} => t = Darkroom)
               /\ at'[t] = [frame |-> at[t].frame, event |-> at[t].event, step |-> step]
    BY <1>4, <2>3
  <2>4. CASE \E f \in Frames, event \in Notifications \cup Results, step \in {"update"} :
               /\ t \in VendorThreads /\ Arrive(t, f, event)
               /\ at'[t] = [frame |-> f, event |-> event, step |-> step]
    BY <1>5, <2>4
  <2>5. CASE \E f \in Snapshots, step \in {"update", "decrease"} :
               /\ \/ t = Loop /\ step = "update" /\ TakeAnchor(f)
                  \/ t = Darkroom /\ AnswerOf(f)
               /\ at'[t] = [frame |-> f, event |-> "early", step |-> step]
    BY <1>6, <2>5, Constants
  <2> QED BY <2>1, <2>2, <2>3, <2>4, <2>5, ThreadStep
<1>8. ASSUME at'[Darkroom] # Idle
      PROVE  \/ at[Darkroom] # Idle /\ at'[Darkroom].frame = at[Darkroom].frame
             \/ \E f \in Snapshots : AnswerOf(f) /\ at'[Darkroom].frame = f
  <2>1. Darkroom \in Threads /\ Darkroom \notin VendorThreads /\ Darkroom # Loop
    BY Constants
  <2>2. CASE at'[Darkroom] = at[Darkroom]
    BY <1>8, <2>2
  <2>3. CASE \E step \in Steps \ {"idle"} :
               /\ at[Darkroom] # Idle
               /\ at'[Darkroom] = [frame |-> at[Darkroom].frame, event |-> at[Darkroom].event,
                                   step |-> step]
    BY <2>3
  <2>4. CASE \E f \in Snapshots, step \in {"update", "decrease"} :
               AnswerOf(f) /\ at'[Darkroom] = [frame |-> f, event |-> "early", step |-> step]
    BY <2>4
  <2> HIDE DEF Core
  <2>5. TypeOK /\ Positions
    BY DEF Core
  <2> QED BY <1>8, <2>1, <2>2, <2>3, <2>4, <2>5, ThreadStep
<1>9. ASSUME at[Darkroom] # Idle, UNCHANGED darkroom \/ \E t \in Threads : Finish(t)
      PROVE  darkroom'[at[Darkroom].frame] = "answered"
  <2>1. darkroom[at[Darkroom].frame] = "answered"
    BY <1>9 DEF Positions
  <2>2. ASSUME NEW t \in Threads, Finish(t)
        PROVE  darkroom'[at[Darkroom].frame] = darkroom[at[Darkroom].frame]
    <3>1. at[t].frame \in Frames /\ executor[at[t].frame] = "alive"
      BY <2>2, <1>1, AtFrame DEF Finish, Living, Holds
    <3>2. CASE UNCHANGED darkroom
      BY <3>2
    <3>3. CASE at[t].frame \in Snapshots /\ goToDarkroom(at[t].frame)
      <4>1. darkroom[at[t].frame] = "none"
        BY <3>1, <3>3 DEF goToDarkroom, Making
      <4>2. at[t].frame # at[Darkroom].frame
        BY <2>1, <4>1
      <4>3. at[Darkroom].frame \in Snapshots
        BY <1>9, Constants DEF Positions, Positioned
      <4> QED BY <3>3, <4>2, <4>3 DEF goToDarkroom, TypeOK, SnapsTyped
    <3> QED BY <2>2, <3>2, <3>3 DEF Finish, GiveUp
  <2> QED BY <1>9, <2>1, <2>2
<1>10. ASSUME NEW f \in Snapshots, AnswerOf(f)
       PROVE  darkroom'[f] = "answered" /\ at[Darkroom] = Idle
  BY <1>1, <1>10 DEF AnswerOf, TypeOK, SnapsTyped
<1>11. \/ UNCHANGED darkroom
       \/ \E f \in Snapshots : AnswerOf(f)
       \/ \E t \in Threads : Finish(t)
  BY SnapsKept DEF snapVars, createExecutor, TakeAnchor, Update, Erase, decreasePendingFinalSnapCount
<1>12. at'[Darkroom] # Idle => darkroom'[at'[Darkroom].frame] = "answered"
  BY <1>8, <1>9, <1>10, <1>11
<1> QED BY <1>7, <1>12 DEF Positions, Idle

-----------------------------------------------------------------------------
(* The executors' lives *)

\* The frame of a callback has an executor that lives.
LEMMA CalledLives ==
  ASSUME Core, NEW t \in Threads, Callback(t)
  PROVE  /\ at[t].frame \in Frames /\ executor[at[t].frame] = "alive"
         /\ Holds(t, at[t].frame)
<1>1. at[t].step \in Steps \ {"idle", "decrease", "signal"}
  BY DEF Steps, Callback, Update, PassEarly, processCaptureResult, Load, StoreNotified, complete, Store,
         Finish, Erase
<1>2. at[t].frame \in Frames
  BY <1>1, AtFrame DEF Core, TypeOK
<1>3. Holds(t, at[t].frame)
  BY <1>1 DEF Holds
<1> QED BY <1>2, <1>3 DEF Core, Living

\* An executor that does not live has nobody who could destroy it.
LEMMA DestroyedMaking ==
  ASSUME Core, NEW frames, Destroyed(frames), UNCHANGED darkroom,
         \A f \in Frames : f \in frames => executor[f] = "alive",
         \A f \in Frames : request'[f] \in Fresh <=> request[f] \in Fresh
  PROVE  Making'
BY DEF Core, Making, Destroyed, TypeOK, ExecutorsTyped, StatusTyped

LEMMA MakingNext ==
  ASSUME Core, [Next]_vars
  PROVE  Making'
<1>1. ASSUME NEW f \in Frames, ProcessRequest(f)
      PROVE  Making'
  <2>1. CASE createExecutor(f)
    <3>1. executor[f] = "none"
      BY <2>1 DEF createExecutor, Advance, Core, Making, Fresh
    <3>2. executor' = [executor EXCEPT ![f] = "alive"] /\ request' = [request EXCEPT ![f] = "in flight"]
      BY <2>1 DEF createExecutor, Advance
    <3>3. UNCHANGED <<mStatus, told, overlapped, flags, darkroom>>
      BY <2>1 DEF createExecutor, statusVars
    <3> QED BY <3>1, <3>2, <3>3 DEF Core, Making, Fresh, TypeOK, ExecutorsTyped, RequestsTyped
  <2>2. CASE Return(f)
    <3>1. executor[f] = "alive"
      BY <2>2 DEF Core, Living, HeldByRequest, Return, Advance
    <3>2. \A g \in Frames : request'[g] \in Fresh <=> request[g] \in Fresh
      BY <2>2 DEF Return, Advance, Fresh, Core, TypeOK, RequestsTyped
    <3>3. UNCHANGED darkroom
      BY <2>2 DEF Return, snapVars
    <3> QED BY <2>2, <3>1, <3>2, <3>3, DestroyedMaking DEF Return
  <2>3. CASE \/ processCaptureRequest(f) \/ setReqErrorAndForwardResult(f) \/ Record(f)
             \/ Attach(f) \/ submitRequest2Vendor(f) \/ process_capture_request(f)
    <3>1. UNCHANGED <<executor, mStatus, told, overlapped, flags, darkroom>>
      BY <2>3 DEF processCaptureRequest, setReqErrorAndForwardResult, Record, Attach, statusVars,
                  submitRequest2Vendor, process_capture_request, executorVars, snapVars
    <3>2. \A g \in Frames : request'[g] \in Fresh <=> request[g] \in Fresh
      BY <2>3 DEF processCaptureRequest, setReqErrorAndForwardResult, Record, Attach, Advance,
                  submitRequest2Vendor, process_capture_request, Fresh, Core, TypeOK, RequestsTyped
    <3> QED BY <3>1, <3>2 DEF Core, Making
  <2> QED BY <1>1, <2>1, <2>2, <2>3 DEF ProcessRequest
<1>2. ASSUME NEW t \in Threads, Callback(t)
      PROVE  Making'
  <2> DEFINE f == at[t].frame
  <2>1. f \in Frames /\ executor[f] = "alive"
    BY <1>2, CalledLives
  <2>2. UNCHANGED request
    BY <1>2 DEF Callback, Update, PassEarly, processCaptureResult, Load, StoreNotified, complete,
                Store, Finish, Erase
  <2>3. CASE Erase(t)
    BY <2>1, <2>2, <2>3, DestroyedMaking DEF Erase
  <2>4. CASE Update(t)
    <3>1. /\ \E new : flags' = [flags EXCEPT ![f] = @ \cup new]
          /\ UNCHANGED <<executor, darkroom>> /\ UNCHANGED <<mStatus, told, overlapped>>
      BY <2>4 DEF Update, statusVars
    <3>2. DOMAIN flags = Frames
      BY DEF Core, TypeOK, ExecutorsTyped
    <3>3. /\ \A g \in Frames : "final" \notin flags'[g] => "final" \notin flags[g]
          /\ \A g \in Frames \ {f} : flags'[g] = flags[g]
      BY <2>1, <3>1, <3>2
    <3> QED BY <2>1, <2>2, <3>1, <3>2, <3>3 DEF Core, Making
  <2>7. CASE Stores(t)
    <3>1. /\ UNCHANGED executor /\ UNCHANGED darkroom
          /\ UNCHANGED flags \/ flags' = [flags EXCEPT ![f] = @ \cup Learnt(at[t].event)]
      BY <2>7, StoresOnly DEF executorVars, snapVars
    <3>2. \A g \in Frames \ {f} : /\ mStatus'[g] = mStatus[g] /\ told'[g] = told[g]
                                  /\ g \in overlapped' <=> g \in overlapped
      BY <2>7 DEF Stores, Load, StoreNotified, complete, Store, Core, TypeOK, StatusTyped
    <3>3. DOMAIN flags = Frames
      BY DEF Core, TypeOK, ExecutorsTyped
    <3>4. /\ \A g \in Frames : "final" \notin flags'[g] => "final" \notin flags[g]
          /\ \A g \in Frames \ {f} : flags'[g] = flags[g]
      BY <2>1, <3>1, <3>3
    <3> QED BY <2>1, <2>2, <3>1, <3>2, <3>3, <3>4 DEF Core, Making
  <2>5. CASE Finish(t)
    <3>1. /\ UNCHANGED executor /\ \A g \in Frames \ {f} : flags'[g] = flags[g]
          /\ UNCHANGED <<mStatus, told, overlapped>>
      BY <2>5 DEF Finish, goToDarkroom, GiveUp, executorVars, statusVars, Core, TypeOK, ExecutorsTyped
    <3>2. CASE UNCHANGED <<flags, darkroom>>
      BY <2>1, <2>2, <3>1, <3>2 DEF Core, Making
    <3>3. CASE goToDarkroom(f) /\ f \in Snapshots
      <4>1. flags'[f] = flags[f] \cup {"final"} /\ \A g \in Snapshots \ {f} : darkroom'[g] = darkroom[g]
        BY <2>1, <3>3 DEF goToDarkroom, Core, TypeOK, ExecutorsTyped, SnapsTyped
      <4> QED BY <2>1, <2>2, <3>1, <4>1 DEF Core, Making
    <3>4. CASE GiveUp(f)
      <4>1. flags'[f] = flags[f] \cup {"final", "reported"} /\ UNCHANGED darkroom
        BY <2>1, <3>4 DEF GiveUp, Core, TypeOK, ExecutorsTyped
      <4> QED BY <2>1, <2>2, <3>1, <4>1 DEF Core, Making
    <3> QED BY <2>5, <3>2, <3>3, <3>4 DEF Finish
  <2>6. CASE PassEarly(t) \/ processCaptureResult(t)
    BY <2>2, <2>6 DEF PassEarly, processCaptureResult, executorVars, statusVars, snapVars, Core,
                      Making
  <2> QED BY <1>2, <2>3, <2>4, <2>5, <2>6, <2>7 DEF Callback, Stores
<1>3. CASE flushPendingFwkRecords
  <2>1. \A f \in mVendorInflights : executor[f] = "alive"
    BY DEF Core, Living, TypeOK, ExecutorsTyped
  <2>2. UNCHANGED <<request, darkroom>>
    BY <1>3 DEF flushPendingFwkRecords, snapVars
  <2> QED BY <1>3, <2>1, <2>2, DestroyedMaking DEF flushPendingFwkRecords
<1>4. ASSUME NEW f \in Snapshots, AnswerOf(f)
      PROVE  Making'
  <2>1. darkroom[f] # "none" /\ darkroom' = [darkroom EXCEPT ![f] = "answered"]
    BY <1>4 DEF AnswerOf
  <2>2. UNCHANGED <<request, executor, mStatus, told, overlapped, flags>>
    BY <1>4 DEF AnswerOf, executorVars, statusVars
  <2> QED BY <2>1, <2>2 DEF Core, Making, TypeOK, SnapsTyped
<1>5. CASE \/ \E f \in Frames : TakeAnchor(f)
           \/ \E t \in VendorThreads, f \in Frames, event \in Notifications \cup Results :
                 Arrive(t, f, event)
           \/ decreasePendingFinalSnapCount \/ SignalReclaim \/ Manages
  <2>1. UNCHANGED <<request, executor, mStatus, told, overlapped, flags, darkroom>>
    BY <1>5 DEF TakeAnchor, Arrive, decreasePendingFinalSnapCount, SignalReclaim,
                Manages, executorVars, statusVars, snapVars
  <2> QED BY <2>1 DEF Core, Making
<1> QED BY <1>1, <1>2, <1>3, <1>4, <1>5, Cases

-----------------------------------------------------------------------------
(* Who holds an executor *)

Kept(f) == f \in mVendorInflights \/ HeldByRequest(f) \/ \E t \in Threads : Holds(t, f)

\* A thread that goes on with its frame holds what it held.
LEMMA HoldsOn ==
  ASSUME Core, NEW t \in Threads, Callback(t), ~Erase(t)
  PROVE  \A u \in Threads, f \in Frames : Holds(u, f)' <=> Holds(u, f)
<1> DEFINE Working == Steps \ {"idle", "decrease", "signal"}
<1>1. ThreadsTyped
  BY DEF Core, TypeOK
<1>2. \A event : AfterAnswer(event) \in Working
  BY DEF AfterAnswer, Steps
<1>3. at[t].step \in Working /\ \E step \in Working : Goto(t, step)
  BY <1>2 DEF Callback, Update, PassEarly, processCaptureResult, Load, StoreNotified, complete,
              Store, Finish, Steps
<1>4. PICK step \in Working : Goto(t, step)
  BY <1>3
<1>5. step \in Steps
  BY DEF Steps
<1>6. /\ at'[t] = [frame |-> at[t].frame, event |-> at[t].event, step |-> step]
      /\ \A u \in Threads \ {t} : at'[u] = at[u]
  BY <1>1, <1>4, <1>5, Going
<1> QED BY <1>3, <1>4, <1>6 DEF Holds

LEMMA LivingNext ==
  ASSUME Core, [Next]_vars
  PROVE  Living'
<1>0. /\ \A f \in Frames : executor[f] = "alive" <=> Kept(f)
      /\ executor \in [Frames -> {"none", "alive", "gone"}] /\ mVendorInflights \subseteq Frames
  BY DEF Core, Living, Kept, TypeOK, ExecutorsTyped
<1>1. Living' <=> \A f \in Frames : executor'[f] = "alive" <=> Kept(f)'
  BY DEF Living, Kept
<1>2. ASSUME UNCHANGED executor, \A f \in Frames : Kept(f)' <=> Kept(f)
      PROVE  Living'
  BY <1>0, <1>1, <1>2
<1>3. ASSUME NEW gone \in SUBSET Frames, Destroyed(gone),
             \A f \in Frames : Kept(f)' <=> Kept(f) /\ f \notin gone
      PROVE  Living'
  BY <1>0, <1>1, <1>3 DEF Destroyed
<1>4. ASSUME NEW f \in Frames, ProcessRequest(f)
      PROVE  Living'
  <2>1. \A t \in Threads, g \in Frames : Holds(t, g)' <=> Holds(t, g)
    BY <1>4 DEF ProcessRequest, processCaptureRequest, setReqErrorAndForwardResult, Record, Attach,
                createExecutor, submitRequest2Vendor, process_capture_request, Return, Holds
  <2>2. request \in [Frames -> {"none", "rejected", "rejecting", "admitted", "recorded",
          "in flight", "attached", "submitting", "submitted", "refusing",
          "accepted", "refused", "answered"}]
    BY DEF Core, TypeOK, RequestsTyped
  <2>3. CASE createExecutor(f)
    <3>1. executor' = [executor EXCEPT ![f] = "alive"] /\ mVendorInflights' = mVendorInflights \cup {f}
      BY <2>3 DEF createExecutor
    <3>2. \A g \in Frames \ {f} : Kept(g)' <=> Kept(g)
      BY <2>1, <2>2, <2>3, <3>1 DEF Kept, HeldByRequest, createExecutor, Advance
    <3>3. Kept(f)'
      BY <3>1 DEF Kept
    <3> QED BY <1>0, <1>1, <3>1, <3>2, <3>3
  <2>4. CASE Return(f)
    <3> DEFINE gone == IF f \notin mVendorInflights /\ \A t \in Threads : ~Holds(t, f) THEN {f} ELSE {}
    <3>1. gone \in SUBSET Frames /\ Destroyed(gone) /\ UNCHANGED mVendorInflights
      BY <2>4 DEF Return
    <3>2. \A g \in Frames : HeldByRequest(g)' <=> HeldByRequest(g) /\ g # f
      BY <2>2, <2>4 DEF HeldByRequest, Return, Advance
    <3>3. HeldByRequest(f)
      BY <2>4 DEF HeldByRequest, Return, Advance
    <3>4. \A g \in Frames : Kept(g)' <=> Kept(g) /\ g \notin gone
      BY <2>1, <3>1, <3>2, <3>3 DEF Kept
    <3> QED BY <1>3, <3>1, <3>4
  <2>5. CASE \/ processCaptureRequest(f) \/ setReqErrorAndForwardResult(f) \/ Record(f)
             \/ Attach(f) \/ submitRequest2Vendor(f) \/ process_capture_request(f)
    <3>1. UNCHANGED executor
      BY <2>5 DEF processCaptureRequest, setReqErrorAndForwardResult, Record, Attach,
                  submitRequest2Vendor, process_capture_request, executorVars
    <3>2. \A g \in Frames : HeldByRequest(g)' <=> HeldByRequest(g)
      BY <2>2, <2>5 DEF processCaptureRequest, setReqErrorAndForwardResult, Record, Attach, Advance,
                        submitRequest2Vendor, process_capture_request, HeldByRequest
    <3>3. /\ HeldByRequest(f) \/ UNCHANGED mVendorInflights
          /\ \A g \in Frames \ {f} : g \in mVendorInflights' <=> g \in mVendorInflights
      BY <2>5 DEF processCaptureRequest, setReqErrorAndForwardResult, Record, Attach, Advance,
                  submitRequest2Vendor, process_capture_request, HeldByRequest, executorVars
    <3>4. \A g \in Frames : Kept(g)' <=> Kept(g)
      BY <2>1, <3>2, <3>3 DEF Kept
    <3> QED BY <1>2, <3>1, <3>4
  <2> QED BY <1>4, <2>3, <2>4, <2>5 DEF ProcessRequest
<1>5. ASSUME NEW t \in Threads, Callback(t)
      PROVE  Living'
  <2>1. UNCHANGED request /\ \A g \in Frames : HeldByRequest(g)' <=> HeldByRequest(g)
    BY <1>5 DEF Callback, Update, PassEarly, processCaptureResult, Load, StoreNotified, complete,
                Store, Finish, Erase, HeldByRequest
  <2>2. CASE ~Erase(t)
    <3>1. UNCHANGED <<executor, mVendorInflights>>
      BY <1>5, <2>2 DEF Callback, Update, PassEarly, processCaptureResult, Load, StoreNotified,
                        complete, Store, Finish, executorVars
    <3>2. \A g \in Frames : Kept(g)' <=> Kept(g)
      BY <1>5, <2>1, <2>2, <3>1, HoldsOn DEF Kept
    <3> QED BY <1>2, <3>1, <3>2
  <2>3. CASE Erase(t)
    <3>0. PICK f \in Frames : f = at[t].frame
      BY <1>5, CalledLives
    <3> DEFINE left == IF isFinish(f) THEN mVendorInflights \ {f} ELSE mVendorInflights
               gone == IF f \in left \/ HeldByRequest(f) \/ \E u \in Threads \ {t} : Holds(u, f)
                       THEN {} ELSE {f}
    <3>1. Holds(t, f)
      BY <1>5, <3>0, CalledLives
    <3>2. mVendorInflights' = left /\ Destroyed(gone)
      BY <2>3, <3>0 DEF Erase
    <3>3. \A u \in Threads \ {t} : at'[u] = at[u]
      BY <2>3, Going DEF Erase, Goto, Core, TypeOK, ThreadsTyped
    <3>4. at'[t].step \in {"idle", "decrease"}
      BY <2>3 DEF Erase, Goto, Idle, Core, TypeOK, ThreadsTyped, Places
    <3>5. \A g \in Frames : ~Holds(t, g)' /\ \A u \in Threads \ {t} : Holds(u, g)' <=> Holds(u, g)
      BY <3>3, <3>4 DEF Holds
    <3>6. \A g \in Frames \ {f} : ~Holds(t, g) /\ (g \in left <=> g \in mVendorInflights)
      BY <3>0 DEF Holds
    <3>7. \A g \in Frames \ {f} : Kept(g)' <=> Kept(g)
      BY <2>1, <3>2, <3>5, <3>6 DEF Kept
    <3>8. Kept(f) /\ gone \in SUBSET Frames /\ \A g \in Frames \ {f} : g \notin gone
      BY <3>1 DEF Kept
    <3>9. Kept(f)' <=> f \in left \/ HeldByRequest(f) \/ \E u \in Threads \ {t} : Holds(u, f)
      BY <2>1, <3>2, <3>5 DEF Kept
    <3>10. Kept(f)' <=> f \notin gone
      BY <3>9
    <3> HIDE DEF gone, left
    <3>11. \A g \in Frames : Kept(g)' <=> Kept(g) /\ g \notin gone
      BY <3>7, <3>8, <3>10
    <3> QED BY <1>3, <3>2, <3>8, <3>11
  <2> QED BY <2>2, <2>3
<1>6. CASE flushPendingFwkRecords
  <2> DEFINE flushed == {f \in mAttachVendorFrame : Pending(f)}
             over == {f \in flushed \cap mVendorInflights :
                        mStatus[f] = ALL_FINISH /\ mAttachedCount[f] <= 1}
             gone == {f \in over : ~HeldByRequest(f) /\ \A t \in Threads : ~Holds(t, f)}
  <2>1. mVendorInflights' = mVendorInflights \ over /\ Destroyed(gone) /\ UNCHANGED <<request, at>>
    BY <1>6 DEF flushPendingFwkRecords
  <2>2. over \subseteq mVendorInflights /\ gone \in SUBSET Frames
    BY <1>0
  <2>3. \A g \in Frames : /\ HeldByRequest(g)' <=> HeldByRequest(g)
                          /\ \A t \in Threads : Holds(t, g)' <=> Holds(t, g)
    BY <2>1 DEF HeldByRequest, Holds
  <2> HIDE DEF over
  <2>4. \A g \in Frames : Kept(g)' <=> Kept(g) /\ g \notin gone
    BY <2>1, <2>2, <2>3 DEF Kept
  <2> QED BY <1>3, <2>1, <2>2, <2>4
<1>7. CASE \/ \E t \in VendorThreads, f \in Frames, event \in Notifications \cup Results :
                 Arrive(t, f, event)
           \/ \E f \in Frames : TakeAnchor(f)
           \/ \E f \in Snapshots : AnswerOf(f)
           \/ decreasePendingFinalSnapCount \/ SignalReclaim \/ Manages
  <2>1. UNCHANGED <<executor, mVendorInflights, request>>
    BY <1>7 DEF Arrive, TakeAnchor, AnswerOf, decreasePendingFinalSnapCount, SignalReclaim, Manages,
                executorVars
  <2>2. ASSUME NEW t \in Threads, \A u \in Threads \ {t} : at'[u] = at[u],
               at[t].step \in {"idle", "decrease", "signal"},
               \A g \in Frames : Holds(t, g)' => g \in mVendorInflights
        PROVE  Living'
    <3>1. \A g \in Frames : ~Holds(t, g) /\ \A u \in Threads \ {t} : Holds(u, g)' <=> Holds(u, g)
      BY <2>2 DEF Holds
    <3>2. \A g \in Frames : Kept(g)' <=> Kept(g)
      BY <2>1, <2>2, <3>1 DEF Kept, HeldByRequest
    <3> QED BY <1>2, <2>1, <3>2
  <2>3. ThreadsTyped /\ Idle.step = "idle"
    BY DEF Core, TypeOK, Idle
  <2>4. ASSUME NEW t \in VendorThreads, NEW f \in Frames, NEW event \in Notifications \cup Results,
               Arrive(t, f, event)
        PROVE  Living'
    <3>1. /\ t \in Threads /\ at[t] = Idle /\ \A u \in Threads \ {t} : at'[u] = at[u]
          /\ at'[t] = IF f \in mVendorInflights
                      THEN [frame |-> f, event |-> event, step |-> "update"] ELSE Idle
      BY <2>3, <2>4, Beginning, Constants DEF Arrive
    <3> QED BY <2>2, <2>3, <3>1 DEF Holds
  <2>5. ASSUME NEW f \in Frames, TakeAnchor(f)
        PROVE  Living'
    <3>1. /\ Loop \in Threads /\ at[Loop] = Idle /\ \A u \in Threads \ {Loop} : at'[u] = at[u]
          /\ at'[Loop] = IF f \in mVendorInflights
                         THEN [frame |-> f, event |-> "early", step |-> "update"] ELSE Idle
      BY <2>3, <2>5, Beginning, Constants DEF TakeAnchor
    <3> QED BY <2>2, <2>3, <3>1 DEF Holds
  <2>6. ASSUME NEW f \in Snapshots, AnswerOf(f)
        PROVE  Living'
    <3>1. /\ Darkroom \in Threads /\ at[Darkroom] = Idle
          /\ \A u \in Threads \ {Darkroom} : at'[u] = at[u]
          /\ f \in mVendorInflights \/ at'[Darkroom].step = "decrease"
          /\ at'[Darkroom].frame = f
      BY <2>3, <2>6, Constants DEF AnswerOf, ThreadsTyped
    <3> QED BY <2>2, <2>3, <3>1 DEF Holds
  <2>7. CASE decreasePendingFinalSnapCount \/ SignalReclaim
    <3>1. /\ Darkroom \in Threads /\ at[Darkroom].step \in {"decrease", "signal"}
          /\ \A u \in Threads \ {Darkroom} : at'[u] = at[u]
          /\ at'[Darkroom].step \in {"signal", "idle"}
      BY <2>3, <2>7, Constants
         DEF decreasePendingFinalSnapCount, SignalReclaim, Goto, ThreadsTyped, Places
    <3> QED BY <2>2, <3>1 DEF Holds
  <2>8. CASE Manages
    BY <1>2, <2>1, <2>8 DEF Manages, Kept, HeldByRequest, Holds
  <2> QED BY <1>7, <2>4, <2>5, <2>6, <2>7, <2>8
<1> QED BY <1>4, <1>5, <1>6, <1>7, Cases

LEMMA AttachingNext ==
  ASSUME Core, [Next]_vars
  PROVE  Attaching'
<1>0. /\ mAttachedCount \in [Frames -> {0, 1}] /\ mAttachVendorFrame \subseteq Snapshots
      /\ request \in [Frames -> {"none", "rejected", "rejecting", "admitted", "recorded",
           "in flight", "attached", "submitting", "submitted", "refusing",
           "accepted", "refused", "answered"}]
  BY DEF Core, TypeOK, AttachedTyped, RequestsTyped
<1>1. ASSUME NEW frames, removeAttachFwkRequest(frames), UNCHANGED request
      PROVE  Attaching'
  <2>1. \A f \in Snapshots : /\ f \in mAttachVendorFrame' => f \in mAttachVendorFrame \ frames
                             /\ f \notin frames \cap mAttachVendorFrame =>
                                  mAttachedCount'[f] = mAttachedCount[f]
    BY <1>1, Constants DEF removeAttachFwkRequest
  <2> QED BY <1>1, <2>1 DEF Core, Attaching, Fresh
<1>2. ASSUME UNCHANGED <<request, mAttachedCount, mAttachVendorFrame>>
      PROVE  Attaching'
  BY <1>2 DEF Core, Attaching
<1>3. ASSUME NEW f \in Frames, ProcessRequest(f)
      PROVE  Attaching'
  <2>1. CASE createExecutor(f)
    BY <1>0, <2>1, Constants DEF createExecutor, Advance, Core, Attaching, Fresh
  <2>2. CASE Attach(f)
    BY <1>0, <2>2, Constants DEF Attach, Advance, Core, Attaching, Fresh
  <2>3. CASE \/ processCaptureRequest(f) \/ setReqErrorAndForwardResult(f) \/ Record(f)
             \/ submitRequest2Vendor(f) \/ process_capture_request(f) \/ Return(f)
    <3>1. UNCHANGED <<mAttachedCount, mAttachVendorFrame>>
      BY <2>3 DEF processCaptureRequest, setReqErrorAndForwardResult, Record,
                  submitRequest2Vendor, process_capture_request, Return, executorVars
    <3>2. \A g \in Frames : /\ request'[g] = "in flight" => request[g] = "in flight"
                            /\ request'[g] \in Fresh => request[g] \in Fresh
      BY <1>0, <2>3 DEF processCaptureRequest, setReqErrorAndForwardResult, Record, Advance, Fresh,
                        submitRequest2Vendor, process_capture_request, Return
    <3> QED BY <3>1, <3>2, Constants DEF Core, Attaching
  <2> QED BY <1>3, <2>1, <2>2, <2>3 DEF ProcessRequest
<1>4. ASSUME NEW t \in Threads, Callback(t)
      PROVE  Attaching'
  <2>1. CASE Update(t)
    BY <1>1, <2>1 DEF Update
  <2>2. CASE ~Update(t)
    BY <1>2, <1>4, <2>2 DEF Callback, PassEarly, processCaptureResult, Load, StoreNotified,
                            complete, Store, Finish, Erase, executorVars
  <2> QED BY <2>1, <2>2
<1>5. CASE flushPendingFwkRecords
  BY <1>1, <1>5 DEF flushPendingFwkRecords
<1>6. CASE \/ \E f \in Frames : TakeAnchor(f)
           \/ \E f \in Snapshots : AnswerOf(f)
           \/ \E t \in VendorThreads, f \in Frames, event \in Notifications \cup Results :
                 Arrive(t, f, event)
           \/ decreasePendingFinalSnapCount \/ SignalReclaim \/ Manages
  BY <1>2, <1>6 DEF TakeAnchor, AnswerOf, Arrive, decreasePendingFinalSnapCount, SignalReclaim,
                    Manages, executorVars
<1> QED BY <1>3, <1>4, <1>5, <1>6, Cases

LEMMA FlushingNext ==
  ASSUME Core, [Next]_vars
  PROVE  Flushing'
<1>0. TypeOK /\ Positions /\ Flushing
  BY DEF Core
<1>1. ASSUME UNCHANGED <<mFlush, flush, mExitThread, registry>>,
             flush \in {"drain", "returned"} => at'[Loop] = at[Loop],
             registry # "active" => /\ \A f \in Frames : request'[f] = request[f]
                                    /\ \A t \in VendorThreads : at'[t] = at[t]
      PROVE  Flushing'
  BY <1>0, <1>1 DEF Flushing, Idle
<1>2. ASSUME NEW f \in Frames, ProcessRequest(f)
      PROVE  Flushing'
  <2>1. UNCHANGED <<at, flushVars, registry>>
    BY <1>2 DEF ProcessRequest, processCaptureRequest, setReqErrorAndForwardResult, Record, Attach,
                createExecutor, submitRequest2Vendor, process_capture_request, Return, managerVars
  <2>2. request[f] \notin Over \/ registry = "active"
    BY <1>2 DEF ProcessRequest, processCaptureRequest, setReqErrorAndForwardResult, Record, Attach, Over,
                createExecutor, submitRequest2Vendor, process_capture_request, Return, Advance
  <2>3. registry = "active"
    BY <1>0, <2>2 DEF Flushing
  <2> QED BY <1>1, <2>1, <2>3 DEF flushVars
<1>3. ASSUME NEW t \in Threads, Callback(t)
      PROVE  Flushing'
  <2>1. UNCHANGED <<request, flushVars, registry>>
    BY <1>3 DEF Callback, Update, PassEarly, processCaptureResult, Load, StoreNotified, complete,
                Store, Finish, Erase, managerVars
  <2>2. at[t] # Idle
    BY <1>3 DEF Callback, Update, PassEarly, processCaptureResult, Load, StoreNotified, complete,
                Store, Finish, Erase, Idle
  <2>3. \A u \in Threads \ {t} : at'[u] = at[u]
    BY <1>0, <1>3, Going DEF Callback, Update, PassEarly, processCaptureResult, Load,
                             StoreNotified, complete, Store, Finish, Erase, Goto, TypeOK,
                             ThreadsTyped
  <2>4. flush \in {"drain", "returned"} => at'[Loop] = at[Loop]
    BY <1>0, <2>2, <2>3, Constants DEF Flushing
  <2>5. registry # "active" => \A u \in VendorThreads : at'[u] = at[u]
    BY <1>0, <2>2, <2>3, Constants DEF Flushing
  <2> QED BY <1>1, <2>1, <2>4, <2>5 DEF flushVars
<1>4. ASSUME NEW t \in VendorThreads, NEW f \in Frames, NEW event \in Notifications \cup Results,
             Arrive(t, f, event)
      PROVE  Flushing'
  <2>1. UNCHANGED <<request, flushVars, registry>> /\ registry = "active"
    BY <1>4 DEF Arrive, managerVars
  <2>2. at'[Loop] = at[Loop]
    BY <1>0, <1>4, Constants DEF Arrive, BeginAt, TypeOK, ThreadsTyped
  <2> QED BY <1>1, <2>1, <2>2 DEF flushVars
<1>5. ASSUME NEW f \in Frames, TakeAnchor(f)
      PROVE  Flushing'
  <2>1. UNCHANGED <<request, flushVars, registry>> /\ ~mExitThread
    BY <1>5 DEF TakeAnchor, managerVars
  <2>2. flush \notin {"drain", "returned"}
    BY <1>0, <2>1 DEF Flushing
  <2>3. \A t \in VendorThreads : at'[t] = at[t]
    BY <1>0, <1>5, Constants DEF TakeAnchor, BeginAt, TypeOK, ThreadsTyped
  <2> QED BY <1>1, <2>1, <2>2, <2>3 DEF flushVars
<1>6. CASE (\E f \in Snapshots : AnswerOf(f)) \/ decreasePendingFinalSnapCount \/ SignalReclaim
  <2>1. UNCHANGED <<request, flushVars, registry>>
    BY <1>6 DEF AnswerOf, decreasePendingFinalSnapCount, SignalReclaim, managerVars
  <2>2. \A t \in Threads \ {Darkroom} : at'[t] = at[t]
    BY <1>0, <1>6, Constants DEF AnswerOf, decreasePendingFinalSnapCount, SignalReclaim, Goto, TypeOK,
                                 ThreadsTyped
  <2> QED BY <1>1, <2>1, <2>2, Constants DEF flushVars
<1>7. CASE flushPendingFwkRecords
  <2>1. /\ flush = "vendor" /\ flush' = "loop" /\ UNCHANGED <<request, mFlush, mExitThread, at, registry>>
    BY <1>7 DEF flushPendingFwkRecords, FlushStep
  <2> QED BY <1>0, <2>1 DEF Flushing
<1>8. CASE Manages
  <2>1. UNCHANGED <<request, at>>
    BY <1>8 DEF Manages
  <2>2. CASE unregisterSession \/ sessionReclaimLoop
    BY <1>0, <2>1, <2>2 DEF Flushing, unregisterSession, sessionReclaimLoop, flushVars, TypeOK, FlushTyped
  <2>3. CASE Flush \/ flush2Vendor \/ waitLoop \/ waitAndResetToInitStatus
    BY <1>0, <2>1, <2>3 DEF Flushing, Flush, flush2Vendor, waitLoop, waitAndResetToInitStatus, FlushStep,
                            managerVars, TypeOK, FlushTyped
  <2>4. CASE UNCHANGED <<flushVars, managerVars>>
    BY <1>0, <2>1, <2>4 DEF Flushing, flushVars, managerVars
  <2> QED BY <1>8, <2>2, <2>3, <2>4 DEF Manages
<1> QED BY <1>2, <1>3, <1>4, <1>5, <1>6, <1>7, <1>8, Cases

LEMMA CoreInit == Init => Core
<1> SUFFICES ASSUME Init PROVE Core
  OBVIOUS
<1>1. RecordsTypeOK /\ RequestsTyped /\ ExecutorsTyped /\ StatusTyped
  BY DEF Init, RecordsInit, RecordsTypeOK, RequestsTyped, ExecutorsTyped, StatusTyped, Parts
<1>2. AttachedTyped /\ SnapsTyped /\ FlushTyped
  <2>1. AttachedTyped
    BY DEF Init, AttachedTyped
  <2>2. SnapsTyped
    BY DEF Init, SnapsTyped
  <2>3. FlushTyped
    BY DEF Init, FlushTyped
  <2> QED BY <2>1, <2>2, <2>3
<1>3. ThreadsTyped /\ \A t \in Threads : at[t] = Idle
  BY DEF Init, ThreadsTyped, Places, Steps, Idle
<1>4. Positions
  BY <1>3, Constants DEF Positions, Positioned, Idle
<1>5. Making /\ Attaching
  BY Constants DEF Init, Making, Attaching, Fresh
<1>6. Living
  BY <1>3, Constants DEF Init, Living, HeldByRequest, Holds, Idle
<1>7. Flushing
  BY DEF Init, Flushing
<1> QED BY <1>1, <1>2, <1>4, <1>3, <1>5, <1>6, <1>7 DEF Core, TypeOK

LEMMA CoreNext == ASSUME Core, [Next]_vars PROVE Core'
BY TypeNext, PositionsNext, MakingNext, LivingNext, AttachingNext, FlushingNext DEF Core

LEMMA CoreAlways == Spec => []Core
BY CoreInit, CoreNext, PTL DEF Spec

\* Every reachable state is well typed.
THEOREM TypeCorrect == Spec => []TypeOK
<1>1. Core => TypeOK
  BY DEF Core
<1> QED BY <1>1, CoreAlways, PTL

-----------------------------------------------------------------------------
(* Finished executors *)

\* A step moves one thread at most.
LEMMA OthersStay ==
  ASSUME Core, NEW t \in Threads, Callback(t)
  PROVE  \A u \in Threads \ {t} : at'[u] = at[u]
BY Going DEF Callback, Update, PassEarly, processCaptureResult, Load, StoreNotified, complete,
             Store, Finish, Erase, Goto, Core, TypeOK, ThreadsTyped

\* Whoever has begun goes on; only a callback itself lets its executor go.
Others ==
  \/ \E f \in Frames : ProcessRequest(f) \/ TakeAnchor(f)
  \/ \E t \in VendorThreads, f \in Frames, event \in Notifications \cup Results : Arrive(t, f, event)
  \/ \E f \in Snapshots : AnswerOf(f)
  \/ decreasePendingFinalSnapCount \/ SignalReclaim
  \/ flushPendingFwkRecords \/ Manages

LEMMA StillHolds ==
  ASSUME Core, Others
  PROVE  \A t \in Threads, f \in Frames : Holds(t, f) => Holds(t, f)'
<1> SUFFICES ASSUME NEW t \in Threads, NEW f \in Frames, Holds(t, f)
             PROVE  at'[t] = at[t]
  BY DEF Holds
<1>1. ThreadsTyped /\ at[t] # Idle /\ at[t].step \notin {"decrease", "signal"}
  BY DEF Core, TypeOK, Holds, Idle
<1>2. ASSUME NEW u \in VendorThreads, NEW g \in Frames, NEW event \in Notifications \cup Results,
             Arrive(u, g, event)
      PROVE  at'[t] = at[t]
  <2>1. at[u] = Idle /\ BeginAt(u, g, event)
    BY <1>2 DEF Arrive
  <2> QED BY <1>1, <2>1, Beginning, Constants
<1>3. ASSUME NEW g \in Frames, TakeAnchor(g)
      PROVE  at'[t] = at[t]
  <2>1. at[Loop] = Idle /\ BeginAt(Loop, g, "early")
    BY <1>3 DEF TakeAnchor
  <2> QED BY <1>1, <2>1, Beginning, Constants
<1>4. CASE (\E g \in Snapshots : AnswerOf(g)) \/ decreasePendingFinalSnapCount \/ SignalReclaim
  <2>1. t # Darkroom
    BY <1>1, <1>4 DEF AnswerOf, decreasePendingFinalSnapCount, SignalReclaim
  <2>2. \A u \in Threads \ {Darkroom} : at'[u] = at[u]
    BY <1>1, <1>4, Constants DEF AnswerOf, decreasePendingFinalSnapCount, SignalReclaim, Goto, ThreadsTyped
  <2> QED BY <2>1, <2>2
<1>5. CASE (\E g \in Frames : ProcessRequest(g)) \/ flushPendingFwkRecords \/ Manages
  BY <1>5 DEF ProcessRequest, processCaptureRequest, setReqErrorAndForwardResult, Record, Attach,
              createExecutor, submitRequest2Vendor, process_capture_request, Return,
              flushPendingFwkRecords, Manages
<1> QED BY <1>2, <1>3, <1>4, <1>5 DEF Others

\* An executor that isFinish calls finished is still in use.
FinishedInUse == \A f \in mVendorInflights : isFinish(f) => \E t \in Threads : Holds(t, f)

LEMMA FinishedNext ==
  ASSUME Core, FinishedInUse, [Next]_vars
  PROVE  FinishedInUse'
<1>0. /\ mVendorInflights \subseteq Frames /\ \A g \in mVendorInflights : executor[g] = "alive"
      /\ mAttachedCount \in [Frames -> {0, 1}]
      /\ mStatus \in [Frames -> SUBSET ALL_FINISH]
  BY DEF Core, TypeOK, ExecutorsTyped, StatusTyped, AttachedTyped, Living
<1> SUFFICES ASSUME NEW f \in mVendorInflights', isFinish(f)'
             PROVE  \E t \in Threads : Holds(t, f)'
  BY DEF FinishedInUse
<1>1. ASSUME f \in mVendorInflights, mStatus'[f] = mStatus[f], mAttachedCount'[f] = mAttachedCount[f],
             \A t \in Threads : Holds(t, f) => Holds(t, f)'
      PROVE  \E t \in Threads : Holds(t, f)'
  BY <1>1 DEF FinishedInUse, isFinish
<1>2. ASSUME NEW frames, Destroyed(frames), f \in Frames, f \notin frames
      PROVE  mStatus'[f] = mStatus[f]
  BY <1>2 DEF Destroyed
<1>3. Others => \A t \in Threads : f \in Frames /\ Holds(t, f) => Holds(t, f)'
  BY StillHolds
<1>4. ASSUME NEW g \in Frames, ProcessRequest(g)
      PROVE  \E t \in Threads : Holds(t, f)'
  <2>0. f \in mVendorInflights => \A t \in Threads : Holds(t, f) => Holds(t, f)'
    BY <1>0, <1>3, <1>4 DEF Others
  <2>1. CASE createExecutor(g)
    <3>1. UNCHANGED mStatus /\ executor[g] = "none"
      BY <2>1 DEF createExecutor, statusVars, Advance, Core, Making, Fresh
    <3>2. mStatus[g] = {}
      BY <3>1 DEF Core, Making
    <3>3. g # f
      BY <3>1, <3>2 DEF isFinish, ALL_FINISH
    <3>4. /\ mVendorInflights' = mVendorInflights \cup {g}
          /\ UNCHANGED mAttachedCount \/ mAttachedCount' = [mAttachedCount EXCEPT ![g] = 1]
      BY <2>1 DEF createExecutor
    <3> QED BY <1>0, <1>1, <2>0, <3>1, <3>3, <3>4
  <2>2. CASE Return(g)
    <3>1. /\ mVendorInflights' = mVendorInflights /\ UNCHANGED mAttachedCount
          /\ Destroyed(IF g \notin mVendorInflights /\ \A t \in Threads : ~Holds(t, g) THEN {g} ELSE {})
      BY <2>2 DEF Return
    <3>2. mStatus'[f] = mStatus[f]
      BY <1>0, <1>2, <3>1
    <3> QED BY <1>1, <2>0, <3>1, <3>2
  <2>3. CASE \/ processCaptureRequest(g) \/ setReqErrorAndForwardResult(g) \/ Record(g)
             \/ Attach(g) \/ submitRequest2Vendor(g) \/ process_capture_request(g)
    <3>1. UNCHANGED <<mStatus, mAttachedCount>> /\ f \in mVendorInflights
      BY <2>3 DEF processCaptureRequest, setReqErrorAndForwardResult, Record, Attach, statusVars,
                  submitRequest2Vendor, process_capture_request, executorVars
    <3> QED BY <1>1, <2>0, <3>1
  <2> QED BY <1>4, <2>1, <2>2, <2>3 DEF ProcessRequest
<1>5. ASSUME NEW t \in Threads, Callback(t)
      PROVE  \E u \in Threads : Holds(u, f)'
  <2>0. PICK g \in Frames : g = at[t].frame /\ Holds(t, g)
    BY <1>5, CalledLives
  <2>1. CASE Erase(t)
    <3> DEFINE left == IF isFinish(g) THEN mVendorInflights \ {g} ELSE mVendorInflights
    <3>1. PICK gone : /\ Destroyed(gone) /\ gone \cap left = {}
                      /\ mVendorInflights' = left /\ UNCHANGED mAttachedCount
      BY <2>0, <2>1 DEF Erase
    <3>2. f \in mVendorInflights /\ mStatus'[f] = mStatus[f]
      BY <1>0, <1>2, <3>1
    <3>3. f # g
      <4>1. isFinish(f)
        BY <3>1, <3>2 DEF isFinish
      <4> QED BY <3>1, <4>1
    <3>4. \A u \in Threads : Holds(u, f) => Holds(u, f)'
      BY <1>5, <2>0, <3>3, OthersStay DEF Holds
    <3> QED BY <1>1, <3>1, <3>2, <3>4
  <2>2. CASE ~Erase(t)
    <3>1. UNCHANGED mVendorInflights
      BY <1>5, <2>2 DEF Callback, Update, PassEarly, processCaptureResult, Load, StoreNotified,
                        complete, Store, Finish, executorVars
    <3>2. \A u \in Threads : Holds(u, f)' <=> Holds(u, f)
      BY <1>0, <1>5, <2>2, <3>1, HoldsOn
    <3>3. \A h \in Frames \ {g} : mAttachedCount'[h] = mAttachedCount[h] /\ mStatus'[h] = mStatus[h]
      <4>1. CASE Update(t)
        <5>1. \E parts : removeAttachFwkRequest(IF Completes(g, parts) THEN {g} ELSE {})
          BY <2>0, <4>1 DEF Update
        <5>2. \A h \in Frames \ {g} : mAttachedCount'[h] = mAttachedCount[h]
          BY <5>1 DEF removeAttachFwkRequest
        <5>3. UNCHANGED mStatus
          BY <4>1 DEF Update, statusVars
        <5> QED BY <5>2, <5>3
      <4>2. CASE Stores(t)
        <5>1. UNCHANGED mAttachedCount
          BY <4>2, StoresOnly DEF executorVars
        <5>2. \A h \in Frames \ {g} : mStatus'[h] = mStatus[h]
          BY <1>0, <2>0, <4>2 DEF Stores, Load, StoreNotified, complete, Store
        <5> QED BY <5>1, <5>2
      <4>3. CASE PassEarly(t) \/ processCaptureResult(t) \/ Finish(t)
        BY <4>3 DEF PassEarly, processCaptureResult, Finish, executorVars, statusVars
      <4> QED BY <1>5, <2>2, <4>1, <4>2, <4>3 DEF Callback, Stores
    <3>4. CASE f = g
      BY <2>0, <3>2, <3>4
    <3>5. CASE f # g
      BY <1>0, <1>1, <3>1, <3>2, <3>3, <3>5
    <3> QED BY <3>4, <3>5
  <2> QED BY <2>1, <2>2
<1>6. CASE flushPendingFwkRecords
  <2> DEFINE flushed == {g \in mAttachVendorFrame : Pending(g)}
             over == {g \in flushed \cap mVendorInflights :
                        mStatus[g] = ALL_FINISH /\ mAttachedCount[g] <= 1}
             gone == {g \in over : ~HeldByRequest(g) /\ \A t \in Threads : ~Holds(t, g)}
  <2>1. /\ mVendorInflights' = mVendorInflights \ over /\ Destroyed(gone)
        /\ removeAttachFwkRequest(flushed)
    BY <1>6 DEF flushPendingFwkRecords
  <2>2. f \in mVendorInflights /\ f \in Frames /\ f \notin over
    BY <1>0, <2>1
  <2>3. mStatus'[f] = mStatus[f]
    BY <1>2, <2>1, <2>2
  <2>4. f \notin flushed \cap mAttachVendorFrame
    <3>1. mStatus[f] = ALL_FINISH
      BY <2>3 DEF isFinish
    <3>2. mAttachedCount[f] <= 1
      BY <1>0, <2>2
    <3> QED BY <2>2, <3>1, <3>2
  <2>5. mAttachedCount'[f] = mAttachedCount[f]
    BY <2>1, <2>2, <2>4 DEF removeAttachFwkRequest
  <2> QED BY <1>1, <1>3, <1>6, <2>2, <2>3, <2>5 DEF Others
<1>7. CASE \/ \E g \in Frames : TakeAnchor(g)
           \/ \E g \in Snapshots : AnswerOf(g)
           \/ \E t \in VendorThreads, g \in Frames, event \in Notifications \cup Results :
                 Arrive(t, g, event)
           \/ decreasePendingFinalSnapCount \/ SignalReclaim \/ Manages
  <2>1. UNCHANGED <<mVendorInflights, mAttachedCount, mStatus>>
    BY <1>7 DEF TakeAnchor, AnswerOf, Arrive, decreasePendingFinalSnapCount, SignalReclaim, Manages,
                executorVars, statusVars
  <2>2. Others
    BY <1>7 DEF Others
  <2> QED BY <1>0, <1>1, <1>3, <2>1, <2>2
<1> QED BY <1>4, <1>5, <1>6, <1>7, Cases

-----------------------------------------------------------------------------
(* Requests after a flush *)

LEMMA AnsweredNext ==
  ASSUME Core, AcceptedAreAnswered, [Next]_vars
  PROVE  AcceptedAreAnswered'
<1> DEFINE Later == {"loop", "join", "drain", "returned"}
           Sent == {"submitting", "submitted", "accepted"}
<1>0. /\ mPendingFwkRecords \in [Frames -> SUBSET Parts]
      /\ request \in [Frames -> {"none", "rejected", "rejecting", "admitted", "recorded",
           "in flight", "attached", "submitting", "submitted", "refusing",
           "accepted", "refused", "answered"}]
      /\ flush \in Later => mFlush
  BY DEF Core, TypeOK, RecordsTypeOK, RequestsTyped, Flushing
<1>1. ASSUME flush' \in Later => flush \in Later,
             \A f \in Frames : flush \in Later /\ request'[f] \in Sent => request[f] \in Sent,
             \A f \in Frames : Pending(f)' /\ request'[f] \in Sent => Pending(f)
      PROVE  AcceptedAreAnswered'
  BY <1>1 DEF AcceptedAreAnswered
<1>2. ASSUME NEW f \in Frames, ProcessRequest(f)
      PROVE  AcceptedAreAnswered'
  <2>1. UNCHANGED flush
    BY <1>2 DEF ProcessRequest, processCaptureRequest, setReqErrorAndForwardResult, Record, Attach,
                createExecutor, submitRequest2Vendor, process_capture_request, Return, flushVars
  <2>2. CASE Record(f)
    <3>1. \A g \in Frames : /\ request'[g] \in Sent => request[g] \in Sent /\ g # f
                            /\ g # f => (Pending(g)' <=> Pending(g))
      BY <1>0, <2>2 DEF Record, Advance, insertPendingFwkRecords, Pending
    <3> QED BY <1>1, <2>1, <3>1
  <2>3. CASE submitRequest2Vendor(f)
    <3>1. UNCHANGED mPendingFwkRecords
      BY <2>3 DEF submitRequest2Vendor, recordVars
    <3>2. flush \in Later => \A g \in Frames : request'[g] \in Sent => request[g] \in Sent
      BY <1>0, <2>3 DEF submitRequest2Vendor, Advance
    <3> QED BY <1>1, <2>1, <3>1, <3>2 DEF Pending
  <2>4. CASE \/ processCaptureRequest(f) \/ setReqErrorAndForwardResult(f) \/ createExecutor(f)
             \/ Attach(f) \/ process_capture_request(f) \/ Return(f)
    <3>1. UNCHANGED mPendingFwkRecords
      BY <2>4 DEF processCaptureRequest, setReqErrorAndForwardResult, createExecutor, Attach, recordVars,
                  process_capture_request, Return, CountBuffer, UncountBuffer, process_capture_result
    <3>2. \A g \in Frames : request'[g] \in Sent => request[g] \in Sent
      BY <1>0, <2>4 DEF processCaptureRequest, setReqErrorAndForwardResult, createExecutor, Attach,
                        process_capture_request, Return, Advance
    <3> QED BY <1>1, <2>1, <3>1, <3>2 DEF Pending
  <2> QED BY <1>2, <2>2, <2>3, <2>4 DEF ProcessRequest
<1>3. ASSUME NEW t \in Threads, Callback(t)
      PROVE  AcceptedAreAnswered'
  <2>1. UNCHANGED <<request, flush>>
    BY <1>3 DEF Callback, Update, PassEarly, processCaptureResult, Load, StoreNotified, complete,
                Store, Finish, Erase, flushVars
  <2>2. \A f \in Frames : mPendingFwkRecords'[f] \subseteq mPendingFwkRecords[f]
    BY <1>0, <1>3 DEF Callback, Update, PassEarly, processCaptureResult, Load, StoreNotified,
                      complete, Store, Finish, Erase, recordVars, updatePendingFwkRecords,
                      UncountBuffer, process_capture_result
  <2> QED BY <1>1, <2>1, <2>2 DEF Pending
<1>4. CASE flushPendingFwkRecords
  BY <1>4 DEF flushPendingFwkRecords, flushRecords, AcceptedAreAnswered, Pending
<1>5. CASE \/ \E f \in Frames : TakeAnchor(f)
           \/ \E f \in Snapshots : AnswerOf(f)
           \/ \E t \in VendorThreads, f \in Frames, event \in Notifications \cup Results :
                 Arrive(t, f, event)
           \/ decreasePendingFinalSnapCount \/ SignalReclaim \/ Manages
  <2>1. UNCHANGED <<request, mPendingFwkRecords>>
    BY <1>5 DEF TakeAnchor, AnswerOf, Arrive, decreasePendingFinalSnapCount, SignalReclaim, Manages,
                recordVars
  <2>2. flush' \in Later => flush \in Later
    BY <1>5 DEF TakeAnchor, AnswerOf, Arrive, decreasePendingFinalSnapCount, SignalReclaim, Manages,
                flushVars, Flush, flush2Vendor, waitLoop, waitAndResetToInitStatus, FlushStep,
                unregisterSession, sessionReclaimLoop
  <2> QED BY <1>1, <2>1, <2>2 DEF Pending
<1> QED BY <1>2, <1>3, <1>4, <1>5, Cases

\* No request that the vendor was sent is pending once a flush has answered
\* what was, wherever the framework's thread stood when the flush came.
THEOREM AllAnswered == Spec => []AcceptedAreAnswered
<1>1. Init => AcceptedAreAnswered
  BY DEF Init, AcceptedAreAnswered
<1>2. Core /\ AcceptedAreAnswered /\ [Next]_vars => AcceptedAreAnswered'
  BY AnsweredNext
<1> QED BY <1>1, <1>2, CoreAlways, PTL DEF Spec

-----------------------------------------------------------------------------
(* What a step does to one executor *)

\* The status of an executor as it was told and as it was loaded, where nothing overlaps.
StatusKept(f) ==
  mStatus'[f] = mStatus[f] /\ told'[f] = told[f] /\ (f \in overlapped' <=> f \in overlapped)
NoStatus(f) == mStatus'[f] = {} /\ told'[f] = {} /\ f \notin overlapped'

LEMMA Destroying ==
  ASSUME Core, NEW frames, Destroyed(frames), NEW f \in Frames, f \in frames => executor[f] = "alive"
  PROVE  \/ f \notin frames /\ executor'[f] = executor[f] /\ flags'[f] = flags[f]
                            /\ StatusKept(f)
         \/ f \in frames /\ executor[f] = "alive" /\ executor'[f] = "gone"
                         /\ flags'[f] = {} /\ NoStatus(f)
BY DEF Destroyed, StatusKept, NoStatus

\* An executor is made, used by a callback at its frame, left alone or destroyed.
LEMMA ExecutorSteps ==
  ASSUME Core, [Next]_vars, NEW f \in Frames
  PROVE  \/ createExecutor(f)
         \/ \E t \in Threads : at[t].frame = f /\ (Update(t) \/ Finish(t) \/ Stores(t))
         \/ executor'[f] = executor[f] /\ flags'[f] = flags[f] /\ StatusKept(f)
         \/ executor[f] = "alive" /\ executor'[f] = "gone" /\ flags'[f] = {} /\ NoStatus(f)
<1>0. /\ flags \in [Frames -> SUBSET {"meta", "no meta", "buffer", "error", "final", "reported",
                                      "early"}]
      /\ mStatus \in [Frames -> SUBSET ALL_FINISH] /\ told \in [Frames -> SUBSET ALL_FINISH]
      /\ executor \in [Frames -> {"none", "alive", "gone"}]
  BY DEF Core, TypeOK, ExecutorsTyped, StatusTyped
<1> DEFINE Same == executor'[f] = executor[f] /\ flags'[f] = flags[f] /\ StatusKept(f)
           Gone == executor[f] = "alive" /\ executor'[f] = "gone" /\ flags'[f] = {} /\ NoStatus(f)
<1>1. ASSUME NEW frames, Destroyed(frames), f \in frames => executor[f] = "alive"
      PROVE  Same \/ Gone
  BY <1>1, Destroying
<1>2. ASSUME NEW g \in Frames, ProcessRequest(g)
      PROVE  createExecutor(f) \/ Same \/ Gone
  <2>1. CASE createExecutor(g)
    <3>1. executor' = [executor EXCEPT ![g] = "alive"] /\ UNCHANGED <<mStatus, told, overlapped, flags>>
      BY <2>1 DEF createExecutor, statusVars
    <3>2. g # f => Same
      BY <1>0, <3>1 DEF StatusKept
    <3> QED BY <2>1, <3>2
  <2>2. CASE Return(g)
    <3>1. executor[g] = "alive"
      BY <2>2 DEF Core, Living, HeldByRequest, Return, Advance
    <3>2. \E frames : Destroyed(frames) /\ frames \subseteq {g}
      BY <2>2 DEF Return
    <3> QED BY <1>1, <3>1, <3>2
  <2>3. CASE \/ processCaptureRequest(g) \/ setReqErrorAndForwardResult(g) \/ Record(g)
             \/ Attach(g) \/ submitRequest2Vendor(g) \/ process_capture_request(g)
    <3>1. UNCHANGED <<executor, mStatus, told, overlapped, flags>>
      BY <2>3 DEF processCaptureRequest, setReqErrorAndForwardResult, Record, Attach, statusVars,
                  submitRequest2Vendor, process_capture_request, executorVars
    <3> QED BY <3>1 DEF StatusKept
  <2> QED BY <1>2, <2>1, <2>2, <2>3 DEF ProcessRequest
<1>3. ASSUME NEW t \in Threads, Callback(t),
             ~(at[t].frame = f /\ (Update(t) \/ Finish(t) \/ Stores(t)))
      PROVE  Same \/ Gone
  <2>0. PICK g \in Frames : g = at[t].frame /\ executor[g] = "alive"
    BY <1>3, CalledLives
  <2>1. CASE Update(t)
    <3>1. /\ \E new : flags' = [flags EXCEPT ![g] = @ \cup new]
          /\ UNCHANGED <<mStatus, told, overlapped>> /\ UNCHANGED executor
      BY <2>0, <2>1 DEF Update, statusVars
    <3> QED BY <1>0, <1>3, <2>0, <2>1, <3>1 DEF StatusKept
  <2>2. CASE Finish(t)
    <3>1. /\ UNCHANGED executor /\ \A h \in Frames \ {g} : flags'[h] = flags[h]
          /\ UNCHANGED <<mStatus, told, overlapped>>
      BY <1>0, <2>0, <2>2 DEF Finish, goToDarkroom, GiveUp, executorVars, statusVars
    <3> QED BY <1>3, <2>0, <2>2, <3>1 DEF StatusKept
  <2>3. CASE Erase(t)
    <3>1. \E frames : Destroyed(frames) /\ frames \subseteq {g}
      BY <2>0, <2>3 DEF Erase
    <3> QED BY <1>1, <2>0, <3>1
  <2>4. CASE PassEarly(t) \/ processCaptureResult(t)
    BY <2>4 DEF PassEarly, processCaptureResult, executorVars, statusVars, StatusKept
  <2>5. CASE Stores(t)
    <3>0. /\ UNCHANGED executor
          /\ UNCHANGED flags \/ flags' = [flags EXCEPT ![g] = @ \cup Learnt(at[t].event)]
      BY <2>0, <2>5, StoresOnly DEF executorVars
    <3>1. UNCHANGED executor /\ \A h \in Frames \ {g} : flags'[h] = flags[h]
      BY <1>0, <3>0
    <3>2. \A h \in Frames \ {g} : StatusKept(h)
      BY <1>0, <2>0, <2>5 DEF Stores, Load, StoreNotified, complete, Store, StatusKept
    <3> QED BY <1>3, <2>0, <2>5, <3>1, <3>2
  <2> QED BY <1>3, <2>1, <2>2, <2>3, <2>4, <2>5 DEF Callback, Stores
<1>4. CASE flushPendingFwkRecords
  <2>1. \A g \in mVendorInflights : executor[g] = "alive"
    BY DEF Core, Living, TypeOK, ExecutorsTyped
  <2>2. \E frames : Destroyed(frames) /\ frames \subseteq mVendorInflights
    BY <1>4 DEF flushPendingFwkRecords
  <2> QED BY <1>1, <2>1, <2>2
<1>5. CASE \/ \E g \in Frames : TakeAnchor(g)
           \/ \E g \in Snapshots : AnswerOf(g)
           \/ \E t \in VendorThreads, g \in Frames, event \in Notifications \cup Results :
                 Arrive(t, g, event)
           \/ decreasePendingFinalSnapCount \/ SignalReclaim \/ Manages
  <2>1. UNCHANGED <<executor, mStatus, told, overlapped, flags>>
    BY <1>5 DEF TakeAnchor, AnswerOf, Arrive, decreasePendingFinalSnapCount, SignalReclaim, Manages,
                executorVars, statusVars
  <2> QED BY <2>1 DEF StatusKept
<1> QED BY <1>2, <1>3, <1>4, <1>5, Cases

\* Only a new executor comes into mVendorInflights; one leaves it when it has
\* finished, or when its request is refused at the submit.
LEMMA InflightSteps ==
  ASSUME Core, [Next]_vars, NEW f \in Frames
  PROVE  /\ f \in mVendorInflights' => f \in mVendorInflights \/ createExecutor(f)
         /\ f \in mVendorInflights /\ f \notin mVendorInflights' =>
              \/ mStatus[f] = ALL_FINISH
              \/ submitRequest2Vendor(f) /\ request'[f] = "refusing"
<1>0. request \in [Frames -> {"none", "rejected", "rejecting", "admitted", "recorded",
        "in flight", "attached", "submitting", "submitted", "refusing",
        "accepted", "refused", "answered"}]
  BY DEF Core, TypeOK, RequestsTyped
<1>1. ASSUME NEW g \in Frames, ProcessRequest(g)
      PROVE  /\ f \in mVendorInflights' => f \in mVendorInflights \/ createExecutor(f)
             /\ f \in mVendorInflights /\ f \notin mVendorInflights' =>
                  submitRequest2Vendor(f) /\ request'[f] = "refusing"
  <2>1. CASE createExecutor(g)
    BY <2>1 DEF createExecutor
  <2>2. CASE submitRequest2Vendor(g)
    BY <1>0, <2>2 DEF submitRequest2Vendor, Advance
  <2>3. CASE \/ processCaptureRequest(g) \/ setReqErrorAndForwardResult(g) \/ Record(g)
             \/ Attach(g) \/ Return(g) \/ process_capture_request(g)
    <3>1. UNCHANGED mVendorInflights
      BY <2>3 DEF processCaptureRequest, setReqErrorAndForwardResult, Record, Attach,
                  Return, process_capture_request, executorVars
    <3> QED BY <3>1
  <2> QED BY <1>1, <2>1, <2>2, <2>3 DEF ProcessRequest
<1>2. ASSUME NEW t \in Threads, Callback(t)
      PROVE  /\ f \in mVendorInflights' => f \in mVendorInflights
             /\ f \in mVendorInflights /\ f \notin mVendorInflights' => mStatus[f] = ALL_FINISH
  <2>1. CASE Erase(t)
    <3>1. PICK g \in Frames : g = at[t].frame
      BY <1>2, CalledLives
    <3>2. mVendorInflights' = IF isFinish(g) THEN mVendorInflights \ {g} ELSE mVendorInflights
      BY <2>1, <3>1 DEF Erase
    <3> QED BY <3>2 DEF isFinish
  <2>2. CASE ~Erase(t)
    <3>1. UNCHANGED mVendorInflights
      BY <1>2, <2>2 DEF Callback, Update, PassEarly, processCaptureResult, Load, StoreNotified,
                        complete, Store, Finish, executorVars
    <3> QED BY <3>1
  <2> QED BY <2>1, <2>2
<1>3. CASE flushPendingFwkRecords
  <2> DEFINE over == {g \in {h \in mAttachVendorFrame : Pending(h)} \cap mVendorInflights :
                        mStatus[g] = ALL_FINISH /\ mAttachedCount[g] <= 1}
  <2>1. mVendorInflights' = mVendorInflights \ over
    BY <1>3, Zenon DEF flushPendingFwkRecords
  <2> QED BY <2>1
<1>4. CASE \/ \E g \in Frames : TakeAnchor(g)
           \/ \E g \in Snapshots : AnswerOf(g)
           \/ \E t \in VendorThreads, g \in Frames, event \in Notifications \cup Results :
                 Arrive(t, g, event)
           \/ decreasePendingFinalSnapCount \/ SignalReclaim \/ Manages
  <2>1. UNCHANGED mVendorInflights
    BY <1>4 DEF TakeAnchor, AnswerOf, Arrive, decreasePendingFinalSnapCount, SignalReclaim, Manages,
                executorVars
  <2> QED BY <2>1
<1> QED BY <1>1, <1>2, <1>3, <1>4, Cases

-----------------------------------------------------------------------------
(* What is told and what is stored *)

\* Where no updates of a status overlap, one thread at a time stores it, on top of what
\* it is, and the status is what it was told.
StatusesAgree == \A f \in Frames \ overlapped :
  /\ mStatus[f] = told[f]
  /\ \A t, u \in Threads : Storing(t, f) /\ Storing(u, f) => t = u
  /\ \A t \in Threads : Storing(t, f) => loaded[t] = mStatus[f]

\* A thread in the middle of a callback goes on with it or stays, with the status it has
\* loaded.
LEMMA GoesOn ==
  ASSUME Core, [Next]_vars, NEW t \in Threads,
         at'[t].step \notin {"idle", "update", "decrease", "signal"}
  PROVE  Callback(t) \/ (at'[t] = at[t] /\ loaded'[t] = loaded[t])
<1>0. ThreadsTyped /\ loaded \in [Threads -> SUBSET ALL_FINISH]
  BY DEF Core, TypeOK, StatusTyped
<1>1. ASSUME NEW u \in Threads \ {t}, Callback(u)
      PROVE  at'[t] = at[t] /\ loaded'[t] = loaded[t]
  <2>1. at'[t] = at[t]
    BY <1>1, OthersStay
  <2>2. loaded'[t] = loaded[t]
    BY <1>0, <1>1 DEF Callback, Update, PassEarly, processCaptureResult, Load, StoreNotified, complete,
                      Store, Finish, Erase, Destroyed, statusVars
  <2> QED BY <2>1, <2>2
<1>2. Others => UNCHANGED loaded
  BY DEF Others, ProcessRequest, processCaptureRequest, setReqErrorAndForwardResult, Record,
         Attach, createExecutor, submitRequest2Vendor, process_capture_request, Return,
         TakeAnchor, Arrive, AnswerOf, decreasePendingFinalSnapCount, SignalReclaim,
         flushPendingFwkRecords, Manages, Destroyed, statusVars
<1>3. ASSUME NEW u \in Threads, NEW g \in Frames,
             NEW event \in Notifications \cup Results \cup {"early"}, BeginAt(u, g, event)
      PROVE  at'[t] = at[t]
  <2>1. /\ at'[u] = [frame |-> g, event |-> event, step |-> "update"] \/ at'[u] = Idle
        /\ \A v \in Threads \ {u} : at'[v] = at[v]
    BY <1>0, <1>3, Beginning
  <2>2. at'[u].step \in {"update", "idle"}
    BY <2>1 DEF Idle
  <2> QED BY <2>1, <2>2
<1>4. CASE (\E g \in Snapshots : AnswerOf(g)) \/ decreasePendingFinalSnapCount \/ SignalReclaim
  <2>1. Darkroom \in Threads /\ \A v \in Threads \ {Darkroom} : at'[v] = at[v]
    BY <1>0, <1>4, Constants
       DEF AnswerOf, decreasePendingFinalSnapCount, SignalReclaim, Goto, ThreadsTyped
  <2>2. ASSUME NEW g \in Snapshots, AnswerOf(g)
        PROVE  at'[Darkroom].step \in {"update", "decrease"}
    <3>1. PICK step \in {"update", "decrease"} :
            at' = [at EXCEPT ![Darkroom] = [frame |-> g, event |-> "early", step |-> step]]
      BY <2>2 DEF AnswerOf
    <3>2. at'[Darkroom] = [frame |-> g, event |-> "early", step |-> step]
      BY <1>0, <2>1, <3>1 DEF ThreadsTyped
    <3> QED BY <3>2
  <2>3. decreasePendingFinalSnapCount => at'[Darkroom].step = "signal"
    BY <1>0, <2>1, GoingTo DEF decreasePendingFinalSnapCount
  <2>4. SignalReclaim => at'[Darkroom].step = "idle"
    BY <1>0, <2>1 DEF SignalReclaim, ThreadsTyped, Idle
  <2>5. at'[t] = at[t]
    BY <1>4, <2>1, <2>2, <2>3, <2>4
  <2> QED BY <1>2, <1>4, <2>5 DEF Others
<1>5. CASE \/ \E g \in Frames : TakeAnchor(g)
           \/ \E u \in VendorThreads, g \in Frames, event \in Notifications \cup Results :
                 Arrive(u, g, event)
  <2>1. at'[t] = at[t]
    BY <1>3, <1>5, Constants DEF TakeAnchor, Arrive
  <2> QED BY <1>2, <1>5, <2>1 DEF Others
<1>6. CASE (\E g \in Frames : ProcessRequest(g)) \/ flushPendingFwkRecords \/ Manages
  <2>1. UNCHANGED at
    BY <1>6 DEF ProcessRequest, processCaptureRequest, setReqErrorAndForwardResult, Record,
                Attach, createExecutor, submitRequest2Vendor, process_capture_request, Return,
                flushPendingFwkRecords, Manages
  <2> QED BY <1>2, <1>6, <2>1 DEF Others
<1> QED BY <1>1, <1>4, <1>5, <1>6, Cases

\* A thread stores what it has loaded.
LEMMA StoringSteps ==
  ASSUME Core, [Next]_vars, NEW t \in Threads, NEW f \in Frames, Storing(t, f)'
  PROVE  \/ Load(t) /\ at[t].frame = f
         \/ Storing(t, f) /\ at'[t] = at[t] /\ loaded'[t] = loaded[t]
<1>0. ThreadsTyped
  BY DEF Core, TypeOK
<1>1. at'[t].frame = f /\ at'[t].step \in {"notified", "completed"}
  BY DEF Storing
<1>2. CASE Load(t)
  <2>1. at'[t].frame = at[t].frame
    BY <1>0, <1>2, GoingTo DEF Load
  <2> QED BY <1>1, <1>2, <2>1
<1>3. CASE Callback(t) /\ ~Load(t)
  <2>1. \/ at' = [at EXCEPT ![t] = Idle]
        \/ \E step : Goto(t, step) /\ step \notin {"notified", "completed"}
    BY <1>3 DEF Callback, Update, PassEarly, processCaptureResult, StoreNotified, complete, Finish,
                Erase, AfterAnswer
  <2>2. at'[t].step \notin {"notified", "completed"}
    <3>1. at' = [at EXCEPT ![t] = Idle] => at'[t].step = "idle"
      BY <1>0 DEF ThreadsTyped, Idle
    <3> QED BY <1>0, <2>1, <3>1, GoingTo
  <2> QED BY <1>1, <2>2
<1>4. CASE at'[t] = at[t] /\ loaded'[t] = loaded[t]
  BY <1>1, <1>4 DEF Storing
<1> QED BY <1>1, <1>2, <1>3, <1>4, GoesOn

LEMMA AgreeNext ==
  ASSUME Core, Core', StatusesAgree, [Next]_vars
  PROVE  StatusesAgree'
<1>0. /\ mStatus \in [Frames -> SUBSET ALL_FINISH] /\ told \in [Frames -> SUBSET ALL_FINISH]
      /\ loaded \in [Threads -> SUBSET ALL_FINISH] /\ ThreadsTyped
  BY DEF Core, TypeOK, StatusTyped
<1> SUFFICES ASSUME NEW f \in Frames, f \notin overlapped'
             PROVE  /\ mStatus'[f] = told'[f]
                    /\ \A t, u \in Threads : Storing(t, f)' /\ Storing(u, f)' => t = u
                    /\ \A t \in Threads : Storing(t, f)' => loaded'[t] = mStatus'[f]
  BY DEF StatusesAgree
<1>1. ASSUME f \notin overlapped, mStatus'[f] = mStatus[f], told'[f] = told[f],
             \A t \in Threads : Storing(t, f)' => Storing(t, f) /\ loaded'[t] = loaded[t]
      PROVE  /\ mStatus'[f] = told'[f]
             /\ \A t, u \in Threads : Storing(t, f)' /\ Storing(u, f)' => t = u
             /\ \A t \in Threads : Storing(t, f)' => loaded'[t] = mStatus'[f]
  BY <1>1 DEF StatusesAgree
<1>2. (\A t \in Threads : ~(Load(t) /\ at[t].frame = f)) =>
        \A t \in Threads : Storing(t, f)' => Storing(t, f) /\ loaded'[t] = loaded[t]
  BY StoringSteps
<1>3. CASE createExecutor(f)
  <2>1. executor[f] = "none"
    BY <1>3 DEF createExecutor, Advance, Core, Making, Fresh
  <2>2. UNCHANGED statusVars /\ UNCHANGED at
    BY <1>3 DEF createExecutor
  <2> QED BY <1>1, <2>2 DEF statusVars, Storing
<1>4. ASSUME NEW t \in Threads, at[t].frame = f, Update(t) \/ Finish(t)
      PROVE  /\ mStatus'[f] = told'[f]
             /\ \A v, u \in Threads : Storing(v, f)' /\ Storing(u, f)' => v = u
             /\ \A u \in Threads : Storing(u, f)' => loaded'[u] = mStatus'[f]
  <2>1. UNCHANGED statusVars
    BY <1>4 DEF Update, Finish
  <2>2. \A u \in Threads : ~Load(u)
    <3>1. ASSUME NEW u \in Threads, Load(u)
          PROVE  FALSE
      <4>1. u = t
        <5>1. Callback(t) /\ Callback(u)
          BY <1>4, <3>1 DEF Callback
        <5>2. at'[u].step # at[u].step
          BY <1>0, <3>1, GoingTo DEF Load
        <5> QED BY <5>1, <5>2, OthersStay
      <4> QED BY <1>4, <3>1, <4>1 DEF Load, Update, Finish
    <3> QED BY <3>1
  <2> QED BY <1>1, <1>2, <2>1, <2>2 DEF statusVars
<1>5. ASSUME NEW t \in Threads, at[t].frame = f, Load(t)
      PROVE  /\ mStatus'[f] = told'[f]
             /\ \A v, u \in Threads : Storing(v, f)' /\ Storing(u, f)' => v = u
             /\ \A u \in Threads : Storing(u, f)' => loaded'[u] = mStatus'[f]
  <2>1. f \notin overlapped /\ \A u \in Threads : ~Storing(u, f)
    BY <1>5 DEF Load
  <2>2. UNCHANGED <<mStatus, told>> /\ loaded' = [loaded EXCEPT ![t] = mStatus[f]]
    BY <1>5 DEF Load
  <2>3. \A u \in Threads : Storing(u, f)' => u = t
    <3>1. Callback(t)
      BY <1>5 DEF Callback
    <3> QED BY <2>1, <3>1, OthersStay DEF Storing
  <2> QED BY <1>0, <2>1, <2>2, <2>3 DEF StatusesAgree
<1>6. ASSUME NEW t \in Threads, at[t].frame = f, StoreNotified(t) \/ complete(t)
      PROVE  /\ mStatus'[f] = told'[f]
             /\ \A v, u \in Threads : Storing(v, f)' /\ Storing(u, f)' => v = u
             /\ \A u \in Threads : Storing(u, f)' => loaded'[u] = mStatus'[f]
  <2>1. PICK finish : Store(t, f, finish)
    BY <1>6 DEF StoreNotified, complete
  <2>2. Storing(t, f)
    BY <1>6 DEF StoreNotified, complete, Storing
  <2>3. f \notin overlapped
    BY <2>1 DEF Store
  <2>4. loaded[t] = mStatus[f] /\ mStatus[f] = told[f] /\ \A u \in Threads \ {t} : ~Storing(u, f)
    BY <2>2, <2>3 DEF StatusesAgree
  <2>5. mStatus'[f] = told'[f]
    BY <1>0, <2>1, <2>4 DEF Store
  <2>6. Callback(t) /\ at'[t].step \notin {"notified", "completed"}
    BY <1>0, <1>6, GoingTo DEF Callback, StoreNotified, complete
  <2>7. \A u \in Threads : ~Storing(u, f)'
    BY <2>4, <2>6, OthersStay DEF Storing
  <2> QED BY <2>5, <2>7
<1>7. CASE StatusKept(f) /\ \A t \in Threads : ~(Load(t) /\ at[t].frame = f)
  BY <1>1, <1>2, <1>7 DEF StatusKept
<1>8. CASE executor'[f] = "gone" /\ NoStatus(f)
  <2>1. \A t \in Threads : ~Holds(t, f)'
    BY <1>8 DEF Core, Living
  <2>2. \A t \in Threads : ~Storing(t, f)'
    BY <2>1 DEF Storing, Holds
  <2> QED BY <1>8, <2>2 DEF NoStatus
<1> QED BY <1>3, <1>4, <1>5, <1>6, <1>7, <1>8, ExecutorSteps DEF Stores

\* Callbacks, early pictures and flushes that complete an executor leave none
\* behind that has finished, in whatever order they come, unless two updates of
\* its status overlapped.
THEOREM FinishedErased == Spec => []FinishedIsErased
<1>1. Init => FinishedInUse /\ StatusesAgree
  BY DEF Init, FinishedInUse, StatusesAgree, Storing, Idle
<1>2. Core /\ Core' /\ FinishedInUse /\ StatusesAgree /\ [Next]_vars => FinishedInUse' /\ StatusesAgree'
  BY FinishedNext, AgreeNext
<1>3. Core /\ FinishedInUse /\ StatusesAgree => FinishedIsErased
  <2>1. Core => mVendorInflights \subseteq Frames
    BY DEF Core, TypeOK, ExecutorsTyped
  <2> QED BY <2>1 DEF FinishedInUse, StatusesAgree, FinishedIsErased, isFinish
<1> QED BY <1>1, <1>2, <1>3, CoreAlways, PTL DEF Spec

-----------------------------------------------------------------------------
(* Snapshots in the vendor's hands *)

LEMMA Words ==
  /\ "bad buffer" \notin Parts /\ "buffer" \in Parts
  /\ "buffer" \in Results /\ "bad buffer" \in Results /\ Notifications \cap Results = {}
  /\ "early" \notin Notifications \cup Results /\ "none" \notin Notifications \cup Results
  /\ Idle.step = "idle" /\ Idle.event = "none" /\ Idle.frame \notin Frames
BY Constants DEF Parts, Results, Notifications, Idle

\* Whoever is at work is so for a frame the vendor was given.
LEMMA AtVendor ==
  ASSUME Core, Entrusted, NEW t \in Threads, at[t] # Idle
  PROVE  InVendor(at[t].frame) /\ at[t].frame \in Frames
<1>1. Positioned(t)
  BY DEF Core, Positions
<1>2. at[t].frame \in Frames
  BY <1>1, AtFrame DEF Core, TypeOK, Positioned
<1>3. CASE t \in VendorThreads
  BY <1>1, <1>2, <1>3 DEF Positioned
<1>4. CASE t = Loop
  BY <1>2, <1>4 DEF Entrusted
<1>5. CASE t = Darkroom
  <2>1. darkroom[at[t].frame] = "answered" /\ at[t].frame \in Snapshots
    BY <1>1, <1>5 DEF Core, Positions, Positioned
  <2> QED BY <1>2, <2>1 DEF Entrusted
<1> QED BY <1>3, <1>4, <1>5, Constants

LEMMA FinishesResult ==
  ASSUME Core, [Next]_vars, NEW t \in Threads, at'[t].step = "finish",
         at[t].step = "finish" => at[t].event \in Results
  PROVE  at'[t].event \in Results
<1>0. ThreadsTyped /\ Positions
  BY DEF Core, TypeOK
<1>1. CASE at'[t] = at[t]
  BY <1>1
<1>2. ASSUME NEW u \in Threads, Callback(u), at'[t] # at[t]
      PROVE  at'[t].event \in Results
  <2>1. u = t
    BY <1>2, OthersStay
  <2>2. at[t] # Idle /\ at[t].event \in Notifications \cup Results \cup {"early"}
    <3>1. at[t] # Idle
      BY <1>2, <2>1, Words DEF Callback, Update, PassEarly, processCaptureResult, Load,
                               StoreNotified, complete, Store, Finish, Erase
    <3> QED BY <1>0, <3>1, Constants DEF Positions, Positioned
  <2>3. PICK step \in Steps : Goto(t, step) /\ (step = "finish" => step = AfterAnswer(at[t].event))
    <3>1. \/ at' = [at EXCEPT ![t] = Idle]
          \/ \E step \in Steps : Goto(t, step) /\ (step = "finish" => step = AfterAnswer(at[t].event))
      BY <1>2, <2>1 DEF Callback, Update, PassEarly, processCaptureResult, Load, StoreNotified,
                        complete, Store, Finish, Erase, Steps, AfterAnswer
    <3>2. at' # [at EXCEPT ![t] = Idle]
      BY <1>0, Words DEF ThreadsTyped
    <3> QED BY <3>1, <3>2
  <2>4. at'[t] = [frame |-> at[t].frame, event |-> at[t].event, step |-> step]
    BY <1>0, <2>3, Going
  <2> QED BY <2>2, <2>3, <2>4 DEF AfterAnswer
<1>3. ASSUME NEW u \in VendorThreads, NEW g \in Frames, NEW event \in Notifications \cup Results,
             Arrive(u, g, event), at'[t] # at[t]
      PROVE  at'[t].step # "finish"
  <2>1. u \in Threads /\ BeginAt(u, g, event)
    BY <1>3, Constants DEF Arrive
  <2>2. /\ at'[u] = [frame |-> g, event |-> event, step |-> "update"] \/ at'[u] = Idle
        /\ \A v \in Threads \ {u} : at'[v] = at[v]
    BY <1>0, <2>1, Beginning
  <2>3. t = u
    BY <1>3, <2>2
  <2>4. at'[t].step \in {"update", "idle"}
    BY <2>2, <2>3 DEF Idle
  <2> QED BY <2>4
<1>4. ASSUME NEW g \in Frames, TakeAnchor(g), at'[t] # at[t]
      PROVE  at'[t].step # "finish"
  <2>1. Loop \in Threads /\ BeginAt(Loop, g, "early")
    BY <1>4, Constants DEF TakeAnchor
  <2>2. /\ at'[Loop] = [frame |-> g, event |-> "early", step |-> "update"] \/ at'[Loop] = Idle
        /\ \A v \in Threads \ {Loop} : at'[v] = at[v]
    BY <1>0, <2>1, Beginning
  <2>3. t = Loop
    BY <1>4, <2>2
  <2>4. at'[t].step \in {"update", "idle"}
    BY <2>2, <2>3 DEF Idle
  <2> QED BY <2>4
<1>5. ASSUME (\E g \in Snapshots : AnswerOf(g)) \/ decreasePendingFinalSnapCount \/ SignalReclaim,
             at'[t] # at[t]
      PROVE  at'[t].step # "finish"
  <2>1. PICK x \in Places : at' = [at EXCEPT ![Darkroom] = x] /\ x.step # "finish"
    <3>1. ASSUME NEW g \in Snapshots, AnswerOf(g)
          PROVE  \E x \in Places : at' = [at EXCEPT ![Darkroom] = x] /\ x.step # "finish"
      <4>1. PICK step \in {"update", "decrease"} :
              at' = [at EXCEPT ![Darkroom] = [frame |-> g, event |-> "early", step |-> step]]
        BY <3>1 DEF AnswerOf
      <4>2. [frame |-> g, event |-> "early", step |-> step] \in Places
        BY Constants DEF Places, Steps
      <4>3. [frame |-> g, event |-> "early", step |-> step].step # "finish"
        OBVIOUS
      <4> QED BY <4>1, <4>2, <4>3
    <3>2. decreasePendingFinalSnapCount =>
            at' = [at EXCEPT ![Darkroom] = [@ EXCEPT !.step = "signal"]]
      BY Zenon DEF decreasePendingFinalSnapCount, Goto
    <3>3. at[Darkroom] \in Places /\ Idle \in Places /\ Idle.step # "finish"
      BY <1>0, Constants, Words DEF ThreadsTyped, Places, Steps, Idle
    <3>4. [at[Darkroom] EXCEPT !.step = "signal"] \in Places
          /\ [at[Darkroom] EXCEPT !.step = "signal"].step # "finish"
      BY <3>3 DEF Places, Steps
    <3>5. SignalReclaim => at' = [at EXCEPT ![Darkroom] = Idle]
      BY DEF SignalReclaim
    <3> QED BY <1>0, <1>5, <3>1, <3>2, <3>3, <3>4, <3>5
  <2>2. t = Darkroom
    BY <1>0, <1>5, <2>1 DEF ThreadsTyped
  <2> QED BY <1>0, <2>1, <2>2 DEF ThreadsTyped
<1>6. CASE (\E g \in Frames : ProcessRequest(g)) \/ flushPendingFwkRecords \/ Manages
  <2>1. UNCHANGED at
    BY <1>6 DEF ProcessRequest, processCaptureRequest, setReqErrorAndForwardResult, Record, Attach,
                createExecutor, submitRequest2Vendor, process_capture_request, Return,
                flushPendingFwkRecords, Manages
  <2> QED BY <1>1, <2>1
<1> QED BY <1>1, <1>2, <1>3, <1>4, <1>5, <1>6, Cases

\* A result is brought by one of the vendor's threads.
LEMMA VendorFinishes ==
  ASSUME Core, Entrusted, NEW t \in Threads, Finish(t)
  PROVE  t \in VendorThreads /\ InVendor(at[t].frame)
<1>1. at[t].step = "finish" /\ at[t] # Idle
  BY Words DEF Finish
<1>2. at[t].event \in Results
  BY <1>1 DEF Entrusted
<1>3. t \notin {Loop, Darkroom}
  BY <1>1, <1>2, Words DEF Core, Positions, Positioned
<1> QED BY <1>1, <1>3, AtVendor, Constants

LEMMA RefusingSteps ==
  ASSUME Core, [Next]_vars, NEW f \in Frames
  PROVE  /\ request[f] = "refusing" =>
              request'[f] = "refusing" \/ (Return(f) /\ request'[f] = "refused")
         /\ request'[f] = "refused" <=>
              request[f] = "refused" \/ (request[f] = "refusing" /\ request'[f] # "refusing")
<1>0. request \in [Frames -> {"none", "rejected", "rejecting", "admitted", "recorded",
        "in flight", "attached", "submitting", "submitted", "refusing",
        "accepted", "refused", "answered"}]
  BY DEF Core, TypeOK, RequestsTyped
<1>1. ASSUME NEW g \in Frames, ProcessRequest(g)
      PROVE  /\ request[f] = "refusing" =>
                  request'[f] = "refusing" \/ (Return(f) /\ request'[f] = "refused")
             /\ request'[f] = "refused" <=>
                  request[f] = "refused" \/ (request[f] = "refusing" /\ request'[f] # "refusing")
  BY <1>0, <1>1 DEF ProcessRequest, processCaptureRequest, Record, Attach,
       setReqErrorAndForwardResult, createExecutor, submitRequest2Vendor,
       process_capture_request, Return, Advance
<1>2. ASSUME NEW t \in Threads, Callback(t)
      PROVE  UNCHANGED request
  BY <1>2 DEF Callback, Update, PassEarly, processCaptureResult, Load, StoreNotified, complete,
              Store, Finish, Erase
<1>3. CASE \/ \E g \in Frames : TakeAnchor(g)
           \/ \E g \in Snapshots : AnswerOf(g)
           \/ \E t \in VendorThreads, g \in Frames, event \in Notifications \cup Results :
                 Arrive(t, g, event)
           \/ decreasePendingFinalSnapCount \/ SignalReclaim \/ flushPendingFwkRecords \/ Manages
  <2>1. UNCHANGED request
    BY <1>3 DEF TakeAnchor, AnswerOf, Arrive, decreasePendingFinalSnapCount, SignalReclaim,
                flushPendingFwkRecords, Manages
  <2> QED BY <2>1
<1> QED BY <1>1, <1>2, <1>3, Cases

LEMMA EntrustedNext ==
  ASSUME Core, Entrusted, [Next]_vars
  PROVE  Entrusted'
<1>0. /\ \A f \in Frames : InVendor(f) => InVendor(f)'
      /\ flags \in [Frames -> SUBSET {"meta", "no meta", "buffer", "error", "final", "reported",
                                      "early"}]
      /\ ThreadsTyped
  BY VendorStays DEF Core, TypeOK, ExecutorsTyped
<1>1. ASSUME NEW f \in Snapshots, f \in mVndAnchorFrames'
      PROVE  InVendor(f)'
  <2>1. f \in mVndAnchorFrames \/ \E t \in Threads : Update(t) /\ at[t].frame = f
    <3>1. ASSUME NEW t \in Threads, Update(t), f \notin mVndAnchorFrames
          PROVE  at[t].frame = f
      BY <1>1, <3>1 DEF Update
    <3>2. ASSUME NEW t \in Threads, Erase(t)
          PROVE  f \in mVndAnchorFrames
      BY <1>1, <3>2 DEF Erase
    <3>3. ASSUME NEW g \in Frames, TakeAnchor(g)
          PROVE  f \in mVndAnchorFrames
      BY <1>1, <3>3 DEF TakeAnchor
    <3>4. ASSUME NEW t \in Threads,
                 PassEarly(t) \/ processCaptureResult(t) \/ Finish(t) \/ Stores(t)
          PROVE  f \in mVndAnchorFrames
      BY <1>1, <3>4, StoresOnly DEF PassEarly, processCaptureResult, Finish, snapVars
    <3>5. ASSUME NEW g \in Frames, ProcessRequest(g)
          PROVE  f \in mVndAnchorFrames
      BY <1>1, <3>5 DEF ProcessRequest, processCaptureRequest, setReqErrorAndForwardResult, Record,
           Attach, createExecutor, submitRequest2Vendor, process_capture_request, Return, snapVars
    <3>6. CASE \/ \E g \in Snapshots : AnswerOf(g)
               \/ \E t \in VendorThreads, g \in Frames, event \in Notifications \cup Results :
                     Arrive(t, g, event)
               \/ decreasePendingFinalSnapCount \/ SignalReclaim \/ flushPendingFwkRecords \/ Manages
      BY <1>1, <3>6 DEF AnswerOf, Arrive, decreasePendingFinalSnapCount, SignalReclaim,
                        flushPendingFwkRecords, Manages, snapVars
    <3> QED BY <3>1, <3>2, <3>3, <3>4, <3>5, <3>6, Cases DEF Callback, Stores
  <2>2. ASSUME NEW t \in Threads, Update(t), at[t].frame = f
        PROVE  InVendor(f)
    <3>1. at[t] # Idle
      BY <2>2, Words DEF Update
    <3> QED BY <2>2, <3>1, AtVendor
  <2> QED BY <1>0, <2>1, <2>2, Constants DEF Entrusted
<1>2. ASSUME NEW f \in Snapshots, "final" \in flags'[f]
      PROVE  InVendor(f)'
  <2>0. f \in Frames
    BY Constants
  <2>1. CASE createExecutor(f)
    <3>1. UNCHANGED flags
      BY <2>1 DEF createExecutor
    <3> QED BY <1>0, <1>2, <2>0, <3>1 DEF Entrusted
  <2>2. ASSUME NEW t \in Threads, at[t].frame = f, Update(t) \/ Finish(t) \/ Stores(t)
        PROVE  InVendor(f)
    <3>1. at[t] # Idle
      BY <2>2, StoresOnly, Words DEF Update, Finish
    <3> QED BY <2>2, <3>1, AtVendor
  <2> QED BY <1>0, <1>2, <2>0, <2>1, <2>2, ExecutorSteps DEF Entrusted
<1>3. ASSUME NEW f \in Snapshots, darkroom'[f] # "none"
      PROVE  InVendor(f)'
  <2>1. darkroom[f] # "none" \/ \E t \in Threads : Finish(t) /\ at[t].frame = f
    <3>1. ASSUME NEW t \in Threads, Finish(t), at[t].frame # f
          PROVE  darkroom'[f] = darkroom[f]
      <4>1. UNCHANGED darkroom \/ goToDarkroom(at[t].frame)
        BY <3>1 DEF Finish, GiveUp
      <4> QED BY <3>1, <4>1 DEF goToDarkroom, Core, TypeOK, SnapsTyped
    <3>2. ASSUME NEW g \in Snapshots, AnswerOf(g), darkroom[f] = "none"
          PROVE  darkroom'[f] = darkroom[f]
      BY <3>2 DEF AnswerOf, Core, TypeOK, SnapsTyped
    <3>3. \/ UNCHANGED darkroom
          \/ \E g \in Snapshots : AnswerOf(g)
          \/ \E t \in Threads : Finish(t)
      BY SnapsKept DEF snapVars, createExecutor, TakeAnchor, Update, Erase,
                       decreasePendingFinalSnapCount
    <3> QED BY <1>3, <3>1, <3>2, <3>3
  <2>2. ASSUME NEW t \in Threads, Finish(t), at[t].frame = f
        PROVE  InVendor(f)
    BY <2>2, VendorFinishes
  <2> QED BY <1>0, <2>1, <2>2, Constants DEF Entrusted
<1>4. ASSUME NEW f \in Frames, at'[Loop] # Idle, at'[Loop].frame = f
      PROVE  InVendor(f)'
  <2>0. Loop \in Threads /\ Loop \notin VendorThreads /\ Loop # Darkroom
    BY Constants
  <2>1. CASE at[Loop].frame = f /\ at[Loop] # Idle
    <3>1. InVendor(f)
      BY <2>0, <2>1, AtVendor
    <3> QED BY <1>0, <3>1
  <2>2. CASE f \in Snapshots /\ TakeAnchor(f)
    <3>1. f \in mVndAnchorFrames
      BY <2>2 DEF TakeAnchor
    <3> QED BY <1>0, <2>2, <3>1 DEF Entrusted
  <2>3. \/ at[Loop].frame = f /\ at[Loop] # Idle
        \/ f \in Snapshots /\ TakeAnchor(f)
    <3>1. TypeOK /\ Positions
      BY DEF Core
    <3>2. CASE at'[Loop] = at[Loop]
      BY <1>4, <3>2
    <3>3. CASE \E step \in Steps \ {"idle"} :
                 at[Loop] # Idle /\ at'[Loop] = [frame |-> at[Loop].frame, event |-> at[Loop].event,
                                                 step |-> step]
      BY <1>4, <3>3
    <3>4. CASE \E g \in Snapshots, step \in {"update", "decrease"} :
                 TakeAnchor(g) /\ at'[Loop] = [frame |-> g, event |-> "early", step |-> step]
      BY <1>4, <3>4
    <3> QED BY <1>4, <2>0, <3>1, <3>2, <3>3, <3>4, ThreadStep
  <2> QED BY <2>1, <2>2, <2>3
<1>5. ASSUME NEW t \in Threads, at'[t].step = "finish"
      PROVE  at'[t].event \in Results
  BY <1>5, FinishesResult DEF Entrusted
<1>6. ASSUME NEW f \in Snapshots,
             f \in mVndAnchorFrames' \/ darkroom'[f] # "none" \/ "final" \in flags'[f]
      PROVE  InVendor(f)'
  BY <1>1, <1>2, <1>3, <1>6
<1>7. at'[Loop] # Idle => InVendor(at[Loop].frame)'
  <2> SUFFICES ASSUME at'[Loop] # Idle
               PROVE  InVendor(at[Loop].frame)'
    OBVIOUS
  <2>1. at'[Loop].frame \in Frames
    BY CoreNext, AtFrame, Constants DEF Core, TypeOK, Positions, Positioned
  <2>2. PICK f \in Frames : f = at'[Loop].frame
    BY <2>1
  <2> QED BY <1>4, <2>2 DEF InVendor
<1> QED BY <1>5, <1>6, <1>7 DEF Entrusted, Idle

\* Before a thread completes a snapshot, or has read that it is complete, its outcome is
\* there.
LEMMA CompletingFinal ==
  ASSUME Core, Finals, NEW f \in Snapshots, NEW t \in Threads, Callback(t), Completing(t, f)',
         flags[f] \subseteq flags'[f]
  PROVE  "final" \in flags'[f]
<1>0. /\ f \in Frames /\ f \notin Previews /\ ThreadsTyped
      /\ flags \in [Frames -> SUBSET {"meta", "no meta", "buffer", "error", "final", "reported",
                                      "early"}]
      /\ loaded \in [Threads -> SUBSET ALL_FINISH]
  BY Constants DEF Core, TypeOK, ExecutorsTyped, StatusTyped
<1>1. ASSUME NEW step, Goto(t, step)
      PROVE  at'[t].step = step /\ at'[t].frame = at[t].frame
  BY <1>1, GoingTo DEF Core, TypeOK
<1>2. at[t].frame = f
  <2>1. at'[t].frame = f
    BY DEF Completing
  <2>2. at' = [at EXCEPT ![t] = Idle] \/ \E step : Goto(t, step)
    BY DEF Callback, Update, PassEarly, processCaptureResult, Load, StoreNotified, complete, Finish,
           Erase
  <2>3. at' = [at EXCEPT ![t] = Idle] => at'[t].frame \notin Frames
    BY <1>0, Words DEF ThreadsTyped
  <2> QED BY <1>0, <1>1, <2>1, <2>2, <2>3
<1>3. CASE Load(t)
  <2>1. loaded'[t] = mStatus[f] /\ UNCHANGED flags
    BY <1>0, <1>2, <1>3 DEF Load
  <2>2. \/ Goto(t, "notified")
        \/ Goto(t, "completed") /\ at[t].step = "complete"
    BY <1>3 DEF Load
  <2>3. /\ at'[t].step = "completed" => at[t].step = "complete"
        /\ at'[t].step # "complete"
    BY <1>1, <2>2
  <2> QED BY <1>2, <2>1, <2>3 DEF Finals, Completing
<1>4. CASE StoreNotified(t)
  <2>1. Goto(t, "erase") \/ (Goto(t, "complete") /\ "reported" \in flags[f])
    BY <1>2, <1>4 DEF StoreNotified
  <2>2. "reported" \in flags[f]
    BY <1>1, <2>1 DEF Completing
  <2> QED BY <2>2 DEF Finals
<1>5. CASE Finish(t)
  <2>1. Goto(t, "erase") \/ (Goto(t, "complete") /\ Concludes(f))
    BY <1>2, <1>5 DEF Finish
  <2>2. Concludes(f)
    BY <1>1, <2>1 DEF Completing
  <2>3. goToDarkroom(f) \/ GiveUp(f)
    BY <1>2, <1>5, <2>2 DEF Finish, Concludes
  <2>4. \/ flags' = [flags EXCEPT ![f] = @ \cup {"final"}]
        \/ flags' = [flags EXCEPT ![f] = @ \cup {"final", "reported"}]
    BY <2>3 DEF goToDarkroom, GiveUp
  <2> QED BY <1>0, <2>4
<1>6. CASE Update(t) \/ PassEarly(t) \/ processCaptureResult(t) \/ complete(t) \/ Erase(t)
  <2>1. \/ at' = [at EXCEPT ![t] = Idle]
        \/ \E step : Goto(t, step) /\ step \notin {"notified", "complete", "completed"}
    BY <1>6 DEF Update, PassEarly, processCaptureResult, complete, Erase, AfterAnswer
  <2>2. at'[t].step \notin {"notified", "complete", "completed"}
    <3>1. at' = [at EXCEPT ![t] = Idle] => at'[t].step = "idle"
      BY <1>0, Words DEF ThreadsTyped
    <3>2. ASSUME NEW step, Goto(t, step), step \notin {"notified", "complete", "completed"}
          PROVE  at'[t].step \notin {"notified", "complete", "completed"}
      BY <1>1, <3>2
    <3> QED BY <2>1, <3>1, <3>2
  <2> QED BY <2>2 DEF Completing
<1> QED BY <1>3, <1>4, <1>5, <1>6 DEF Callback

LEMMA FinalsNext ==
  ASSUME Core, Entrusted, Finals, [Next]_vars
  PROVE  Finals'
<1> SUFFICES ASSUME NEW f \in Snapshots
             PROVE  /\ "RESULT" \in mStatus'[f] \/ "reported" \in flags'[f] => "final" \in flags'[f]
                    /\ \A t \in Threads : Completing(t, f)' => "final" \in flags'[f]
                    /\ executor'[f] = "alive" /\ f \notin mVendorInflights' =>
                         "final" \in flags'[f] \/ request'[f] = "refusing"
  BY DEF Finals
<1>0. /\ f \in Frames /\ f \notin Previews
      /\ flags \in [Frames -> SUBSET {"meta", "no meta", "buffer", "error", "final", "reported",
                                      "early"}]
      /\ mStatus \in [Frames -> SUBSET ALL_FINISH]
      /\ "RESULT" \in mStatus[f] \/ "reported" \in flags[f] => "final" \in flags[f]
      /\ executor[f] = "alive" /\ f \notin mVendorInflights =>
           "final" \in flags[f] \/ request[f] = "refusing"
  BY Constants DEF Core, TypeOK, ExecutorsTyped, StatusTyped, Finals
<1>1. ASSUME NEW t \in Threads, at[t].frame = f, Update(t) \/ Finish(t) \/ Stores(t)
      PROVE  /\ "RESULT" \in mStatus'[f] \/ "reported" \in flags'[f] => "final" \in flags'[f]
             /\ flags[f] \subseteq flags'[f] /\ UNCHANGED <<executor, mVendorInflights, request>>
  <2>1. CASE Update(t) \/ Stores(t)
    <3>1. /\ \/ UNCHANGED flags \/ flags' = [flags EXCEPT ![f] = @ \cup {}]
             \/ flags' = [flags EXCEPT ![f] = @ \cup Learnt(at[t].event)]
          /\ UNCHANGED <<executor, mVendorInflights, request>>
      BY <1>1, <2>1, StoresOnly DEF Update, executorVars
    <3>2. "reported" \notin Learnt(at[t].event)
      BY DEF Learnt
    <3>3. flags[f] \subseteq flags'[f] /\ ("reported" \in flags'[f] => "reported" \in flags[f])
      BY <1>0, <3>1, <3>2
    <3>4. CASE UNCHANGED mStatus
      BY <1>0, <3>1, <3>3, <3>4
    <3>5. ASSUME NEW finish, Store(t, f, finish), "RESULT" \in loaded[t] \cup {finish} =>
                   "final" \in flags[f]
          PROVE  "RESULT" \in mStatus'[f] => "final" \in flags[f]
      BY <1>0, <3>5 DEF Store
    <3>6. CASE StoreNotified(t)
      BY <1>0, <1>1, <3>1, <3>3, <3>5, <3>6 DEF StoreNotified, Finals, Completing
    <3>7. CASE complete(t)
      BY <1>0, <1>1, <3>1, <3>3, <3>5, <3>7 DEF complete, Finals, Completing
    <3> QED BY <2>1, <3>4, <3>6, <3>7 DEF Stores, Update, Load, statusVars
  <2>2. CASE Finish(t)
    <3>1. UNCHANGED <<executor, mVendorInflights, request, mStatus>>
      BY <2>2 DEF Finish, executorVars, statusVars
    <3>2. CASE UNCHANGED flags
      BY <1>0, <3>1, <3>2
    <3>3. CASE goToDarkroom(f) \/ GiveUp(f)
      <4>1. \/ flags' = [flags EXCEPT ![f] = @ \cup {"final"}]
            \/ flags' = [flags EXCEPT ![f] = @ \cup {"final", "reported"}]
        BY <3>3 DEF goToDarkroom, GiveUp
      <4>2. "final" \in flags'[f] /\ flags[f] \subseteq flags'[f]
        BY <1>0, <4>1
      <4> QED BY <3>1, <4>2
    <3>4. UNCHANGED flags \/ goToDarkroom(f) \/ GiveUp(f)
      BY <1>0, <1>1, <2>2 DEF Finish
    <3> QED BY <3>2, <3>3, <3>4
  <2> QED BY <1>1, <2>1, <2>2
<1>2. "RESULT" \in mStatus'[f] \/ "reported" \in flags'[f] => "final" \in flags'[f]
  <2>1. createExecutor(f) => UNCHANGED <<mStatus, flags>>
    BY DEF createExecutor, statusVars
  <2> QED BY <1>0, <1>1, <2>1, ExecutorSteps DEF StatusKept, NoStatus
<1>4. ASSUME NEW t \in Threads, Completing(t, f)'
      PROVE  "final" \in flags'[f]
  <2>1. Holds(t, f)' /\ at'[t].step \notin {"idle", "update", "decrease", "signal"}
    BY <1>4 DEF Completing, Holds
  <2>2. executor'[f] = "alive"
    BY <1>0, <2>1, CoreNext DEF Core, Living
  <2>3. createExecutor(f) => UNCHANGED flags
    BY DEF createExecutor
  <2>4. flags[f] \subseteq flags'[f]
    BY <1>0, <1>1, <2>2, <2>3, ExecutorSteps
  <2>5. CASE at'[t] = at[t] /\ loaded'[t] = loaded[t]
    BY <1>4, <2>4, <2>5 DEF Finals, Completing
  <2>6. CASE Callback(t)
    BY <1>4, <2>4, <2>6, CompletingFinal
  <2> QED BY <2>1, <2>5, <2>6, GoesOn
<1>3. ASSUME executor'[f] = "alive", f \notin mVendorInflights'
      PROVE  "final" \in flags'[f] \/ request'[f] = "refusing"
  <2>1. ~createExecutor(f)
    BY <1>3 DEF createExecutor
  <2>2. executor[f] = "alive" /\ flags[f] \subseteq flags'[f]
    BY <1>1, <1>3, <2>1, <1>0, ExecutorSteps
  <2>3. CASE f \in mVendorInflights
    <3>1. mStatus[f] = ALL_FINISH => "final" \in flags[f]
      BY <1>0 DEF ALL_FINISH
    <3> QED BY <1>0, <1>3, <2>2, <2>3, <3>1, InflightSteps
  <2>4. CASE f \notin mVendorInflights /\ request[f] = "refusing"
    <3>1. ~InVendor(f)
      BY <2>4 DEF InVendor
    <3>2. \A t \in Threads : ~Holds(t, f)
      <4>1. ASSUME NEW t \in Threads, Holds(t, f)
            PROVE  FALSE
        <5>1. at[t] # Idle /\ at[t].frame = f
          BY <4>1, Words DEF Holds
        <5> QED BY <3>1, <5>1, AtVendor
      <4> QED BY <4>1
    <3>3. ~Return(f)
      <4>1. Return(f) => Destroyed({f})
        BY <2>4, <3>2 DEF Return
      <4> QED BY <1>0, <1>3, <4>1 DEF Destroyed
    <3> QED BY <1>0, <2>4, <3>3, RefusingSteps
  <2> QED BY <1>0, <2>2, <2>3, <2>4
<1> QED BY <1>2, <1>3, <1>4

-----------------------------------------------------------------------------
(* A session is not deleted too early *)

LEMMA Counts ==
  ASSUME NEW D, IsFiniteSet(D)
  PROVE  /\ Cardinality(D) \in Nat
         /\ \A f : f \notin D => Cardinality(D \cup {f}) = Cardinality(D) + 1
         /\ \A f \in D : Cardinality(D \ {f}) = Cardinality(D) - 1
BY FS_CardinalityType, FS_AddElement, FS_RemoveElement

\* Who is let go without an image or a report was refused.
LEMMA Leaving ==
  ASSUME Core, Core', Finals, [Next]_vars, NEW f \in Snapshots,
         executor[f] = "alive", executor'[f] = "gone"
  PROVE  \/ "final" \in flags[f]
         \/ request[f] = "refusing" /\ request'[f] = "refused"
<1>1. f \in Frames
  BY Constants
<1>2. f \notin mVendorInflights' /\ request'[f] # "refusing"
  BY <1>1 DEF Core, Living, HeldByRequest
<1>3. CASE f \in mVendorInflights
  <2>1. mStatus[f] = ALL_FINISH
    BY <1>1, <1>2, <1>3, InflightSteps
  <2> QED BY <2>1 DEF Finals, ALL_FINISH
<1>4. CASE f \notin mVendorInflights
  BY <1>1, <1>2, <1>4, RefusingSteps DEF Finals
<1> QED BY <1>3, <1>4

LEMMA StillOwes ==
  ASSUME Core, Core', Entrusted, Finals, [Next]_vars, NEW f \in Snapshots,
         (Undecided(f)' <=> Undecided(f)) \/ (executor[f] = "alive" /\ executor'[f] = "gone"),
         InDarkroom(f)' <=> InDarkroom(f)
  PROVE  f \in Indebted' <=> f \in Indebted
<1>0. f \in Frames
  BY Constants
<1>1. CASE request[f] = "refusing" /\ request'[f] # "refusing"
  <2>1. request'[f] = "refused"
    BY <1>0, <1>1, RefusingSteps
  <2>2. executor[f] = "alive"
    BY <1>0, <1>1 DEF Core, Living, HeldByRequest
  <2>3. "final" \notin flags[f]
    BY <1>0, <1>1 DEF Entrusted, InVendor
  <2> QED BY <2>1, <2>2, <2>3 DEF Indebted, Debt, Undecided
<1>2. CASE ~(request[f] = "refusing" /\ request'[f] # "refusing")
  <2>1. request'[f] = "refused" <=> request[f] = "refused"
    BY <1>0, <1>2, RefusingSteps
  <2>2. executor[f] = "alive" /\ executor'[f] = "gone" => "final" \in flags[f]
    BY <1>2, Leaving
  <2>3. Undecided(f)' <=> Undecided(f)
    BY <2>2 DEF Undecided
  <2> QED BY <2>1, <2>3 DEF Indebted, Debt
<1> QED BY <1>1, <1>2

LEMMA DestroyedUndecided ==
  ASSUME Core, NEW frames, Destroyed(frames), NEW f \in Frames, f \in frames => executor[f] = "alive"
  PROVE  (Undecided(f)' <=> Undecided(f)) \/ (executor[f] = "alive" /\ executor'[f] = "gone")
BY Destroying DEF Undecided

LEMMA DarkroomStays ==
  ASSUME Core, NEW f \in Snapshots, NEW t \in Threads, Callback(t), darkroom'[f] = darkroom[f]
  PROVE  InDarkroom(f)' <=> InDarkroom(f)
<1>1. CASE t # Darkroom
  <2>1. at'[Darkroom] = at[Darkroom]
    BY <1>1, OthersStay, Constants
  <2> QED BY <2>1 DEF InDarkroom
<1>2. CASE t = Darkroom
  <2>0. ThreadsTyped /\ Darkroom \in Threads
    BY Constants DEF Core, TypeOK
  <2>1. at[Darkroom].step \notin {"decrease", "signal"}
    BY <1>2 DEF Callback, Update, PassEarly, processCaptureResult, Load, StoreNotified, complete,
                Store, Finish, Erase
  <2>2. PICK step \in Steps : Goto(Darkroom, step) /\ step # "signal"
    BY <1>2 DEF Callback, Update, PassEarly, processCaptureResult, Load, StoreNotified, complete,
                Store, Finish, Erase, Steps, AfterAnswer
  <2>3. at'[Darkroom] = [frame |-> at[Darkroom].frame, event |-> at[Darkroom].event, step |-> step]
    BY <2>0, <2>2, Going
  <2>4. at'[Darkroom].frame = at[Darkroom].frame /\ at'[Darkroom].step = step
    BY <2>3
  <2> QED BY <2>1, <2>2, <2>4 DEF InDarkroom
<1> QED BY <1>1, <1>2

\* A step changes the count as it changes who owes.
LEMMA DebtsNext ==
  ASSUME Core, Core', Entrusted, Finals, Debts, [Next]_vars
  PROVE  Debts'
<1>0. /\ IsFiniteSet(Indebted) /\ mPendingMiHALSnapCount = Cardinality(Indebted)
      /\ Cardinality(Indebted) \in Nat
      /\ Indebted \subseteq Snapshots /\ Indebted' \subseteq Snapshots
  BY FiniteSets, FS_Subset, Counts DEF Debts, Indebted
<1>1. ASSUME UNCHANGED mPendingMiHALSnapCount, \A f \in Snapshots : f \in Indebted' <=> f \in Indebted
      PROVE  Debts'
  <2>1. Indebted' = Indebted
    BY <1>0, <1>1
  <2> QED BY <1>0, <1>1, <2>1 DEF Debts
<1>2. ASSUME NEW f \in Indebted, mPendingMiHALSnapCount' = mPendingMiHALSnapCount - 1,
             f \notin Indebted', \A g \in Snapshots \ {f} : g \in Indebted' <=> g \in Indebted
      PROVE  Debts'
  <2>1. Indebted' = Indebted \ {f}
    BY <1>0, <1>2
  <2> QED BY <1>0, <1>2, <2>1, Counts DEF Debts
<1>3. ASSUME NEW f \in Snapshots \ Indebted, mPendingMiHALSnapCount' = mPendingMiHALSnapCount + 1,
             f \in Indebted', \A g \in Snapshots \ {f} : g \in Indebted' <=> g \in Indebted
      PROVE  Debts'
  <2>1. Indebted' = Indebted \cup {f}
    BY <1>0, <1>3
  <2> QED BY <1>0, <1>3, <2>1, Counts DEF Debts
<1>4. ASSUME UNCHANGED <<mPendingMiHALSnapCount, executor, flags, darkroom, at>>
      PROVE  Debts'
  <2>1. \A f \in Snapshots : f \in Indebted' <=> f \in Indebted
    BY <1>4, StillOwes DEF Undecided, InDarkroom
  <2> QED BY <1>1, <1>4, <2>1
<1>5. ASSUME UNCHANGED <<mPendingMiHALSnapCount, darkroom, at>>,
             NEW frames, Destroyed(frames), \A f \in frames : f \in Frames => executor[f] = "alive"
      PROVE  Debts'
  <2>1. ASSUME NEW f \in Snapshots
        PROVE  f \in Indebted' <=> f \in Indebted
    <3>1. InDarkroom(f)' <=> InDarkroom(f)
      BY <1>5 DEF InDarkroom
    <3>2. (Undecided(f)' <=> Undecided(f)) \/ (executor[f] = "alive" /\ executor'[f] = "gone")
      BY <1>5, DestroyedUndecided, Constants
    <3> QED BY <3>1, <3>2, StillOwes
  <2> QED BY <1>1, <1>5, <2>1
<1>6. ASSUME NEW f \in Frames, ProcessRequest(f)
      PROVE  Debts'
  <2>0. /\ executor \in [Frames -> {"none", "alive", "gone"}]
        /\ request \in [Frames -> {"none", "rejected", "rejecting", "admitted", "recorded",
             "in flight", "attached", "submitting", "submitted", "refusing",
             "accepted", "refused", "answered"}]
    BY DEF Core, TypeOK, ExecutorsTyped, RequestsTyped
  <2>1. CASE createExecutor(f)
    <3>1. /\ executor' = [executor EXCEPT ![f] = "alive"] /\ UNCHANGED <<flags, darkroom, at>>
          /\ request[f] = "recorded"
      BY <2>1 DEF createExecutor, Advance
    <3>2. ASSUME NEW g \in Snapshots \ {f}
          PROVE  g \in Indebted' <=> g \in Indebted
      <4>1. executor'[g] = executor[g]
        BY <2>0, <3>1, Constants
      <4> QED BY <3>1, <4>1, StillOwes DEF Undecided, InDarkroom
    <3>3. CASE f \in Snapshots
      <4>1. executor[f] = "none" /\ flags[f] = {} /\ darkroom[f] = "none"
        <5>1. executor[f] = "none"
          BY <3>1 DEF Core, Making, Fresh
        <5> QED BY <3>3, <5>1 DEF Core, Making
      <4>2. at[Darkroom].frame # f
        <5>1. at[Darkroom].frame = f => at[Darkroom] # Idle
          BY Constants DEF Idle
        <5> QED BY <4>1, <5>1 DEF Core, Positions
      <4>3. f \notin Indebted
        BY <3>1, <4>1, <4>2 DEF Indebted, Debt, Undecided, InDarkroom
      <4>4. f \in Indebted'
        BY <2>0, <3>1, <3>3, <4>1 DEF Indebted, Debt, Undecided
      <4>5. mPendingMiHALSnapCount' = mPendingMiHALSnapCount + 1
        BY <2>1, <3>3 DEF createExecutor
      <4> QED BY <1>3, <3>2, <3>3, <4>3, <4>4, <4>5
    <3>4. CASE f \notin Snapshots
      <4>1. UNCHANGED mPendingMiHALSnapCount
        BY <2>1, <3>4 DEF createExecutor
      <4> QED BY <1>1, <3>2, <3>4, <4>1
    <3> QED BY <3>3, <3>4
  <2>2. CASE Return(f)
    <3>1. UNCHANGED <<mPendingMiHALSnapCount, darkroom, at>>
          /\ \E frames : Destroyed(frames) /\ frames \subseteq {f}
      BY <2>2 DEF Return, snapVars
    <3>2. executor[f] = "alive"
      BY <2>2 DEF Core, Living, HeldByRequest, Return, Advance
    <3> QED BY <1>5, <3>1, <3>2
  <2>3. CASE \/ processCaptureRequest(f) \/ setReqErrorAndForwardResult(f) \/ Record(f)
             \/ Attach(f) \/ submitRequest2Vendor(f) \/ process_capture_request(f)
    <3>1. UNCHANGED <<executor, flags, darkroom, at, mPendingMiHALSnapCount>>
      BY <2>3 DEF processCaptureRequest, setReqErrorAndForwardResult, Record, Attach,
                  submitRequest2Vendor, process_capture_request, executorVars, snapVars
    <3> QED BY <1>4, <3>1
  <2> QED BY <1>6, <2>1, <2>2, <2>3 DEF ProcessRequest
<1>7. ASSUME NEW t \in Threads, Callback(t)
      PROVE  Debts'
  <2>0. PICK f \in Frames : f = at[t].frame /\ executor[f] = "alive" /\ Holds(t, f)
    BY <1>7, CalledLives
  <2> DEFINE Flags == {"meta", "no meta", "buffer", "error", "final", "reported", "early"}
  <2>1. flags \in [Frames -> SUBSET Flags]
    BY DEF Core, TypeOK, ExecutorsTyped
  <2> HIDE DEF Flags
  <2>2. ASSUME UNCHANGED <<mPendingMiHALSnapCount, darkroom>>,
               \A g \in Snapshots : \/ Undecided(g)' <=> Undecided(g)
                                    \/ executor[g] = "alive" /\ executor'[g] = "gone"
        PROVE  Debts'
    BY <1>1, <1>7, <2>2, DarkroomStays, StillOwes
  <2>3. CASE Update(t) \/ Stores(t)
    <3>1. /\ \/ UNCHANGED flags \/ flags' = [flags EXCEPT ![f] = @ \cup {}]
             \/ flags' = [flags EXCEPT ![f] = @ \cup Learnt(at[t].event)]
          /\ UNCHANGED <<mPendingMiHALSnapCount, darkroom, executor>>
      BY <2>0, <2>3, StoresOnly DEF Update, executorVars, snapVars
    <3>2. "final" \notin Learnt(at[t].event)
      BY DEF Learnt
    <3>3. \A g \in Snapshots : "final" \in flags'[g] <=> "final" \in flags[g]
      BY <2>1, <3>1, <3>2, Constants
    <3> QED BY <2>2, <3>1, <3>3 DEF Undecided
  <2>4. CASE Finish(t)
    <3>0. UNCHANGED executor
      BY <2>4 DEF Finish, executorVars
    <3>1. CASE UNCHANGED <<flags, darkroom, mPendingMiHALSnapCount>>
      BY <2>2, <3>0, <3>1 DEF Undecided
    <3>2. CASE f \in Snapshots /\ goToDarkroom(f)
      <4>1. /\ UNCHANGED mPendingMiHALSnapCount /\ "final" \notin flags[f]
            /\ darkroom'[f] \in {"working", "working early"}
            /\ \A g \in Snapshots \ {f} : darkroom'[g] = darkroom[g]
        BY <3>2 DEF goToDarkroom, Core, TypeOK, SnapsTyped
      <4>2. \A g \in Snapshots \ {f} : flags'[g] = flags[g]
        <5>1. flags' = [flags EXCEPT ![f] = @ \cup {"final"}]
          BY <3>2 DEF goToDarkroom
        <5> QED BY <2>1, <5>1, Constants
      <4>3. f \in Indebted /\ f \in Indebted'
        BY <2>0, <3>2, <4>1 DEF Indebted, Debt, Undecided, InDarkroom
      <4>4. \A g \in Snapshots \ {f} : g \in Indebted' <=> g \in Indebted
        BY <1>7, <3>0, <4>1, <4>2, DarkroomStays, StillOwes DEF Undecided
      <4> QED BY <1>1, <4>1, <4>3, <4>4
    <3>3. CASE f \in Snapshots /\ GiveUp(f)
      <4>1. /\ flags' = [flags EXCEPT ![f] = @ \cup {"final", "reported"}] /\ UNCHANGED darkroom
            /\ mPendingMiHALSnapCount' = IF "final" \in flags[f] THEN mPendingMiHALSnapCount
                                         ELSE mPendingMiHALSnapCount - 1
        BY <3>3 DEF GiveUp
      <4>2. "final" \in flags'[f] /\ \A g \in Snapshots \ {f} : flags'[g] = flags[g]
        BY <2>1, <4>1, Constants
      <4>3. \A g \in Snapshots \ {f} : g \in Indebted' <=> g \in Indebted
        BY <1>7, <3>0, <4>1, <4>2, DarkroomStays, StillOwes DEF Undecided
      <4>4. CASE "final" \in flags[f]
        <5>1. f \in Indebted' <=> f \in Indebted
          BY <1>7, <3>0, <3>3, <4>1, <4>2, <4>4, DarkroomStays, StillOwes DEF Undecided
        <5> QED BY <1>1, <4>1, <4>3, <4>4, <5>1
      <4>5. CASE "final" \notin flags[f]
        <5>1. f \in Indebted
          BY <2>0, <3>3, <4>5 DEF Indebted, Debt, Undecided
        <5>2. darkroom[f] = "none"
          BY <2>0, <3>3, <4>5 DEF Core, Making
        <5>3. at[Darkroom].frame # f
          <6>1. at[Darkroom].frame = f => at[Darkroom] # Idle
            BY <2>0, Constants DEF Idle
          <6> QED BY <5>2, <6>1 DEF Core, Positions
        <5>4. ~InDarkroom(f)'
          <6>1. ~InDarkroom(f)
            BY <5>2, <5>3 DEF InDarkroom
          <6> QED BY <1>7, <3>3, <4>1, <6>1, DarkroomStays
        <5>5. request'[f] # "refused"
          <6>1. InVendor(f) /\ UNCHANGED request
            BY <2>0, <2>4, VendorFinishes DEF Finish
          <6> QED BY <6>1 DEF InVendor
        <5>6. f \notin Indebted'
          BY <4>2, <5>4, <5>5 DEF Indebted, Debt, Undecided
        <5>7. mPendingMiHALSnapCount' = mPendingMiHALSnapCount - 1
          BY <4>1, <4>5
        <5> QED BY <1>2, <4>3, <5>1, <5>6, <5>7
      <4> QED BY <4>4, <4>5
    <3> QED BY <2>0, <2>4, <3>1, <3>2, <3>3 DEF Finish
  <2>5. CASE Erase(t)
    <3>1. UNCHANGED <<mPendingMiHALSnapCount, darkroom>>
          /\ \E frames : Destroyed(frames) /\ frames \subseteq {f}
      BY <2>0, <2>5 DEF Erase
    <3> QED BY <2>0, <2>2, <3>1, DestroyedUndecided, Constants
  <2>6. CASE PassEarly(t) \/ processCaptureResult(t)
    <3>1. UNCHANGED <<executor, flags, mPendingMiHALSnapCount, darkroom>>
      BY <2>6 DEF PassEarly, processCaptureResult, executorVars, snapVars
    <3> QED BY <2>2, <3>1 DEF Undecided
  <2> QED BY <1>7, <2>3, <2>4, <2>5, <2>6 DEF Callback, Stores
<1>8. CASE flushPendingFwkRecords
  <2>1. UNCHANGED <<darkroom, at, mPendingMiHALSnapCount>>
    BY <1>8 DEF flushPendingFwkRecords, snapVars
  <2>2. \E frames : Destroyed(frames) /\ frames \subseteq mVendorInflights
    BY <1>8 DEF flushPendingFwkRecords
  <2>3. \A g \in mVendorInflights : g \in Frames => executor[g] = "alive"
    BY DEF Core, Living
  <2> QED BY <1>5, <2>1, <2>2, <2>3
<1>9. ASSUME NEW f \in Snapshots, AnswerOf(f)
      PROVE  Debts'
  <2>1. /\ darkroom[f] \in {"working", "working early"} /\ at[Darkroom] = Idle
        /\ at'[Darkroom].frame = f /\ at'[Darkroom].step # "signal"
        /\ \A g \in Snapshots \ {f} : darkroom'[g] = darkroom[g]
        /\ UNCHANGED <<executor, flags, mPendingMiHALSnapCount>>
    BY <1>9, Constants DEF AnswerOf, executorVars, Core, TypeOK, SnapsTyped, ThreadsTyped
  <2>2. f \in Indebted /\ f \in Indebted'
    BY <2>1 DEF Indebted, Debt, InDarkroom
  <2>3. Idle.frame \notin Snapshots
    BY Constants DEF Idle
  <2>4. ASSUME NEW g \in Snapshots \ {f}
        PROVE  g \in Indebted' <=> g \in Indebted
    BY <2>1, <2>3, StillOwes DEF Undecided, InDarkroom
  <2> QED BY <1>1, <2>1, <2>2, <2>4
<1>10. CASE decreasePendingFinalSnapCount
  <2> DEFINE d == at[Darkroom]
  <2>1. /\ d.step = "decrease" /\ mPendingMiHALSnapCount' = mPendingMiHALSnapCount - 1
        /\ at'[Darkroom].step = "signal" /\ UNCHANGED <<executor, flags, darkroom, request>>
    BY <1>10, Constants DEF decreasePendingFinalSnapCount, Goto, Core, TypeOK, ThreadsTyped,
                            executorVars
  <2>2. Positioned(Darkroom) /\ d # Idle /\ darkroom[d.frame] = "answered"
    BY <2>1, Constants DEF Core, Positions, Idle
  <2>3. PICK f \in Snapshots : f = d.frame
    BY <2>2, Constants DEF Positioned
  <2>4. darkroom[f] = "answered" /\ ~Undecided(f)
    BY <2>2, <2>3, Constants DEF Core, Making, Undecided
  <2>5. request[f] # "refused"
    BY <2>4 DEF Entrusted, InVendor
  <2>6. f \in Indebted /\ f \notin Indebted'
    BY <2>1, <2>3, <2>4, <2>5 DEF Indebted, Debt, InDarkroom, Undecided
  <2>7. \A g \in Snapshots \ {f} : g \in Indebted' <=> g \in Indebted
    BY <2>1, <2>3, StillOwes DEF Undecided, InDarkroom
  <2> QED BY <1>2, <2>1, <2>6, <2>7
<1>11. CASE SignalReclaim
  <2>1. /\ at'[Darkroom] = Idle /\ at[Darkroom].step = "signal"
        /\ UNCHANGED <<executor, flags, darkroom, mPendingMiHALSnapCount>>
    BY <1>11, Constants DEF SignalReclaim, Core, TypeOK, ThreadsTyped, executorVars, snapVars
  <2>2. Idle.frame \notin Snapshots
    BY Constants DEF Idle
  <2>3. \A g \in Snapshots : g \in Indebted' <=> g \in Indebted
    BY <2>1, <2>2, StillOwes DEF Undecided, InDarkroom
  <2> QED BY <1>1, <2>1, <2>3
<1>12. CASE \/ \E f \in Frames : TakeAnchor(f)
            \/ \E t \in VendorThreads, f \in Frames, event \in Notifications \cup Results :
                  Arrive(t, f, event)
            \/ Manages
  <2>1. UNCHANGED <<executor, flags, darkroom, mPendingMiHALSnapCount>>
    BY <1>12 DEF TakeAnchor, Arrive, Manages, executorVars, snapVars
  <2>2. at'[Darkroom] = at[Darkroom]
    BY <1>12, Constants DEF TakeAnchor, Arrive, BeginAt, Manages, Core, TypeOK, ThreadsTyped
  <2>3. \A g \in Snapshots : g \in Indebted' <=> g \in Indebted
    BY <2>1, <2>2, StillOwes DEF Undecided, InDarkroom
  <2> QED BY <1>1, <2>1, <2>3
<1> QED BY <1>6, <1>7, <1>8, <1>9, <1>10, <1>11, <1>12, Cases

LEMMA VendorsAlways == Spec => [](Entrusted /\ Finals)
<1>1. Init => Entrusted /\ Finals
  <2> SUFFICES ASSUME Init PROVE Entrusted /\ Finals
    OBVIOUS
  <2>1. \A f \in Snapshots : /\ mVndAnchorFrames = {} /\ darkroom[f] = "none" /\ flags[f] = {}
                             /\ executor[f] = "none" /\ mStatus[f] = {}
    BY Constants DEF Init
  <2>2. \A t \in Threads : at[t] = Idle
    BY DEF Init
  <2> QED BY <2>1, <2>2, Constants, Words DEF Entrusted, Finals, Completing
<1>2. Core /\ Entrusted /\ Finals /\ [Next]_vars => Entrusted' /\ Finals'
  BY EntrustedNext, FinalsNext
<1> QED BY <1>1, <1>2, CoreAlways, PTL DEF Spec

LEMMA DebtsAlways == Spec => []Debts
<1>1. Init => Debts
  <2> SUFFICES ASSUME Init PROVE Debts
    OBVIOUS
  <2>1. /\ at[Darkroom] = Idle /\ Idle.frame \notin Snapshots
        /\ \A f \in Snapshots : executor[f] = "none" /\ darkroom[f] = "none" /\ request[f] = "none"
    BY Constants DEF Init, Idle
  <2>2. Indebted = {}
    BY <2>1 DEF Indebted, Debt, Undecided, InDarkroom
  <2> QED BY <2>2, FS_EmptySet DEF Init, Debts
<1>2. Core /\ Core' /\ Entrusted /\ Finals /\ Debts /\ [Next]_vars => Debts'
  BY DebtsNext
<1> QED BY <1>1, <1>2, CoreAlways, VendorsAlways, PTL DEF Spec

LEMMA SafeNext ==
  ASSUME Core, Core', Debts, SessionSafe, [Next]_vars
  PROVE  SessionSafe'
<1> SUFFICES ASSUME registry' = "deleted", NEW f \in Snapshots
             PROVE  executor'[f] # "alive" /\ darkroom'[f] \notin {"working", "working early"}
  BY Constants DEF SessionSafe, Core, Living
<1>1. CASE registry = "deleted"
  <2>1. /\ \A g \in Snapshots : executor[g] # "alive" /\ darkroom[g] \notin {"working", "working early"}
        /\ \A g \in Frames : request[g] \in Over
    BY <1>1 DEF SessionSafe, Core, Flushing
  <2>2. ASSUME NEW g \in Frames, ProcessRequest(g)
        PROVE  /\ executor'[f] = "alive" => executor[f] = "alive"
               /\ darkroom'[f] = darkroom[f]
    <3>1. ~createExecutor(g)
      BY <2>1 DEF createExecutor, Advance, Over
    <3> QED BY <2>2, <3>1, Constants DEF ProcessRequest, processCaptureRequest, Record, Attach,
               setReqErrorAndForwardResult, submitRequest2Vendor, process_capture_request, Return,
               executorVars, snapVars, Destroyed
  <2>3. ASSUME NEW t \in Threads, Callback(t)
        PROVE  /\ executor'[f] = "alive" => executor[f] = "alive"
               /\ darkroom'[f] = darkroom[f]
    <3>1. PICK g \in Frames : g = at[t].frame /\ executor[g] = "alive"
      BY <2>3, CalledLives
    <3>2. g \notin Snapshots
      BY <2>1, <3>1
    <3>3. ~Finish(t) => /\ executor'[f] = "alive" => executor[f] = "alive"
                        /\ darkroom'[f] = darkroom[f]
      BY <2>3, Constants DEF Callback, Update, PassEarly, processCaptureResult, Load,
                             StoreNotified, complete, Store, Erase, Destroyed, executorVars,
                             snapVars
    <3>4. Finish(t) => UNCHANGED <<executor, darkroom>>
      BY <3>1, <3>2 DEF Finish, executorVars
    <3> QED BY <3>3, <3>4
  <2>4. CASE flushPendingFwkRecords \/ \E g \in Snapshots : AnswerOf(g)
    <3>1. ~\E g \in Snapshots : AnswerOf(g)
      BY <2>1 DEF AnswerOf
    <3> QED BY <2>1, <2>4, <3>1, Constants DEF flushPendingFwkRecords, Destroyed, snapVars
  <2>5. CASE \/ \E g \in Frames : TakeAnchor(g)
             \/ \E t \in VendorThreads, g \in Frames, event \in Notifications \cup Results :
                   Arrive(t, g, event)
             \/ decreasePendingFinalSnapCount \/ SignalReclaim \/ Manages
    <3>1. UNCHANGED <<executor, darkroom>>
      BY <2>5 DEF TakeAnchor, Arrive, decreasePendingFinalSnapCount, SignalReclaim, Manages,
                  executorVars, snapVars
    <3> QED BY <2>1, <3>1
  <2> QED BY <2>1, <2>2, <2>3, <2>4, <2>5, Cases
<1>2. CASE registry # "deleted"
  <2>1. sessionReclaimLoop
    <3>1. ASSUME ~sessionReclaimLoop
          PROVE  registry' = registry \/ registry' = "offline"
      BY <3>1 DEF Next, Begin, RequestGoesOn, ProcessRequest, processCaptureRequest, Record,
                  Attach, setReqErrorAndForwardResult, submitRequest2Vendor,
                  process_capture_request, Return, createExecutor, Callback, Update, PassEarly,
                  processCaptureResult, Load, StoreNotified, complete, Store, Finish, Erase,
                  TakeAnchor, Arrive, DarkroomNext, AnswerOf, decreasePendingFinalSnapCount,
                  SignalReclaim, FlushNext, Flush, flush2Vendor, waitLoop,
                  waitAndResetToInitStatus, flushPendingFwkRecords, unregisterSession,
                  managerVars, vars
    <3> QED BY <1>2, <3>1
  <2>2. /\ registry = "offline" /\ ~hasPendingPhotographers
        /\ UNCHANGED <<executor, darkroom>>
    BY <1>2, <2>1 DEF sessionReclaimLoop, executorVars, snapVars
  <2>3. mVendorInflights \cap Snapshots = {} /\ ~(mPendingMiHALSnapCount > 0)
    BY <2>2 DEF hasPendingPhotographers
  <2>4. ~Debt(f)
    <3>1. IsFiniteSet(Indebted) /\ Cardinality(Indebted) \in Nat
      BY FiniteSets, FS_Subset, FS_CardinalityType DEF Indebted
    <3>2. Cardinality(Indebted) = 0
      BY <2>3, <3>1 DEF Debts
    <3>3. Indebted = {}
      BY <3>1, <3>2, FS_EmptySet
    <3> QED BY <3>3 DEF Indebted
  <2>5. /\ ~HeldByRequest(f) /\ at[Loop] = Idle /\ \A t \in VendorThreads : at[t] = Idle
    BY <2>2, Constants DEF Core, Flushing, HeldByRequest, Over
  <2>6. \A t \in Threads : ~Holds(t, f)
    <3>1. ~Holds(Darkroom, f)
      BY <2>4 DEF Debt, InDarkroom, Holds
    <3>2. \A t \in VendorThreads \cup {Loop} : ~Holds(t, f)
      BY <2>5 DEF Holds, Idle
    <3> QED BY <3>1, <3>2, Constants
  <2>7. executor[f] # "alive"
    BY <2>3, <2>5, <2>6, Constants DEF Core, Living
  <2> QED BY <2>2, <2>4, <2>7 DEF Debt, InDarkroom
<1> QED BY <1>1, <1>2

\* SessionManager deletes no session that a photographer or an image uses.
THEOREM DeletedSafely == Spec => []SessionSafe
<1>1. Init => SessionSafe
  BY DEF Init, SessionSafe
<1>2. Core /\ Core' /\ Debts /\ SessionSafe /\ [Next]_vars => SessionSafe'
  BY SafeNext
<1> QED BY <1>1, <1>2, CoreAlways, DebtsAlways, PTL DEF Spec

-----------------------------------------------------------------------------
(* Who may still give a buffer back *)

\* What a result leaves to be owed.
LEMMA Settling ==
  ASSUME NEW f, NEW event, NEW before, NEW after, Settles(f, event, before, after),
         before \subseteq Parts \/ before = {"bad buffer"}
  PROVE  /\ before # {}
         /\ after \subseteq Parts \/ after = {"bad buffer"}
         /\ after \cap {"buffer", "bad buffer"} # {} => before \cap {"buffer", "bad buffer"} # {}
         /\ event \in {"buffer", "bad buffer"} => /\ before \cap {"buffer", "bad buffer"} # {}
                                                  /\ after \cap {"buffer", "bad buffer"} = {}
BY DEF Settles, Parts

LEMMA Arrival ==
  ASSUME Core, Tokens, NEW t \in VendorThreads, NEW f \in Frames, NEW event, Arrive(t, f, event)
  PROVE  /\ InVendor(f) /\ at[t] = Idle /\ UNCHANGED recordVars
         /\ owed'[f] \subseteq Parts \/ owed'[f] = {"bad buffer"}
         /\ Owing(f)' => Owing(f)
         /\ event \in {"buffer", "bad buffer"} => Owing(f) /\ ~Owing(f)'
         /\ \A g \in Frames \ {f} : owed'[g] = owed[g]
<1>1. owed \in [Frames -> SUBSET (Parts \cup {"bad buffer"})]
  BY DEF Core, TypeOK, RequestsTyped
<1>2. /\ \E after : Settles(f, event, owed[f], after) /\ owed' = [owed EXCEPT ![f] = after]
      /\ InVendor(f) /\ at[t] = Idle /\ UNCHANGED recordVars
  BY DEF Arrive
<1>3. PICK after : Settles(f, event, owed[f], after) /\ owed' = [owed EXCEPT ![f] = after]
  BY <1>2
<1>4. owed'[f] = after /\ \A g \in Frames \ {f} : owed'[g] = owed[g]
  BY <1>1, <1>3
<1>5. owed[f] \subseteq Parts \/ owed[f] = {"bad buffer"}
  BY DEF Tokens
<1>6. /\ after \subseteq Parts \/ after = {"bad buffer"}
      /\ after \cap {"buffer", "bad buffer"} # {} => owed[f] \cap {"buffer", "bad buffer"} # {}
      /\ event \in {"buffer", "bad buffer"} => /\ owed[f] \cap {"buffer", "bad buffer"} # {}
                                               /\ after \cap {"buffer", "bad buffer"} = {}
  BY <1>3, <1>5, Settling
<1> QED BY <1>2, <1>4, <1>6 DEF Owing

LEMMA OwedSteps ==
  ASSUME [Next]_vars
  PROVE  \/ UNCHANGED owed
         \/ \E f \in Frames : process_capture_request(f)
         \/ \E t \in VendorThreads, f \in Frames, event \in Notifications \cup Results :
               Arrive(t, f, event)
<1>1. ASSUME NEW f \in Frames, ProcessRequest(f)
      PROVE  UNCHANGED owed \/ process_capture_request(f)
  BY <1>1 DEF ProcessRequest, processCaptureRequest, setReqErrorAndForwardResult, Record, Attach,
              createExecutor, submitRequest2Vendor, Return
<1>2. ASSUME NEW t \in Threads, Callback(t)
      PROVE  UNCHANGED owed
  BY <1>2 DEF Callback, Update, PassEarly, processCaptureResult, Load, StoreNotified, complete,
              Store, Finish, Erase
<1>3. CASE \/ \E f \in Frames : TakeAnchor(f)
           \/ \E f \in Snapshots : AnswerOf(f)
           \/ decreasePendingFinalSnapCount \/ SignalReclaim \/ flushPendingFwkRecords \/ Manages
  BY <1>3 DEF TakeAnchor, AnswerOf, decreasePendingFinalSnapCount, SignalReclaim,
              flushPendingFwkRecords, Manages
<1> QED BY <1>1, <1>2, <1>3, Cases

LEMMA Sending ==
  ASSUME Core, NEW f \in Frames, process_capture_request(f)
  PROVE  /\ request[f] = "submitting" /\ ~InVendor(f) /\ InVendor(f)'
         /\ owed'[f] = Parts /\ \A g \in Frames \ {f} : owed'[g] = owed[g]
         /\ UNCHANGED <<recordVars, at>>
BY DEF Core, TypeOK, RequestsTyped, process_capture_request, Advance, InVendor

LEMMA OwedNext ==
  ASSUME Core, Tokens, [Next]_vars, NEW f \in Frames
  PROVE  /\ owed'[f] \subseteq Parts \/ owed'[f] = {"bad buffer"}
         /\ owed'[f] # {} => InVendor(f)'
<1>1. /\ owed[f] \subseteq Parts \/ owed[f] = {"bad buffer"}
      /\ owed[f] # {} => InVendor(f)
      /\ InVendor(f) => InVendor(f)'
  BY VendorStays DEF Tokens, Core, TypeOK
<1>2. ASSUME NEW g \in Frames, process_capture_request(g)
      PROVE  /\ owed'[f] \subseteq Parts \/ owed'[f] = {"bad buffer"}
             /\ owed'[f] # {} => InVendor(f)'
  BY <1>1, <1>2, Sending
<1>3. ASSUME NEW t \in VendorThreads, NEW g \in Frames, NEW event \in Notifications \cup Results,
             Arrive(t, g, event)
      PROVE  /\ owed'[f] \subseteq Parts \/ owed'[f] = {"bad buffer"}
             /\ owed'[f] # {} => InVendor(f)'
  BY <1>1, <1>3, Arrival
<1> QED BY <1>1, <1>2, <1>3, OwedSteps

\* A callback never goes back to its first step.
LEMMA BeginsOnce ==
  ASSUME Core, [Next]_vars, NEW t \in VendorThreads, NEW f \in Frames, BringsBuffer(t, f)'
  PROVE  \/ BringsBuffer(t, f) /\ at'[t] = at[t]
         \/ Arrive(t, f, "buffer") \/ Arrive(t, f, "bad buffer")
<1>1. t \in Threads /\ t # Loop /\ t # Darkroom /\ ThreadsTyped
  BY Constants DEF Core, TypeOK
<1>2. at'[t] = at[t] => BringsBuffer(t, f)
  BY DEF BringsBuffer
<1>3. ASSUME NEW u \in Threads, Callback(u)
      PROVE  at'[t] = at[t]
  <2>1. CASE u = t
    <3>1. at'[t].step # "update"
      BY <1>1, <1>3, <2>1 DEF Callback, Update, PassEarly, processCaptureResult, Load,
                              StoreNotified, complete, Store, Finish, Erase, Goto, AfterAnswer,
                              Idle, ThreadsTyped, Places
    <3> QED BY <3>1 DEF BringsBuffer
  <2>2. CASE u # t
    BY <1>1, <1>3, <2>2, OthersStay
  <2> QED BY <2>1, <2>2
<1>4. ASSUME NEW u \in VendorThreads, NEW g \in Frames, NEW event \in Notifications \cup Results,
             Arrive(u, g, event), at'[t] # at[t]
      PROVE  Arrive(t, f, "buffer") \/ Arrive(t, f, "bad buffer")
  <2>1. u \in Threads /\ BeginAt(u, g, event)
    BY <1>4, Constants DEF Arrive
  <2>2. /\ at'[u] = [frame |-> g, event |-> event, step |-> "update"] \/ at'[u] = Idle
        /\ \A v \in Threads \ {u} : at'[v] = at[v]
    BY <1>1, <2>1, Beginning
  <2>3. u = t
    BY <1>1, <1>4, <2>2
  <2>4. at'[t].step = "update" /\ at'[t].event \in {"buffer", "bad buffer"} /\ at'[t].frame = f
    BY DEF BringsBuffer
  <2>5. at'[t] # Idle
    BY <2>4, Words
  <2>6. at'[t] = [frame |-> g, event |-> event, step |-> "update"]
    BY <2>2, <2>3, <2>5
  <2>7. g = f /\ event \in {"buffer", "bad buffer"}
    <3>1. at'[t].frame = g /\ at'[t].event = event
      BY <2>6
    <3> QED BY <2>4, <3>1
  <2> QED BY <1>4, <2>3, <2>7
<1>5. ASSUME NEW g \in Frames, TakeAnchor(g)
      PROVE  at'[t] = at[t]
  BY <1>1, <1>5, Constants DEF TakeAnchor, BeginAt, ThreadsTyped
<1>6. CASE (\E g \in Snapshots : AnswerOf(g)) \/ decreasePendingFinalSnapCount \/ SignalReclaim
  <2>1. \A u \in Threads \ {Darkroom} : at'[u] = at[u]
    BY <1>1, <1>6, Constants DEF AnswerOf, decreasePendingFinalSnapCount, SignalReclaim, Goto, ThreadsTyped
  <2>2. at'[t] = at[t]
    BY <1>1, <2>1
  <2> QED BY <1>2, <2>2
<1>7. CASE (\E g \in Frames : ProcessRequest(g)) \/ flushPendingFwkRecords \/ Manages
  <2>1. UNCHANGED at
    BY <1>7 DEF ProcessRequest, processCaptureRequest, setReqErrorAndForwardResult, Record, Attach,
                createExecutor, submitRequest2Vendor, process_capture_request, Return,
                flushPendingFwkRecords, Manages
  <2> QED BY <1>2, <2>1
<1> QED BY <1>2, <1>3, <1>4, <1>5, <1>6, <1>7, Cases

LEMMA BringsNext ==
  ASSUME Core, Tokens, [Next]_vars, NEW t \in VendorThreads, NEW f \in Frames, BringsBuffer(t, f)'
  PROVE  ~Owing(f)'
<1>1. CASE Arrive(t, f, "buffer") \/ Arrive(t, f, "bad buffer")
  BY <1>1, Arrival
<1>2. CASE BringsBuffer(t, f) /\ at'[t] = at[t]
  <2>1. ~Owing(f) /\ InVendor(f)
    <3>1. t \in Threads /\ at[t].frame = f /\ at[t] # Idle
      BY <1>2, Constants, Words DEF BringsBuffer
    <3> QED BY <1>2, <3>1 DEF Tokens, Core, Positions, Positioned
  <2>2. ASSUME NEW g \in Frames, process_capture_request(g)
        PROVE  ~Owing(f)'
    <3>1. ~InVendor(g) /\ \A h \in Frames \ {g} : owed'[h] = owed[h]
      BY <2>2, Sending
    <3> QED BY <2>1, <3>1 DEF Owing
  <2>3. ASSUME NEW u \in VendorThreads, NEW g \in Frames, NEW event \in Notifications \cup Results,
               Arrive(u, g, event)
        PROVE  ~Owing(f)'
    <3>1. (Owing(g)' => Owing(g)) /\ \A h \in Frames \ {g} : owed'[h] = owed[h]
      BY <2>3, Arrival
    <3> QED BY <2>1, <3>1 DEF Owing
  <2> QED BY <2>1, <2>2, <2>3, OwedSteps DEF Owing
<1> QED BY <1>1, <1>2, BeginsOnce

\* The vendor's threads bring the results of a frame one after the other.
AtResult(t, f) == at[t].frame = f /\ at[t].event \in Results

LEMMA ResultsNext ==
  ASSUME Core, Tokens, [Next]_vars,
         NEW t \in VendorThreads, NEW u \in VendorThreads, NEW f \in Frames,
         AtResult(t, f)', AtResult(u, f)'
  PROVE  t = u
<1>1. t \in Threads /\ u \in Threads /\ t \notin {Loop, Darkroom} /\ u \notin {Loop, Darkroom}
  BY Constants
<1>2. ASSUME NEW v \in VendorThreads, AtResult(v, f)'
      PROVE  AtResult(v, f) \/ \E event \in Results : Arrive(v, f, event)
  <2>1. at'[v] # Idle /\ v \in Threads /\ v \notin {Loop, Darkroom}
    BY <1>2, Words, Constants DEF AtResult
  <2>2. CASE at'[v] = at[v]
    BY <1>2, <2>2 DEF AtResult
  <2>3. ASSUME NEW step \in Steps,
               at'[v] = [frame |-> at[v].frame, event |-> at[v].event, step |-> step]
        PROVE  AtResult(v, f)
    BY <1>2, <2>3 DEF AtResult
  <2>4. ASSUME NEW g \in Frames, NEW event \in Notifications \cup Results, Arrive(v, g, event),
               at'[v] = [frame |-> g, event |-> event, step |-> "update"]
        PROVE  \E e \in Results : Arrive(v, f, e)
    BY <1>2, <2>4 DEF AtResult
  <2> QED BY <2>1, <2>2, <2>3, <2>4, ThreadStep DEF Core
<1>3. ASSUME NEW v \in VendorThreads, NEW w \in VendorThreads, NEW event \in Results,
             Arrive(v, f, event), AtResult(v, f)', AtResult(w, f)'
      PROVE  v = w
  <2>1. SUFFICES ASSUME v # w PROVE FALSE
    OBVIOUS
  <2>2. NoOtherResult(f) /\ BeginAt(v, f, event) /\ v \in Threads /\ w \in Threads
    BY <1>3, Words, Constants DEF Arrive
  <2>3. at'[w] = at[w]
    BY <2>1, <2>2, Beginning DEF Core, TypeOK
  <2> QED BY <1>3, <2>2, <2>3, Words DEF NoOtherResult, AtResult
<1>4. CASE AtResult(t, f) /\ AtResult(u, f)
  BY <1>4 DEF Tokens, AtResult
<1>5. CASE \E event \in Results : Arrive(t, f, event)
  BY <1>3, <1>5
<1>6. CASE \E event \in Results : Arrive(u, f, event)
  BY <1>3, <1>6
<1> QED BY <1>2, <1>4, <1>5, <1>6

-----------------------------------------------------------------------------
(* Records *)

LEMMA RecordSteps ==
  ASSUME [Next]_vars
  PROVE  \/ UNCHANGED mPendingFwkRecords
         \/ \E f \in Frames : Record(f)
         \/ \E t \in Threads : Update(t)
         \/ flushPendingFwkRecords
<1>1. ASSUME NEW f \in Frames, ProcessRequest(f)
      PROVE  UNCHANGED mPendingFwkRecords \/ Record(f)
  BY <1>1 DEF ProcessRequest, processCaptureRequest, setReqErrorAndForwardResult, Attach,
              createExecutor, submitRequest2Vendor, process_capture_request, Return, recordVars,
              CountBuffer, UncountBuffer, process_capture_result
<1>2. ASSUME NEW t \in Threads, Callback(t)
      PROVE  UNCHANGED mPendingFwkRecords \/ Update(t)
  BY <1>2 DEF Callback, PassEarly, processCaptureResult, Load, StoreNotified, complete, Store,
              Finish, Erase, recordVars, UncountBuffer, process_capture_result
<1>3. CASE \/ \E f \in Frames : TakeAnchor(f)
           \/ \E f \in Snapshots : AnswerOf(f)
           \/ \E t \in VendorThreads, f \in Frames, event \in Notifications \cup Results :
                 Arrive(t, f, event)
           \/ decreasePendingFinalSnapCount \/ SignalReclaim \/ Manages
  BY <1>3 DEF TakeAnchor, AnswerOf, Arrive, decreasePendingFinalSnapCount, SignalReclaim, Manages,
              recordVars
<1> QED BY <1>1, <1>2, <1>3, Cases

\* What an executor learns before it is notified.
LearntFirst(event) == IF event \in Notifications THEN {} ELSE Learnt(event)

\* What a callback does to the record of its frame.
LEMMA Updating ==
  ASSUME Core, NEW t \in Threads, Update(t)
  PROVE  \E f \in Frames :
           /\ f = at[t].frame /\ at[t].step = "update" /\ executor[f] = "alive"
           /\ mPendingFwkRecords'[f] = mPendingFwkRecords[f] \ Answered(f, at[t].event)
           /\ \A g \in Frames \ {f} : mPendingFwkRecords'[g] = mPendingFwkRecords[g]
           /\ flags'[f] = flags[f] \cup LearntFirst(at[t].event) /\ UNCHANGED executor
           /\ at[t].event = "early" => "early" \notin flags[f]
           /\ at'[t].step # "update" /\ UNCHANGED <<request, owed>>
<1>1. PICK f \in Frames : f = at[t].frame /\ executor[f] = "alive"
  BY CalledLives DEF Callback
<1>2. /\ at[t].step = "update" /\ updatePendingFwkRecords(f, Answered(f, at[t].event))
      /\ flags' = [flags EXCEPT ![f] = @ \cup LearntFirst(at[t].event)] /\ UNCHANGED executor
      /\ at[t].event = "early" => "early" \notin flags[f]
      /\ \E step \in {"count", "erase", "finish", "notify"} : Goto(t, step)
      /\ UNCHANGED <<request, owed>>
  BY <1>1 DEF Update, SecondEarly, AfterAnswer, LearntFirst
<1>3. /\ mPendingFwkRecords'[f] = mPendingFwkRecords[f] \ Answered(f, at[t].event)
      /\ \A g \in Frames \ {f} : mPendingFwkRecords'[g] = mPendingFwkRecords[g]
  BY <1>2 DEF updatePendingFwkRecords, Core, TypeOK, RecordsTypeOK
<1>4. flags'[f] = flags[f] \cup LearntFirst(at[t].event)
  BY <1>2 DEF Core, TypeOK, ExecutorsTyped
<1>5. at'[t].step # "update"
  BY <1>2 DEF Goto, Core, TypeOK, ThreadsTyped, Places
<1> QED BY <1>1, <1>2, <1>3, <1>4, <1>5

\* Nobody but a new record gives hope of a buffer.
LEMMA UnspentSteps ==
  ASSUME Core, Tokens, [Next]_vars, NEW f \in Frames, Unspent(f)', ~Record(f)
  PROVE  Unspent(f)
<1>1. CASE \E t \in VendorThreads : BringsBuffer(t, f)'
  <2>1. PICK t \in VendorThreads : BringsBuffer(t, f)'
    BY <1>1
  <2>2. BringsBuffer(t, f) \/ Owing(f)
    BY <2>1, BeginsOnce, Arrival
  <2> QED BY <2>2 DEF Unspent
<1>2. CASE Owing(f)'
  <2>1. ASSUME NEW g \in Frames, process_capture_request(g)
        PROVE  Owing(f) \/ Submitting(f)
    <3>1. request[g] = "submitting" /\ \A h \in Frames \ {g} : owed'[h] = owed[h]
      BY <2>1, Sending
    <3> QED BY <1>2, <3>1 DEF Owing, Submitting
  <2>2. ASSUME NEW u \in VendorThreads, NEW g \in Frames, NEW event \in Notifications \cup Results,
               Arrive(u, g, event)
        PROVE  Owing(f)
    <3>1. (Owing(g)' => Owing(g)) /\ \A h \in Frames \ {g} : owed'[h] = owed[h]
      BY <2>2, Arrival
    <3> QED BY <1>2, <3>1 DEF Owing
  <2>3. UNCHANGED owed => Owing(f)
    BY <1>2 DEF Owing
  <2> QED BY <2>1, <2>2, <2>3, OwedSteps DEF Unspent
<1>3. CASE Submitting(f)'
  <2>1. request \in [Frames -> {"none", "rejected", "rejecting", "admitted", "recorded",
          "in flight", "attached", "submitting", "submitted", "refusing",
          "accepted", "refused", "answered"}]
    BY DEF Core, TypeOK, RequestsTyped
  <2>2. ASSUME NEW g \in Frames, ProcessRequest(g)
        PROVE  Submitting(f)
    BY <1>3, <2>1, <2>2 DEF ProcessRequest, processCaptureRequest, setReqErrorAndForwardResult, Attach,
         createExecutor, submitRequest2Vendor, process_capture_request, Return, Record, Advance, Submitting
  <2>3. ASSUME NEW t \in Threads, Callback(t)
        PROVE  UNCHANGED request
    BY <2>3 DEF Callback, Update, PassEarly, processCaptureResult, Load, StoreNotified, complete,
                Store, Finish, Erase
  <2>4. ASSUME \/ \E g \in Frames : TakeAnchor(g)
               \/ \E g \in Snapshots : AnswerOf(g)
               \/ \E t \in VendorThreads, g \in Frames, event \in Notifications \cup Results :
                     Arrive(t, g, event)
               \/ decreasePendingFinalSnapCount \/ SignalReclaim \/ flushPendingFwkRecords \/ Manages
        PROVE  UNCHANGED request
    BY <2>4 DEF TakeAnchor, AnswerOf, Arrive, decreasePendingFinalSnapCount, SignalReclaim, Manages,
                flushPendingFwkRecords
  <2>5. UNCHANGED request => Submitting(f)
    BY <1>3 DEF Submitting
  <2>6. Submitting(f)
    BY <2>2, <2>3, <2>4, <2>5, Cases
  <2> QED BY <2>6 DEF Unspent
<1> QED BY <1>1, <1>2, <1>3 DEF Unspent

\* The executor of a frame cannot come back, nor forget an early picture while
\* it lives.
LEMMA EarlySteps ==
  ASSUME Core, [Next]_vars, NEW f \in Frames, ~Record(f),
         "early" \notin flags'[f], executor'[f] # "gone"
  PROVE  "early" \notin flags[f] /\ executor[f] # "gone"
<1>0. /\ flags \in [Frames -> SUBSET {"meta", "no meta", "buffer", "error", "final", "reported",
                                      "early"}]
      /\ executor \in [Frames -> {"none", "alive", "gone"}]
  BY DEF Core, TypeOK, ExecutorsTyped
<1>1. ASSUME NEW frames, Destroyed(frames)
      PROVE  "early" \notin flags[f] /\ executor[f] # "gone"
  BY <1>1 DEF Destroyed
<1>2. ASSUME UNCHANGED executor, flags[f] \subseteq flags'[f]
      PROVE  "early" \notin flags[f] /\ executor[f] # "gone"
  BY <1>2
<1>3. ASSUME NEW g \in Frames, ProcessRequest(g)
      PROVE  "early" \notin flags[f] /\ executor[f] # "gone"
  <2>1. CASE createExecutor(g)
    <3>1. executor[g] = "none"
      BY <2>1 DEF createExecutor, Advance, Core, Making, Fresh
    <3>2. UNCHANGED flags /\ executor' = [executor EXCEPT ![g] = "alive"]
      BY <2>1 DEF createExecutor
    <3> QED BY <1>0, <3>1, <3>2
  <2>2. CASE Return(g)
    BY <1>1, <2>2 DEF Return
  <2>3. CASE \/ processCaptureRequest(g) \/ setReqErrorAndForwardResult(g) \/ Record(g)
             \/ Attach(g) \/ submitRequest2Vendor(g) \/ process_capture_request(g)
    <3>1. UNCHANGED <<executor, flags>>
      BY <2>3 DEF processCaptureRequest, setReqErrorAndForwardResult, Record, Attach,
                  submitRequest2Vendor, process_capture_request, executorVars
    <3> QED BY <1>2, <3>1
  <2> QED BY <1>3, <2>1, <2>2, <2>3 DEF ProcessRequest
<1>4. ASSUME NEW t \in Threads, Callback(t)
      PROVE  "early" \notin flags[f] /\ executor[f] # "gone"
  <2>1. CASE Erase(t)
    BY <1>1, <2>1 DEF Erase
  <2>2. CASE ~Erase(t)
    <3>1. UNCHANGED executor
      BY <1>4, <2>2 DEF Callback, Update, PassEarly, processCaptureResult, Load, StoreNotified,
                        complete, Store, Finish, executorVars
    <3>2. \/ UNCHANGED flags
          \/ \E g, more : flags' = [flags EXCEPT ![g] = @ \cup more]
      BY <1>4, <2>2 DEF Callback, Update, PassEarly, processCaptureResult, Load, StoreNotified,
                        complete, Store, Finish, goToDarkroom, GiveUp
    <3> QED BY <1>0, <1>2, <3>1, <3>2
  <2> QED BY <2>1, <2>2
<1>5. CASE flushPendingFwkRecords
  BY <1>1, <1>5 DEF flushPendingFwkRecords
<1>6. CASE \/ \E g \in Frames : TakeAnchor(g)
           \/ \E g \in Snapshots : AnswerOf(g)
           \/ \E t \in VendorThreads, g \in Frames, event \in Notifications \cup Results :
                 Arrive(t, g, event)
           \/ decreasePendingFinalSnapCount \/ SignalReclaim \/ Manages
  <2>1. UNCHANGED <<executor, flags>>
    BY <1>6 DEF TakeAnchor, AnswerOf, Arrive, decreasePendingFinalSnapCount, SignalReclaim, Manages,
                executorVars
  <2> QED BY <1>2, <2>1
<1> QED BY <1>3, <1>4, <1>5, <1>6, Cases

LEMMA NoBuffer ==
  ASSUME NEW f, NEW event \in {"shutter", "meta", "ERROR_RESULT", "ERROR_REQUEST"}
  PROVE  "buffer" \notin Answered(f, event)
BY DEF Answered

\* A preview's buffer is answered by the one result that brings it, a
\* snapshot's by its early picture.
LEMMA Forwarding ==
  ASSUME Core, Tokens, NEW t \in Threads, NEW f \in Frames, Update(t), f = at[t].frame,
         "buffer" \in Answered(f, at[t].event)
  PROVE  /\ Pending(f) => "buffer" \in mPendingFwkRecords[f]
         /\ f \in Previews => ~Unspent(f)'
         /\ f \in Snapshots => at[t].event = "early"
<1>1. /\ at[t].step = "update" /\ executor[f] = "alive" /\ at'[t].step # "update"
      /\ at[t].event = "early" => "early" \notin flags[f]
      /\ UNCHANGED <<request, owed>> /\ \A u \in Threads \ {t} : at'[u] = at[u]
  BY Updating, OthersStay DEF Callback
<1>2. at[t] # Idle /\ Positioned(t)
  BY <1>1, Words DEF Core, Positions
<1>3. CASE f \in Snapshots
  <2>1. f \notin Previews
    BY <1>3, Constants
  <2>2. at[t].event = "early"
    BY <2>1, Words DEF Answered
  <2> QED BY <1>1, <1>3, <2>1, <2>2 DEF Tokens
<1>4. CASE f \in Previews
  <2>1. f \notin Snapshots /\ t \in VendorThreads
    BY <1>2, <1>4, Constants DEF Positioned
  <2>2. at[t].event \in {"buffer", "bad buffer"}
    <3>1. at[t].event \in Notifications \cup Results
      BY <1>2, <2>1 DEF Positioned
    <3>2. at[t].event \notin {"shutter", "meta", "ERROR_RESULT", "ERROR_REQUEST"}
      BY NoBuffer
    <3> QED BY <3>1, <3>2 DEF Notifications, Results
  <2>3. BringsBuffer(t, f) /\ InVendor(f)
    BY <1>1, <1>2, <2>1, <2>2 DEF BringsBuffer, Positioned
  <2>4. Pending(f) => "buffer" \in mPendingFwkRecords[f]
    BY <1>4, <2>1, <2>3 DEF Tokens, Unspent
  <2>5. ~Owing(f)' /\ ~Submitting(f)'
    <3>1. ~Owing(f)
      BY <2>1, <2>3 DEF Tokens
    <3>2. ~Submitting(f)
      BY <2>3 DEF InVendor, Submitting
    <3> QED BY <1>1, <3>1, <3>2 DEF Owing, Submitting
  <2>6. \A u \in VendorThreads : ~BringsBuffer(u, f)'
    <3>1. ~BringsBuffer(t, f)'
      BY <1>1 DEF BringsBuffer
    <3>2. ASSUME NEW u \in VendorThreads, u # t, BringsBuffer(u, f)'
          PROVE  FALSE
      <4>1. BringsBuffer(u, f)
        BY <1>1, <3>2, Constants DEF BringsBuffer
      <4>2. AtResult(u, f) /\ AtResult(t, f)
        BY <2>3, <4>1, Words DEF BringsBuffer, AtResult
      <4> QED BY <2>1, <3>2, <4>2 DEF Tokens, AtResult
    <3> QED BY <3>1, <3>2
  <2> QED BY <2>1, <2>4, <2>5, <2>6 DEF Unspent
<1> QED BY <1>3, <1>4, Constants

LEMMA RecordNext ==
  ASSUME Core, Tokens, [Next]_vars, NEW f \in Frames, Pending(f)'
  PROVE  /\ f \in Previews /\ Unspent(f)' => "buffer" \in mPendingFwkRecords'[f]
         /\ f \in Snapshots /\ "early" \notin flags'[f] /\ executor'[f] # "gone" =>
              "buffer" \in mPendingFwkRecords'[f]
<1>1. CASE Record(f)
  <2>1. mPendingFwkRecords'[f] = Parts
    BY <1>1 DEF Record, insertPendingFwkRecords, Core, TypeOK, RecordsTypeOK
  <2> QED BY <2>1, Words
<1>2. CASE ~Record(f)
  <2>1. /\ Unspent(f)' => Unspent(f)
        /\ "early" \notin flags'[f] /\ executor'[f] # "gone" =>
             "early" \notin flags[f] /\ executor[f] # "gone"
    BY <1>2, UnspentSteps, EarlySteps
  <2>2. ASSUME mPendingFwkRecords'[f] = mPendingFwkRecords[f]
        PROVE  /\ f \in Previews /\ Unspent(f)' => "buffer" \in mPendingFwkRecords'[f]
               /\ f \in Snapshots /\ "early" \notin flags'[f] /\ executor'[f] # "gone" =>
                    "buffer" \in mPendingFwkRecords'[f]
    BY <2>1, <2>2 DEF Tokens, Pending
  <2>3. ASSUME NEW g \in Frames, Record(g)
        PROVE  mPendingFwkRecords'[f] = mPendingFwkRecords[f]
    BY <1>2, <2>3 DEF Record, insertPendingFwkRecords, Core, TypeOK, RecordsTypeOK
  <2>4. ASSUME NEW t \in Threads, Update(t)
        PROVE  /\ f \in Previews /\ Unspent(f)' => "buffer" \in mPendingFwkRecords'[f]
               /\ f \in Snapshots /\ "early" \notin flags'[f] /\ executor'[f] # "gone" =>
                    "buffer" \in mPendingFwkRecords'[f]
    <3>1. PICK g \in Frames :
            /\ g = at[t].frame
            /\ mPendingFwkRecords'[g] = mPendingFwkRecords[g] \ Answered(g, at[t].event)
            /\ \A h \in Frames \ {g} : mPendingFwkRecords'[h] = mPendingFwkRecords[h]
            /\ flags'[g] = flags[g] \cup LearntFirst(at[t].event)
      BY <2>4, Updating
    <3>2. CASE f # g
      BY <2>2, <3>1, <3>2
    <3>3. CASE f = g /\ "buffer" \in Answered(g, at[t].event)
      <4>1. /\ f \in Previews => ~Unspent(f)'
            /\ f \in Snapshots => at[t].event = "early"
        BY <2>4, <3>1, <3>3, Forwarding
      <4>2. at[t].event = "early" => "early" \in flags'[f]
        BY <3>1, <3>3, Words DEF Learnt, LearntFirst
      <4> QED BY <4>1, <4>2
    <3>4. CASE f = g /\ "buffer" \notin Answered(g, at[t].event)
      <4>1. Pending(f) /\ ("buffer" \in mPendingFwkRecords[f] => "buffer" \in mPendingFwkRecords'[f])
        BY <3>1, <3>4 DEF Pending
      <4> QED BY <2>1, <4>1 DEF Tokens
    <3> QED BY <3>2, <3>3, <3>4
  <2>5. ~flushPendingFwkRecords
    BY DEF flushPendingFwkRecords, flushRecords, Pending
  <2> QED BY <2>2, <2>3, <2>4, <2>5, RecordSteps
<1> QED BY <1>1, <1>2

LEMMA TokensNext ==
  ASSUME Core, Tokens, [Next]_vars
  PROVE  Tokens'
<1>1. \A f \in Frames : owed'[f] \subseteq Parts \/ owed'[f] = {"bad buffer"}
  BY OwedNext
<1>2. \A f \in Frames : owed'[f] # {} => InVendor(f)'
  BY OwedNext
<1>3. \A t \in VendorThreads, f \in Frames : BringsBuffer(t, f)' => ~Owing(f)'
  BY BringsNext
<1>4. \A t \in VendorThreads, f \in Frames : AtResult(t, f)' =>
        \A u \in VendorThreads : AtResult(u, f)' => u = t
  BY ResultsNext
<1>5. \A f \in Previews : Pending(f)' /\ Unspent(f)' => "buffer" \in mPendingFwkRecords'[f]
  BY RecordNext, Constants
<1>6. \A f \in Snapshots : Pending(f)' /\ "early" \notin flags'[f] /\ executor'[f] # "gone" =>
        "buffer" \in mPendingFwkRecords'[f]
  BY RecordNext, Constants
<1> QED BY <1>1, <1>2, <1>3, <1>4, <1>5, <1>6 DEF Tokens, AtResult

LEMMA TokensAlways == Spec => []Tokens
<1>1. Init => Tokens
  <2> SUFFICES ASSUME Init PROVE Tokens
    OBVIOUS
  <2>1. \A f \in Frames : owed[f] = {} /\ mPendingFwkRecords[f] = {}
    BY DEF Init, RecordsInit
  <2>2. \A t \in VendorThreads : at[t] = Idle
    BY Constants DEF Init
  <2> QED BY <2>1, <2>2, Words, Constants DEF Tokens, Pending, BringsBuffer
<1>2. Core /\ Tokens /\ [Next]_vars => Tokens'
  BY TokensNext
<1> QED BY <1>1, <1>2, CoreAlways, PTL DEF Spec

-----------------------------------------------------------------------------
(* Where each buffer is *)

Bringing(t, f) == at[t].frame = f /\ at[t].step \in {"count", "deliver"}
Bringers(f) == {t \in Threads : Bringing(t, f)}

LEMMA CountBringers ==
  ASSUME NEW f
  PROVE  /\ IsFiniteSet(Bringers(f)) /\ Delivering(f) = Cardinality(Bringers(f))
         /\ Delivering(f) \in Nat
<1>1. IsFiniteSet(Bringers(f))
  BY FiniteSets, FS_Subset DEF Bringers
<1>2. Delivering(f) = Cardinality(Bringers(f))
  BY DEF Delivering, Bringers, Bringing
<1> QED BY <1>1, <1>2, FS_CardinalityType

\* When one thread moves, a frame has one call less or one more.
LEMMA Recounted ==
  ASSUME NEW t \in Threads, NEW f, \A u \in Threads \ {t} : at'[u] = at[u]
  PROVE  /\ Delivering(f) \in Nat /\ Delivering(f)' \in Nat
         /\ Bringing(t, f)' <=> Bringing(t, f) => Delivering(f)' = Delivering(f)
         /\ ~Bringing(t, f) /\ Bringing(t, f)' => Delivering(f)' = Delivering(f) + 1
         /\ Bringing(t, f) /\ ~Bringing(t, f)' => Delivering(f)' = Delivering(f) - 1
<1> DEFINE S == Bringers(f)
           Q == Bringers(f)'
<1>1. IsFiniteSet(S) /\ Delivering(f) = Cardinality(S) /\ Delivering(f) \in Nat
  BY CountBringers
<1>2. Delivering(f)' = Cardinality(Q)
  BY DEF Delivering, Bringers, Bringing
<1>3. IsFiniteSet(Q)
  BY FiniteSets, FS_Subset DEF Bringers
<1>4. Delivering(f)' \in Nat
  BY <1>2, <1>3, FS_CardinalityType
<1>5. \A u \in Threads \ {t} : u \in Q <=> u \in S
  BY DEF Bringers, Bringing
<1>6. /\ S \subseteq Threads /\ Q \subseteq Threads
      /\ t \in S <=> Bringing(t, f)
      /\ t \in Q <=> Bringing(t, f)'
  BY DEF Bringers
<1> HIDE DEF S, Q
<1>7. ASSUME Bringing(t, f)' <=> Bringing(t, f)
      PROVE  Delivering(f)' = Delivering(f)
  <2>1. S = Q
    BY <1>5, <1>6, <1>7
  <2> QED BY <1>1, <1>2, <2>1
<1>8. ASSUME ~Bringing(t, f), Bringing(t, f)'
      PROVE  Delivering(f)' = Delivering(f) + 1
  <2>1. Q = S \cup {t} /\ t \notin S
    BY <1>5, <1>6, <1>8
  <2> QED BY <1>1, <1>2, <2>1, FS_AddElement
<1>9. ASSUME Bringing(t, f), ~Bringing(t, f)'
      PROVE  Delivering(f)' = Delivering(f) - 1
  <2>1. Q = S \ {t} /\ t \in S
    BY <1>5, <1>6, <1>9
  <2> QED BY <1>1, <1>2, <2>1, FS_RemoveElement
<1> QED BY <1>1, <1>4, <1>7, <1>8, <1>9

\* The account of a frame, in whole numbers.
Account(f) ==
  One(BeforeRecord(f)) + One("buffer" \in mPendingFwkRecords[f]) + Delivering(f) + back[f]
    = One(request[f] # "none")

LEMMA SameAccount ==
  ASSUME Core, NEW f \in Frames, Account(f),
         BeforeRecord(f)' <=> BeforeRecord(f), request'[f] = "none" <=> request[f] = "none",
         "buffer" \in mPendingFwkRecords'[f] <=> "buffer" \in mPendingFwkRecords[f],
         Delivering(f)' = Delivering(f), back'[f] = back[f]
  PROVE  Account(f)'
BY DEF Account, One

\* Steps that concern neither the buffers nor the threads that bring them.
LEMMA SameDelivering ==
  ASSUME Core, NEW f \in Frames, UNCHANGED at
  PROVE  Delivering(f)' = Delivering(f)
BY DEF Delivering

LEMMA AccountRequest ==
  ASSUME Core, NEW f \in Frames, Account(f), NEW g \in Frames, ProcessRequest(g)
  PROVE  Account(f)'
<1>0. /\ request \in [Frames -> {"none", "rejected", "rejecting", "admitted", "recorded",
           "in flight", "attached", "submitting", "submitted", "refusing",
           "accepted", "refused", "answered"}]
      /\ mPendingFwkRecords \in [Frames -> SUBSET Parts] /\ back \in [Frames -> Nat]
  BY DEF Core, TypeOK, RequestsTyped, RecordsTypeOK
<1>1. Delivering(f)' = Delivering(f)
  <2>1. UNCHANGED at
    BY DEF ProcessRequest, processCaptureRequest, setReqErrorAndForwardResult, Record, Attach,
           createExecutor, submitRequest2Vendor, process_capture_request, Return
  <2> QED BY <2>1, SameDelivering
<1>2. Delivering(f) \in Nat /\ back[f] \in Nat
  BY <1>0, CountBringers
<1>3. CASE processCaptureRequest(g)
  <2>1. UNCHANGED <<mPendingFwkRecords, back>>
    BY <1>3 DEF processCaptureRequest, CountBuffer
  <2>2. CASE f = g
    <3>1. request[f] = "none" /\ request'[f] \in {"rejected", "admitted"}
      BY <1>0, <1>3, <2>2 DEF processCaptureRequest, Advance
    <3>2. One(BeforeRecord(f)) = 0 /\ One(BeforeRecord(f)') = 1
      BY <3>1 DEF BeforeRecord, One
    <3>3. One(request[f] # "none") = 0 /\ One(request'[f] # "none") = 1
      BY <3>1 DEF One
    <3>4. One("buffer" \in mPendingFwkRecords[f]) \in Nat
      BY DEF One
    <3> QED BY <1>1, <1>2, <2>1, <3>2, <3>3, <3>4 DEF Account
  <2>3. CASE f # g
    <3>1. request'[f] = request[f]
      BY <1>0, <1>3, <2>3 DEF processCaptureRequest, Advance
    <3> QED BY <1>1, <2>1, <3>1, SameAccount DEF BeforeRecord
  <2> QED BY <2>2, <2>3
<1>4. CASE Record(g)
  <2>1. UNCHANGED back /\ request[g] = "admitted" /\ request' = [request EXCEPT ![g] = "recorded"]
        /\ mPendingFwkRecords' = [mPendingFwkRecords EXCEPT ![g] = Parts]
    BY <1>4 DEF Record, Advance, insertPendingFwkRecords
  <2>2. CASE f = g
    <3>1. One(BeforeRecord(f)) = 1 /\ One(BeforeRecord(f)') = 0
      BY <1>0, <2>1, <2>2 DEF BeforeRecord, One
    <3>2. One(request[f] # "none") = 1 /\ One(request'[f] # "none") = 1
      BY <1>0, <2>1, <2>2 DEF One
    <3>3. One("buffer" \in mPendingFwkRecords[f]) \in Nat /\ One("buffer" \in mPendingFwkRecords'[f]) = 1
      BY <1>0, <2>1, <2>2, Words DEF One
    <3> QED BY <1>1, <1>2, <2>1, <3>1, <3>2, <3>3 DEF Account
  <2>3. CASE f # g
    BY <1>0, <1>1, <2>1, <2>3, SameAccount DEF BeforeRecord
  <2> QED BY <2>2, <2>3
<1>5. CASE setReqErrorAndForwardResult(g)
  <2>1. UNCHANGED mPendingFwkRecords
    BY <1>5 DEF setReqErrorAndForwardResult, UncountBuffer, process_capture_result
  <2>2. CASE f # g \/ Advance(g, "rejected", "rejecting")
    <3>1. /\ BeforeRecord(f)' <=> BeforeRecord(f)
          /\ request'[f] = "none" <=> request[f] = "none" 
          /\ back'[f] = back[f]
      BY <1>0, <1>5, <2>2
         DEF setReqErrorAndForwardResult, Advance, BeforeRecord, UncountBuffer, process_capture_result
    <3> QED BY <1>1, <2>1, <3>1, SameAccount
  <2>3. CASE f = g /\ ~Advance(g, "rejected", "rejecting")
    <3>1. request[f] = "rejecting" /\ request'[f] = "answered" /\ back'[f] = back[f] + 1
      BY <1>0, <1>5, <2>3 DEF setReqErrorAndForwardResult, Advance, process_capture_result
    <3>2. /\ One(BeforeRecord(f)) = 1 /\ One(BeforeRecord(f)') = 0
          /\ One(request[f] # "none") = 1 /\ One(request'[f] # "none") = 1
      BY <3>1 DEF BeforeRecord, One
    <3>3. One("buffer" \in mPendingFwkRecords[f]) \in Nat
      BY DEF One
    <3> QED BY <1>1, <1>2, <2>1, <3>1, <3>2, <3>3 DEF Account
  <2> QED BY <2>2, <2>3
<1>6. CASE \/ createExecutor(g) \/ Attach(g) \/ submitRequest2Vendor(g)
           \/ process_capture_request(g) \/ Return(g)
  <2>1. UNCHANGED <<mPendingFwkRecords, back>>
    BY <1>6 DEF createExecutor, Attach, submitRequest2Vendor, process_capture_request, Return, recordVars
  <2>2. /\ BeforeRecord(f)' <=> BeforeRecord(f)
        /\ request'[f] = "none" <=> request[f] = "none"
    BY <1>0, <1>6 DEF createExecutor, Attach, submitRequest2Vendor, process_capture_request, Return,
                      Advance, BeforeRecord
  <2> QED BY <1>1, <2>1, <2>2, SameAccount
<1> QED BY <1>3, <1>4, <1>5, <1>6 DEF ProcessRequest

LEMMA AccountCallback ==
  ASSUME Core, Tokens, NEW f \in Frames, Account(f), NEW t \in Threads, Callback(t)
  PROVE  Account(f)'
<1>0. /\ mPendingFwkRecords \in [Frames -> SUBSET Parts] /\ back \in [Frames -> Nat]
      /\ ThreadsTyped
  BY DEF Core, TypeOK, RecordsTypeOK
<1>1. /\ UNCHANGED request /\ (BeforeRecord(f)' <=> BeforeRecord(f))
      /\ \A u \in Threads \ {t} : at'[u] = at[u]
  BY OthersStay DEF Callback, Update, PassEarly, processCaptureResult, Load, StoreNotified,
                    complete, Store, Finish, Erase, BeforeRecord
<1>2. PICK g \in Frames : g = at[t].frame
  BY CalledLives
<1>3. f # g => ~Bringing(t, f)
  BY <1>2 DEF Bringing
<1>4. CASE Update(t)
  <2>1. /\ at[t].step = "update" /\ UNCHANGED back
        /\ mPendingFwkRecords'[g] = mPendingFwkRecords[g] \ Answered(g, at[t].event)
        /\ \A h \in Frames \ {g} : mPendingFwkRecords'[h] = mPendingFwkRecords[h]
        /\ Goto(t, IF Forwards(g, at[t].event) THEN "count" ELSE AfterAnswer(at[t].event))
    BY <1>0, <1>2, <1>4 DEF Update, updatePendingFwkRecords
  <2>2. ~Bringing(t, f)
    BY <2>1 DEF Bringing
  <2>3. /\ at'[t].frame = g
        /\ at'[t].step = IF Forwards(g, at[t].event) THEN "count" ELSE AfterAnswer(at[t].event)
    BY <1>0, <1>2, <2>1 DEF Goto, ThreadsTyped, Places
  <2>4. Bringing(t, f)' <=> f = g /\ Forwards(g, at[t].event)
    BY <2>3 DEF Bringing, AfterAnswer
  <2>5. CASE f = g /\ Forwards(g, at[t].event)
    <3>1. "buffer" \in mPendingFwkRecords[f] /\ "buffer" \notin mPendingFwkRecords'[f]
      BY <1>2, <1>4, <2>1, <2>5, Forwarding DEF Forwards
    <3>2. Delivering(f)' = Delivering(f) + 1 /\ Delivering(f) \in Nat
      BY <1>1, <2>2, <2>4, <2>5, Recounted
    <3>3. /\ One("buffer" \in mPendingFwkRecords[f]) = 1
          /\ One("buffer" \in mPendingFwkRecords'[f]) = 0
      BY <3>1 DEF One
    <3>4. /\ One(BeforeRecord(f)') = One(BeforeRecord(f)) /\ One(BeforeRecord(f)) \in Nat
          /\ One(request'[f] # "none") = One(request[f] # "none") /\ back'[f] = back[f]
      BY <1>1, <2>1 DEF One
    <3> QED BY <1>0, <3>2, <3>3, <3>4 DEF Account
  <2>6. CASE ~(f = g /\ Forwards(g, at[t].event))
    <3>1. Delivering(f)' = Delivering(f)
      BY <1>1, <2>2, <2>4, <2>6, Recounted
    <3>2. "buffer" \in mPendingFwkRecords'[f] <=> "buffer" \in mPendingFwkRecords[f]
      BY <1>0, <2>1, <2>6 DEF Forwards, Pending
    <3> QED BY <1>1, <2>1, <3>1, <3>2, SameAccount
  <2> QED BY <2>5, <2>6
<1>5. CASE processCaptureResult(t) /\ at[t].step = "deliver"
  <2>1. /\ process_capture_result(g) /\ Goto(t, AfterAnswer(at[t].event))
    BY <1>2, <1>5 DEF processCaptureResult
  <2>2. /\ at'[t].frame = g /\ at'[t].step \notin {"count", "deliver"}
    BY <1>0, <1>2, <2>1 DEF Goto, ThreadsTyped, Places, AfterAnswer
  <2>3. CASE f = g
    <3>1. Delivering(f)' = Delivering(f) - 1 /\ Delivering(f) \in Nat /\ Delivering(f)' \in Nat
      BY <1>1, <1>2, <1>5, <2>2, <2>3, Recounted DEF Bringing
    <3>2. back'[f] = back[f] + 1 /\ UNCHANGED mPendingFwkRecords
      BY <1>0, <2>1, <2>3 DEF process_capture_result
    <3>3. /\ One(BeforeRecord(f)') = One(BeforeRecord(f)) /\ One(BeforeRecord(f)) \in Nat
          /\ One("buffer" \in mPendingFwkRecords'[f]) = One("buffer" \in mPendingFwkRecords[f])
          /\ One("buffer" \in mPendingFwkRecords[f]) \in Nat
          /\ One(request'[f] # "none") = One(request[f] # "none")
      BY <1>1, <3>2 DEF One
    <3> QED BY <1>0, <3>1, <3>2, <3>3 DEF Account
  <2>4. CASE f # g
    <3>1. Delivering(f)' = Delivering(f)
      BY <1>1, <1>3, <2>2, <2>4, Recounted DEF Bringing
    <3>2. back'[f] = back[f] /\ UNCHANGED mPendingFwkRecords
      BY <1>0, <2>1, <2>4 DEF process_capture_result
    <3> QED BY <1>1, <3>1, <3>2, SameAccount
  <2> QED BY <2>3, <2>4
<1>6. CASE processCaptureResult(t) /\ at[t].step # "deliver"
  <2>1. at[t].step = "count" /\ Goto(t, "deliver") /\ UNCHANGED <<mPendingFwkRecords, back>>
    BY <1>6 DEF processCaptureResult, UncountBuffer
  <2>2. at'[t].frame = g /\ at'[t].step = "deliver"
    BY <1>0, <1>2, <2>1 DEF Goto, ThreadsTyped, Places
  <2>3. Delivering(f)' = Delivering(f)
    BY <1>1, <1>2, <2>1, <2>2, Recounted DEF Bringing
  <2> QED BY <1>1, <2>1, <2>3, SameAccount
<1>7. CASE PassEarly(t) \/ Finish(t) \/ Stores(t) \/ Erase(t)
  <2>1. UNCHANGED <<mPendingFwkRecords, back>> /\ at[t].step \notin {"count", "deliver"}
    BY <1>7, StoresOnly DEF PassEarly, Finish, Erase, recordVars
  <2>2. at'[t].step \notin {"count", "deliver"}
    BY <1>0, <1>7, StoresOnly DEF PassEarly, Finish, Erase, Goto, ThreadsTyped, Places, Idle
  <2>3. Delivering(f)' = Delivering(f)
    BY <1>1, <2>1, <2>2, Recounted DEF Bringing
  <2> QED BY <1>1, <2>1, <2>3, SameAccount
<1> QED BY <1>4, <1>5, <1>6, <1>7 DEF Callback, Stores

\* Apart from callbacks and requests, a step moves at most one thread that
\* brings no buffer, to where it brings none.
LEMMA Elsewhere ==
  ASSUME Core, [Next]_vars
  PROVE  \/ \E t \in Threads : Callback(t)
         \/ \E f \in Frames : ProcessRequest(f)
         \/ flushPendingFwkRecords \/ UNCHANGED <<recordVars, request, at>>
         \/ \E t \in Threads :
              /\ UNCHANGED <<recordVars, request>> /\ \A u \in Threads \ {t} : at'[u] = at[u]
              /\ at[t].step \notin {"count", "deliver"} /\ at'[t].step \notin {"count", "deliver"}
<1>1. ThreadsTyped /\ Loop \in Threads /\ Darkroom \in Threads /\ VendorThreads \subseteq Threads
  BY Constants DEF Core, TypeOK
<1>2. Idle.step \notin {"count", "deliver"}
  BY Words
<1>3. ASSUME NEW t \in Threads, NEW f \in Frames, NEW event \in Notifications \cup Results \cup {"early"},
             BeginAt(t, f, event)
      PROVE  at'[t].step \notin {"count", "deliver"} /\ \A u \in Threads \ {t} : at'[u] = at[u]
  <2>1. /\ at'[t] = [frame |-> f, event |-> event, step |-> "update"] \/ at'[t] = Idle
        /\ \A u \in Threads \ {t} : at'[u] = at[u]
    BY <1>1, <1>3, Beginning
  <2>2. at'[t] = [frame |-> f, event |-> event, step |-> "update"] => at'[t].step = "update"
    OBVIOUS
  <2> QED BY <1>2, <2>1, <2>2
<1>4. ASSUME NEW t \in VendorThreads, NEW f \in Frames, NEW event \in Notifications \cup Results,
             Arrive(t, f, event)
      PROVE  /\ UNCHANGED <<recordVars, request>> /\ \A u \in Threads \ {t} : at'[u] = at[u]
             /\ at[t].step \notin {"count", "deliver"} /\ at'[t].step \notin {"count", "deliver"}
  <2>1. UNCHANGED <<recordVars, request>> /\ at[t] = Idle /\ BeginAt(t, f, event)
    BY <1>4 DEF Arrive
  <2> QED BY <1>1, <1>2, <1>3, <2>1
<1>5. ASSUME NEW f \in Frames, TakeAnchor(f)
      PROVE  /\ UNCHANGED <<recordVars, request>> /\ \A u \in Threads \ {Loop} : at'[u] = at[u]
             /\ at[Loop].step \notin {"count", "deliver"} /\ at'[Loop].step \notin {"count", "deliver"}
  <2>1. UNCHANGED <<recordVars, request>> /\ at[Loop] = Idle /\ BeginAt(Loop, f, "early")
    BY <1>5 DEF TakeAnchor
  <2> QED BY <1>1, <1>2, <1>3, <2>1
<1>6. ASSUME (\E f \in Snapshots : AnswerOf(f)) \/ decreasePendingFinalSnapCount \/ SignalReclaim
      PROVE  /\ UNCHANGED <<recordVars, request>> /\ \A u \in Threads \ {Darkroom} : at'[u] = at[u]
             /\ at[Darkroom].step \notin {"count", "deliver"}
             /\ at'[Darkroom].step \notin {"count", "deliver"}
  <2>1. UNCHANGED <<recordVars, request>>
    BY <1>6 DEF AnswerOf, decreasePendingFinalSnapCount, SignalReclaim
  <2>2. at[Darkroom].step \notin {"count", "deliver"}
    BY <1>2, <1>6 DEF AnswerOf, decreasePendingFinalSnapCount, SignalReclaim
  <2>3. ASSUME NEW f \in Snapshots, AnswerOf(f)
        PROVE  /\ at'[Darkroom].step \notin {"count", "deliver"}
               /\ \A u \in Threads \ {Darkroom} : at'[u] = at[u]
    <3> DEFINE step == IF darkroom[f] = "working early" /\ f \in mVendorInflights
                       THEN "update" ELSE "decrease"
    <3>1. at' = [at EXCEPT ![Darkroom] = [frame |-> f, event |-> "early", step |-> step]]
      BY <2>3 DEF AnswerOf
    <3>2. step \notin {"count", "deliver"}
      OBVIOUS
    <3> HIDE DEF step
    <3>3. /\ at'[Darkroom] = [frame |-> f, event |-> "early", step |-> step]
          /\ \A u \in Threads \ {Darkroom} : at'[u] = at[u]
      BY <1>1, <3>1 DEF ThreadsTyped
    <3> QED BY <3>2, <3>3
  <2>4. CASE decreasePendingFinalSnapCount
    <3>1. Goto(Darkroom, "signal") /\ "signal" \in Steps
      BY <2>4 DEF decreasePendingFinalSnapCount, Steps
    <3>2. /\ at'[Darkroom] = [frame |-> at[Darkroom].frame, event |-> at[Darkroom].event,
                               step |-> "signal"]
          /\ \A u \in Threads \ {Darkroom} : at'[u] = at[u]
      BY <1>1, <3>1, Going
    <3>3. at'[Darkroom].step = "signal"
      BY <3>2
    <3> QED BY <2>1, <2>2, <3>2, <3>3
  <2>5. CASE SignalReclaim
    <3>1. at'[Darkroom] = Idle /\ \A u \in Threads \ {Darkroom} : at'[u] = at[u]
      BY <1>1, <2>5 DEF SignalReclaim, ThreadsTyped
    <3> QED BY <1>2, <2>1, <2>2, <3>1
  <2> QED BY <1>6, <2>1, <2>2, <2>3, <2>4, <2>5
<1>7. Manages => UNCHANGED <<recordVars, request, at>>
  BY DEF Manages
<1> QED BY <1>1, <1>4, <1>5, <1>6, <1>7, Cases

LEMMA AccountNext ==
  ASSUME Core, Tokens, BuffersAccounted, [Next]_vars
  PROVE  BuffersAccounted'
<1> SUFFICES ASSUME NEW f \in Frames PROVE Account(f)'
  BY DEF BuffersAccounted, Account
<1>0. Account(f)
  BY DEF BuffersAccounted, Account
<1>1. CASE \E g \in Frames : ProcessRequest(g)
  BY <1>0, <1>1, AccountRequest
<1>2. CASE \E t \in Threads : Callback(t)
  BY <1>0, <1>2, AccountCallback
<1>3. CASE flushPendingFwkRecords
  <2>1. Delivering(f)' = Delivering(f) /\ Delivering(f) \in Nat /\ back \in [Frames -> Nat]
    BY <1>3, SameDelivering, CountBringers DEF flushPendingFwkRecords, Core, TypeOK, RecordsTypeOK
  <2>2. /\ UNCHANGED request /\ mPendingFwkRecords'[f] = {}
        /\ back'[f] = IF "buffer" \in mPendingFwkRecords[f] THEN back[f] + 1 ELSE back[f]
    BY <1>3 DEF flushPendingFwkRecords, flushRecords
  <2>3. /\ One(BeforeRecord(f)') = One(BeforeRecord(f)) /\ One(BeforeRecord(f)) \in Nat
        /\ One(request'[f] # "none") = One(request[f] # "none")
    BY <2>2 DEF One, BeforeRecord
  <2>4. One("buffer" \in mPendingFwkRecords'[f]) = 0
    BY <2>2 DEF One
  <2>5. One("buffer" \in mPendingFwkRecords[f]) = IF "buffer" \in mPendingFwkRecords[f] THEN 1 ELSE 0
    BY DEF One
  <2> QED BY <1>0, <2>1, <2>2, <2>3, <2>4, <2>5 DEF Account
<1>4. ASSUME NEW t \in Threads, UNCHANGED <<recordVars, request>>, ~Bringing(t, f), ~Bringing(t, f)',
             \A u \in Threads \ {t} : at'[u] = at[u]
      PROVE  Account(f)'
  <2>1. Delivering(f)' = Delivering(f)
    BY <1>4, Recounted
  <2> QED BY <1>0, <1>4, <2>1, SameAccount DEF recordVars, BeforeRecord
<1>5. CASE \E t \in Threads :
             /\ UNCHANGED <<recordVars, request>> /\ \A u \in Threads \ {t} : at'[u] = at[u]
             /\ at[t].step \notin {"count", "deliver"} /\ at'[t].step \notin {"count", "deliver"}
  BY <1>4, <1>5 DEF Bringing
<1>6. CASE UNCHANGED <<recordVars, request, at>>
  BY <1>0, <1>6, SameAccount, SameDelivering DEF recordVars, BeforeRecord
<1> QED BY <1>1, <1>2, <1>3, <1>5, <1>6, Elsewhere

LEMMA AccountInit == Init => BuffersAccounted
<1> SUFFICES ASSUME Init, NEW f \in Frames PROVE Account(f)
  BY DEF BuffersAccounted, Account
<1>1. \A t \in Threads : at[t] = Idle
  BY DEF Init
<1>2. Bringers(f) = {}
  BY <1>1, Words DEF Bringers, Bringing
<1>3. Delivering(f) = 0
  BY <1>2, CountBringers, FS_EmptySet
<1>4. request[f] = "none" /\ mPendingFwkRecords[f] = {} /\ back[f] = 0
  BY DEF Init, RecordsInit
<1> QED BY <1>3, <1>4 DEF Account, One, BeforeRecord

LEMMA AccountAlways == Spec => []BuffersAccounted
<1>1. Core /\ Tokens /\ BuffersAccounted /\ [Next]_vars => BuffersAccounted'
  BY AccountNext
<1> QED BY <1>1, AccountInit, CoreAlways, TokensAlways, PTL DEF Spec

\* Every buffer is at one place, and given back once at most, however results,
\* early pictures and the flush interleave.
THEOREM EachBufferOnce == Spec => []BuffersAccounted
BY AccountAlways

-----------------------------------------------------------------------------
(* What the flush waits for *)

Counting(t, f) == at[t].frame = f /\ at[t].step = "count"
Needs(f) ==
  \/ request[f] \in {"admitted", "rejected"}
  \/ "buffer" \in mPendingFwkRecords[f] \/ \E t \in Threads : Counting(t, f)
Needed == {f \in Frames : Needs(f)}

LEMMA Positive ==
  ASSUME NEW S, S \subseteq Threads
  PROVE  Cardinality(S) > 0 <=> S # {}
<1>1. IsFiniteSet(S)
  BY FiniteSets, FS_Subset
<1>2. Cardinality(S) \in Nat /\ (Cardinality(S) = 0 <=> S = {})
  BY <1>1, FS_CardinalityType, FS_EmptySet
<1> QED BY <1>2

LEMMA NeededSet ==
  /\ IsFiniteSet(Needed) /\ Cardinality(Needed) \in Nat
  /\ NeededExact <=> mBufferNeededNum = Cardinality(Needed)
  /\ NeededExact' <=> mBufferNeededNum' = Cardinality(Needed')
<1>1. IsFiniteSet(Needed)
  BY FiniteSets, FS_Subset DEF Needed
<1>2. \A f \in Frames : Uncounted(f) > 0 <=> \E t \in Threads : Counting(t, f)
  <2> TAKE f \in Frames
  <2>1. Uncounted(f) > 0 <=> {t \in Threads : Counting(t, f)} # {}
    BY Positive DEF Uncounted, Counting
  <2> QED BY <2>1
<1>3. Needed = {f \in Frames : \/ request[f] \in {"admitted", "rejected"}
                               \/ "buffer" \in mPendingFwkRecords[f] \/ Uncounted(f) > 0}
  BY <1>2 DEF Needed, Needs
<1>4. \A f \in Frames : Uncounted(f)' > 0 <=> \E t \in Threads : Counting(t, f)'
  <2> TAKE f \in Frames
  <2>1. Uncounted(f)' > 0 <=> {t \in Threads : Counting(t, f)'} # {}
    BY Positive DEF Uncounted, Counting
  <2> QED BY <2>1
<1>5. Needed' = {f \in Frames : \/ request'[f] \in {"admitted", "rejected"}
                                \/ "buffer" \in mPendingFwkRecords'[f] \/ Uncounted(f)' > 0}
  BY <1>4 DEF Needed, Needs
<1> QED BY <1>1, <1>3, <1>5, FS_CardinalityType DEF NeededExact

LEMMA Summing ==
  \A before, record, calls, given \in Nat, all \in {0, 1} :
    before + record + calls + given = all =>
      /\ calls <= 1
      /\ before = 1 => record = 0 /\ calls = 0
      /\ record = 1 => calls = 0
      /\ all = 0 => record = 0 /\ calls = 0
OBVIOUS

\* The account leaves a buffer at one place only.
LEMMA OnePlace ==
  ASSUME Core, NEW f \in Frames, Account(f)
  PROVE  /\ BeforeRecord(f) => /\ "buffer" \notin mPendingFwkRecords[f]
                               /\ \A t \in Threads : ~Bringing(t, f)
         /\ "buffer" \in mPendingFwkRecords[f] => \A t \in Threads : ~Bringing(t, f)
         /\ request[f] = "none" => ~Needs(f)
         /\ \A t, u \in Threads : Bringing(t, f) /\ Bringing(u, f) => t = u
<1> DEFINE S == Bringers(f)
<1>1. IsFiniteSet(S) /\ Delivering(f) = Cardinality(S) /\ Delivering(f) \in Nat
  BY CountBringers
<1>2. back[f] \in Nat
  BY DEF Core, TypeOK, RecordsTypeOK
<1>3. /\ Delivering(f) <= 1
      /\ BeforeRecord(f) => "buffer" \notin mPendingFwkRecords[f] /\ Delivering(f) = 0
      /\ "buffer" \in mPendingFwkRecords[f] => Delivering(f) = 0
      /\ request[f] = "none" => "buffer" \notin mPendingFwkRecords[f] /\ Delivering(f) = 0
  <2> DEFINE before == One(BeforeRecord(f))
             record == One("buffer" \in mPendingFwkRecords[f])
             all == One(request[f] # "none")
  <2>1. /\ before \in Nat /\ (before = 1 <=> BeforeRecord(f))
        /\ record \in Nat /\ (record = 1 <=> "buffer" \in mPendingFwkRecords[f])
        /\ record = 0 <=> "buffer" \notin mPendingFwkRecords[f]
        /\ all \in {0, 1} /\ (all = 0 <=> request[f] = "none")
    BY DEF One
  <2>2. before + record + Delivering(f) + back[f] = all
    BY DEF Account
  <2> HIDE DEF before, record, all
  <2>3. /\ Delivering(f) <= 1
        /\ before = 1 => record = 0 /\ Delivering(f) = 0
        /\ record = 1 => Delivering(f) = 0
        /\ all = 0 => record = 0 /\ Delivering(f) = 0
    BY <1>1, <1>2, <2>1, <2>2, Summing
  <2> QED BY <2>1, <2>3
<1>4. Delivering(f) = 0 => \A t \in Threads : ~Bringing(t, f)
  <2>1. Delivering(f) = 0 => S = {}
    BY <1>1, FS_EmptySet
  <2> QED BY <2>1 DEF Bringers
<1>5. ASSUME NEW t \in Threads, NEW u \in Threads, Bringing(t, f), Bringing(u, f)
      PROVE  t = u
  <2>1. t \in S /\ u \in S
    BY <1>5 DEF Bringers
  <2> HIDE DEF S
  <2>2. IsFiniteSet(S \ {t}) /\ Cardinality(S \ {t}) = Cardinality(S) - 1
    BY <1>1, <2>1, FS_RemoveElement
  <2>3. Cardinality(S \ {t}) \in Nat
    BY <2>2, FS_CardinalityType
  <2>4. Cardinality(S \ {t}) = 0
    BY <1>1, <1>3, <2>2, <2>3
  <2>5. S \ {t} = {}
    BY <2>2, <2>4, FS_EmptySet
  <2> QED BY <2>1, <2>5
<1>6. request[f] = "none" => ~Needs(f)
  BY <1>3, <1>4 DEF Needs, Counting, Bringing
<1> QED BY <1>3, <1>4, <1>5, <1>6

LEMMA NeedsSame ==
  ASSUME NeededExact, UNCHANGED mBufferNeededNum, \A f \in Frames : Needs(f)' <=> Needs(f)
  PROVE  NeededExact'
<1>1. Needed' = Needed
  BY DEF Needed
<1>2. NeededExact' <=> mBufferNeededNum' = Cardinality(Needed')
  BY NeededSet
<1> QED BY <1>1, <1>2, NeededSet

\* One buffer is counted back.
LEMMA NeedsLess ==
  ASSUME Core, NeededExact, NEW f \in Frames, mBufferNeededNum' = CountBack(1),
         Needs(f), ~Needs(f)', \A g \in Frames \ {f} : Needs(g)' <=> Needs(g)
  PROVE  NeededExact'
<1>1. Needed' = Needed \ {f} /\ f \in Needed
  BY DEF Needed
<1>2. NeededExact' <=> mBufferNeededNum' = Cardinality(Needed')
  BY NeededSet
<1>3. Cardinality(Needed \ {f}) = Cardinality(Needed) - 1 /\ IsFiniteSet(Needed \ {f})
  BY <1>1, NeededSet, FS_RemoveElement
<1>4. Cardinality(Needed \ {f}) \in Nat
  BY <1>3, FS_CardinalityType
<1>5. mBufferNeededNum = Cardinality(Needed) /\ Cardinality(Needed) \in Nat
  BY NeededSet
<1>6. CountBack(1) = Cardinality(Needed) - 1
  BY <1>3, <1>4, <1>5 DEF CountBack
<1> QED BY <1>1, <1>2, <1>3, <1>6

LEMMA NeededNext ==
  ASSUME Core, Core', Tokens, BuffersAccounted, BuffersAccounted', NeededExact, [Next]_vars
  PROVE  NeededExact'
<1>0. /\ request \in [Frames -> {"none", "rejected", "rejecting", "admitted", "recorded",
           "in flight", "attached", "submitting", "submitted", "refusing",
           "accepted", "refused", "answered"}]
      /\ mPendingFwkRecords \in [Frames -> SUBSET Parts] /\ ThreadsTyped
      /\ \A f \in Frames : Account(f) /\ Account(f)'
  BY DEF Core, TypeOK, RequestsTyped, RecordsTypeOK, BuffersAccounted, Account
<1>1. ASSUME UNCHANGED <<mBufferNeededNum, mPendingFwkRecords>>,
             \A f \in Frames : request'[f] \in {"admitted", "rejected"} <=>
                               request[f] \in {"admitted", "rejected"},
             \A f \in Frames, t \in Threads : Counting(t, f)' <=> Counting(t, f)
      PROVE  NeededExact'
  BY <1>1, NeedsSame DEF Needs
<1>2. ASSUME NEW f \in Frames, ProcessRequest(f)
      PROVE  NeededExact'
  <2>1. \A g \in Frames, t \in Threads : Counting(t, g)' <=> Counting(t, g)
    BY <1>2 DEF ProcessRequest, processCaptureRequest, setReqErrorAndForwardResult, Record, Attach,
                createExecutor, submitRequest2Vendor, process_capture_request, Return, Counting
  <2>2. CASE processCaptureRequest(f)
    <3>1. /\ request[f] = "none" /\ request'[f] \in {"admitted", "rejected"}
          /\ \A g \in Frames \ {f} : request'[g] = request[g]
          /\ mBufferNeededNum' = mBufferNeededNum + 1 /\ UNCHANGED mPendingFwkRecords
      BY <1>0, <2>2 DEF processCaptureRequest, Advance, CountBuffer
    <3>2. ~Needs(f) /\ Needs(f)' /\ \A g \in Frames \ {f} : Needs(g)' <=> Needs(g)
      BY <1>0, <2>1, <3>1, OnePlace DEF Needs
    <3>3. Needed' = Needed \cup {f} /\ f \notin Needed
      BY <3>2 DEF Needed
    <3>4. Cardinality(Needed \cup {f}) = Cardinality(Needed) + 1
      BY <3>3, NeededSet, FS_AddElement
    <3>5. NeededExact' <=> mBufferNeededNum' = Cardinality(Needed')
      BY NeededSet
    <3> QED BY <3>1, <3>3, <3>4, <3>5, NeededSet
  <2>3. CASE setReqErrorAndForwardResult(f) /\ Advance(f, "rejected", "rejecting")
    <3>1. /\ request[f] = "rejected" /\ request'[f] = "rejecting"
          /\ \A g \in Frames \ {f} : request'[g] = request[g]
          /\ mBufferNeededNum' = CountBack(1) /\ UNCHANGED mPendingFwkRecords
      BY <1>0, <2>3 DEF setReqErrorAndForwardResult, Advance, UncountBuffer
    <3>2. "buffer" \notin mPendingFwkRecords[f] /\ \A t \in Threads : ~Counting(t, f)
      BY <1>0, <3>1, OnePlace DEF BeforeRecord, Counting, Bringing
    <3>3. Needs(f) /\ ~Needs(f)' /\ \A g \in Frames \ {f} : Needs(g)' <=> Needs(g)
      BY <2>1, <3>1, <3>2 DEF Needs
    <3> QED BY <3>1, <3>3, NeedsLess
  <2>4. CASE setReqErrorAndForwardResult(f) /\ ~Advance(f, "rejected", "rejecting")
    <3>1. UNCHANGED <<mBufferNeededNum, mPendingFwkRecords>> /\ Advance(f, "rejecting", "answered")
      BY <2>4 DEF setReqErrorAndForwardResult, process_capture_result
    <3> QED BY <1>0, <1>1, <2>1, <3>1 DEF Advance
  <2>5. CASE Record(f)
    <3>1. /\ Advance(f, "admitted", "recorded") /\ UNCHANGED mBufferNeededNum
          /\ mPendingFwkRecords' = [mPendingFwkRecords EXCEPT ![f] = Parts]
      BY <2>5 DEF Record, insertPendingFwkRecords
    <3>2. \A g \in Frames : Needs(g)' <=> Needs(g)
      BY <1>0, <2>1, <3>1, Words DEF Needs, Advance
    <3> QED BY <3>1, <3>2, NeedsSame
  <2>6. CASE \/ createExecutor(f) \/ Attach(f) \/ submitRequest2Vendor(f)
             \/ process_capture_request(f) \/ Return(f)
    <3>1. UNCHANGED <<mPendingFwkRecords, mBufferNeededNum>>
      BY <2>6 DEF createExecutor, Attach, submitRequest2Vendor, process_capture_request, Return, recordVars
    <3>2. \A g \in Frames : request'[g] \in {"admitted", "rejected"} <=>
                            request[g] \in {"admitted", "rejected"}
      BY <1>0, <2>6 DEF createExecutor, Attach, submitRequest2Vendor, process_capture_request, Return,
                        Advance
    <3> QED BY <1>1, <2>1, <3>1, <3>2
  <2> QED BY <1>2, <2>2, <2>3, <2>4, <2>5, <2>6 DEF ProcessRequest
<1>3. ASSUME NEW t \in Threads, Callback(t)
      PROVE  NeededExact'
  <2>0. /\ UNCHANGED request /\ \A u \in Threads \ {t} : at'[u] = at[u]
    BY <1>3, OthersStay DEF Callback, Update, PassEarly, processCaptureResult, Load,
                            StoreNotified, complete, Store, Finish, Erase
  <2>1. PICK f \in Frames : f = at[t].frame
    BY <1>3, CalledLives
  <2>2. CASE Update(t)
    <3>1. /\ at[t].step = "update" /\ UNCHANGED mBufferNeededNum
          /\ mPendingFwkRecords'[f] = mPendingFwkRecords[f] \ Answered(f, at[t].event)
          /\ \A g \in Frames \ {f} : mPendingFwkRecords'[g] = mPendingFwkRecords[g]
          /\ Goto(t, IF Forwards(f, at[t].event) THEN "count" ELSE AfterAnswer(at[t].event))
      BY <1>0, <2>1, <2>2 DEF Update, updatePendingFwkRecords
    <3>2. /\ at'[t].frame = f
          /\ at'[t].step = IF Forwards(f, at[t].event) THEN "count" ELSE AfterAnswer(at[t].event)
      BY <1>0, <2>1, <3>1 DEF Goto, ThreadsTyped, Places
    <3>3. Counting(t, f)' <=> Forwards(f, at[t].event)
      BY <3>2 DEF Counting, AfterAnswer
    <3>4. \A g \in Frames : ~Counting(t, g) /\ (g # f => ~Counting(t, g)')
      BY <3>1, <3>2 DEF Counting
    <3>5. \A g \in Frames, u \in Threads \ {t} : Counting(u, g)' <=> Counting(u, g)
      BY <2>0 DEF Counting
    <3>6. \A g \in Frames \ {f} : Needs(g)' <=> Needs(g)
      BY <2>0, <3>1, <3>4, <3>5 DEF Needs
    <3>7. CASE Forwards(f, at[t].event)
      <4>1. "buffer" \in mPendingFwkRecords[f]
        BY <2>1, <2>2, <3>7, Forwarding DEF Forwards
      <4>2. Needs(f) /\ Needs(f)'
        BY <3>3, <3>7, <4>1 DEF Needs
      <4> QED BY <3>1, <3>6, <4>2, NeedsSame
    <3>8. CASE ~Forwards(f, at[t].event)
      <4>1. "buffer" \in mPendingFwkRecords'[f] <=> "buffer" \in mPendingFwkRecords[f]
        BY <1>0, <3>1, <3>8 DEF Forwards, Pending
      <4>2. Needs(f)' <=> Needs(f)
        BY <2>0, <3>3, <3>4, <3>5, <3>8, <4>1 DEF Needs
      <4> QED BY <3>1, <3>6, <4>2, NeedsSame
    <3> QED BY <3>7, <3>8
  <2>3. CASE processCaptureResult(t) /\ at[t].step = "count"
    <3>1. mBufferNeededNum' = CountBack(1) /\ UNCHANGED mPendingFwkRecords /\ Goto(t, "deliver")
      BY <2>3 DEF processCaptureResult, UncountBuffer
    <3>2. at'[t].step = "deliver"
      BY <1>0, <3>1 DEF Goto, ThreadsTyped, Places
    <3>3. Bringing(t, f) /\ Counting(t, f)
      BY <2>1, <2>3 DEF Bringing, Counting
    <3>4. /\ ~BeforeRecord(f) /\ "buffer" \notin mPendingFwkRecords[f]
          /\ \A u \in Threads \ {t} : ~Counting(u, f)
      BY <1>0, <3>3, OnePlace DEF Bringing, Counting
    <3>5. \A u \in Threads, g \in Frames : Counting(u, g)' <=> Counting(u, g) /\ u # t
      BY <2>0, <3>2 DEF Counting
    <3>6. \A g \in Frames \ {f} : ~Counting(t, g)
      BY <2>1 DEF Counting
    <3>7. Needs(f) /\ ~Needs(f)'
      BY <2>0, <3>1, <3>3, <3>4, <3>5 DEF Needs, BeforeRecord
    <3>8. \A g \in Frames \ {f} : Needs(g)' <=> Needs(g)
      BY <2>0, <3>1, <3>5, <3>6 DEF Needs
    <3> QED BY <3>1, <3>7, <3>8, NeedsLess
  <2>4. CASE \/ processCaptureResult(t) /\ at[t].step # "count"
             \/ PassEarly(t) \/ Finish(t) \/ Stores(t) \/ Erase(t)
    <3>1. /\ UNCHANGED <<mPendingFwkRecords, mBufferNeededNum>>
          /\ at[t].step # "count"
      BY <2>4, StoresOnly
         DEF processCaptureResult, process_capture_result, PassEarly, Finish, Erase, recordVars
    <3>2. at'[t].step # "count"
      <4>1. \/ \E step \in Steps \ {"count"} : Goto(t, step)
            \/ at' = [at EXCEPT ![t] = Idle]
        BY <2>4, <3>1, StoresOnly DEF processCaptureResult, PassEarly, Finish, Erase, AfterAnswer,
                                      Steps
      <4>2. at' = [at EXCEPT ![t] = Idle] => at'[t] = Idle
        BY <1>0 DEF ThreadsTyped
      <4>3. ASSUME NEW step \in Steps \ {"count"}, Goto(t, step)
            PROVE  at'[t].step # "count"
        BY <1>0, <4>3 DEF Goto, ThreadsTyped, Places
      <4> QED BY <4>1, <4>2, <4>3, Words
    <3>3. \A g \in Frames, u \in Threads : Counting(u, g)' <=> Counting(u, g)
      BY <2>0, <3>1, <3>2 DEF Counting
    <3> QED BY <1>1, <2>0, <3>1, <3>3
  <2> QED BY <1>3, <2>2, <2>3, <2>4 DEF Callback, Stores
<1>4. CASE flushPendingFwkRecords
  <2> DEFINE F == {f \in Frames : "buffer" \in mPendingFwkRecords[f]}
  <2>1. /\ UNCHANGED <<request, at>> /\ mBufferNeededNum' = CountBack(Cardinality(F))
        /\ \A f \in Frames : mPendingFwkRecords'[f] = {}
    BY <1>4 DEF flushPendingFwkRecords, flushRecords
  <2>2. ASSUME NEW f \in Frames
        PROVE  Needs(f)' <=> Needs(f) /\ "buffer" \notin mPendingFwkRecords[f]
    <3>1. Needs(f)' <=> request[f] \in {"admitted", "rejected"} \/ \E t \in Threads : Counting(t, f)
      BY <2>1 DEF Needs, Counting
    <3>2. "buffer" \in mPendingFwkRecords[f] =>
            ~BeforeRecord(f) /\ \A t \in Threads : ~Counting(t, f)
      BY <1>0, OnePlace DEF Counting, Bringing
    <3> QED BY <3>1, <3>2 DEF Needs, BeforeRecord
  <2>3. Needed' = Needed \ F /\ Needed \cap F = F
    BY <2>2 DEF Needed, Needs
  <2> HIDE DEF F
  <2>4. Cardinality(Needed \ F) = Cardinality(Needed) - Cardinality(F) /\ IsFiniteSet(Needed \ F)
    BY <2>3, NeededSet, FS_Difference
  <2>5. Cardinality(Needed \ F) \in Nat
    BY <2>4, FS_CardinalityType
  <2>6. Cardinality(F) \in Nat
    <3>1. F \subseteq Needed
      BY <2>3
    <3> QED BY <3>1, NeededSet, FS_Subset, FS_CardinalityType
  <2>7. CountBack(Cardinality(F)) = Cardinality(Needed) - Cardinality(F)
    BY <2>4, <2>5, <2>6, NeededSet DEF CountBack
  <2>8. NeededExact' <=> mBufferNeededNum' = Cardinality(Needed')
    BY NeededSet
  <2> QED BY <2>1, <2>3, <2>4, <2>7, <2>8
<1>5. ASSUME NEW t \in Threads, UNCHANGED <<recordVars, request>>,
             at[t].step # "count", at'[t].step # "count", \A u \in Threads \ {t} : at'[u] = at[u]
      PROVE  NeededExact'
  <2>1. \A f \in Frames, u \in Threads : Counting(u, f)' <=> Counting(u, f)
    BY <1>5 DEF Counting
  <2> QED BY <1>1, <1>5, <2>1 DEF recordVars
<1>6. CASE \E t \in Threads :
             /\ UNCHANGED <<recordVars, request>> /\ \A u \in Threads \ {t} : at'[u] = at[u]
             /\ at[t].step \notin {"count", "deliver"} /\ at'[t].step \notin {"count", "deliver"}
  BY <1>5, <1>6
<1>7. CASE UNCHANGED <<recordVars, request, at>>
  BY <1>1, <1>7 DEF recordVars, Counting
<1> QED BY <1>2, <1>3, <1>4, <1>6, <1>7, Elsewhere

\* The count by which a flush waits is that of the buffers no call has begun to
\* return; it is never clamped.
THEOREM CountedExactly == Spec => []NeededExact
<1>1. Init => NeededExact
  <2> SUFFICES ASSUME Init PROVE NeededExact
    OBVIOUS
  <2>1. \A t \in Threads : at[t] = Idle
    BY DEF Init
  <2>2. \A f \in Frames : request[f] = "none" /\ mPendingFwkRecords[f] = {}
    BY DEF Init, RecordsInit
  <2>3. Needed = {} /\ mBufferNeededNum = 0
    BY <2>1, <2>2, Words DEF Init, RecordsInit, Needed, Needs, Counting
  <2> QED BY <2>3, NeededSet, FS_EmptySet
<1>2. Core /\ Core' /\ Tokens /\ BuffersAccounted /\ BuffersAccounted' /\ NeededExact /\ [Next]_vars
        => NeededExact'
  BY NeededNext
<1> QED BY <1>1, <1>2, CoreAlways, TokensAlways, AccountAlways, PTL DEF Spec

-----------------------------------------------------------------------------
(* When all is quiet *)

\* A snapshot's attached request is pending until the flush, and is taken off with its record.
Attachments == \A f \in Snapshots :
  /\ request[f] \in {"recorded", "in flight", "attached"} /\ ~Pending(f) => mFlush
  /\ request[f] \in {"attached", "submitting", "submitted", "accepted"} /\ Pending(f) =>
       f \in mAttachVendorFrame
  /\ f \in mVendorInflights /\ request[f] \in {"submitting", "submitted", "accepted"}
       /\ ~Pending(f) => mAttachedCount[f] = 0

\* What the vendor no longer owes, the executor was told, or a callback is about to tell it.
Notifies(t, f) ==
  /\ at[t].frame = f /\ at[t].step \in {"update", "notify", "notified"}
  /\ at[t].event \in {"shutter", "ERROR_REQUEST"}
Notified == \A f \in Snapshots \cap mVendorInflights :
  InVendor(f) /\ "shutter" \notin owed[f] =>
    "NOTIFY" \in told[f] \/ \E t \in VendorThreads : Notifies(t, f)
Filled == \A f \in Snapshots \cap mVendorInflights :
  InVendor(f) /\ ~Owing(f) => "buffer" \in flags[f] \/ \E t \in VendorThreads : BringsBuffer(t, f)

\* An executor with all it needs is told that it is complete: the last result is on its way
\* to do so.
Concluding(t, f) ==
  /\ at[t].frame = f /\ at[t].event \in Results
  /\ at[t].step \in {"count", "deliver", "finish", "complete", "completed"}
Concluded == \A f \in Snapshots :
  {"meta", "buffer"} \subseteq flags[f] =>
    "RESULT" \in told[f] \/ \E t \in VendorThreads : Concluding(t, f)
Notifying == \A t \in Threads :
  at[t].step \in {"notify", "notified"} => at[t].event \in Notifications

\* The vendor owes an offline session nothing, and the manager sleeps only if something of
\* the session will wake it.
Reclaiming ==
  /\ registry # "active" => \A f \in Frames : owed[f] = {}
  /\ registry = "offline" /\ reclaim = "waiting" =>
       hasPendingPhotographers \/ at[Darkroom] # Idle

LEMMA AttachmentsNext ==
  ASSUME Core, Entrusted, Attachments, [Next]_vars
  PROVE  Attachments'
<1> DEFINE
      Kept1(f) == request[f] \in {"recorded", "in flight", "attached"} /\ ~Pending(f) => mFlush
      Kept2(f) == request[f] \in {"attached", "submitting", "submitted", "accepted"} /\ Pending(f)
                    => f \in mAttachVendorFrame
      Kept3(f) == f \in mVendorInflights /\ request[f] \in {"submitting", "submitted", "accepted"}
                    /\ ~Pending(f) => mAttachedCount[f] = 0
      Good(f) == Kept1(f) /\ Kept2(f) /\ Kept3(f)
<1> SUFFICES ASSUME NEW f \in Snapshots
             PROVE  Good(f)'
  BY DEF Attachments
<1>0. /\ f \in Frames /\ Good(f)
      /\ f \in mAttachVendorFrame => mAttachedCount[f] = 1
      /\ mPendingFwkRecords \in [Frames -> SUBSET Parts]
      /\ request \in [Frames -> {"none", "rejected", "rejecting", "admitted", "recorded",
           "in flight", "attached", "submitting", "submitted", "refusing",
           "accepted", "refused", "answered"}]
      /\ mAttachedCount \in [Frames -> {0, 1}]
  BY Constants DEF Attachments, Core, TypeOK, Attaching, RecordsTypeOK, RequestsTyped, AttachedTyped
<1>1. ASSUME request'[f] = request[f], mPendingFwkRecords'[f] = mPendingFwkRecords[f],
             f \in mAttachVendorFrame => f \in mAttachVendorFrame',
             mAttachedCount'[f] = mAttachedCount[f],
             f \in mVendorInflights' => f \in mVendorInflights, mFlush => mFlush'
      PROVE  Good(f)'
  BY <1>0, <1>1 DEF Pending
<1>2. ASSUME NEW g \in Frames, ProcessRequest(g)
      PROVE  Good(f)'
  <2>0. \A h \in Frames \ {g} : request'[h] = request[h]
    BY <1>0, <1>2 DEF ProcessRequest, processCaptureRequest, Record, Attach, Advance,
         setReqErrorAndForwardResult, createExecutor, submitRequest2Vendor,
         process_capture_request, Return
  <2>1. CASE Record(g)
    <3>1. /\ mPendingFwkRecords' = [mPendingFwkRecords EXCEPT ![g] = Parts]
          /\ UNCHANGED <<mAttachVendorFrame, mAttachedCount, mVendorInflights, mFlush>>
      BY <2>1 DEF Record, insertPendingFwkRecords, executorVars, flushVars
    <3>2. CASE g = f
      <4>1. request'[f] = "recorded"
        BY <1>0, <2>1, <3>2 DEF Record, Advance
      <4>2. mPendingFwkRecords'[f] # {}
        BY <1>0, <3>1, <3>2 DEF Parts
      <4> QED BY <4>1, <4>2 DEF Pending
    <3>3. CASE g # f
      BY <1>0, <1>1, <2>0, <3>1, <3>3
    <3> QED BY <3>2, <3>3
  <2>2. CASE createExecutor(g)
    <3>1. /\ UNCHANGED <<mPendingFwkRecords, mAttachVendorFrame, mFlush>>
          /\ mVendorInflights' = mVendorInflights \cup {g}
          /\ UNCHANGED mAttachedCount \/ mAttachedCount' = [mAttachedCount EXCEPT ![g] = 1]
      BY <2>2 DEF createExecutor, recordVars, flushVars
    <3>2. CASE g = f
      <4>1. request[f] = "recorded" /\ request'[f] = "in flight"
        BY <1>0, <2>2, <3>2 DEF createExecutor, Advance
      <4> QED BY <1>0, <3>1, <4>1 DEF Pending
    <3>3. CASE g # f
      BY <1>0, <1>1, <2>0, <3>1, <3>3
    <3> QED BY <3>2, <3>3
  <2>3. CASE Attach(g)
    <3>1. /\ UNCHANGED <<mPendingFwkRecords, mFlush, mVendorInflights, mAttachedCount>>
          /\ mAttachVendorFrame' = mAttachVendorFrame \cup ({g} \cap Snapshots)
      BY <2>3 DEF Attach, recordVars, flushVars
    <3>2. CASE g = f
      <4>1. request[f] = "in flight" /\ request'[f] = "attached" /\ f \in mAttachVendorFrame'
        BY <1>0, <2>3, <3>1, <3>2 DEF Attach, Advance
      <4> QED BY <1>0, <3>1, <4>1 DEF Pending
    <3>3. CASE g # f
      BY <1>0, <1>1, <2>0, <3>1, <3>3
    <3> QED BY <3>2, <3>3
  <2>4. CASE submitRequest2Vendor(g) \/ process_capture_request(g) \/ Return(g)
    <3>1. /\ UNCHANGED <<mPendingFwkRecords, mFlush, mAttachVendorFrame, mAttachedCount>>
          /\ mVendorInflights' \subseteq mVendorInflights
      BY <2>4 DEF submitRequest2Vendor, process_capture_request, Return, recordVars, flushVars,
                  executorVars
    <3>2. CASE g = f
      <4>1. \/ request[f] = "attached" /\ request'[f] = "refusing"
            \/ request[f] = "attached" /\ request'[f] = "submitting" /\ ~mFlush
            \/ request[f] = "submitting" /\ request'[f] = "submitted"
            \/ request[f] = "submitted" /\ request'[f] = "accepted"
            \/ request[f] = "refusing" /\ request'[f] = "refused"
        BY <1>0, <2>4, <3>2 DEF submitRequest2Vendor, process_capture_request, Return, Advance
      <4> QED BY <1>0, <3>1, <4>1 DEF Pending
    <3>3. CASE g # f
      BY <1>0, <1>1, <2>0, <3>1, <3>3
    <3> QED BY <3>2, <3>3
  <2>5. CASE processCaptureRequest(g) \/ setReqErrorAndForwardResult(g)
    <3>1. UNCHANGED <<mPendingFwkRecords, mFlush, mAttachVendorFrame, mAttachedCount, mVendorInflights>>
      BY <2>5 DEF processCaptureRequest, setReqErrorAndForwardResult, CountBuffer, UncountBuffer,
                  process_capture_result, flushVars, executorVars
    <3>2. CASE g = f
      <4>1. request'[f] \in {"rejected", "rejecting", "admitted", "answered"}
        BY <1>0, <2>5, <3>2 DEF processCaptureRequest, setReqErrorAndForwardResult, Advance
      <4> QED BY <4>1
    <3>3. CASE g # f
      BY <1>0, <1>1, <2>0, <3>1, <3>3
    <3> QED BY <3>2, <3>3
  <2> QED BY <1>2, <2>1, <2>2, <2>3, <2>4, <2>5 DEF ProcessRequest
<1>3. ASSUME NEW t \in Threads, Update(t)
      PROVE  Good(f)'
  <2>0. PICK g \in Frames : g = at[t].frame
    BY <1>3, CalledLives DEF Callback
  <2> DEFINE parts == Answered(g, at[t].event)
             gone == IF Completes(g, parts) THEN {g} ELSE {}
  <2>1. /\ mPendingFwkRecords' = [mPendingFwkRecords EXCEPT ![g] = @ \ parts]
        /\ mAttachVendorFrame' = mAttachVendorFrame \ gone
        /\ mAttachedCount' = [h \in Frames |->
             IF h \in gone \cap mAttachVendorFrame \cap mVendorInflights
             THEN mAttachedCount[h] - 1 ELSE mAttachedCount[h]]
        /\ UNCHANGED <<request, mVendorInflights, mFlush>>
    BY <1>3, <2>0, Zenon DEF Update, updatePendingFwkRecords, removeAttachFwkRequest, flushVars
  <2>2. CASE g # f
    <3>1. f \notin gone
      BY <2>2
    <3>2. mAttachedCount'[f] = mAttachedCount[f] /\ (f \in mAttachVendorFrame => f \in mAttachVendorFrame')
      BY <1>0, <2>1, <3>1
    <3>3. mPendingFwkRecords'[f] = mPendingFwkRecords[f]
      BY <1>0, <2>1, <2>2
    <3> QED BY <1>1, <2>1, <3>2, <3>3
  <2>3. CASE g = f
    <3>1. InVendor(f)
      <4>1. at[t] # Idle
        BY <1>3, Words DEF Update
      <4> QED BY <2>0, <2>3, <4>1, AtVendor
    <3>2. mPendingFwkRecords'[f] = mPendingFwkRecords[f] \ parts
      BY <1>0, <2>1, <2>3
    <3>3. CASE Completes(f, parts)
      <4>1. Pending(f) /\ mPendingFwkRecords'[f] = {}
        BY <3>2, <3>3 DEF Completes
      <4>2. f \in mAttachVendorFrame
        BY <1>0, <3>1, <4>1 DEF InVendor
      <4>3. f \in mVendorInflights => mAttachedCount'[f] = mAttachedCount[f] - 1
        BY <1>0, <2>1, <2>3, <3>3, <4>2
      <4>4. f \in mVendorInflights' => mAttachedCount'[f] = 0
        <5>1. mAttachedCount[f] = 1 /\ UNCHANGED mVendorInflights
          BY <1>0, <2>1, <4>2
        <5> QED BY <4>3, <5>1
      <4>5. request'[f] \in {"submitted", "accepted"} /\ ~Pending(f)'
        BY <2>1, <3>1, <4>1 DEF InVendor, Pending
      <4>6. Kept1(f)'
        BY <4>5
      <4>7. Kept2(f)' /\ Kept3(f)'
        BY <4>4, <4>5 DEF Pending
      <4> QED BY <4>6, <4>7
    <3>4. CASE ~Completes(f, parts)
      <4>1. mAttachedCount'[f] = mAttachedCount[f] /\ mAttachVendorFrame' = mAttachVendorFrame
        BY <1>0, <2>1, <2>3, <3>4
      <4>2. mPendingFwkRecords'[f] = {} <=> mPendingFwkRecords[f] = {}
        BY <3>2, <3>4 DEF Completes, Pending
      <4> QED BY <1>0, <2>1, <3>1, <4>1, <4>2 DEF Pending, InVendor
    <3> QED BY <3>3, <3>4
  <2> QED BY <2>2, <2>3
<1>4. ASSUME NEW t \in Threads,
             PassEarly(t) \/ processCaptureResult(t) \/ Finish(t) \/ Stores(t) \/ Erase(t)
      PROVE  Good(f)'
  <2>1. /\ UNCHANGED <<request, mPendingFwkRecords, mAttachVendorFrame, mAttachedCount, mFlush>>
        /\ mVendorInflights' \subseteq mVendorInflights
    BY <1>4, StoresOnly DEF PassEarly, processCaptureResult, Finish, Erase, recordVars, executorVars,
                            flushVars, UncountBuffer, process_capture_result
  <2> QED BY <1>1, <2>1
<1>5. CASE flushPendingFwkRecords
  <2> DEFINE flushed == {h \in mAttachVendorFrame : Pending(h)}
  <2>1. /\ mFlush' /\ mPendingFwkRecords'[f] = {} /\ UNCHANGED request
        /\ mAttachVendorFrame' = mAttachVendorFrame \ flushed
        /\ mAttachedCount' = [h \in Frames |->
             IF h \in flushed \cap mAttachVendorFrame \cap mVendorInflights
             THEN mAttachedCount[h] - 1 ELSE mAttachedCount[h]]
    <3>1. mFlush' /\ mPendingFwkRecords'[f] = {}
      BY <1>0, <1>5 DEF flushPendingFwkRecords, flushRecords, FlushStep, Core, Flushing
    <3> QED BY <1>5, <3>1, Zenon DEF flushPendingFwkRecords, removeAttachFwkRequest
  <2>2. mVendorInflights' \subseteq mVendorInflights
    BY <1>5 DEF flushPendingFwkRecords
  <2>3. mAttachedCount'[f] = IF f \in flushed \cap mVendorInflights
                             THEN mAttachedCount[f] - 1 ELSE mAttachedCount[f]
    BY <1>0, <2>1
  <2>4. CASE f \in mVendorInflights' /\ request[f] \in {"submitting", "submitted", "accepted"}
    <3>1. CASE Pending(f)
      <4>1. f \in mAttachVendorFrame
        BY <1>0, <2>4, <3>1
      <4>2. mAttachedCount'[f] = 0
        <5>1. mAttachedCount[f] = 1 /\ f \in flushed \cap mVendorInflights
          BY <1>0, <2>2, <2>4, <3>1, <4>1
        <5> QED BY <2>3, <5>1
      <4>3. request'[f] \in {"submitting", "submitted", "accepted"} /\ ~Pending(f)'
        BY <2>1, <2>4 DEF Pending
      <4>4. Kept1(f)'
        BY <4>3
      <4>5. Kept2(f)' /\ Kept3(f)'
        BY <4>2, <4>3 DEF Pending
      <4> QED BY <4>4, <4>5
    <3>2. CASE ~Pending(f)
      BY <1>0, <2>1, <2>2, <2>3, <2>4, <3>2 DEF Pending
    <3> QED BY <3>1, <3>2
  <2> QED BY <2>1, <2>4 DEF Pending
<1>6. CASE \/ \E g \in Frames : TakeAnchor(g)
           \/ \E g \in Snapshots : AnswerOf(g)
           \/ \E t \in VendorThreads, g \in Frames, event \in Notifications \cup Results :
                 Arrive(t, g, event)
           \/ decreasePendingFinalSnapCount \/ SignalReclaim \/ Manages
  <2>1. UNCHANGED <<request, mPendingFwkRecords, mAttachVendorFrame, mAttachedCount, mVendorInflights>>
    BY <1>6 DEF TakeAnchor, AnswerOf, Arrive, decreasePendingFinalSnapCount, SignalReclaim, Manages,
                recordVars, executorVars
  <2>2. mFlush => mFlush'
    BY <1>6 DEF TakeAnchor, AnswerOf, Arrive, decreasePendingFinalSnapCount, SignalReclaim, Manages,
                flushVars, Flush, flush2Vendor, waitLoop, waitAndResetToInitStatus, unregisterSession,
                sessionReclaimLoop
  <2> QED BY <1>1, <2>1, <2>2
<1> QED BY <1>2, <1>3, <1>4, <1>5, <1>6, Cases DEF Callback, Stores

\* A callback of the vendor is moved by nobody else.
LEMMA MovesItself ==
  ASSUME Core, [Next]_vars, NEW t \in VendorThreads, at[t] # Idle, at'[t] # at[t]
  PROVE  Callback(t)
<1>1. t \in Threads /\ t # Loop /\ t # Darkroom /\ ThreadsTyped
  BY Constants DEF Core, TypeOK
<1>2. ASSUME NEW u \in Threads, Callback(u)
      PROVE  Callback(t)
  BY <1>1, <1>2, OthersStay
<1>3. ASSUME NEW u \in VendorThreads, NEW g \in Frames, NEW event \in Notifications \cup Results,
             Arrive(u, g, event)
      PROVE  FALSE
  <2>1. u # t
    BY <1>3 DEF Arrive
  <2>2. u \in Threads /\ BeginAt(u, g, event)
    BY <1>3, Constants DEF Arrive
  <2> QED BY <1>1, <2>1, <2>2, Beginning
<1>4. ASSUME NEW g \in Frames, TakeAnchor(g)
      PROVE  FALSE
  BY <1>1, <1>4, Constants DEF TakeAnchor, BeginAt, ThreadsTyped
<1>5. CASE (\E g \in Snapshots : AnswerOf(g)) \/ decreasePendingFinalSnapCount \/ SignalReclaim
  <2>1. \A u \in Threads \ {Darkroom} : at'[u] = at[u]
    BY <1>1, <1>5, Constants DEF AnswerOf, decreasePendingFinalSnapCount, SignalReclaim, Goto, ThreadsTyped
  <2> QED BY <1>1, <2>1
<1>6. CASE (\E g \in Frames : ProcessRequest(g)) \/ flushPendingFwkRecords \/ Manages
  BY <1>6 DEF ProcessRequest, processCaptureRequest, setReqErrorAndForwardResult, Record, Attach,
              createExecutor, submitRequest2Vendor, process_capture_request, Return,
              flushPendingFwkRecords, Manages
<1> QED BY <1>2, <1>3, <1>4, <1>5, <1>6, Cases

\* An executor the vendor knows forgets nothing.
LEMMA Remembers ==
  ASSUME Core, Core', [Next]_vars, NEW f \in Frames, f \in mVendorInflights', InVendor(f)'
  PROVE  /\ f \in mVendorInflights
         /\ told[f] \subseteq told'[f] /\ flags[f] \subseteq flags'[f]
<1>1. executor'[f] = "alive"
  BY DEF Core, Living
<1>2. ~createExecutor(f)
  BY DEF createExecutor, Advance, InVendor, Core, TypeOK, RequestsTyped
<1>3. f \in mVendorInflights
  BY <1>2, InflightSteps
<1>4. ASSUME NEW t \in Threads, at[t].frame = f, Update(t) \/ Finish(t) \/ Stores(t)
      PROVE  told[f] \subseteq told'[f] /\ flags[f] \subseteq flags'[f]
  <2>0. /\ flags \in [Frames -> SUBSET {"meta", "no meta", "buffer", "error", "final", "reported",
                                        "early"}]
        /\ told \in [Frames -> SUBSET ALL_FINISH]
    BY DEF Core, TypeOK, ExecutorsTyped, StatusTyped
  <2>1. \/ UNCHANGED told
        \/ \E finish : told' = [told EXCEPT ![f] = @ \cup {finish}]
    BY <1>4 DEF Update, Finish, Stores, Load, StoreNotified, complete, Store, statusVars
  <2>2. \/ UNCHANGED flags
        \/ \E more : flags' = [flags EXCEPT ![f] = @ \cup more]
    BY <1>4, StoresOnly DEF Update, Finish, goToDarkroom, GiveUp
  <2>3. told[f] \subseteq told'[f]
    BY <2>0, <2>1
  <2>4. flags[f] \subseteq flags'[f]
    BY <2>0, <2>2
  <2> QED BY <2>3, <2>4
<1> QED BY <1>1, <1>2, <1>3, <1>4, ExecutorSteps DEF StatusKept

\* Only process_capture_request puts a request into the vendor's hands.
LEMMA Entering ==
  ASSUME Core, [Next]_vars, NEW f \in Frames, InVendor(f)', ~InVendor(f)
  PROVE  process_capture_request(f)
<1>0. request \in [Frames -> {"none", "rejected", "rejecting", "admitted", "recorded",
        "in flight", "attached", "submitting", "submitted", "refusing",
        "accepted", "refused", "answered"}]
  BY DEF Core, TypeOK, RequestsTyped
<1>1. ASSUME NEW g \in Frames, ProcessRequest(g)
      PROVE  process_capture_request(f)
  <2>1. process_capture_request(g)
    BY <1>0, <1>1 DEF InVendor, Advance, ProcessRequest, processCaptureRequest, Record, Attach,
                setReqErrorAndForwardResult, createExecutor, submitRequest2Vendor, Return
  <2>2. g = f
    BY <1>0, <2>1 DEF InVendor, process_capture_request, Advance
  <2> QED BY <2>1, <2>2
<1>2. ASSUME NEW t \in Threads, Callback(t)
      PROVE  UNCHANGED request
  BY <1>2 DEF Callback, Update, PassEarly, processCaptureResult, Load, StoreNotified, complete,
              Store, Finish, Erase
<1>3. CASE \/ \E g \in Frames : TakeAnchor(g)
           \/ \E g \in Snapshots : AnswerOf(g)
           \/ \E t \in VendorThreads, g \in Frames, event \in Notifications \cup Results :
                 Arrive(t, g, event)
           \/ decreasePendingFinalSnapCount \/ SignalReclaim \/ flushPendingFwkRecords \/ Manages
  <2>1. UNCHANGED request
    BY <1>3 DEF TakeAnchor, AnswerOf, Arrive, decreasePendingFinalSnapCount, SignalReclaim,
                flushPendingFwkRecords, Manages
  <2> QED BY <2>1 DEF InVendor
<1> QED BY <1>1, <1>2, <1>3, Cases DEF InVendor

\* A callback that has arrived at an executor tells it what it brings: a result at once, a
\* notification in the steps that follow.
LEMMA Telling ==
  ASSUME Core, Core', [Next]_vars, NEW t \in VendorThreads, NEW f \in Frames,
         at[t].frame = f, at[t].step = "update", at'[t] # at[t]
  PROVE  /\ LearntFirst(at[t].event) \subseteq flags'[f]
         /\ at[t].event \in {"shutter", "ERROR_REQUEST"} => Notifies(t, f)'
<1>0. ThreadsTyped /\ t \in Threads
  BY Constants DEF Core, TypeOK
<1>1. at[t] # Idle /\ at[t].event # "early"
  BY Constants, Words DEF Core, Positions, Positioned
<1>2. Callback(t)
  BY <1>1, MovesItself
<1>3. Update(t)
  BY <1>1, <1>2 DEF Callback, PassEarly, SecondEarly, processCaptureResult, Load, StoreNotified,
                    complete, Store, Finish, Erase
<1>4. LearntFirst(at[t].event) \subseteq flags'[f]
  BY <1>0, <1>3, Updating
<1>5. ASSUME at[t].event \in {"shutter", "ERROR_REQUEST"}
      PROVE  Notifies(t, f)'
  <2>1. ~Forwards(f, at[t].event) /\ AfterAnswer(at[t].event) = "notify"
    BY <1>5, NoBuffer DEF Forwards, AfterAnswer, Notifications
  <2>2. Goto(t, "notify") /\ "notify" \in Steps
    BY <1>3, <2>1 DEF Update, Steps
  <2>3. at'[t] = [frame |-> at[t].frame, event |-> at[t].event, step |-> "notify"]
    BY <1>0, <2>2, Going
  <2>4. at'[t].frame = f /\ at'[t].event = at[t].event /\ at'[t].step = "notify"
    BY <2>3
  <2> QED BY <1>5, <2>4 DEF Notifies
<1> QED BY <1>4, <1>5

\* A notification on its way is told in the end.
LEMMA NotifiesOn ==
  ASSUME Core, Core', [Next]_vars, NEW t \in VendorThreads, NEW f \in Frames, Notifies(t, f)
  PROVE  Notifies(t, f)' \/ "NOTIFY" \in told'[f]
<1>0. /\ told \in [Frames -> SUBSET ALL_FINISH] /\ ThreadsTyped /\ t \in Threads
      /\ at[t].frame = f /\ at[t].step \in {"update", "notify", "notified"}
      /\ at[t].event \in {"shutter", "ERROR_REQUEST"}
  BY Constants DEF Core, TypeOK, StatusTyped, Notifies
<1>1. CASE at'[t] = at[t]
  BY <1>1 DEF Notifies
<1>2. CASE at'[t] # at[t] /\ at[t].step = "update"
  BY <1>0, <1>2, Telling
<1>3. CASE at'[t] # at[t] /\ at[t].step \in {"notify", "notified"}
  <2>1. at[t] # Idle
    BY <1>3, Words
  <2>2. Callback(t)
    BY <1>3, <2>1, MovesItself
  <2>3. Load(t) \/ StoreNotified(t)
    BY <1>3, <2>2 DEF Callback, Update, PassEarly, processCaptureResult, complete, Finish, Erase
  <2>4. CASE StoreNotified(t)
    BY <1>0, <2>4 DEF StoreNotified, Store
  <2>5. CASE Load(t)
    <3>1. PICK step \in {"notified", "completed"} :
            Goto(t, step) /\ (at[t].step = "notify" <=> step = "notified")
      BY <2>5 DEF Load
    <3>2. step = "notified"
      BY <1>3, <2>5, <3>1 DEF Load
    <3>3. at'[t] = [frame |-> at[t].frame, event |-> at[t].event, step |-> step]
      BY <1>0, <3>1, Going DEF Steps
    <3>4. at'[t].frame = f /\ at'[t].event = at[t].event /\ at'[t].step = "notified"
      BY <1>0, <3>2, <3>3
    <3> QED BY <1>0, <3>4 DEF Notifies
  <2> QED BY <2>3, <2>4, <2>5
<1> QED BY <1>0, <1>1, <1>2, <1>3

\* What the vendor gives, in one of its threads, to an executor that it finds.
LEMMA Giving ==
  ASSUME Core, Tokens, [Next]_vars, NEW f \in Frames, InVendor(f), f \in mVendorInflights,
         owed'[f] # owed[f]
  PROVE  \E t \in VendorThreads, event \in Notifications \cup Results :
           /\ Settles(f, event, owed[f], owed'[f])
           /\ at'[t] = [frame |-> f, event |-> event, step |-> "update"]
<1>1. \A g \in Frames : ~process_capture_request(g)
  <2> SUFFICES ASSUME NEW g \in Frames, process_capture_request(g)
               PROVE  FALSE
    OBVIOUS
  <2>1. g = f
    BY Sending
  <2> QED BY <2>1, Sending
<1>2. PICK t \in VendorThreads, g \in Frames, event \in Notifications \cup Results : Arrive(t, g, event)
  BY <1>1, OwedSteps
<1>3. g = f
  BY <1>2, Arrival
<1>4. Settles(f, event, owed[f], owed'[f])
  <2>1. \E after : Settles(f, event, owed[f], after) /\ owed' = [owed EXCEPT ![f] = after]
    BY <1>2, <1>3 DEF Arrive
  <2> QED BY <2>1 DEF Core, TypeOK, RequestsTyped
<1>5. at'[t] = [frame |-> f, event |-> event, step |-> "update"]
  <2>1. t \in Threads /\ ThreadsTyped /\ BeginAt(t, f, event)
    BY <1>2, <1>3, Constants DEF Arrive, Core, TypeOK
  <2> QED BY <2>1, Beginning
<1> QED BY <1>4, <1>5

LEMMA NotifiedNext ==
  ASSUME Core, Core', Tokens, Notified, [Next]_vars
  PROVE  Notified'
<1> SUFFICES ASSUME NEW f \in Snapshots, f \in mVendorInflights', InVendor(f)', "shutter" \notin owed'[f]
             PROVE  "NOTIFY" \in told'[f] \/ \E t \in VendorThreads : Notifies(t, f)'
  BY DEF Notified
<1>0. f \in Frames /\ f \in mVendorInflights /\ told[f] \subseteq told'[f]
  BY Remembers, Constants
<1>1. InVendor(f)
  <2>1. process_capture_request(f) => owed'[f] = Parts
    BY <1>0, Sending
  <2> QED BY <1>0, <2>1, Entering DEF Parts
<1>2. CASE owed'[f] # owed[f] /\ "shutter" \in owed[f]
  <2>1. PICK t \in VendorThreads, event \in Notifications \cup Results :
          /\ Settles(f, event, owed[f], owed'[f])
          /\ at'[t] = [frame |-> f, event |-> event, step |-> "update"]
    BY <1>0, <1>1, <1>2, Giving
  <2>2. event \in {"shutter", "ERROR_REQUEST"}
    BY <1>2, <2>1 DEF Settles
  <2>3. Notifies(t, f)'
    <3>1. at'[t].frame = f /\ at'[t].event = event /\ at'[t].step = "update"
      BY <2>1
    <3> QED BY <2>2, <3>1 DEF Notifies
  <2> QED BY <2>3
<1>3. CASE "shutter" \notin owed[f]
  <2>1. CASE "NOTIFY" \in told[f]
    BY <1>0, <2>1
  <2>2. ASSUME NEW t \in VendorThreads, Notifies(t, f)
        PROVE  "NOTIFY" \in told'[f] \/ Notifies(t, f)'
    BY <1>0, <2>2, NotifiesOn
  <2> QED BY <1>0, <1>1, <1>3, <2>1, <2>2 DEF Notified
<1> QED BY <1>2, <1>3

LEMMA FilledNext ==
  ASSUME Core, Core', Tokens, Filled, [Next]_vars
  PROVE  Filled'
<1> SUFFICES ASSUME NEW f \in Snapshots, f \in mVendorInflights', InVendor(f)', ~Owing(f)'
             PROVE  "buffer" \in flags'[f] \/ \E t \in VendorThreads : BringsBuffer(t, f)'
  BY DEF Filled
<1>0. f \in Frames /\ f \in mVendorInflights /\ flags[f] \subseteq flags'[f]
  BY Remembers, Constants
<1>1. InVendor(f)
  <2>1. process_capture_request(f) => owed'[f] = Parts
    BY <1>0, Sending
  <2>2. owed'[f] # Parts
    BY DEF Owing, Parts
  <2> QED BY <1>0, <2>1, <2>2, Entering
<1>2. CASE owed'[f] # owed[f] /\ Owing(f)
  <2>1. PICK t \in VendorThreads, event \in Notifications \cup Results :
          /\ Settles(f, event, owed[f], owed'[f])
          /\ at'[t] = [frame |-> f, event |-> event, step |-> "update"]
    BY <1>0, <1>1, <1>2, Giving
  <2>2. event \in {"buffer", "bad buffer"}
    BY <1>2, <2>1 DEF Settles, Owing
  <2>3. BringsBuffer(t, f)'
    <3>1. at'[t].frame = f /\ at'[t].event = event /\ at'[t].step = "update"
      BY <2>1
    <3> QED BY <2>2, <3>1 DEF BringsBuffer
  <2> QED BY <2>3
<1>3. CASE ~Owing(f)
  <2>1. CASE "buffer" \in flags[f]
    BY <1>0, <2>1
  <2>2. ASSUME NEW t \in VendorThreads, BringsBuffer(t, f)
        PROVE  "buffer" \in flags'[f] \/ BringsBuffer(t, f)'
    <3>1. at'[t] = at[t] => BringsBuffer(t, f)'
      BY <2>2 DEF BringsBuffer
    <3>2. at'[t] # at[t] => LearntFirst(at[t].event) \subseteq flags'[f]
      BY <1>0, <2>2, Telling DEF BringsBuffer
    <3>3. "buffer" \in LearntFirst(at[t].event)
      BY <2>2 DEF BringsBuffer, Learnt, LearntFirst, Notifications
    <3> QED BY <3>1, <3>2, <3>3
  <2> QED BY <1>0, <1>1, <1>3, <2>1, <2>2 DEF Filled
<1>4. Owing(f) => owed'[f] # owed[f]
  BY DEF Owing
<1> QED BY <1>2, <1>3, <1>4

LEMMA NotifyingNext ==
  ASSUME Core, Notifying, [Next]_vars
  PROVE  Notifying'
<1> SUFFICES ASSUME NEW t \in Threads, at'[t].step \in {"notify", "notified"}
             PROVE  at'[t].event \in Notifications
  BY DEF Notifying
<1>0. ThreadsTyped
  BY DEF Core, TypeOK
<1>1. CASE at'[t] = at[t]
  BY <1>1 DEF Notifying
<1>2. CASE Callback(t)
  <2>1. PICK step \in Steps : /\ Goto(t, step)
                              /\ step = "notify" => step = AfterAnswer(at[t].event)
                              /\ step = "notified" => at[t].step = "notify"
    <3>1. \/ at' = [at EXCEPT ![t] = Idle]
          \/ \E step \in Steps : /\ Goto(t, step)
                                 /\ step = "notify" => step = AfterAnswer(at[t].event)
                                 /\ step = "notified" => at[t].step = "notify"
      BY <1>2 DEF Callback, Update, PassEarly, processCaptureResult, Load, StoreNotified, complete,
                  Finish, Erase, Steps, AfterAnswer
    <3>2. at' # [at EXCEPT ![t] = Idle]
      BY <1>0, Words DEF ThreadsTyped
    <3> QED BY <3>1, <3>2
  <2>2. at'[t] = [frame |-> at[t].frame, event |-> at[t].event, step |-> step]
    BY <1>0, <2>1, Going
  <2>3. at'[t].event = at[t].event /\ at'[t].step = step
    BY <2>2
  <2>4. step = "notify" => at[t].event \in Notifications
    BY <2>1 DEF AfterAnswer
  <2> QED BY <2>1, <2>3, <2>4 DEF Notifying
<1> QED BY <1>1, <1>2, GoesOn

\* A thread that concludes an executor goes on to tell it.
LEMMA ConcludesOn ==
  ASSUME Core, [Next]_vars, NEW u \in VendorThreads, NEW f \in Snapshots, Concluding(u, f),
         {"meta", "buffer"} \subseteq flags[f]
  PROVE  "RESULT" \in told'[f] \/ Concluding(u, f)'
<1>0. /\ f \in Frames /\ ThreadsTyped /\ u \in Threads /\ told \in [Frames -> SUBSET ALL_FINISH]
      /\ at[u].frame = f /\ at[u].event \in Results
      /\ at[u].step \in {"count", "deliver", "finish", "complete", "completed"}
  BY Constants DEF Core, TypeOK, StatusTyped, Concluding
<1>1. CASE at'[u] = at[u]
  BY <1>1 DEF Concluding
<1>2. CASE at'[u] # at[u]
  <2>1. at[u] # Idle
    BY <1>0, Words
  <2>2. Callback(u)
    BY <1>2, <2>1, MovesItself
  <2>3. CASE complete(u)
    BY <1>0, <2>3 DEF complete, Store
  <2>4. CASE ~complete(u)
    <3>1. Concludes(f)
      BY DEF Concludes, Ready
    <3>2. PICK step \in {"deliver", "finish", "complete", "completed"} : Goto(u, step)
      BY <1>0, <2>2, <2>4, <3>1, Words
         DEF Callback, Update, PassEarly, processCaptureResult, Load, StoreNotified, Finish, Erase,
             AfterAnswer
    <3>3. at'[u] = [frame |-> at[u].frame, event |-> at[u].event, step |-> step]
      BY <1>0, <3>2, Going DEF Steps
    <3>4. at'[u].frame = f /\ at'[u].event = at[u].event /\ at'[u].step = step
      BY <1>0, <3>3
    <3> QED BY <1>0, <3>4 DEF Concluding
  <2> QED BY <2>3, <2>4
<1> QED BY <1>1, <1>2

LEMMA ConcludedNext ==
  ASSUME Core, Core', Notifying, Concluded, [Next]_vars
  PROVE  Concluded'
<1> SUFFICES ASSUME NEW f \in Snapshots, {"meta", "buffer"} \subseteq flags'[f]
             PROVE  "RESULT" \in told'[f] \/ \E t \in VendorThreads : Concluding(t, f)'
  BY DEF Concluded
<1>0. /\ f \in Frames /\ ThreadsTyped /\ told \in [Frames -> SUBSET ALL_FINISH]
      /\ flags \in [Frames -> SUBSET {"meta", "no meta", "buffer", "error", "final", "reported",
                                      "early"}]
  BY Constants DEF Core, TypeOK, ExecutorsTyped, StatusTyped
<1>1. CASE {"meta", "buffer"} \subseteq flags[f] /\ "RESULT" \notin told[f]
  BY <1>1, ConcludesOn DEF Concluded
<1>2. CASE {"meta", "buffer"} \subseteq flags[f] /\ "RESULT" \in told[f]
  <2>1. ASSUME NEW t \in Threads, at[t].frame = f, Update(t) \/ Finish(t) \/ Stores(t)
        PROVE  "RESULT" \in told'[f]
    <3>1. \/ UNCHANGED told
          \/ \E finish : told' = [told EXCEPT ![f] = @ \cup {finish}]
      BY <2>1 DEF Update, Finish, Stores, Load, StoreNotified, complete, Store, statusVars
    <3> QED BY <1>0, <1>2, <3>1
  <2>2. createExecutor(f) => UNCHANGED told
    BY DEF createExecutor, statusVars
  <2> QED BY <1>0, <1>2, <2>1, <2>2, ExecutorSteps DEF StatusKept
<1>3. CASE ~({"meta", "buffer"} \subseteq flags[f])
  <2>1. createExecutor(f) => UNCHANGED flags
    BY DEF createExecutor
  <2>2. PICK t \in Threads : at[t].frame = f /\ (Update(t) \/ Finish(t) \/ Stores(t))
    BY <1>0, <1>3, <2>1, ExecutorSteps
  <2>3. ~Finish(t)
    <3>1. Finish(t) => \/ UNCHANGED flags
                       \/ flags' = [flags EXCEPT ![f] = @ \cup {"final"}]
                       \/ flags' = [flags EXCEPT ![f] = @ \cup {"final", "reported"}]
      BY <2>2 DEF Finish, goToDarkroom, GiveUp
    <3> QED BY <1>0, <1>3, <3>1
  <2>4. ~Stores(t)
    <3>1. StoreNotified(t) => at[t].event \in Notifications
      BY DEF StoreNotified, Notifying
    <3>2. at[t].event \in Notifications => Learnt(at[t].event) \cap {"meta", "buffer"} = {}
      BY DEF Notifications, Learnt
    <3>3. StoreNotified(t) => flags' = [flags EXCEPT ![f] = @ \cup Learnt(at[t].event)]
      BY <2>2 DEF StoreNotified
    <3>4. Load(t) \/ complete(t) => UNCHANGED flags
      BY DEF Load, complete
    <3> QED BY <1>0, <1>3, <3>1, <3>2, <3>3, <3>4 DEF Stores
  <2>5. Update(t) /\ flags' = [flags EXCEPT ![f] = @ \cup LearntFirst(at[t].event)]
    BY <2>2, <2>3, <2>4 DEF Update, LearntFirst
  <2>6. at[t].event \in Results
    <3>1. LearntFirst(at[t].event) \cap {"meta", "buffer"} # {}
      BY <1>0, <1>3, <2>5
    <3> QED BY <3>1 DEF Learnt, LearntFirst, Results
  <2>7. t \in VendorThreads
    <3>1. at[t] # Idle
      BY <2>5, Words DEF Update
    <3> QED BY <2>6, <3>1, Constants, Words DEF Core, Positions, Positioned
  <2>8. PICK step \in {"count", "finish"} : Goto(t, step)
    BY <2>5, <2>6, Words DEF Update, AfterAnswer
  <2>9. at'[t] = [frame |-> at[t].frame, event |-> at[t].event, step |-> step]
    BY <1>0, <2>8, Going DEF Steps
  <2>10. at'[t].frame = f /\ at'[t].event = at[t].event /\ at'[t].step = step
    BY <2>2, <2>9
  <2>11. Concluding(t, f)'
    BY <2>6, <2>8, <2>10 DEF Concluding
  <2> QED BY <2>7, <2>11
<1> QED BY <1>1, <1>2, <1>3

\* In an offline session only the darkroom is at work.
LEMMA OfflineSteps ==
  ASSUME Core, [Next]_vars, registry # "active"
  PROVE  /\ UNCHANGED owed
         /\ \/ Callback(Darkroom) \/ (\E f \in Snapshots : AnswerOf(f))
            \/ decreasePendingFinalSnapCount \/ SignalReclaim \/ Manages
<1>0. /\ flush = "returned" /\ mExitThread /\ at[Loop] = Idle
      /\ \A f \in Frames : request[f] \in Over
      /\ \A t \in VendorThreads : at[t] = Idle
  BY DEF Core, Flushing
<1>1. ASSUME NEW f \in Frames, ProcessRequest(f)
      PROVE  FALSE
  BY <1>0, <1>1 DEF ProcessRequest, processCaptureRequest, setReqErrorAndForwardResult, Record, Attach,
       createExecutor, submitRequest2Vendor, process_capture_request, Return, Advance, Over
<1>2. ASSUME NEW t \in Threads, Callback(t)
      PROVE  t = Darkroom
  <2>1. at[t] # Idle
    BY <1>2, CalledLives, Words
  <2> QED BY <1>0, <2>1, Constants
<1>3. /\ \A t \in VendorThreads, f \in Frames, event \in Notifications \cup Results : ~Arrive(t, f, event)
      /\ \A f \in Frames : ~TakeAnchor(f)
      /\ ~flushPendingFwkRecords
  BY <1>0 DEF Arrive, TakeAnchor, flushPendingFwkRecords, FlushStep
<1>4. UNCHANGED owed
  BY <1>1, <1>3, OwedSteps DEF ProcessRequest
<1> QED BY <1>1, <1>2, <1>3, <1>4, Cases

LEMMA ReclaimingNext ==
  ASSUME Core, Core', Reclaiming, [Next]_vars
  PROVE  Reclaiming'
<1>0. /\ mPendingMiHALSnapCount \in Int /\ mPendingMiHALSnapCount' \in Int
      /\ ThreadsTyped /\ Darkroom \in Threads
      /\ registry \in {"active", "offline", "deleted"} /\ reclaim \in {"waiting", "awake"}
  BY Constants DEF Core, TypeOK, SnapsTyped, FlushTyped
<1>1. CASE unregisterSession
  BY <1>1 DEF unregisterSession, Reclaiming
<1>2. CASE registry = "active" /\ ~unregisterSession
  <2>1. registry' = "active"
    BY <1>2 DEF Next, Begin, RequestGoesOn, ProcessRequest, processCaptureRequest, Record, Attach,
                setReqErrorAndForwardResult, submitRequest2Vendor, process_capture_request,
                Return, createExecutor, Callback, Update, PassEarly, processCaptureResult, Load,
                StoreNotified, complete, Store, Finish, Erase, TakeAnchor, Arrive, DarkroomNext,
                AnswerOf, decreasePendingFinalSnapCount, SignalReclaim, FlushNext, Flush,
                flush2Vendor, waitLoop, waitAndResetToInitStatus, flushPendingFwkRecords,
                sessionReclaimLoop, managerVars, vars
  <2> QED BY <2>1 DEF Reclaiming
<1>3. CASE registry # "active" /\ ~unregisterSession
  <2>0. UNCHANGED owed /\ \A f \in Frames : owed[f] = {}
    BY <1>3, OfflineSteps DEF Reclaiming
  <2> SUFFICES ASSUME registry' = "offline", reclaim' = "waiting"
               PROVE  hasPendingPhotographers' \/ at'[Darkroom] # Idle
    BY <2>0 DEF Reclaiming
  <2>1. CASE Callback(Darkroom)
    <3>1. PICK step \in Steps \ {"idle"} : Goto(Darkroom, step)
      BY <2>1 DEF Callback, Update, PassEarly, processCaptureResult, Load, StoreNotified,
                  complete, Store, Finish, Erase, Steps, AfterAnswer
    <3>2. at'[Darkroom] = [frame |-> at[Darkroom].frame, event |-> at[Darkroom].event, step |-> step]
      BY <1>0, <3>1, Going
    <3>3. at'[Darkroom].step = step
      BY <3>2
    <3> QED BY <3>3, Words
  <2>2. ASSUME NEW f \in Snapshots, AnswerOf(f)
        PROVE  at'[Darkroom] # Idle
    <3>1. at'[Darkroom].frame = f /\ f \in Frames
      BY <1>0, <2>2, Constants DEF AnswerOf, ThreadsTyped
    <3> QED BY <3>1, Words
  <2>3. CASE decreasePendingFinalSnapCount
    <3>1. at'[Darkroom].step = "signal"
      BY <1>0, <2>3 DEF decreasePendingFinalSnapCount, Goto, ThreadsTyped
    <3> QED BY <3>1, Words
  <2>4. CASE SignalReclaim
    <3>1. UNCHANGED <<mPendingMiHALSnapCount, registry>>
      BY <2>4 DEF SignalReclaim, snapVars
    <3>2. ~(mPendingMiHALSnapCount <= 0)
      BY <2>4, <3>1 DEF SignalReclaim, signalReclaimSession
    <3> QED BY <1>0, <3>1, <3>2 DEF hasPendingPhotographers
  <2>5. CASE sessionReclaimLoop
    <3>1. hasPendingPhotographers /\ UNCHANGED <<mVendorInflights, mPendingMiHALSnapCount>>
      BY <2>5 DEF sessionReclaimLoop, executorVars, snapVars
    <3> QED BY <3>1 DEF hasPendingPhotographers
  <2>6. CASE Manages /\ ~sessionReclaimLoop
    <3>1. UNCHANGED <<registry, reclaim, mVendorInflights, mPendingMiHALSnapCount, at>>
      BY <1>3, <2>6 DEF Manages, Flush, flush2Vendor, waitLoop, waitAndResetToInitStatus, managerVars,
                        executorVars, snapVars
    <3> QED BY <3>1 DEF Reclaiming, hasPendingPhotographers
  <2> QED BY <1>3, <2>1, <2>2, <2>3, <2>4, <2>5, <2>6, OfflineSteps
<1> QED BY <1>1, <1>2, <1>3

LEMMA QuietAlways ==
  Spec => [](Attachments /\ Notified /\ Filled /\ Notifying /\ Concluded /\ Reclaiming)
<1>1. Init => Attachments /\ Notified /\ Filled /\ Notifying /\ Concluded /\ Reclaiming
  <2> SUFFICES ASSUME Init
               PROVE  Attachments /\ Notified /\ Filled /\ Notifying /\ Concluded /\ Reclaiming
    OBVIOUS
  <2>1. \A f \in Snapshots : request[f] = "none" /\ flags[f] = {}
    BY Constants DEF Init
  <2>2. mVendorInflights = {} /\ registry = "active"
    BY DEF Init
  <2>3. \A t \in Threads : at[t] = Idle
    BY DEF Init
  <2> QED BY <2>1, <2>2, <2>3, Words
          DEF Attachments, Notified, Filled, Notifying, Concluded, Reclaiming, InVendor
<1>2. Core /\ Entrusted /\ Attachments /\ [Next]_vars => Attachments'
  BY AttachmentsNext
<1>3. Core /\ Core' /\ Tokens /\ Notified /\ Filled /\ [Next]_vars => Notified' /\ Filled'
  BY NotifiedNext, FilledNext
<1>4. Core /\ Core' /\ Notifying /\ Concluded /\ Reclaiming /\ [Next]_vars
        => Notifying' /\ Concluded' /\ Reclaiming'
  BY NotifyingNext, ConcludedNext, ReclaimingNext
<1> QED BY <1>1, <1>2, <1>3, <1>4, CoreAlways, VendorsAlways, TokensAlways, PTL DEF Spec

\* When all is quiet, an offline session is deleted: its executors that were
\* served have been erased, the count is back at 0, and the manager was woken to
\* see it.
THEOREM QuietIsReclaimed == Spec => []ReclaimedWhenQuiet
<1>1. ASSUME Core, Debts, Attachments, Notified, Filled, Concluded, Reclaiming, FinishedIsErased,
             AcceptedAreAnswered,
             registry = "offline", reclaim = "waiting", \A t \in Threads : at[t] = Idle,
             \A f \in Snapshots : Served(f) /\ darkroom[f] \in {"none", "answered"}
      PROVE  FALSE
  <2>0. flush = "returned" /\ \A f \in Frames : request[f] \in Over /\ owed[f] = {}
    BY <1>1 DEF Core, Flushing, Reclaiming
  <2>1. \A t \in Threads, f \in Frames :
          ~Holds(t, f) /\ ~Notifies(t, f) /\ ~BringsBuffer(t, f) /\ ~Concluding(t, f)
    BY <1>1, Words DEF Holds, Notifies, BringsBuffer, Concluding
  <2>2. ASSUME NEW f \in Snapshots, executor[f] = "alive"
        PROVE  FALSE
    <3>0. f \in Frames
      BY Constants
    <3>1. request[f] = "accepted" /\ "meta" \in flags[f] /\ f \notin overlapped
      <4>1. request[f] \notin Fresh /\ request[f] \in Over
        BY <1>1, <2>0, <2>2, <3>0 DEF Core, Making
      <4>2. request[f] \in {"accepted", "refused"}
        BY <4>1 DEF Fresh, Over
      <4> QED BY <1>1, <2>2, <4>2 DEF Served
    <3>2. f \in mVendorInflights
      BY <1>1, <2>1, <2>2, <3>0, <3>1 DEF Core, Living, HeldByRequest
    <3>3. mAttachedCount[f] = 0
      <4>1. ~Pending(f)
        BY <1>1, <2>0, <3>0, <3>1 DEF AcceptedAreAnswered
      <4> QED BY <1>1, <3>1, <3>2, <4>1 DEF Attachments
    <3>4. "NOTIFY" \in told[f]
      BY <1>1, <2>0, <2>1, <3>0, <3>1, <3>2, Constants DEF Notified, InVendor
    <3>5. "buffer" \in flags[f]
      BY <1>1, <2>0, <2>1, <3>0, <3>1, <3>2, Constants DEF Filled, InVendor, Owing
    <3>6. "RESULT" \in told[f]
      BY <1>1, <2>1, <3>0, <3>1, <3>5, Constants DEF Concluded
    <3>7. told[f] = ALL_FINISH
      BY <1>1, <3>0, <3>4, <3>6 DEF ALL_FINISH, Core, TypeOK, StatusTyped
    <3> QED BY <1>1, <2>1, <3>0, <3>1, <3>2, <3>3, <3>7 DEF FinishedIsErased
  <2>3. mVendorInflights \cap Snapshots = {}
    BY <1>1, <2>2, Constants DEF Core, Living
  <2>4. Indebted = {}
    <3>1. \A f \in Snapshots : ~InDarkroom(f)
      <4>1. at[Darkroom] = Idle /\ Idle.frame \notin Snapshots
        BY <1>1, Constants, Words
      <4> QED BY <1>1, <4>1 DEF InDarkroom
    <3>2. \A f \in Snapshots : request[f] # "refused"
      BY <1>1 DEF Served
    <3> QED BY <2>2, <3>1, <3>2 DEF Indebted, Debt, Undecided
  <2>5. mPendingMiHALSnapCount = 0
    BY <1>1, <2>4, FS_EmptySet DEF Debts
  <2>6. at[Darkroom] = Idle /\ ~hasPendingPhotographers
    BY <1>1, <2>3, <2>5, Constants DEF hasPendingPhotographers
  <2> QED BY <1>1, <2>6 DEF Reclaiming
<1>2. Core => registry \in {"active", "offline", "deleted"}
  BY DEF Core, TypeOK, FlushTyped
<1>3. Core /\ Debts /\ Attachments /\ Notified /\ Filled /\ Concluded /\ Reclaiming /\ FinishedIsErased
        /\ AcceptedAreAnswered => ReclaimedWhenQuiet
  BY <1>1, <1>2 DEF ReclaimedWhenQuiet
<1> QED BY <1>3, CoreAlways, DebtsAlways, QuietAlways, FinishedErased, AllAnswered, PTL
=============================================================================
