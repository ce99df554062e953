----------------------------- MODULE AlgoSession -----------------------------
(***************************************************************************)
(* A session of mihal (AsyncAlgoSession in Session.cpp) from its first     *)
(* request to its deletion by SessionManager.  The framework's thread      *)
(* brings requests and makes an executor for each, the vendor's HAL calls  *)
(* back with results and notifications, the loop of CameraMode fills early *)
(* pictures, the darkroom answers when an image is made, and the framework *)
(* flushes the session; when it has been unregistered, SessionManager      *)
(* deletes it as soon as nothing of it is pending.                         *)
(*                                                                         *)
(* Previews are made by Previewer, snapshots by a Photographer with one    *)
(* vendor request, whose one buffer for the framework is the early         *)
(* picture.  The vendor gives metadata in one part.                        *)
(***************************************************************************)
EXTENDS RequestRecords

CONSTANTS
  Previews, Snapshots,
  VendorThreads, Loop, Darkroom, Nobody,
  Failures,          \* [Frames -> what may go wrong with the request in the vendor's HAL]
  Overlap            \* may the framework flush while it brings a request?

Threads == VendorThreads \cup {Loop, Darkroom}

ASSUME SessionAssumption ==
  /\ Frames = Previews \cup Snapshots /\ Previews \cap Snapshots = {}
  /\ Frames \subseteq Nat /\ Nobody \notin Frames
  /\ IsFiniteSet(VendorThreads) /\ Loop # Darkroom /\ {Loop, Darkroom} \cap VendorThreads = {}
  /\ Failures \in [Frames -> SUBSET {"bad buffer", "ERROR_RESULT", "ERROR_REQUEST"}]
  /\ Overlap \in BOOLEAN

VARIABLES
  request,                  \* how far each request has got
  owed,                     \* what the vendor has yet to answer
  mVendorInflights,
  executor,                 \* "none", "alive" or "gone"
  mStatus, flags,           \* of the executors
  loaded,                   \* mStatus as each thread has read it, before it stores it
  told, overlapped,         \* what mStatus was told; where two updates of it overlapped
  mAttachedCount, mAttachVendorFrame,
  mVndAnchorFrames,         \* early pictures that Loop has to fill
  darkroom,                 \* images that are made
  mPendingMiHALSnapCount,
  mFlush, flush, mExitThread,
  at,                       \* what each thread is at: [frame, event, step]
  registry, reclaim         \* SessionManager

vendorVars == <<owed>>
executorVars == <<mVendorInflights, executor, mAttachedCount, mAttachVendorFrame>>
statusVars == <<mStatus, loaded, told, overlapped>>
snapVars == <<mVndAnchorFrames, darkroom, mPendingMiHALSnapCount>>
flushVars == <<mFlush, flush, mExitThread>>
managerVars == <<registry, reclaim>>
vars == <<recordVars, request, owed, executorVars, statusVars, flags, snapVars, flushVars, at,
          managerVars>>

ALL_FINISH == {"NOTIFY", "RESULT"}
Idle == [frame |-> Nobody, event |-> "none", step |-> "idle"]

Notifications == {"shutter", "ERROR_RESULT", "ERROR_REQUEST"}
Results == {"meta", "buffer", "bad buffer"}

RequestsTyped ==
  /\ request \in [Frames -> {"none", "rejected", "rejecting", "admitted", "recorded",
       "in flight", "attached", "submitting", "submitted", "refusing",
       "accepted", "refused", "answered"}]
  /\ owed \in [Frames -> SUBSET (Parts \cup {"bad buffer"})]

ExecutorsTyped ==
  /\ mVendorInflights \subseteq Frames
  /\ executor \in [Frames -> {"none", "alive", "gone"}]
  /\ flags \in [Frames -> SUBSET {"meta", "no meta", "buffer", "error", "final", "reported",
                                  "early"}]

StatusTyped ==
  /\ mStatus \in [Frames -> SUBSET ALL_FINISH] /\ told \in [Frames -> SUBSET ALL_FINISH]
  /\ loaded \in [Threads -> SUBSET ALL_FINISH] /\ overlapped \subseteq Frames

AttachedTyped == mAttachedCount \in [Frames -> {0, 1}] /\ mAttachVendorFrame \subseteq Snapshots

SnapsTyped ==
  /\ mVndAnchorFrames \subseteq Snapshots
  /\ darkroom \in [Snapshots -> {"none", "working", "working early", "answered"}]
  /\ mPendingMiHALSnapCount \in Int

FlushTyped ==
  /\ mFlush \in BOOLEAN /\ mExitThread \in BOOLEAN
  /\ flush \in {"none", "waiting", "vendor", "loop", "join", "drain", "returned"}
  /\ registry \in {"active", "offline", "deleted"} /\ reclaim \in {"waiting", "awake"}

Steps == {"idle", "update", "count", "deliver", "finish", "notify", "notified", "complete",
          "completed", "erase", "decrease", "signal"}
Places == [frame : Frames \cup {Nobody}, step : Steps,
           event : Notifications \cup Results \cup {"early", "none"}]

ThreadsTyped == at \in [Threads -> Places]

TypeOK ==
  /\ RecordsTypeOK /\ RequestsTyped /\ ExecutorsTyped /\ AttachedTyped /\ SnapsTyped /\ FlushTyped
  /\ StatusTyped /\ ThreadsTyped

Init ==
  /\ RecordsInit
  /\ request = [f \in Frames |-> "none"] /\ owed = [f \in Frames |-> {}]
  /\ mVendorInflights = {} /\ executor = [f \in Frames |-> "none"]
  /\ mStatus = [f \in Frames |-> {}] /\ flags = [f \in Frames |-> {}]
  /\ loaded = [t \in Threads |-> {}]
  /\ told = [f \in Frames |-> {}] /\ overlapped = {}
  /\ mAttachedCount = [f \in Frames |-> 0] /\ mAttachVendorFrame = {}
  /\ mVndAnchorFrames = {} /\ darkroom = [f \in Snapshots |-> "none"]
  /\ mPendingMiHALSnapCount = 0
  /\ mFlush = FALSE /\ flush = "none" /\ mExitThread = FALSE
  /\ at = [t \in Threads |-> Idle]
  /\ registry = "active" /\ reclaim = "waiting"

-----------------------------------------------------------------------------
(* Executors *)

Over == {"none", "accepted", "refused", "answered"}
InVendor(f) == request[f] \in {"submitted", "accepted"}

\* Who has a shared pointer to the executor.
HeldByRequest(f) ==
  request[f] \in {"in flight", "attached", "submitting", "submitted", "refusing"}
Holds(t, f) ==
  at[t].frame = f /\ at[t].step \notin {"idle", "decrease", "signal"}

\* The thread has read the status and has not stored it yet.
Storing(t, f) == at[t].frame = f /\ at[t].step \in {"notified", "completed"}

isFinish(f) == mStatus[f] = ALL_FINISH /\ mAttachedCount[f] = 0

\* SessionManager's thread has nothing to look for before the session is offline.
signalReclaimSession == reclaim' = IF registry = "offline" THEN "awake" ELSE reclaim

\* The executor goes with all it knows; ~Photographer tells SessionManager
\* when no image is pending.
Destroyed(frames) ==
  /\ executor' = [f \in Frames |-> IF f \in frames THEN "gone" ELSE executor[f]]
  /\ mStatus' = [f \in Frames |-> IF f \in frames THEN {} ELSE mStatus[f]]
  /\ told' = [f \in Frames |-> IF f \in frames THEN {} ELSE told[f]]
  /\ overlapped' = overlapped \ frames /\ UNCHANGED loaded
  /\ flags' = [f \in Frames |-> IF f \in frames THEN {} ELSE flags[f]]
  /\ IF frames \cap Snapshots # {} /\ mPendingMiHALSnapCount <= 0
     THEN signalReclaimSession ELSE UNCHANGED reclaim

-----------------------------------------------------------------------------
(* The framework's thread: VendorCamera::processCaptureRequest *)

Advance(f, from, to) == request[f] = from /\ request' = [request EXCEPT ![f] = to]

processCaptureRequest(f) ==
  /\ registry = "active"
  /\ \A g \in Frames : request[g] \in Over
  /\ flush \in {"none", "returned"} \/ Overlap
  /\ Advance(f, "none", IF mFlush THEN "rejected" ELSE "admitted")
  /\ CountBuffer
  /\ UNCHANGED <<owed, executorVars, statusVars, flags, snapVars, flushVars, at, managerVars>>

setReqErrorAndForwardResult(f) ==
  /\ \/ Advance(f, "rejected", "rejecting") /\ UncountBuffer
     \/ Advance(f, "rejecting", "answered") /\ process_capture_result(f)
  /\ UNCHANGED <<owed, executorVars, statusVars, flags, snapVars, flushVars, at, managerVars>>

Record(f) ==
  /\ Advance(f, "admitted", "recorded")
  /\ insertPendingFwkRecords(f)
  /\ UNCHANGED <<owed, executorVars, statusVars, flags, snapVars, flushVars, at, managerVars>>

\* createExecutor and addToVendorInflights: nobody sees the executor in between.
createExecutor(f) ==
  /\ Advance(f, "recorded", "in flight")
  /\ executor' = [executor EXCEPT ![f] = "alive"]
  /\ mVendorInflights' = mVendorInflights \cup {f}
  /\ IF f \in Snapshots
     THEN /\ mPendingMiHALSnapCount' = mPendingMiHALSnapCount + 1
          /\ mAttachedCount' = [mAttachedCount EXCEPT ![f] = 1]
     ELSE UNCHANGED <<mPendingMiHALSnapCount, mAttachedCount>>
  /\ UNCHANGED <<recordVars, owed, mAttachVendorFrame, statusVars, flags, mVndAnchorFrames, darkroom,
                 flushVars, at, managerVars>>

Attach(f) ==
  /\ Advance(f, "in flight", "attached")
  /\ mAttachVendorFrame' = mAttachVendorFrame \cup ({f} \cap Snapshots)
  /\ UNCHANGED <<recordVars, owed, mVendorInflights, executor, mAttachedCount, statusVars, flags,
                 snapVars, flushVars, at, managerVars>>

submitRequest2Vendor(f) ==
  /\ IF mFlush
     THEN Advance(f, "attached", "refusing") /\ mVendorInflights' = mVendorInflights \ {f}
     ELSE Advance(f, "attached", "submitting") /\ UNCHANGED mVendorInflights
  /\ UNCHANGED <<recordVars, owed, executor, mAttachedCount, mAttachVendorFrame, statusVars, flags,
                 snapVars, flushVars, at, managerVars>>

process_capture_request(f) ==
  /\ Advance(f, "submitting", "submitted")
  /\ owed' = [owed EXCEPT ![f] = Parts]
  /\ UNCHANGED <<recordVars, executorVars, statusVars, flags, snapVars, flushVars, at, managerVars>>

\* processVendorRequest returns, and its pointer to the executor goes.
Return(f) ==
  /\ \/ Advance(f, "submitted", "accepted")
     \/ Advance(f, "refusing", "refused")
  /\ Destroyed(IF f \notin mVendorInflights /\ \A t \in Threads : ~Holds(t, f) THEN {f} ELSE {})
  /\ UNCHANGED <<recordVars, owed, mVendorInflights, mAttachedCount, mAttachVendorFrame,
                 snapVars, flushVars, at, registry>>

ProcessRequest(f) ==
  \/ processCaptureRequest(f) \/ setReqErrorAndForwardResult(f)
  \/ Record(f) \/ createExecutor(f) \/ Attach(f)
  \/ submitRequest2Vendor(f) \/ process_capture_request(f) \/ Return(f)

-----------------------------------------------------------------------------
(* A callback, from the look-up of the executor to its last use *)

Goto(t, step) == at' = [at EXCEPT ![t].step = step]
BeginAt(t, f, event) ==
  at' = [at EXCEPT ![t] = IF f \in mVendorInflights
                          THEN [frame |-> f, event |-> event, step |-> "update"]
                          ELSE Idle]

\* The vendor delivers the results of a frame one after the other.
NoOtherResult(f) ==
  \A t \in VendorThreads : at[t].frame = f => at[t].event \in Notifications

\* What the vendor owes after event; a frame that failed as a whole still
\* brings its buffer back, as a bad one.
Settles(f, event, before, after) ==
  \/ event \in before /\ after = before \ {event}
  \/ event \in Failures[f] /\
     \/ event = "bad buffer" /\ "buffer" \in before /\ after = before \ {"buffer"}
     \/ event = "ERROR_RESULT" /\ "meta" \in before /\ after = before \ {"meta"}
     \/ event = "ERROR_REQUEST" /\ before = Parts /\ after = {"bad buffer"}

\* notify or process_capture_result of the vendor
Arrive(t, f, event) ==
  /\ registry = "active" /\ at[t] = Idle /\ InVendor(f)
  /\ event \in Notifications \/ NoOtherResult(f)
  /\ \E after \in {owed[f] \ {event}, owed[f] \ {"buffer"}, owed[f] \ {"meta"}, {"bad buffer"}} :
       Settles(f, event, owed[f], after) /\ owed' = [owed EXCEPT ![f] = after]
  /\ BeginAt(t, f, event)
  /\ UNCHANGED <<recordVars, request, executorVars, statusVars, flags, snapVars, flushVars,
                 managerVars>>

\* What the framework is given; a snapshot's own buffers stay in mihal.
Answered(f, event) ==
  CASE event \in {"shutter", "meta"} -> {event}
    [] event \in {"ERROR_RESULT", "ERROR_REQUEST"} -> {"shutter", "meta"}
    [] event = "early" \/ (event \in {"buffer", "bad buffer"} /\ f \in Previews) -> {"buffer"}
    [] OTHER -> {}

\* What the executor keeps in mind.
Learnt(event) ==
  CASE event = "meta" -> {"meta"}                  [] event = "buffer" -> {"buffer"}
    [] event = "bad buffer" -> {"buffer", "error"} [] event = "early" -> {"early"}
    [] event = "ERROR_RESULT" -> {"error", "no meta"} [] OTHER -> {}

\* mEarlypicFlag: only one early picture is sent.
SecondEarly(t) == at[t].event = "early" /\ "early" \in flags[at[t].frame]

\* Mutant: sent although the record is gone
ForwardsAlways(f, event) == "buffer" \in Answered(f, event)

\* A buffer is sent unless a flush has answered the request.
Forwards(f, event) == Pending(f) /\ "buffer" \in Answered(f, event)

AfterAnswer(event) ==
  IF event \in Notifications THEN "notify" ELSE IF event = "early" THEN "erase" ELSE "finish"

removeAttachFwkRequest(frames) ==
  /\ mAttachVendorFrame' = mAttachVendorFrame \ frames
  /\ mAttachedCount' = [f \in Frames |->
       IF f \in frames \cap mAttachVendorFrame \cap mVendorInflights
       THEN mAttachedCount[f] - 1 ELSE mAttachedCount[f]]

Update(t) ==
  LET f == at[t].frame
      event == at[t].event
      parts == Answered(f, event) IN
  /\ at[t].step = "update" /\ ~SecondEarly(t)
  /\ updatePendingFwkRecords(f, parts)
  /\ removeAttachFwkRequest(IF Completes(f, parts) THEN {f} ELSE {})
  /\ flags' = [flags EXCEPT ![f] = @ \cup (IF event \in Notifications THEN {} ELSE Learnt(event))]
  /\ mVndAnchorFrames' = mVndAnchorFrames \cup (IF event = "shutter" THEN {f} \cap Snapshots ELSE {})
  /\ Goto(t, IF Forwards(f, event) THEN "count" ELSE AfterAnswer(event))
  /\ UNCHANGED <<request, owed, mVendorInflights, executor, statusVars, darkroom,
                 mPendingMiHALSnapCount, flushVars, managerVars>>

PassEarly(t) ==
  /\ at[t].step = "update" /\ SecondEarly(t)
  /\ Goto(t, "erase")
  /\ UNCHANGED <<recordVars, request, owed, executorVars, statusVars, flags, snapVars, flushVars,
                 managerVars>>

\* VendorCamera::processCaptureResult
processCaptureResult(t) ==
  /\ \/ at[t].step = "count" /\ UncountBuffer /\ Goto(t, "deliver")
     \/ /\ at[t].step = "deliver" /\ process_capture_result(at[t].frame)
        /\ Goto(t, AfterAnswer(at[t].event))
  /\ UNCHANGED <<request, owed, executorVars, statusVars, flags, snapVars, flushVars, managerVars>>

\* Has the executor all it needs to complete or to give up?
Ready(f) ==
  /\ "buffer" \in flags[f]
  /\ "meta" \in flags[f] \/ (f \in Snapshots /\ "error" \in flags[f])

goToDarkroom(f) ==
  /\ "error" \notin flags[f] /\ "final" \notin flags[f]
  /\ darkroom' = [darkroom EXCEPT ![f] =
       IF "early" \in flags[f] THEN "working" ELSE "working early"]
  /\ flags' = [flags EXCEPT ![f] = @ \cup {"final"}]
  /\ UNCHANGED mPendingMiHALSnapCount

\* An error: without metadata, and while it may come, the executor is not complete.
GiveUp(f) ==
  /\ "error" \in flags[f] \/ "final" \in flags[f]
  /\ mPendingMiHALSnapCount' = IF "final" \in flags[f] THEN mPendingMiHALSnapCount
                               ELSE mPendingMiHALSnapCount - 1
  /\ flags' = [flags EXCEPT ![f] = @ \cup {"final", "reported"}]
  /\ UNCHANGED darkroom

Concludes(f) == Ready(f) /\ (f \in Previews \/ flags[f] \cap {"meta", "no meta"} # {})

Finish(t) ==
  LET f == at[t].frame IN
  /\ at[t].step = "finish"
  /\ IF Ready(f) /\ f \in Snapshots THEN goToDarkroom(f) \/ GiveUp(f)
     ELSE UNCHANGED <<flags, darkroom, mPendingMiHALSnapCount>>
  /\ Goto(t, IF Concludes(f) THEN "complete" ELSE "erase")
  /\ UNCHANGED <<recordVars, request, owed, executorVars, statusVars, mVndAnchorFrames,
                 flushVars, managerVars>>

\* mStatus.store(mStatus.load() | ...): a status that another thread stores after the
\* load is overwritten.
Load(t) ==
  LET f == at[t].frame IN
  /\ \/ at[t].step = "notify" /\ Goto(t, "notified")
     \/ at[t].step = "complete" /\ Goto(t, "completed")
  /\ loaded' = [loaded EXCEPT ![t] = mStatus[f]]
  /\ overlapped' = IF \E u \in Threads : Storing(u, f) THEN overlapped \cup {f} ELSE overlapped
  /\ UNCHANGED <<recordVars, request, owed, executorVars, mStatus, told, flags, snapVars,
                 flushVars, managerVars>>

Store(t, f, finish) ==
  /\ mStatus' = [mStatus EXCEPT ![f] = loaded[t] \cup {finish}]
  /\ told' = [told EXCEPT ![f] = @ \cup {finish}]
  /\ loaded' = [loaded EXCEPT ![t] = {}]
  /\ UNCHANGED <<recordVars, request, owed, executorVars, overlapped, snapVars, flushVars,
                 managerVars>>

\* A notification; ERROR_RESULT completes an executor that has reported an error.
StoreNotified(t) ==
  LET f == at[t].frame
      completes == at[t].event = "ERROR_RESULT" /\ f \in Snapshots /\ "reported" \in flags[f] IN
  /\ at[t].step = "notified"
  /\ Store(t, f, "NOTIFY")
  /\ flags' = [flags EXCEPT ![f] = @ \cup Learnt(at[t].event)]
  /\ Goto(t, IF completes THEN "complete" ELSE "erase")

complete(t) ==
  /\ at[t].step = "completed"
  /\ Store(t, at[t].frame, "RESULT")
  /\ Goto(t, "erase")
  /\ UNCHANGED flags

\* Mutant: an early picture does not look whether it was the last
EraseUnlessEarly(t) ==
  LET f == at[t].frame
      left == IF isFinish(f) /\ at[t].event # "early" THEN mVendorInflights \ {f}
              ELSE mVendorInflights IN
  /\ at[t].step = "erase"
  /\ mVendorInflights' = left
  /\ Destroyed(IF f \in left \/ HeldByRequest(f) \/ \E u \in Threads \ {t} : Holds(u, f)
               THEN {} ELSE {f})
  /\ IF t = Darkroom THEN Goto(t, "decrease") ELSE at' = [at EXCEPT ![t] = Idle]
  /\ mVndAnchorFrames' = IF t = Loop THEN mVndAnchorFrames \ {f} ELSE mVndAnchorFrames
  /\ UNCHANGED <<recordVars, request, owed, mAttachedCount, mAttachVendorFrame,
                 darkroom, mPendingMiHALSnapCount, flushVars, registry>>

\* The executor is erased if it has finished, and the thread lets it go.
Erase(t) ==
  LET f == at[t].frame
      left == IF isFinish(f) THEN mVendorInflights \ {f} ELSE mVendorInflights IN
  /\ at[t].step = "erase"
  /\ mVendorInflights' = left
  /\ Destroyed(IF f \in left \/ HeldByRequest(f) \/ \E u \in Threads \ {t} : Holds(u, f)
               THEN {} ELSE {f})
  /\ IF t = Darkroom THEN Goto(t, "decrease") ELSE at' = [at EXCEPT ![t] = Idle]
  /\ mVndAnchorFrames' = IF t = Loop THEN mVndAnchorFrames \ {f} ELSE mVndAnchorFrames
  /\ UNCHANGED <<recordVars, request, owed, mAttachedCount, mAttachVendorFrame,
                 darkroom, mPendingMiHALSnapCount, flushVars, registry>>

Callback(t) ==
  \/ Update(t) \/ PassEarly(t) \/ processCaptureResult(t) \/ Finish(t)
  \/ Load(t) \/ StoreNotified(t) \/ complete(t) \/ Erase(t)

-----------------------------------------------------------------------------
(* The loop of CameraMode, and the darkroom *)

\* The frame's turn has come, and a preview to copy from is there.
TakeAnchor(f) ==
  /\ at[Loop] = Idle /\ ~mExitThread
  /\ f \in mVndAnchorFrames /\ \A g \in mVndAnchorFrames : f <= g
  /\ BeginAt(Loop, f, "early")
  /\ mVndAnchorFrames' = IF f \in mVendorInflights THEN mVndAnchorFrames ELSE mVndAnchorFrames \ {f}
  /\ UNCHANGED <<recordVars, request, owed, executorVars, statusVars, flags, darkroom,
                 mPendingMiHALSnapCount, flushVars, managerVars>>

\* The picture is made: an early picture that was open when it was ordered is
\* given up first.
AnswerOf(f) ==
  /\ at[Darkroom] = Idle /\ darkroom[f] \in {"working", "working early"}
  /\ darkroom' = [darkroom EXCEPT ![f] = "answered"]
  /\ at' = [at EXCEPT ![Darkroom] =
       [frame |-> f, event |-> "early",
        step |-> IF darkroom[f] = "working early" /\ f \in mVendorInflights THEN "update"
                 ELSE "decrease"]]
  /\ UNCHANGED <<recordVars, request, owed, executorVars, statusVars, flags, mVndAnchorFrames,
                 mPendingMiHALSnapCount, flushVars, managerVars>>

decreasePendingFinalSnapCount ==
  /\ at[Darkroom].step = "decrease"
  /\ mPendingMiHALSnapCount' = mPendingMiHALSnapCount - 1
  /\ Goto(Darkroom, "signal")
  /\ UNCHANGED <<recordVars, request, owed, executorVars, statusVars, flags, mVndAnchorFrames,
                 darkroom, flushVars, managerVars>>

\* Mutant: one image too late
SignalReclaimBelow ==
  /\ at[Darkroom].step = "signal"
  /\ IF mPendingMiHALSnapCount < 0 THEN signalReclaimSession ELSE UNCHANGED reclaim
  /\ at' = [at EXCEPT ![Darkroom] = Idle]
  /\ UNCHANGED <<recordVars, request, owed, executorVars, statusVars, flags, snapVars, flushVars,
                 registry>>

SignalReclaim ==
  /\ at[Darkroom].step = "signal"
  /\ IF mPendingMiHALSnapCount <= 0 THEN signalReclaimSession ELSE UNCHANGED reclaim
  /\ at' = [at EXCEPT ![Darkroom] = Idle]
  /\ UNCHANGED <<recordVars, request, owed, executorVars, statusVars, flags, snapVars, flushVars,
                 registry>>

-----------------------------------------------------------------------------
(* AsyncAlgoSession::flush *)

FlushStep(from, to) == flush = from /\ flush' = to

Flush ==
  /\ registry = "active" /\ (Overlap \/ \A f \in Frames : request[f] \in Over)
  /\ FlushStep("none", "waiting")
  /\ UNCHANGED <<recordVars, request, owed, executorVars, statusVars, flags, snapVars, mFlush,
                 mExitThread, at, managerVars>>

\* Mutant: requests go on to the vendor
flush2VendorUnannounced ==
  /\ FlushStep("waiting", "vendor")
  /\ UNCHANGED mFlush
  /\ UNCHANGED <<recordVars, request, owed, executorVars, statusVars, flags, snapVars, mExitThread,
                 at, managerVars>>

\* The wait for the vendor's snapshots is over, or has timed out.
flush2Vendor ==
  /\ FlushStep("waiting", "vendor")
  /\ mFlush' = TRUE
  /\ UNCHANGED <<recordVars, request, owed, executorVars, statusVars, flags, snapVars, mExitThread,
                 at, managerVars>>

\* What is pending is answered with errors, and an executor that waited for
\* nothing else is erased.
flushPendingFwkRecords ==
  LET flushed == {f \in mAttachVendorFrame : Pending(f)}
      over == {f \in flushed \cap mVendorInflights :
                 mStatus[f] = ALL_FINISH /\ mAttachedCount[f] <= 1} IN
  /\ FlushStep("vendor", "loop")
  /\ flushRecords
  /\ removeAttachFwkRequest(flushed)
  /\ mVendorInflights' = mVendorInflights \ over
  /\ Destroyed({f \in over : ~HeldByRequest(f) /\ \A t \in Threads : ~Holds(t, f)})
  /\ UNCHANGED <<request, owed, snapVars, mFlush, mExitThread, at, registry>>

\* CameraMode::waitLoop
waitLoop ==
  /\ \/ FlushStep("loop", "join") /\ mExitThread' = TRUE
     \/ FlushStep("join", "drain") /\ at[Loop] = Idle /\ UNCHANGED mExitThread
  /\ UNCHANGED <<recordVars, request, owed, executorVars, statusVars, flags, snapVars, mFlush, at,
                 managerVars>>

\* MiHal3BufferMgr: all buffers are back, or the wait has timed out.
waitAndResetToInitStatus ==
  /\ FlushStep("drain", "returned")
  /\ UNCHANGED <<recordVars, request, owed, executorVars, statusVars, flags, snapVars, mFlush,
                 mExitThread, at, managerVars>>

FlushNext == flush2Vendor \/ flushPendingFwkRecords \/ waitLoop \/ waitAndResetToInitStatus

-----------------------------------------------------------------------------
(* SessionManager *)

\* A new configuration follows a flush, and the vendor is done with this one.
unregisterSession ==
  /\ registry = "active" /\ flush = "returned"
  /\ \A f \in Frames : request[f] \in Over /\ owed[f] = {}
  /\ \A t \in VendorThreads : at[t] = Idle
  /\ registry' = "offline" /\ reclaim' = "awake"
  /\ UNCHANGED <<recordVars, request, owed, executorVars, statusVars, flags, snapVars, flushVars, at>>

\* Mutant: images that are being made do not count
hasPendingPhotographersInVendor == mVendorInflights \cap Snapshots # {}

hasPendingPhotographers ==
  mVendorInflights \cap Snapshots # {} \/ mPendingMiHALSnapCount > 0

sessionReclaimLoop ==
  /\ reclaim = "awake"
  /\ reclaim' = "waiting"
  /\ registry' = IF registry = "offline" /\ ~hasPendingPhotographers THEN "deleted" ELSE registry
  /\ UNCHANGED <<recordVars, request, owed, executorVars, statusVars, flags, snapVars, flushVars, at>>

-----------------------------------------------------------------------------
Begin ==
  \/ \E f \in Frames : processCaptureRequest(f) \/ TakeAnchor(f)
  \/ \E t \in VendorThreads, f \in Frames,
        event \in Notifications \cup Results : Arrive(t, f, event)
  \/ Flush \/ unregisterSession

RequestGoesOn(f) == request[f] # "none" /\ ProcessRequest(f)
DarkroomNext ==
  (\E f \in Snapshots : AnswerOf(f)) \/ decreasePendingFinalSnapCount \/ SignalReclaim

Next ==
  \/ Begin
  \/ \E f \in Frames : RequestGoesOn(f)
  \/ \E t \in Threads : Callback(t)
  \/ DarkroomNext \/ FlushNext \/ sessionReclaimLoop

Spec == Init /\ [][Next]_vars

-----------------------------------------------------------------------------
(* Properties *)

\* Calls that have yet to give f's buffer to the framework
Delivering(f) == Cardinality({t \in Threads : at[t].frame = f /\ at[t].step \in {"count", "deliver"}})
Uncounted(f) == Cardinality({t \in Threads : at[t].frame = f /\ at[t].step = "count"})

One(condition) == IF condition THEN 1 ELSE 0
BeforeRecord(f) == request[f] \in {"admitted", "rejected", "rejecting"}

\* A buffer the framework has handed over is at one place only: with a request
\* that is not recorded yet, in its record, with one call that brings it back,
\* or back with the framework; nothing is delivered twice, however results,
\* early pictures and the flush interleave.
BuffersAccounted == \A f \in Frames :
  One(BeforeRecord(f)) + One("buffer" \in mPendingFwkRecords[f]) + Delivering(f) + back[f]
    = One(request[f] # "none")

\* MiHal3BufferMgr's count is that of the buffers no call has begun to return,
\* so that the drain of a flush waits for neither too few nor too many; the
\* clamp at 0 is never needed.
NeededExact ==
  mBufferNeededNum = Cardinality({f \in Frames :
    \/ request[f] \in {"admitted", "rejected"}
    \/ "buffer" \in mPendingFwkRecords[f] \/ Uncounted(f) > 0})

\* Once a flush has answered the pending records, no request that was sent to
\* the vendor is pending: mFlush is set before the records are cleared, so that
\* a later submit is refused.
AcceptedAreAnswered ==
  flush \in {"loop", "join", "drain", "returned"} =>
    \A f \in Frames : request[f] \in {"submitting", "submitted", "accepted"} => ~Pending(f)

\* An executor is erased that was told of its notification and of its completion and
\* has nothing attached any more: the last of the callbacks, early pictures and flushes
\* finds it finished, in whatever order they come.  Not so an executor whose status two
\* threads updated at the same time: what one of them stored may be lost.
FinishedIsErased == \A f \in mVendorInflights \ overlapped :
  told[f] = ALL_FINISH /\ mAttachedCount[f] = 0 => \E t \in Threads : Holds(t, f)

\* A session is not deleted while a photographer lives, which uses it, nor
\* while an image of it is made.
SessionSafe ==
  registry = "deleted" => \A f \in Snapshots :
    /\ executor[f] # "alive" /\ \A t \in Threads : ~Holds(t, f)
    /\ darkroom[f] \notin {"working", "working early"}

\* The vendor has answered the snapshot in full, no two updates of its status having
\* overlapped, or its executor is gone.
Served(f) ==
  CASE request[f] = "accepted" ->
         executor[f] = "gone" \/ ("meta" \in flags[f] /\ f \notin overlapped)
    [] OTHER -> request[f] # "refused"

\* When all is quiet, an offline session is deleted: nobody forgets to erase
\* an executor, to count an image or to wake the manager.  Not so for a
\* snapshot that was refused at the submit, lost its metadata, or lost an
\* update of its status: it may keep the session for ever.
ReclaimedWhenQuiet ==
  (/\ registry # "active" /\ reclaim = "waiting" /\ \A t \in Threads : at[t] = Idle
   /\ \A f \in Snapshots : Served(f) /\ darkroom[f] \in {"none", "answered"})
  => registry = "deleted"
=============================================================================
