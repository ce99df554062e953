--------------------------- MODULE RequestRecords ---------------------------
(***************************************************************************)
(* The framework's requests that a mihal session has yet to answer         *)
(* (mPendingFwkRecords of Session.cpp), and the count of their buffers by  *)
(* which MiHal3BufferMgr knows whether the framework still waits for some. *)
(*                                                                         *)
(* A record is the set of what has to be answered; it is erased when that  *)
(* is empty.  A result first updates the record, under                     *)
(* mPendingRecordsMutex, and is sent afterwards, with no lock held.        *)
(***************************************************************************)
EXTENDS Integers, FiniteSetsExt

CONSTANT Frames            \* framework requests, each with one buffer

ASSUME FramesAssumption == IsFiniteSet(Frames)

VARIABLES
  mPendingFwkRecords,
  mBufferNeededNum,
  back                     \* how often the framework got each buffer back

recordVars == <<mPendingFwkRecords, mBufferNeededNum, back>>

Parts == {"buffer", "meta", "shutter"}

RecordsTypeOK ==
  /\ mPendingFwkRecords \in [Frames -> SUBSET Parts]
  /\ mBufferNeededNum \in Nat
  /\ back \in [Frames -> Nat]

RecordsInit ==
  /\ mPendingFwkRecords = [f \in Frames |-> {}]
  /\ mBufferNeededNum = 0
  /\ back = [f \in Frames |-> 0]

Pending(f) == mPendingFwkRecords[f] # {}

\* MiHal3BufferMgr::processCaptureRequest
CountBuffer ==
  /\ mBufferNeededNum' = mBufferNeededNum + 1
  /\ UNCHANGED <<mPendingFwkRecords, back>>

insertPendingFwkRecords(f) ==
  /\ mPendingFwkRecords' = [mPendingFwkRecords EXCEPT ![f] = Parts]
  /\ UNCHANGED <<mBufferNeededNum, back>>

updatePendingFwkRecords(f, parts) ==
  /\ mPendingFwkRecords' = [mPendingFwkRecords EXCEPT ![f] = @ \ parts]
  /\ UNCHANGED <<mBufferNeededNum, back>>

Completes(f, parts) == Pending(f) /\ mPendingFwkRecords[f] \subseteq parts

\* MiHal3BufferMgr::processCaptureResult: a count below 0 is set to 0.
CountBack(n) == IF mBufferNeededNum < n THEN 0 ELSE mBufferNeededNum - n

\* VendorCamera::processCaptureResult, which counts first ...
UncountBuffer ==
  /\ mBufferNeededNum' = CountBack(1)
  /\ UNCHANGED <<mPendingFwkRecords, back>>

\* ... and then calls the framework.
process_capture_result(f) ==
  /\ back' = [back EXCEPT ![f] = @ + 1]
  /\ UNCHANGED <<mPendingFwkRecords, mBufferNeededNum>>

\* Mutant: the buffers are sent past MiHal3BufferMgr
flushRecordsUncounted ==
  LET flushed == {f \in Frames : "buffer" \in mPendingFwkRecords[f]} IN
  /\ back' = [f \in Frames |-> IF f \in flushed THEN back[f] + 1 ELSE back[f]]
  /\ mPendingFwkRecords' = [f \in Frames |-> {}]
  /\ UNCHANGED mBufferNeededNum

\* All that is pending is answered with errors while mPendingRecordsMutex is held.
flushRecords ==
  LET flushed == {f \in Frames : "buffer" \in mPendingFwkRecords[f]} IN
  /\ back' = [f \in Frames |-> IF f \in flushed THEN back[f] + 1 ELSE back[f]]
  /\ mBufferNeededNum' = CountBack(Cardinality(flushed))
  /\ mPendingFwkRecords' = [f \in Frames |-> {}]
=============================================================================
