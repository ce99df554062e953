-------------------------- MODULE MialgoTaskMonitor --------------------------
(***************************************************************************)
(* The snapshot flow control of mihal as a whole: MialgoTaskMonitor.cpp,   *)
(* which counts what each mialgo session has to do and says that it is     *)
(* busy when one of them is full, the camera modes, which do so when they  *)
(* run out of buffers, and AppSnapshotController, to which both report.    *)
(*                                                                         *)
(* A call of onMialgoTaskNumChanged works under mCheckMialgoStatusLock,    *)
(* lets go of it, and only then stops or starts the force-wake-up timer,   *)
(* whose handler needs that lock.  deleteMialgoTaskSig takes no lock.      *)
(***************************************************************************)
EXTENDS AppSnapshotController, Integers, FiniteSetsExt, SequencesExt

CONSTANTS
  Monitor,               \* the monitor as an object with a record
  Modes,                 \* camera modes
  WakeUpTimer,           \* mForceWakeUpTimer
  Sessions, Frames,      \* mialgo sessions, framework frame numbers
  Snapshots,             \* that mialgo may be given, time and again
  sessionOf, frameOf,    \* [Snapshots -> Sessions], [Snapshots -> Frames]
  consumption,           \* [Snapshots -> what the photographer's setting says it consumes]
  signature,             \* [Sessions -> image category, or NoSignature]
  NoSignature,
  Capacity,              \* mMialgoSessionCapacity
  MockCameraNum,
  Callers                \* threads that report tasks and results

ASSUME MonitorAssumption ==
  /\ WakeUpTimer \in Timers \ {ResetTimer}
  /\ Objects = Modes \cup {Monitor} /\ Monitor \notin Modes
  /\ sessionOf \in [Snapshots -> Sessions] /\ frameOf \in [Snapshots -> Frames]
  /\ consumption \in [Snapshots -> Nat]
  /\ Capacity \in Nat \ {0} /\ MockCameraNum \in Nat
  /\ Free \notin Callers

VARIABLES
  inMialgo,              \* snapshots that mialgo has and has not answered
  repeated,              \* sessions given a frame number they had not answered yet
  known,                 \* sessions in mMialgoTaskStatus
  mMialgoTaskStatus,     \* their consumption; 0 of others
  mMialgoTaskFrame,
  mTooManyImageCategories,
  mImageCategories,      \* in order; mSignatureSet has the same members
  mCheckMialgoStatusLock,
  caller,                \* where each call is
  deleter,               \* where the call of deleteMialgoTaskSig is
  mIsRetired, update     \* camera modes; calls of onMihalBufferChanged

snapshotVars == <<inMialgo, repeated>>
countVars == <<known, mMialgoTaskStatus, mMialgoTaskFrame>>
categoryVars == <<mTooManyImageCategories, mImageCategories>>
callVars == <<mCheckMialgoStatusLock, caller, deleter>>
modeVars == <<mIsRetired, update>>
monitorVars == <<snapshotVars, countVars, categoryVars, callVars, modeVars>>
allVars == <<vars, monitorVars>>

MonitorTypeOK ==
  /\ TypeOK
  /\ inMialgo \subseteq Snapshots /\ repeated \subseteq Sessions
  /\ known \subseteq Sessions
  /\ mMialgoTaskStatus \in [Sessions -> Nat]
  /\ mMialgoTaskFrame \in [Sessions -> SUBSET Frames]
  /\ mTooManyImageCategories \in BOOLEAN
  /\ mImageCategories \in Seq({signature[s] : s \in Sessions})
  /\ mCheckMialgoStatusLock \in Callers \cup {Free}
  /\ caller \in [Callers -> {"idle", "decided to cancel", "decided to run", "cancel", "run"}]
  /\ deleter \in {"idle", "erased", "can handle"}
  /\ mIsRetired \in [Modes -> BOOLEAN] /\ update \in [Modes -> {"idle", "entered"}]

MonitorInit ==
  /\ Init
  /\ inMialgo = {} /\ repeated = {} /\ known = {}
  /\ mMialgoTaskStatus = [s \in Sessions |-> 0]
  /\ mMialgoTaskFrame = [s \in Sessions |-> {}]
  /\ mTooManyImageCategories = TRUE /\ mImageCategories = <<>>
  /\ mCheckMialgoStatusLock = Free
  /\ caller = [c \in Callers |-> "idle"] /\ deleter = "idle"
  /\ mIsRetired = [m \in Modes |-> FALSE] /\ update = [m \in Modes |-> "idle"]
-----------------------------------------------------------------------------
(* onMialgoTaskNumChanged *)

\* Photographer::MonitorMialgoTask: once when the snapshot is sent to mialgo, and
\* once when its result is back.  The numbers start again with a camera that is
\* opened again, and sessions outlive it.  Bound: a session has a number repeated once.
Sent(x) ==
  LET s == sessionOf[x]
      again == \E y \in inMialgo : sessionOf[y] = s /\ frameOf[y] = frameOf[x] IN
  /\ x \notin inMialgo /\ ~(again /\ s \in repeated)
  /\ inMialgo' = inMialgo \cup {x}
  /\ repeated' = IF again THEN repeated \cup {s} ELSE repeated

Answered(x) == x \in inMialgo /\ inMialgo' = inMialgo \ {x} /\ UNCHANGED repeated

CanHandle(status) == \A s \in Sessions : status[s] < Capacity

\* checkImageCategoryCount, for a first task that consumes anything.
CheckedCategory(x) ==
  sessionOf[x] \notin known /\ consumption[x] > 0 /\ signature[sessionOf[x]] # NoSignature
KnownCategory(s) == signature[s] \in ToSet(mImageCategories)
TooMany == Len(mImageCategories) > MockCameraNum
OneOfTheFirst(s) == signature[s] \in ToSet(SubSeq(mImageCategories, 1, MockCameraNum))

Blocks(x) ==
  CheckedCategory(x) /\ KnownCategory(sessionOf[x]) /\ TooMany /\ OneOfTheFirst(sessionOf[x])

checkImageCategoryCount(x) ==
  LET s == sessionOf[x] IN
  /\ mImageCategories' = IF CheckedCategory(x) /\ ~KnownCategory(s)
                         THEN Append(mImageCategories, signature[s]) ELSE mImageCategories
  /\ mTooManyImageCategories' =
       IF CheckedCategory(x) /\ KnownCategory(s) /\ ~TooMany THEN FALSE
       ELSE mTooManyImageCategories \/ Blocks(x)

Enter(x) == known' = known \cup {sessionOf[x]} /\ checkImageCategoryCount(x)

Present(x) == frameOf[x] \in mMialgoTaskFrame[sessionOf[x]]

\* A result whose frame is not there any more, or a task that consumes nothing.
IgnoreCall(x) ==
  /\ mCheckMialgoStatusLock = Free
  /\ ~Present(x) /\ (Answered(x) \/ (consumption[x] = 0 /\ Sent(x)))
  /\ Enter(x)
  /\ IF Blocks(x) THEN onRecordUpdate(FALSE, Monitor) ELSE UNCHANGED <<mRecord, mCommands>>
  /\ UNCHANGED <<timerVars, command, worker, mAppStatus, mStatusMutex, app,
                 mMialgoTaskStatus, mMialgoTaskFrame, callVars, modeVars>>

\* A number that is there already is counted all the same.
AddTask(x) ==
  /\ Sent(x) /\ consumption[x] # 0
  /\ mMialgoTaskFrame' = [mMialgoTaskFrame EXCEPT ![sessionOf[x]] = @ \cup {frameOf[x]}]
  /\ mMialgoTaskStatus' = [mMialgoTaskStatus EXCEPT ![sessionOf[x]] = @ + consumption[x]]

\* Mutant: a result gives back one unit.
RemoveTaskByOne(x) ==
  /\ Answered(x) \/ (consumption[x] = 0 /\ Sent(x))
  /\ Present(x)
  /\ mMialgoTaskFrame' = [mMialgoTaskFrame EXCEPT ![sessionOf[x]] = @ \ {frameOf[x]}]
  /\ mMialgoTaskStatus' = [mMialgoTaskStatus EXCEPT ![sessionOf[x]] = IF @ < 1 THEN 0 ELSE @ - 1]

\* A result, but also a task that consumes nothing, takes the frame away.  A count
\* that would be negative, after a reset, is taken for 0.
RemoveTask(x) ==
  /\ Answered(x) \/ (consumption[x] = 0 /\ Sent(x))
  /\ Present(x)
  /\ mMialgoTaskFrame' = [mMialgoTaskFrame EXCEPT ![sessionOf[x]] = @ \ {frameOf[x]}]
  /\ mMialgoTaskStatus' = [mMialgoTaskStatus EXCEPT ![sessionOf[x]] =
                             IF @ < consumption[x] THEN 0 ELSE @ - consumption[x]]

CountTask(c, x) ==
  /\ caller[c] = "idle" /\ mCheckMialgoStatusLock = Free
  /\ AddTask(x) \/ RemoveTask(x)
  /\ Enter(x)
  /\ mCheckMialgoStatusLock' = c
  /\ IF mTooManyImageCategories'
     THEN /\ caller' = [caller EXCEPT ![c] = "decided to cancel"]
          /\ IF Blocks(x) THEN onRecordUpdate(FALSE, Monitor)
             ELSE UNCHANGED <<mRecord, mCommands>>
     ELSE /\ caller' = [caller EXCEPT ![c] = IF CanHandle(mMialgoTaskStatus')
                                             THEN "decided to cancel" ELSE "decided to run"]
          /\ onRecordUpdate(CanHandle(mMialgoTaskStatus'), Monitor)
  /\ UNCHANGED <<timerVars, command, worker, mAppStatus, mStatusMutex, app,
                 deleter, modeVars>>

\* Mutant: the lock is kept until the call returns.
KeepLock(c) ==
  /\ \/ /\ caller[c] = "decided to cancel"
        /\ caller' = [caller EXCEPT ![c] = "cancel"]
     \/ /\ caller[c] = "decided to run"
        /\ caller' = [caller EXCEPT ![c] = "run"]
  /\ UNCHANGED <<vars, snapshotVars, countVars, categoryVars, mCheckMialgoStatusLock,
                 deleter, modeVars>>

Unlock(c) ==
  /\ \/ /\ caller[c] = "decided to cancel"
        /\ caller' = [caller EXCEPT ![c] = "cancel"]
     \/ /\ caller[c] = "decided to run"
        /\ caller' = [caller EXCEPT ![c] = "run"]
  /\ mCheckMialgoStatusLock' = Free
  /\ UNCHANGED <<vars, snapshotVars, countVars, categoryVars, deleter, modeVars>>

\* The call returns, and with it goes the lock, should it still be held.
SetWakeUpTimer(c) ==
  /\ \/ caller[c] = "cancel" /\ cancel(WakeUpTimer)
     \/ caller[c] = "run" /\ runAfter(WakeUpTimer)
  /\ caller' = [caller EXCEPT ![c] = "idle"]
  /\ mCheckMialgoStatusLock' =
       IF mCheckMialgoStatusLock = c THEN Free ELSE mCheckMialgoStatusLock
  /\ UNCHANGED <<mRecord, controlVars, snapshotVars, countVars, categoryVars, deleter, modeVars>>

\* mMialgoTimeOutHandler: sessions that are full are taken to be empty.
ForceWakeUp ==
  /\ serving = WakeUpTimer /\ mCheckMialgoStatusLock = Free
  /\ mMialgoTaskStatus' = [s \in Sessions |-> IF mMialgoTaskStatus[s] >= Capacity THEN 0
                                              ELSE mMialgoTaskStatus[s]]
  /\ onRecordUpdate(TRUE, Monitor)
  /\ Served(WakeUpTimer)
  /\ UNCHANGED <<command, worker, mAppStatus, mStatusMutex, app,
                 snapshotVars, known, mMialgoTaskFrame, categoryVars, callVars, modeVars>>

-----------------------------------------------------------------------------
(* deleteMialgoTaskSig *)

Erase(s) ==
  /\ deleter = "idle"
  /\ known' = known \ {s}
  /\ mMialgoTaskStatus' = [mMialgoTaskStatus EXCEPT ![s] = 0]
  /\ mImageCategories' = SelectSeq(mImageCategories, LAMBDA sig : sig # signature[s])
  /\ deleter' = IF signature[s] # NoSignature /\ Len(mImageCategories') <= MockCameraNum
                THEN "erased" ELSE "idle"
  /\ UNCHANGED <<vars, snapshotVars, mMialgoTaskFrame, mTooManyImageCategories,
                 mCheckMialgoStatusLock, caller, modeVars>>

NotTooMany ==
  /\ deleter = "erased"
  /\ mTooManyImageCategories' = FALSE
  /\ deleter' = IF CanHandle(mMialgoTaskStatus) THEN "can handle" ELSE "idle"
  /\ UNCHANGED <<vars, snapshotVars, countVars, mImageCategories, mCheckMialgoStatusLock,
                 caller, modeVars>>

EnableAgain ==
  /\ deleter = "can handle"
  /\ onRecordUpdate(TRUE, Monitor)
  /\ deleter' = "idle"
  /\ UNCHANGED <<timerVars, command, worker, mAppStatus, mStatusMutex, app,
                 snapshotVars, countVars, categoryVars, mCheckMialgoStatusLock, caller, modeVars>>

deleteMialgoTaskSig == (\E s \in Sessions : Erase(s)) \/ NotTooMany \/ EnableAgain

-----------------------------------------------------------------------------
(* Camera modes *)

\* onMihalBufferChanged looks whether the mode is retired, and then at its buffers.
EnterUpdate(m) ==
  /\ ~mIsRetired[m] /\ update[m] = "idle"
  /\ update' = [update EXCEPT ![m] = "entered"]
  /\ UNCHANGED <<vars, snapshotVars, countVars, categoryVars, callVars, mIsRetired>>

UpdateRecord(m) ==
  /\ update[m] = "entered"
  /\ \E status \in BOOLEAN : onRecordUpdate(status, m)
  /\ update' = [update EXCEPT ![m] = "idle"]
  /\ UNCHANGED <<timerVars, command, worker, mAppStatus, mStatusMutex, app,
                 snapshotVars, countVars, categoryVars, callVars, mIsRetired>>

setRetired(m) ==
  /\ ~mIsRetired[m]
  /\ mIsRetired' = [mIsRetired EXCEPT ![m] = TRUE]
  /\ onRecordDelete(m)
  /\ UNCHANGED <<timerVars, command, worker, mAppStatus, mStatusMutex, app,
                 snapshotVars, countVars, categoryVars, callVars, update>>

-----------------------------------------------------------------------------
onMialgoTaskNumChanged(c) ==
  (\E x \in Snapshots : CountTask(c, x)) \/ Unlock(c) \/ SetWakeUpTimer(c)

Next ==
  \/ (processCommandLoop \/ TimerThread) /\ UNCHANGED monitorVars
  \/ ForceWakeUp
  \/ \E c \in Callers : onMialgoTaskNumChanged(c)
  \/ \E x \in Snapshots : IgnoreCall(x)
  \/ deleteMialgoTaskSig
  \/ \E m \in Modes : EnterUpdate(m) \/ UpdateRecord(m) \/ setRetired(m)

Safe == MonitorInit /\ [][Next]_allVars

\* The worker and the timer thread are scheduled, and a timer that is armed is found
\* due if the thread goes on collecting.  A call that has been made goes on.  Nothing
\* is assumed of mialgo, which may keep its results, nor of the camera modes.
CollectDue(t) == Collect /\ t \in expired' /\ UNCHANGED <<mRecord, controlVars, monitorVars>>

Fairness ==
  /\ WF_allVars(processCommandLoop /\ UNCHANGED monitorVars)
  /\ WF_allVars(TimerThread /\ UNCHANGED monitorVars)
  /\ \A t \in Timers : SF_allVars(CollectDue(t))
  /\ WF_allVars(ForceWakeUp)
  /\ \A c \in Callers : WF_allVars(Unlock(c) \/ SetWakeUpTimer(c))

Spec == Safe /\ Fairness

-----------------------------------------------------------------------------
(* Properties *)

\* What the snapshots consume that mialgo has for a session
Units(x) == {x} \X (1..consumption[x])
UnitsInMialgo(s) == UNION {Units(x) : x \in {y \in inMialgo : sessionOf[y] = s}}
Load(s) == Cardinality(UnitsInMialgo(s))

\* A session is never thought to have more to do than mialgo has for it: resets,
\* results that come after them, and deletions only make the count too small, so that
\* a session without tasks does not block the application.  Not so a session that was
\* given a frame number it had not answered yet: both tasks are counted, the first
\* result takes the number away, and the other task stays counted for ever.
NoPhantomTasks ==
  \A s \in Sessions \ repeated : mMialgoTaskStatus[s] <= Load(s)

\* No call of onMialgoTaskNumChanged waits for the timer thread while that waits for
\* the call: the deadlock of which a comment in the code warns.
CallReturns ==
  \A c \in Callers : caller[c] \in {"decided to cancel", "decided to run"} ~> caller[c] = "idle"

\* Reports to the controller are all that the HAL does to it.
ControllerRefined == ControllerSpec

\* A busy record of the monitor is backed by a timer that will reset it.  This does
\* not hold: a call that is about to cancel may be overtaken by one that runs the timer.
BusyIsTimed ==
  mRecord[Monitor] = "busy" =>
    \/ mTooManyImageCategories \/ Ticking(WakeUpTimer)
    \/ \E c \in Callers : caller[c] \in {"decided to run", "run"}

\* A retired camera mode has no record.  This does not hold: an update that has
\* looked at mIsRetired may make a new one.
RetiredIsForgotten == \A m \in Modes : mIsRetired[m] => mRecord[m] = "none"
=============================================================================
