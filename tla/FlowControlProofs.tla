-------------------------- MODULE FlowControlProofs --------------------------
(***************************************************************************)
(* What holds of the snapshot flow control for all objects, sessions and   *)
(* callers.  Control is the inductive invariant of AppSnapshotController   *)
(* under an environment that records and sets other timers as it likes;    *)
(* MialgoTaskMonitor is such an environment, and so inherits it.           *)
(***************************************************************************)
EXTENDS MialgoTaskMonitor, FiniteSetTheorems, TLAPS

\* The worker holds mStatusMutex while it tells the application, and the timer's
\* handler while it does so; each has set the status before.
Telling ==
  /\ mStatusMutex = "worker" <=> worker = "telling"
  /\ worker = "telling" => mAppStatus = Merged
  /\ mStatusMutex = "timer" => serving = ResetTimer /\ mAppStatus = "ACTIVATED"

\* Only the worker mutes, so what it has activated stays so until its next command.
Setting ==
  /\ worker = "arming" => Merged = "MUTED"
  /\ worker = "disarming" => mAppStatus = "ACTIVATED"

\* The last command that has been queued agrees with the records, wherever it is.
Answer == IF NoneBusy(mRecord) THEN "CONTINUE" ELSE "MUTE"
LastCommand ==
  /\ mCommands # "none" => mCommands = Answer
  /\ mCommands = "none" /\ worker # "waiting" => command = Answer

Control ==
  TypeOK /\ Telling /\ Setting /\ LastCommand /\ AppKnows /\ MutedIsTimed /\ MutedForReason

LEMMA ControlInit == Init => Control
BY TimerAssumption, ControllerAssumption
   DEF Init, TimerInit, Control, TypeOK, TimerTypeOK, Telling, Setting, LastCommand, AppKnows,
       MutedIsTimed, MutedForReason, NoneBusy, Statuses

-----------------------------------------------------------------------------
(* The worker *)

LEMMA ControlTake == ASSUME Control, TakeCommands PROVE Control'
<1> USE DEF TakeCommands, timerVars
<1>1. TypeOK'
  BY DEF Control, TypeOK, TimerTypeOK
<1>2. Telling' /\ Setting' /\ AppKnows'
  BY DEF Control, Telling, Setting, AppKnows
<1>3. LastCommand'
  BY DEF Control, LastCommand, Answer, NoneBusy
<1>4. MutedIsTimed' /\ MutedForReason'
  BY DEF Control, MutedIsTimed, MutedForReason, Ticking
<1> QED BY <1>1, <1>2, <1>3, <1>4 DEF Control

LEMMA ControlMerge == ASSUME Control, MergeCommands PROVE Control'
<1>1. worker = "merging" /\ mStatusMutex = Free /\ UNCHANGED <<timerVars, mRecord, mCommands, app>>
  BY DEF MergeCommands
<1>2. Merged \in Statuses
  BY DEF Merged, Statuses
<1>3. CASE Merged = mAppStatus
  <2>1. worker' = "waiting" /\ command' = "none" /\ UNCHANGED <<mAppStatus, mStatusMutex>>
    BY <1>3 DEF MergeCommands
  <2>2. TypeOK'
    BY <1>1, <2>1 DEF Control, TypeOK, TimerTypeOK, timerVars
  <2>3. Telling' /\ Setting' /\ AppKnows' /\ LastCommand'
    BY <1>1, <2>1, ControllerAssumption
       DEF Control, Telling, Setting, AppKnows, LastCommand, Answer, NoneBusy, ControllerAssumption
  <2>4. MutedIsTimed'
    BY <1>1, <2>1 DEF Control, MutedIsTimed, Ticking, timerVars
  <2>5. MutedForReason'
    BY <1>1, <1>3, <2>1 DEF Control, LastCommand, Answer, MutedForReason, Merged, NoneBusy
  <2> QED BY <2>2, <2>3, <2>4, <2>5 DEF Control
<1>4. CASE Merged # mAppStatus
  <2>1. worker' = "telling" /\ mAppStatus' = Merged /\ mStatusMutex' = "worker" /\ UNCHANGED command
    BY <1>4 DEF MergeCommands
  <2>2. TypeOK'
    BY <1>1, <1>2, <2>1 DEF Control, TypeOK, TimerTypeOK, timerVars
  <2>3. Telling' /\ Setting' /\ AppKnows'
    BY <1>1, <2>1, ControllerAssumption
       DEF Telling, Setting, AppKnows, Merged, ControllerAssumption
  <2>4. LastCommand' /\ MutedIsTimed' /\ MutedForReason'
    BY <1>1, <2>1 DEF Control, LastCommand, Answer, NoneBusy, MutedIsTimed, MutedForReason
  <2> QED BY <2>2, <2>3, <2>4 DEF Control
<1> QED BY <1>3, <1>4

LEMMA ControlTell == ASSUME Control, TellApp PROVE Control'
<1>1. /\ worker = "telling" /\ app' = Merged /\ mStatusMutex' = Free
      /\ UNCHANGED <<timerVars, mRecord, mCommands, command, mAppStatus>>
  BY DEF TellApp
<1>2. worker' = IF Merged = "MUTED" THEN "arming" ELSE "disarming"
  BY DEF TellApp
<1>3. Merged \in Statuses /\ mAppStatus = Merged
  BY <1>1 DEF Control, Telling, Merged, Statuses
<1>4. TypeOK'
  BY <1>1, <1>2, <1>3 DEF Control, TypeOK, TimerTypeOK, timerVars
<1>5. Telling' /\ Setting' /\ AppKnows'
  BY <1>1, <1>2, <1>3, ControllerAssumption
     DEF Telling, Setting, AppKnows, Merged, Statuses, ControllerAssumption
<1>6. LastCommand' /\ MutedForReason'
  BY <1>1, <1>2 DEF Control, LastCommand, Answer, NoneBusy, MutedForReason
<1>7. MutedIsTimed'
  BY <1>1, <1>2, <1>3 DEF MutedIsTimed
<1> QED BY <1>4, <1>5, <1>6, <1>7 DEF Control

LEMMA ControlSetTimer == ASSUME Control, SetTimer PROVE Control'
<1>1. /\ worker \in {"arming", "disarming"} /\ worker' = "waiting"  /\ command' = "none"
      /\ UNCHANGED <<mRecord, mCommands, mAppStatus, mStatusMutex, app>>
  BY DEF SetTimer
<1>2. UNCHANGED <<expired, serving>>
  BY DEF SetTimer, runAfter, cancel
<1>3. TypeOK'
  BY <1>1, ControllerAssumption
     DEF Control, TypeOK, TimerTypeOK, SetTimer, runAfter, cancel, ControllerAssumption
<1>4. Telling' /\ Setting' /\ AppKnows' /\ LastCommand'
  BY <1>1, <1>2 DEF Control, Telling, Setting, AppKnows, LastCommand, Answer, NoneBusy
<1>5. MutedIsTimed'
  <2>1. CASE worker = "arming"
    BY <2>1 DEF MutedIsTimed, Ticking, SetTimer, runAfter
  <2>2. CASE worker = "disarming"
    BY <1>1, <2>2 DEF Control, Setting, MutedIsTimed
  <2> QED BY <1>1, <2>1, <2>2
<1>6. MutedForReason'
  <2>1. CASE worker = "arming"
    BY <1>1, <2>1 DEF Control, Setting, Merged, LastCommand, Answer, NoneBusy, MutedForReason
  <2>2. CASE worker = "disarming"
    BY <1>1, <2>2 DEF Control, Setting, MutedForReason
  <2> QED BY <1>1, <2>1, <2>2
<1> QED BY <1>3, <1>4, <1>5, <1>6 DEF Control

-----------------------------------------------------------------------------
(* The timer thread and the environment *)

\* Steps that leave the worker and the application alone.
LEMMA ControlKept ==
  ASSUME Control, TypeOK', UNCHANGED <<command, worker, mAppStatus, mStatusMutex, app>>,
         mStatusMutex = "timer" => serving' = ResetTimer,
         Ticking(ResetTimer) => Ticking(ResetTimer)',
         \/ UNCHANGED <<mRecord, mCommands>>
         \/ mCommands' = Answer'
  PROVE  Control'
<1>1. Telling' /\ Setting' /\ AppKnows'
  BY DEF Control, Telling, Setting, AppKnows, Merged
<1>2. LastCommand' /\ MutedForReason'
  BY DEF Control, LastCommand, Answer, NoneBusy, MutedForReason
<1>3. MutedIsTimed'
  BY DEF Control, MutedIsTimed
<1> QED BY <1>1, <1>2, <1>3 DEF Control

LEMMA ControlTimer == ASSUME Control, TimerThread PROVE Control'
<1>1. CASE Collect /\ UNCHANGED <<mRecord, controlVars>>
  <2>1. TypeOK'
    BY <1>1 DEF Control, TypeOK, TimerTypeOK, Collect, controlVars
  <2>2. Ticking(ResetTimer) => Ticking(ResetTimer)'
    BY <1>1 DEF Ticking, Collect
  <2> QED BY <1>1, <2>1, <2>2, ControlKept DEF Control, Telling, Collect, controlVars
<1>2. ASSUME NEW t \in Timers, Serve(t), UNCHANGED <<mRecord, controlVars>> PROVE Control'
  <2>1. TypeOK'
    BY <1>2 DEF Control, TypeOK, TimerTypeOK, Serve, controlVars
  <2>2. Ticking(ResetTimer) => Ticking(ResetTimer)'
    BY <1>2, TimerAssumption, ControllerAssumption
       DEF Ticking, Serve, TimerAssumption, ControllerAssumption
  <2>3. mStatusMutex # "timer"
    BY <1>2, TimerAssumption, ControllerAssumption
       DEF Control, Telling, Serve, TimerAssumption, ControllerAssumption
  <2> QED BY <1>2, <2>1, <2>2, <2>3, ControlKept DEF controlVars
<1>3. CASE Awaken
  <2>1. TypeOK'
    BY <1>3 DEF Control, TypeOK, TimerTypeOK, Statuses, Awaken, timerVars
  <2>2. Telling' /\ Setting' /\ AppKnows'
    BY <1>3, ControllerAssumption
       DEF Control, Telling, Setting, AppKnows, Merged, Awaken, timerVars, ControllerAssumption
  <2>3. LastCommand' /\ MutedIsTimed' /\ MutedForReason'
    BY <1>3 DEF Control, LastCommand, Answer, NoneBusy, MutedIsTimed, MutedForReason, Awaken
  <2> QED BY <2>1, <2>2, <2>3 DEF Control
<1>4. CASE AwakenTell
  <2>1. mAppStatus = "ACTIVATED" /\ worker # "telling"
    BY <1>4 DEF Control, Telling, AwakenTell
  <2>2. TypeOK'
    BY <1>4 DEF Control, TypeOK, TimerTypeOK, Statuses, AwakenTell, Served
  <2>3. Telling' /\ Setting' /\ AppKnows'
    BY <1>4, <2>1, ControllerAssumption
       DEF Control, Telling, Setting, AppKnows, Merged, AwakenTell, ControllerAssumption
  <2>4. LastCommand' /\ MutedIsTimed' /\ MutedForReason'
    BY <1>4, <2>1 DEF Control, LastCommand, Answer, NoneBusy, MutedIsTimed, MutedForReason, AwakenTell
  <2> QED BY <2>2, <2>3, <2>4 DEF Control
<1> QED BY <1>1, <1>2, <1>3, <1>4 DEF TimerThread

LEMMA RecordTyped ==
  ASSUME mRecord \in [Objects -> {"none", "ready", "busy"}], NEW o \in Objects,
         onRecordDelete(o) \/ \E can \in BOOLEAN : onRecordUpdate(can, o)
  PROVE  /\ mRecord' \in [Objects -> {"none", "ready", "busy"}]
         /\ mCommands' = Answer' \/ UNCHANGED <<mRecord, mCommands>>
BY DEF onRecordDelete, onRecordUpdate, RecordChanged, Answer, NoneBusy

LEMMA ControlEnvironment == ASSUME Control, Environment PROVE Control'
<1>1. UNCHANGED <<command, worker, mAppStatus, mStatusMutex, app>> /\ TimerTypeOK'
  BY DEF Environment
<1>2. mRecord \in [Objects -> {"none", "ready", "busy"}]
  BY DEF Control, TypeOK
<1>3. /\ mRecord' \in [Objects -> {"none", "ready", "busy"}]
      /\ mCommands' = Answer' \/ UNCHANGED <<mRecord, mCommands>>
  BY <1>2, RecordTyped DEF Environment
<1>4. TypeOK'
  BY <1>1, <1>3 DEF Control, TypeOK, Answer
<1>5. /\ mStatusMutex = "timer" => serving' = ResetTimer
      /\ Ticking(ResetTimer) => Ticking(ResetTimer)'
  BY DEF Control, Telling, Ticking, Environment, OtherTimers
<1> QED BY <1>1, <1>3, <1>4, <1>5, ControlKept

LEMMA ControlNext == ASSUME Control, [ControllerNext]_vars PROVE Control'
<1>1. CASE UNCHANGED vars
  <2>1. TypeOK'
    BY <1>1 DEF Control, TypeOK, TimerTypeOK, vars, timerVars, controlVars
  <2> QED BY <1>1, <2>1, ControlKept DEF Control, Telling, Ticking, vars, timerVars, controlVars
<1> QED BY <1>1, ControlTake, ControlMerge, ControlTell, ControlSetTimer, ControlTimer,
           ControlEnvironment DEF ControllerNext, processCommandLoop

LEMMA ControlAlways == ControllerSpec => []Control
<1>1. Init => Control
  BY ControlInit
<1>2. Control /\ [ControllerNext]_vars => Control'
  BY ControlNext
<1> QED BY <1>1, <1>2, PTL DEF ControllerSpec

-----------------------------------------------------------------------------
(* The monitor, the camera modes and their callers are an environment of the *)
(* controller                                                                *)

Others == UNCHANGED <<command, worker, mAppStatus, mStatusMutex, app>>

LEMMA MonitorIsObject ==
  /\ Monitor \in Objects /\ \A m \in Modes : m \in Objects
  /\ WakeUpTimer \in Timers /\ WakeUpTimer # ResetTimer
  /\ ResetTimer # NoTimer /\ WakeUpTimer # NoTimer
BY MonitorAssumption, TimerAssumption, ControllerAssumption
   DEF MonitorAssumption, TimerAssumption, ControllerAssumption

\* A report, or none, while no timer is touched.
LEMMA ReportIsEnvironment ==
  ASSUME TimerTypeOK, UNCHANGED timerVars, Others,
         \/ \E o \in Objects : onRecordDelete(o) \/ \E can \in BOOLEAN : onRecordUpdate(can, o)
         \/ UNCHANGED <<mRecord, mCommands>>
  PROVE  Environment
BY DEF Environment, Others, OtherTimers, TimerTypeOK, timerVars

LEMMA IgnoreCallIsEnvironment ==
  ASSUME TimerTypeOK, NEW x \in Snapshots, IgnoreCall(x)
  PROVE  Environment
<1>1. UNCHANGED timerVars /\ Others
  BY DEF IgnoreCall, Others
<1>2. onRecordUpdate(FALSE, Monitor) \/ UNCHANGED <<mRecord, mCommands>>
  BY DEF IgnoreCall
<1> QED BY <1>1, <1>2, ReportIsEnvironment, MonitorIsObject

LEMMA CountTaskIsEnvironment ==
  ASSUME TimerTypeOK, NEW c \in Callers, NEW x \in Snapshots, CountTask(c, x)
  PROVE  Environment
<1>1. UNCHANGED timerVars /\ Others
  BY DEF CountTask, Others
<1>2. \/ \E can \in BOOLEAN : onRecordUpdate(can, Monitor)
      \/ UNCHANGED <<mRecord, mCommands>>
  <2>1. CanHandle(mMialgoTaskStatus') \in BOOLEAN
    BY DEF CanHandle
  <2> QED BY <2>1 DEF CountTask
<1> QED BY <1>1, <1>2, ReportIsEnvironment, MonitorIsObject

LEMMA SetWakeUpTimerIsEnvironment ==
  ASSUME TimerTypeOK, NEW c \in Callers, SetWakeUpTimer(c)
  PROVE  Environment
<1>1. Others /\ UNCHANGED <<mRecord, mCommands>>
  BY DEF SetWakeUpTimer, controlVars, Others
<1>2. OtherTimers /\ TimerTypeOK'
  BY MonitorIsObject DEF SetWakeUpTimer, runAfter, cancel, OtherTimers, TimerTypeOK
<1> QED BY <1>1, <1>2 DEF Environment, Others

LEMMA ForceWakeUpIsEnvironment ==
  ASSUME TimerTypeOK, ForceWakeUp
  PROVE  Environment
<1>1. Others /\ onRecordUpdate(TRUE, Monitor)
  BY DEF ForceWakeUp, Others
<1>2. OtherTimers /\ TimerTypeOK'
  BY MonitorIsObject DEF ForceWakeUp, Served, OtherTimers, TimerTypeOK
<1> QED BY <1>1, <1>2, MonitorIsObject DEF Environment, Others

LEMMA DeleteIsEnvironment ==
  ASSUME TimerTypeOK, NotTooMany \/ EnableAgain \/ \E s \in Sessions : Erase(s)
  PROVE  Environment
<1>1. UNCHANGED timerVars /\ Others
  BY DEF NotTooMany, EnableAgain, Erase, vars, controlVars, Others
<1>2. onRecordUpdate(TRUE, Monitor) \/ UNCHANGED <<mRecord, mCommands>>
  BY DEF NotTooMany, EnableAgain, Erase, vars, controlVars
<1> QED BY <1>1, <1>2, ReportIsEnvironment, MonitorIsObject

LEMMA ModeIsEnvironment ==
  ASSUME TimerTypeOK, NEW m \in Modes, EnterUpdate(m) \/ UpdateRecord(m) \/ setRetired(m)
  PROVE  Environment
<1>1. UNCHANGED timerVars /\ Others
  BY DEF EnterUpdate, UpdateRecord, setRetired, vars, controlVars, Others
<1>2. \/ onRecordDelete(m) \/ \E can \in BOOLEAN : onRecordUpdate(can, m)
      \/ UNCHANGED <<mRecord, mCommands>>
  BY DEF EnterUpdate, UpdateRecord, setRetired, vars, controlVars
<1> QED BY <1>1, <1>2, ReportIsEnvironment, MonitorIsObject

LEMMA StepIsControllers ==
  ASSUME TimerTypeOK, [Next]_allVars
  PROVE  [ControllerNext]_vars
<1>1. CASE processCommandLoop \/ TimerThread
  BY <1>1 DEF ControllerNext
<1>2. CASE ForceWakeUp
  BY <1>2, ForceWakeUpIsEnvironment DEF ControllerNext
<1>3. ASSUME NEW c \in Callers, onMialgoTaskNumChanged(c) PROVE [ControllerNext]_vars
  <2>1. CASE Unlock(c)
    BY <2>1 DEF Unlock
  <2> QED BY <1>3, <2>1, CountTaskIsEnvironment, SetWakeUpTimerIsEnvironment
          DEF onMialgoTaskNumChanged, ControllerNext
<1>4. CASE \E x \in Snapshots : IgnoreCall(x)
  BY <1>4, IgnoreCallIsEnvironment DEF ControllerNext
<1>5. CASE deleteMialgoTaskSig
  BY <1>5, DeleteIsEnvironment DEF deleteMialgoTaskSig, ControllerNext
<1>6. CASE \E m \in Modes : EnterUpdate(m) \/ UpdateRecord(m) \/ setRetired(m)
  BY <1>6, ModeIsEnvironment DEF ControllerNext
<1>7. CASE UNCHANGED allVars
  BY <1>7 DEF allVars
<1> QED BY <1>1, <1>2, <1>3, <1>4, <1>5, <1>6, <1>7 DEF Next

\* Timers stay well formed whatever the controller does.
LEMMA TimersTyped ==
  ASSUME TimerTypeOK, [ControllerNext]_vars
  PROVE  TimerTypeOK'
<1>1. CASE processCommandLoop
  BY <1>1, ControllerAssumption
     DEF processCommandLoop, TakeCommands, MergeCommands, TellApp, SetTimer, runAfter, cancel,
         TimerTypeOK, timerVars, ControllerAssumption
<1>2. CASE TimerThread
  BY <1>2 DEF TimerThread, Collect, Serve, Awaken, AwakenTell, Served, TimerTypeOK, timerVars
<1>3. CASE Environment
  BY <1>3 DEF Environment
<1>4. CASE UNCHANGED vars
  BY <1>4 DEF vars, timerVars, TimerTypeOK
<1> QED BY <1>1, <1>2, <1>3, <1>4 DEF ControllerNext

\* The monitor, the camera modes and their callers do nothing to the controller that its
\* specification does not allow for.
THEOREM MonitorRefinesController == Spec => ControllerSpec
<1>1. MonitorInit => Init /\ TimerTypeOK
  BY DEF MonitorInit, Init, TimerInit, TimerTypeOK
<1>2. TimerTypeOK /\ [Next]_allVars => [ControllerNext]_vars /\ TimerTypeOK'
  BY StepIsControllers, TimersTyped
<1>3. Safe => []TimerTypeOK
  BY <1>1, <1>2, PTL DEF Safe
<1> QED BY <1>1, <1>2, <1>3, PTL DEF Spec, Safe, ControllerSpec

\* An application that is muted will be woken, whatever the objects do.
THEOREM TheMutedAreTimed == Spec => []MutedIsTimed
<1>1. Control => MutedIsTimed
  BY DEF Control
<1> QED BY <1>1, MonitorRefinesController, ControlAlways, PTL

\* An application is not left muted by an object that is busy no more.
THEOREM TheMutedHaveReason == Spec => []MutedForReason
<1>1. Control => MutedForReason
  BY DEF Control
<1> QED BY <1>1, MonitorRefinesController, ControlAlways, PTL

\* What the worker and the timer tell the application never overtakes each other.
THEOREM TheAppKnows == Spec => []AppKnows
<1>1. Control => AppKnows
  BY DEF Control
<1> QED BY <1>1, MonitorRefinesController, ControlAlways, PTL

-----------------------------------------------------------------------------
(* What the monitor counts *)

\* Snapshots of a session that mialgo has at the same time have different numbers,
\* unless one was repeated, ...
NumbersDiffer ==
  \A x, y \in inMialgo :
    sessionOf[x] = sessionOf[y] /\ frameOf[x] = frameOf[y] /\ x # y => sessionOf[x] \in repeated

\* ... so that the number of one that consumes anything is there until its own result.
NumbersPresent ==
  \A x \in inMialgo : sessionOf[x] \notin repeated /\ consumption[x] # 0 => Present(x)

Counts ==
  /\ inMialgo \subseteq Snapshots /\ repeated \subseteq Sessions
  /\ mMialgoTaskStatus \in [Sessions -> Nat]
  /\ mMialgoTaskFrame \in [Sessions -> SUBSET Frames]
  /\ \A s \in Sessions : IsFiniteSet(UnitsInMialgo(s))
  /\ NumbersDiffer /\ NumbersPresent
  /\ NoPhantomTasks

LEMMA Consumption ==
  ASSUME NEW x \in Snapshots
  PROVE  consumption[x] \in Nat /\ sessionOf[x] \in Sessions /\ frameOf[x] \in Frames
BY MonitorAssumption DEF MonitorAssumption

\* A snapshot adds as many units as it consumes.
LEMMA UnitsCounted ==
  ASSUME NEW x \in Snapshots
  PROVE  IsFiniteSet(Units(x)) /\ Cardinality(Units(x)) = consumption[x]
<1> DEFINE n == consumption[x]
<1>1. n \in Nat
  BY Consumption
<1> HIDE DEF n
<1>2. IsFiniteSet(1..n) /\ Cardinality(1..n) = n
  BY <1>1, FS_Interval
<1>3. IsFiniteSet({x}) /\ Cardinality({x}) = 1
  BY FS_Singleton
<1>4. /\ IsFiniteSet({x} \X (1..n))
      /\ Cardinality({x} \X (1..n)) = Cardinality({x}) * Cardinality(1..n)
  BY <1>2, <1>3, FS_Product
<1>5. Cardinality({x} \X (1..n)) = n
  BY <1>1, <1>2, <1>3, <1>4
<1> QED BY <1>4, <1>5 DEF Units, n

LEMMA UnitsApart ==
  ASSUME NEW x, NEW y, NEW u, u \in Units(x), u \in Units(y)
  PROVE  x = y
BY DEF Units

LEMMA LoadGrows ==
  ASSUME NEW s, NEW x \in Snapshots, x \notin inMialgo, inMialgo' = inMialgo \cup {x},
         IsFiniteSet(UnitsInMialgo(s))
  PROVE  /\ IsFiniteSet(UnitsInMialgo(s)')
         /\ Load(s)' = Load(s) + IF sessionOf[x] = s THEN consumption[x] ELSE 0
         /\ Load(s) \in Nat
<1>1. Load(s) \in Nat
  BY FS_CardinalityType DEF Load
<1>2. CASE sessionOf[x] = s
  <2>1. UnitsInMialgo(s)' = UnitsInMialgo(s) \cup Units(x)
    BY <1>2 DEF UnitsInMialgo
  <2>2. UnitsInMialgo(s) \cap Units(x) = {}
    <3>1. ASSUME NEW u \in Units(x), u \in UnitsInMialgo(s) PROVE FALSE
      <4>1. PICK y \in inMialgo : u \in Units(y)
        BY <3>1 DEF UnitsInMialgo
      <4> QED BY <4>1, UnitsApart
    <3> QED BY <3>1
  <2>3. Cardinality(UnitsInMialgo(s) \cap Units(x)) = 0
    BY <2>2, FS_EmptySet
  <2>4. /\ IsFiniteSet(UnitsInMialgo(s) \cup Units(x))
        /\ Cardinality(UnitsInMialgo(s) \cup Units(x)) = Load(s) + consumption[x] - 0
    BY <2>3, UnitsCounted, FS_Union DEF Load
  <2>5. Load(s)' = Cardinality(UnitsInMialgo(s) \cup Units(x))
    BY <2>1 DEF Load
  <2> QED BY <1>1, <1>2, <2>1, <2>4, <2>5, Consumption
<1>3. CASE sessionOf[x] # s
  <2>1. UnitsInMialgo(s)' = UnitsInMialgo(s)
    BY <1>3 DEF UnitsInMialgo
  <2> QED BY <1>1, <1>3, <2>1 DEF Load
<1> QED BY <1>2, <1>3

LEMMA LoadShrinks ==
  ASSUME NEW s, NEW x \in Snapshots, x \in inMialgo, inMialgo' = inMialgo \ {x},
         IsFiniteSet(UnitsInMialgo(s))
  PROVE  /\ IsFiniteSet(UnitsInMialgo(s)')
         /\ Load(s)' = Load(s) - IF sessionOf[x] = s THEN consumption[x] ELSE 0
         /\ Load(s)' \in Nat /\ Load(s) \in Nat
<1>1. Load(s) \in Nat
  BY FS_CardinalityType DEF Load
<1>2. CASE sessionOf[x] = s
  <2>1. UnitsInMialgo(s)' = UnitsInMialgo(s) \ Units(x)
    <3>1. ASSUME NEW u \in UnitsInMialgo(s)' PROVE u \in UnitsInMialgo(s) \ Units(x)
      <4>1. PICK y \in inMialgo \ {x} : sessionOf[y] = s /\ u \in Units(y)
        BY <3>1 DEF UnitsInMialgo
      <4> QED BY <4>1, UnitsApart DEF UnitsInMialgo
    <3>2. ASSUME NEW u \in UnitsInMialgo(s) \ Units(x) PROVE u \in UnitsInMialgo(s)'
      <4>1. PICK y \in inMialgo : sessionOf[y] = s /\ u \in Units(y)
        BY <3>2 DEF UnitsInMialgo
      <4> QED BY <3>2, <4>1 DEF UnitsInMialgo
    <3> QED BY <3>1, <3>2
  <2>2. UnitsInMialgo(s) \cap Units(x) = Units(x)
    BY <1>2 DEF UnitsInMialgo
  <2>3. /\ IsFiniteSet(UnitsInMialgo(s) \ Units(x))
        /\ Cardinality(UnitsInMialgo(s) \ Units(x)) = Load(s) - consumption[x]
    <3>1. /\ IsFiniteSet(UnitsInMialgo(s) \ Units(x))
          /\ Cardinality(UnitsInMialgo(s) \ Units(x)) =
               Cardinality(UnitsInMialgo(s)) - Cardinality(UnitsInMialgo(s) \cap Units(x))
      BY FS_Difference
    <3> QED BY <2>2, <3>1, UnitsCounted DEF Load
  <2>4. Load(s)' = Cardinality(UnitsInMialgo(s) \ Units(x))
    BY <2>1 DEF Load
  <2>5. Cardinality(UnitsInMialgo(s) \ Units(x)) \in Nat
    BY <2>3, FS_CardinalityType
  <2>6. IsFiniteSet(UnitsInMialgo(s)')
    BY <2>1, <2>3
  <2> QED BY <1>1, <1>2, <2>3, <2>4, <2>5, <2>6
<1>3. CASE sessionOf[x] # s
  <2>1. UnitsInMialgo(s)' = UnitsInMialgo(s)
    BY <1>3 DEF UnitsInMialgo
  <2> QED BY <1>1, <1>3, <2>1 DEF Load
<1> QED BY <1>2, <1>3

\* What a call does to what mialgo has.
LEMMA SentKeeps ==
  ASSUME Counts, NEW x \in Snapshots, Sent(x)
  PROVE  /\ inMialgo' \subseteq Snapshots /\ repeated' \subseteq Sessions
         /\ NumbersDiffer'
         /\ sessionOf[x] \notin repeated' =>
              \A y \in inMialgo : sessionOf[y] = sessionOf[x] => frameOf[y] # frameOf[x]
         /\ \A s \in Sessions \ repeated' : s \notin repeated
<1>1. inMialgo' \subseteq Snapshots /\ repeated' \subseteq Sessions
  BY Consumption DEF Counts, Sent
<1>2. /\ sessionOf[x] \notin repeated' =>
           \A y \in inMialgo : sessionOf[y] = sessionOf[x] => frameOf[y] # frameOf[x]
      /\ \A s \in Sessions \ repeated' : s \notin repeated
  BY DEF Sent
<1>3. NumbersDiffer'
  <2>1. inMialgo' = inMialgo \cup {x} /\ repeated \subseteq repeated'
    BY DEF Sent
  <2> QED BY <1>2, <2>1 DEF Counts, NumbersDiffer
<1> QED BY <1>1, <1>2, <1>3

LEMMA AnsweredKeeps ==
  ASSUME Counts, NEW x \in Snapshots, Answered(x)
  PROVE  /\ inMialgo' \subseteq Snapshots /\ repeated' = repeated
         /\ NumbersDiffer'
BY DEF Counts, Answered, NumbersDiffer

LEMMA CountsAdd ==
  ASSUME Counts, NEW x \in Snapshots, AddTask(x)
  PROVE  Counts'
<1> DEFINE s == sessionOf[x]
<1>1. /\ mMialgoTaskFrame' \in [Sessions -> SUBSET Frames]
      /\ mMialgoTaskStatus' \in [Sessions -> Nat]
  BY Consumption DEF Counts, AddTask
<1>2. Sent(x) /\ x \notin inMialgo /\ inMialgo' = inMialgo \cup {x}
  BY DEF AddTask, Sent
<1>3. NumbersPresent'
  <2>1. s \in Sessions /\ frameOf[x] \in mMialgoTaskFrame'[s]
    BY Consumption DEF Counts, AddTask
  <2>2. \A r \in Sessions : mMialgoTaskFrame[r] \subseteq mMialgoTaskFrame'[r]
    BY DEF Counts, AddTask
  <2>3. \A y \in inMialgo : sessionOf[y] \in Sessions
    BY Consumption DEF Counts
  <2> QED BY <1>2, <2>1, <2>2, <2>3, SentKeeps DEF Counts, NumbersPresent, Present
<1>4. ASSUME NEW r \in Sessions
      PROVE  /\ IsFiniteSet(UnitsInMialgo(r)')
             /\ r \notin repeated' => mMialgoTaskStatus'[r] <= Load(r)'
  <2>1. mMialgoTaskStatus'[r] = mMialgoTaskStatus[r] + IF s = r THEN consumption[x] ELSE 0
    BY Consumption DEF Counts, AddTask
  <2>2. r \notin repeated' => mMialgoTaskStatus[r] <= Load(r)
    BY <1>2, SentKeeps DEF Counts, NoPhantomTasks
  <2>3. /\ IsFiniteSet(UnitsInMialgo(r)') /\ Load(r) \in Nat
        /\ Load(r)' = Load(r) + IF s = r THEN consumption[x] ELSE 0
    BY <1>2, LoadGrows DEF Counts
  <2> QED BY <2>1, <2>2, <2>3, Consumption DEF Counts
<1> QED BY <1>1, <1>2, <1>3, <1>4, SentKeeps DEF Counts, NoPhantomTasks

\* A number that is taken away, or that was not there.
LEMMA CountsLess ==
  ASSUME Counts, NEW x \in Snapshots, Answered(x) \/ (consumption[x] = 0 /\ Sent(x)),
         \/ RemoveTask(x)
         \/ ~Present(x) /\ UNCHANGED <<mMialgoTaskStatus, mMialgoTaskFrame>>
  PROVE  Counts'
<1> DEFINE s == sessionOf[x]
<1>0. consumption[x] \in Nat /\ s \in Sessions /\ \A y \in inMialgo : sessionOf[y] \in Sessions
  BY Consumption DEF Counts
<1>1. /\ mMialgoTaskFrame' \in [Sessions -> SUBSET Frames]
      /\ mMialgoTaskStatus' \in [Sessions -> Nat]
  BY <1>0 DEF Counts, RemoveTask
<1>2. /\ inMialgo' \subseteq Snapshots /\ repeated' \subseteq Sessions /\ NumbersDiffer'
      /\ \A r \in Sessions \ repeated' : r \notin repeated
  BY SentKeeps, AnsweredKeeps DEF Counts
<1>3. \A y \in inMialgo' : s \notin repeated' /\ sessionOf[y] = s /\ consumption[y] # 0 =>
        y \in inMialgo /\ frameOf[y] # frameOf[x]
  <2>1. CASE Answered(x)
    BY <2>1 DEF Answered, Counts, NumbersDiffer
  <2>2. CASE consumption[x] = 0 /\ Sent(x)
    BY <2>2, SentKeeps DEF Sent
  <2> QED BY <2>1, <2>2
<1>4. \A y \in inMialgo' : consumption[y] # 0 => y \in inMialgo
  BY DEF Answered, Sent
<1>5. \A r \in Sessions : \A f \in mMialgoTaskFrame[r] :
        f \in mMialgoTaskFrame'[r] \/ (r = s /\ f = frameOf[x])
  BY <1>0 DEF Counts, RemoveTask
<1>6. NumbersPresent'
  BY <1>0, <1>2, <1>3, <1>4, <1>5 DEF Counts, NumbersPresent, Present
<1>7. ASSUME NEW r \in Sessions
      PROVE  /\ IsFiniteSet(UnitsInMialgo(r)')
             /\ r \notin repeated' => mMialgoTaskStatus'[r] <= Load(r)'
  <2>1. r \notin repeated' => mMialgoTaskStatus[r] <= Load(r)
    BY <1>2 DEF Counts, NoPhantomTasks
  <2>2. CASE consumption[x] = 0 /\ Sent(x)
    <3>1. /\ IsFiniteSet(UnitsInMialgo(r)') /\ Load(r) \in Nat
          /\ Load(r)' = Load(r) + IF s = r THEN consumption[x] ELSE 0
      BY <2>2, LoadGrows DEF Counts, Sent
    <3>2. mMialgoTaskStatus'[r] = mMialgoTaskStatus[r]
      BY <1>0, <2>2 DEF Counts, RemoveTask
    <3> QED BY <2>1, <2>2, <3>1, <3>2
  <2>3. CASE Answered(x)
    <3>1. /\ IsFiniteSet(UnitsInMialgo(r)') /\ Load(r)' \in Nat /\ Load(r) \in Nat
          /\ Load(r)' = Load(r) - IF s = r THEN consumption[x] ELSE 0
      BY <2>3, LoadShrinks DEF Counts, Answered
    <3>2. ASSUME r # s PROVE mMialgoTaskStatus'[r] = mMialgoTaskStatus[r]
      BY <1>0, <3>2 DEF Counts, RemoveTask
    <3>3. CASE RemoveTask(x)
      <4>1. mMialgoTaskStatus'[s] = IF mMialgoTaskStatus[s] < consumption[x] THEN 0
                                    ELSE mMialgoTaskStatus[s] - consumption[x]
        BY <1>0, <3>3 DEF Counts, RemoveTask
      <4> QED BY <1>0, <2>1, <3>1, <3>2, <4>1 DEF Counts
    <3>4. CASE ~Present(x) /\ UNCHANGED <<mMialgoTaskStatus, mMialgoTaskFrame>>
      <4>1. r = s /\ r \notin repeated' => consumption[x] = 0
        BY <1>2, <2>3, <3>4 DEF Answered, Counts, NumbersPresent
      <4> QED BY <1>0, <2>1, <3>1, <3>4, <4>1 DEF Counts
    <3> QED BY <3>1, <3>3, <3>4
  <2> QED BY <2>2, <2>3
<1> QED BY <1>1, <1>2, <1>6, <1>7 DEF Counts, NoPhantomTasks

\* Resets and deletions take counts to 0 and leave the frames.
LEMMA CountsLower ==
  ASSUME Counts, UNCHANGED <<snapshotVars, mMialgoTaskFrame>>,
         mMialgoTaskStatus' \in [Sessions -> Nat],
         \A s \in Sessions : mMialgoTaskStatus'[s] \in {0, mMialgoTaskStatus[s]}
  PROVE  Counts'
<1>1. \A s : UnitsInMialgo(s)' = UnitsInMialgo(s) /\ Load(s)' = Load(s)
  BY DEF snapshotVars, UnitsInMialgo, Load
<1>2. \A s \in Sessions : Load(s) \in Nat
  BY FS_CardinalityType DEF Counts, Load
<1>3. NoPhantomTasks'
  BY <1>1, <1>2 DEF Counts, NoPhantomTasks, snapshotVars
<1>4. NumbersDiffer' /\ NumbersPresent'
  BY DEF Counts, NumbersDiffer, NumbersPresent, Present, snapshotVars
<1> QED BY <1>1, <1>3, <1>4 DEF Counts, snapshotVars

LEMMA CountsNext == ASSUME Counts, [Next]_allVars PROVE Counts'
<1>1. ASSUME UNCHANGED <<snapshotVars, mMialgoTaskStatus, mMialgoTaskFrame>> PROVE Counts'
  BY <1>1, CountsLower DEF Counts
<1>2. ASSUME NEW c \in Callers, onMialgoTaskNumChanged(c) PROVE Counts'
  <2>1. ASSUME NEW x \in Snapshots, CountTask(c, x) PROVE Counts'
    <3>1. AddTask(x) \/ RemoveTask(x)
      BY <2>1 DEF CountTask
    <3>2. RemoveTask(x) => Answered(x) \/ (consumption[x] = 0 /\ Sent(x))
      BY DEF RemoveTask
    <3> QED BY <3>1, <3>2, CountsAdd, CountsLess
  <2>2. CASE Unlock(c) \/ SetWakeUpTimer(c)
    BY <1>1, <2>2 DEF Unlock, SetWakeUpTimer, countVars
  <2> QED BY <1>2, <2>1, <2>2 DEF onMialgoTaskNumChanged
<1>3. CASE ForceWakeUp
  BY <1>3, CountsLower DEF ForceWakeUp, Counts
<1>4. ASSUME NEW s \in Sessions, Erase(s) PROVE Counts'
  BY <1>4, CountsLower DEF Erase, Counts
<1>5. ASSUME NEW x \in Snapshots, IgnoreCall(x) PROVE Counts'
  BY <1>5, CountsLess DEF IgnoreCall
<1>6. CASE NotTooMany \/ EnableAgain
  BY <1>1, <1>6 DEF NotTooMany, EnableAgain, countVars
<1>7. CASE \E m \in Modes : EnterUpdate(m) \/ UpdateRecord(m) \/ setRetired(m)
  BY <1>1, <1>7 DEF EnterUpdate, UpdateRecord, setRetired, countVars
<1>8. CASE (processCommandLoop \/ TimerThread) /\ UNCHANGED monitorVars
  BY <1>1, <1>8 DEF monitorVars, countVars
<1>9. CASE UNCHANGED allVars
  BY <1>1, <1>9 DEF allVars, monitorVars, countVars
<1> QED BY <1>2, <1>3, <1>4, <1>5, <1>6, <1>7, <1>8, <1>9 DEF Next, deleteMialgoTaskSig

\* No session that was not given a number it had not answered is thought to have more to
\* do than mialgo has for it, whatever is reset, deleted, or returned late.
THEOREM TasksAreReal == Spec => []NoPhantomTasks
<1>1. MonitorInit => Counts
  <2>1. MonitorInit => \A s : UnitsInMialgo(s) = {}
    BY DEF MonitorInit, UnitsInMialgo
  <2>2. MonitorInit => \A s : IsFiniteSet(UnitsInMialgo(s)) /\ Load(s) = 0
    BY <2>1, FS_EmptySet DEF Load
  <2> QED BY <2>2 DEF MonitorInit, Counts, NoPhantomTasks, NumbersDiffer, NumbersPresent
<1>2. Counts /\ [Next]_allVars => Counts'
  BY CountsNext
<1>3. Counts => NoPhantomTasks
  BY DEF Counts
<1> QED BY <1>1, <1>2, <1>3, PTL DEF Spec, Safe
=============================================================================
