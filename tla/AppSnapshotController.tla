------------------------ MODULE AppSnapshotController ------------------------
(***************************************************************************)
(* mihal's AppSnapshotController.cpp: objects of the HAL record whether    *)
(* they can take another snapshot; a worker thread mutes the application   *)
(* while one of them cannot, and a timer wakes it when that takes too long.*)
(*                                                                         *)
(* Sections under mRecordMutex are atomic.  Of the queued commands only    *)
(* the last one is kept: the worker merges all that it takes, and the last *)
(* decides.  What the other users of timers do is left open here, and is   *)
(* filled in by MialgoTaskMonitor.                                         *)
(***************************************************************************)
EXTENDS Timer

CONSTANTS
  Objects,       \* that record their status
  ResetTimer,    \* mTimer
  Free

ASSUME ControllerAssumption == ResetTimer \in Timers /\ Free \notin {"worker", "timer"}

VARIABLES
  mRecord,       \* "none", "ready" or "busy"
  mCommands,     \* the last queued command, or "none"
  command,       \* the one that the worker has taken
  worker,        \* where the worker thread is
  mAppStatus, mStatusMutex,
  app            \* what the application was told last

controlVars == <<mCommands, command, worker, mAppStatus, mStatusMutex, app>>
vars == <<timerVars, mRecord, controlVars>>

Statuses == {"MUTED", "ACTIVATED"}

TypeOK ==
  /\ TimerTypeOK
  /\ mRecord \in [Objects -> {"none", "ready", "busy"}]
  /\ mCommands \in {"none", "MUTE", "CONTINUE"}
  /\ command \in {"none", "MUTE", "CONTINUE"}
  /\ worker \in {"waiting", "merging", "telling", "arming", "disarming"}
  /\ mAppStatus \in Statuses /\ app \in Statuses
  /\ mStatusMutex \in {Free, "worker", "timer"}

Init ==
  /\ TimerInit
  /\ mRecord = [o \in Objects |-> "none"]
  /\ mCommands = "none" /\ command = "none" /\ worker = "waiting"
  /\ mAppStatus = "ACTIVATED" /\ mStatusMutex = Free /\ app = "ACTIVATED"

-----------------------------------------------------------------------------
(* Records *)

NoneBusy(record) == \A o \in Objects : record[o] # "busy"

\* onRecordChangedLocked
RecordChanged(record) ==
  /\ mRecord' = record
  /\ mCommands' = IF NoneBusy(record) THEN "CONTINUE" ELSE "MUTE"

onRecordUpdate(canDoNextSnapshot, obj) ==
  RecordChanged([mRecord EXCEPT ![obj] = IF canDoNextSnapshot THEN "ready" ELSE "busy"])

onRecordDelete(obj) ==
  IF mRecord[obj] # "none"
  THEN RecordChanged([mRecord EXCEPT ![obj] = "none"])
  ELSE UNCHANGED <<mRecord, mCommands>>

-----------------------------------------------------------------------------
(* processCommandLoop *)

TakeCommands ==
  /\ worker = "waiting" /\ mCommands # "none"
  /\ command' = mCommands /\ mCommands' = "none"
  /\ worker' = "merging"
  /\ UNCHANGED <<timerVars, mRecord, mAppStatus, mStatusMutex, app>>

Merged == IF command = "MUTE" THEN "MUTED" ELSE "ACTIVATED"

\* Mutant: mStatusMutex is released before the application is told.
MergeCommandsUnlocked ==
  /\ worker = "merging" /\ mStatusMutex = Free
  /\ IF Merged = mAppStatus
     THEN worker' = "waiting" /\ command' = "none" /\ UNCHANGED mAppStatus
     ELSE worker' = "telling" /\ mAppStatus' = Merged /\ UNCHANGED command
  /\ UNCHANGED <<timerVars, mRecord, mCommands, mStatusMutex, app>>

MergeCommands ==
  /\ worker = "merging" /\ mStatusMutex = Free
  /\ IF Merged = mAppStatus
     THEN worker' = "waiting" /\ command' = "none" /\ UNCHANGED <<mAppStatus, mStatusMutex>>
     ELSE /\ worker' = "telling" /\ mAppStatus' = Merged /\ mStatusMutex' = "worker"
          /\ UNCHANGED command
  /\ UNCHANGED <<timerVars, mRecord, mCommands, app>>

\* Mutant: both commands stop the timer.
TellAppAndDisarm ==
  /\ worker = "telling"
  /\ app' = Merged
  /\ mStatusMutex' = Free
  /\ worker' = "disarming"
  /\ UNCHANGED <<timerVars, mRecord, mCommands, command, mAppStatus>>

\* notifySnapshotAvailability, then mStatusMutex is released, and only then is the
\* timer dealt with.
TellApp ==
  /\ worker = "telling"
  /\ app' = Merged
  /\ mStatusMutex' = Free
  /\ worker' = IF Merged = "MUTED" THEN "arming" ELSE "disarming"
  /\ UNCHANGED <<timerVars, mRecord, mCommands, command, mAppStatus>>

SetTimer ==
  /\ \/ worker = "arming" /\ runAfter(ResetTimer)
     \/ worker = "disarming" /\ cancel(ResetTimer)
  /\ worker' = "waiting" /\ command' = "none"
  /\ UNCHANGED <<mRecord, mCommands, mAppStatus, mStatusMutex, app>>

processCommandLoop == TakeCommands \/ MergeCommands \/ TellApp \/ SetTimer

-----------------------------------------------------------------------------
(* The handler of mTimer *)

Awaken ==
  /\ serving = ResetTimer /\ mStatusMutex = Free
  /\ mAppStatus' = "ACTIVATED" /\ mStatusMutex' = "timer"
  /\ UNCHANGED <<timerVars, mRecord, mCommands, command, worker, app>>

AwakenTell ==
  /\ mStatusMutex = "timer"
  /\ app' = "ACTIVATED" /\ mStatusMutex' = Free
  /\ Served(ResetTimer)
  /\ UNCHANGED <<mRecord, mCommands, command, worker, mAppStatus>>

TimerThread ==
  \/ /\ Collect \/ \E t \in Timers : Serve(t)
     /\ UNCHANGED <<mRecord, controlVars>>
  \/ Awaken
  \/ AwakenTell

-----------------------------------------------------------------------------
\* The rest of the HAL, between two steps of the worker: records come and go, and
\* other timers are set, stopped, and served.
OtherTimers ==
  /\ ResetTimer \in armed' <=> ResetTimer \in armed
  /\ ResetTimer \in expired' <=> ResetTimer \in expired
  /\ serving' = ResetTimer <=> serving = ResetTimer

Environment ==
  /\ \/ \E o \in Objects : onRecordDelete(o) \/ \E can \in BOOLEAN : onRecordUpdate(can, o)
     \/ UNCHANGED <<mRecord, mCommands>>
  /\ OtherTimers /\ TimerTypeOK'
  /\ UNCHANGED <<command, worker, mAppStatus, mStatusMutex, app>>

ControllerNext == processCommandLoop \/ TimerThread \/ Environment

ControllerSpec == Init /\ [][ControllerNext]_vars

-----------------------------------------------------------------------------
(* Properties *)

\* Unless a thread is about to tell it, the application knows the status: what the
\* worker and the timer tell it reaches it in the order in which they decided.
AppKnows == mStatusMutex = Free => app = mAppStatus

\* An application that is muted will be woken, whatever the objects do: when the
\* worker is through with its command, the timer runs.
MutedIsTimed ==
  mAppStatus = "MUTED" /\ worker \notin {"telling", "arming"} => Ticking(ResetTimer)

\* When all commands have been dealt with, an application that is muted is so
\* because of an object that is busy now.
MutedForReason ==
  worker = "waiting" /\ mCommands = "none" /\ mAppStatus = "MUTED" => ~NoneBusy(mRecord)

\* No application stays muted forever.
MutedEnds == mAppStatus = "MUTED" ~> mAppStatus = "ACTIVATED"
=============================================================================
