-------------------------------- MODULE Timer --------------------------------
(***************************************************************************)
(* mihal's timers (Timer.cpp).  All timers share one thread, which collects *)
(* those that are due and then runs their handlers one by one.  A timer    *)
(* that has been collected can no longer be cancelled: its handler will    *)
(* run, and may find that the world has moved on.  A handler runs with its *)
(* timer's mMutex held, which runAfter and cancel need as well.            *)
(***************************************************************************)
CONSTANTS Timers, NoTimer

ASSUME TimerAssumption == NoTimer \notin Timers

VARIABLES
  armed,     \* timers with a wait pending
  expired,   \* collected, and not served yet
  serving    \* the timer whose handler runs

timerVars == <<armed, expired, serving>>

TimerTypeOK ==
  /\ armed \subseteq Timers /\ expired \subseteq Timers
  /\ serving \in Timers \cup {NoTimer}

TimerInit == armed = {} /\ expired = {} /\ serving = NoTimer

mMutexFree(t) == serving # t

\* A new wait takes the place of a pending one.
runAfter(t) ==
  /\ mMutexFree(t)
  /\ armed' = armed \cup {t}
  /\ UNCHANGED <<expired, serving>>

cancel(t) ==
  /\ mMutexFree(t)
  /\ armed' = armed \ {t}
  /\ UNCHANGED <<expired, serving>>

\* The thread finds some of the pending timers due, when it has served all others.
Collect ==
  /\ expired = {} /\ serving = NoTimer
  /\ \E due \in SUBSET armed :
       /\ due # {}
       /\ expired' = due /\ armed' = armed \ due
  /\ UNCHANGED serving

\* The completion of a wait: the handler is called ...
Serve(t) ==
  /\ serving = NoTimer /\ t \in expired
  /\ serving' = t /\ expired' = expired \ {t}
  /\ UNCHANGED armed

\* ... and has returned.
Served(t) ==
  /\ serving = t
  /\ serving' = NoTimer
  /\ UNCHANGED <<armed, expired>>

\* The timer will go off, is about to, or is at it.
Ticking(t) == t \in armed \cup expired \cup {serving}
=============================================================================
