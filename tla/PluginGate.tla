----------------------------- MODULE PluginGate -----------------------------
(***************************************************************************)
(* The gate around a node's plugin call (MiaNode::processRequest and       *)
(* MiaNode::quickFinish in MiaNode.cpp): a count of the threads inside the *)
(* plugin to which a quick finish adds itself, so that a process thread    *)
(* stays at the gate until the plugin's flush has ended.                   *)
(***************************************************************************)
EXTENDS Integers

CONSTANT Free              \* "nobody holds the mutex"

VARIABLES
  mInPluginThreadNum,      \* atomic: plugin calls plus flushes under way
  mQuickFinishMux          \* who holds the mutex of the gate

\* Mutant: nobody takes the gate's own count off
DecrementedNever(num) == num

\* The wait predicate of processRequest has a side effect: the last one that is
\* counted takes itself off the count.
Decremented(num) == IF num = 1 THEN num - 1 ELSE num

GateOpen(num) == Decremented(num) = 0

\* Before the plugin's processRequest is called; no lock is held.
CountIn == mInPluginThreadNum' = mInPluginThreadNum + 1

\* One evaluation of the predicate, with the mutex held.
EvaluateGate ==
  /\ mQuickFinishMux = Free
  /\ mInPluginThreadNum' = Decremented(mInPluginThreadNum)

\* Mutant: nobody needs to be in the plugin.
NotTwoInPlugin == mInPluginThreadNum <= 1

\* quickFinish acts only while exactly one thread is counted.
OneInPlugin == mInPluginThreadNum = 1

\* The detached thread, after flush(true); no lock is held.
CountOut == mInPluginThreadNum' = mInPluginThreadNum - 1
=============================================================================
