------------------------ MODULE MCMialgoTaskMonitor ------------------------
(* Small instances of MialgoTaskMonitor. *)
EXTENDS MialgoTaskMonitor

CONSTANTS s1, m1, a, b

OneMode == {m1}
MonitorAndMode == {m1, Monitor}

\* Sessions for images of one category, ...
SameSignature == [s \in Sessions |-> "output"]

\* ... of two snapshots with one number, which consume two units and one.
OfOneSession == [x \in Snapshots |-> s1]
OneNumber == [x \in Snapshots |-> 1]
Consumption == [x \in Snapshots |-> IF x = a THEN 2 ELSE 1]
============================================================================
