--------------------------- MODULE MCAlgoSession ---------------------------
(* A small instance of AlgoSession: a preview, a snapshot, and two threads *)
(* of the vendor's HAL.                                                    *)
EXTENDS AlgoSession, TLC

CONSTANTS v1, v2

MCPreviews == {1}
MCSnapshots == {2}
MCFrames == MCPreviews \cup MCSnapshots

\* Anything may go wrong with the snapshot, and the preview may fail as a whole.
MCFailures ==
  (1 :> {"ERROR_REQUEST"}) @@ (2 :> {"bad buffer", "ERROR_RESULT", "ERROR_REQUEST"})

TwoThreads == {v1, v2}

\* The vendor's threads are alike.
VendorSymmetry == Permutations(VendorThreads)
=============================================================================
