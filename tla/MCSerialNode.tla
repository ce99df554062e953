---------------------------- MODULE MCSerialNode ----------------------------
(* Small instances of SerialNode. *)
EXTENDS SerialNode, TLC

CONSTANTS p1, p2

TwoPipelines == {p1, p2}

\* FIFO priorities fall with the order of creation.
FIFOPriority2 == (p1 :> 0) @@ (p2 :> -1)
=============================================================================
