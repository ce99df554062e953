--------------------------- MODULE MCParallelNode ---------------------------
(* Small instances of ParallelNode. *)
EXTENDS ParallelNode, TLC

CONSTANTS p1, p2, p3

ThreePipelines == {p1, p2, p3}
TwoPipelines == {p1, p2}

\* FIFO priorities fall with the order of creation.
FIFOPriority == [p \in Pipelines |-> CASE p = p1 -> 0 [] p = p2 -> -1 [] p = p3 -> -2]
=============================================================================
