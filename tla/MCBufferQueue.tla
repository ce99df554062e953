--------------------------- MODULE MCBufferQueue ---------------------------
(* Small instances of BufferQueue. *)
EXTENDS BufferQueue, TLC

CONSTANTS t1, t2, t3

ThreeThreads == {t1, t2, t3}
=============================================================================
