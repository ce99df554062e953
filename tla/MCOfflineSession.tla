-------------------------- MODULE MCOfflineSession --------------------------
(* A small instance of OfflineSession: one request of two frames, one of one. *)
EXTENDS OfflineSession

CONSTANTS r1, r2, f1

TwoRequests == {r1, r2}
OneFlusher == {f1}
TwoFramesAndOne == [r \in Requests |-> IF r = r1 THEN 2 ELSE 1]
=============================================================================
