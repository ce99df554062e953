--------------------------- MODULE MCThreadPool ---------------------------
(* Small instances of ThreadPool. *)
EXTENDS ThreadPool, TLC

CONSTANTS t1, t2, t3, t4, c1, c2

FourTasks == {t1, t2, t3, t4}
NoChildren == [t \in Tasks |-> {}]

\* Two pipelines (t1, t2), each of which puts one node task on the pool.
PipelineChildren == (t1 :> {t3}) @@ (t2 :> {t4}) @@ (t3 :> {}) @@ (t4 :> {})

TwoClients == {c1, c2}
===========================================================================
