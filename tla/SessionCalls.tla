---------------------------- MODULE SessionCalls ----------------------------
(***************************************************************************)
(* What an offline session promises to its owner, without pipelines,       *)
(* locks or threads: a request is open from the call that brings its first *)
(* frame until nothing works on it any more, and flush returns when all    *)
(* requests that were open at its call are over (MiaOfflineSession.cpp,    *)
(* "flush return after all requests have ended").  The owner may destroy   *)
(* the session after that.                                                 *)
(***************************************************************************)
CONSTANTS Requests, Flushers

VARIABLES
  request,   \* each request: unknown, open, over
  call,      \* each flush: none, called, returned
  owed       \* the requests whose end a flush has to await

vars == <<request, call, owed>>

Open == {r \in Requests : request[r] = "open"}

Init ==
  /\ request = [r \in Requests |-> "unknown"]
  /\ call = [f \in Flushers |-> "none"]
  /\ owed = [f \in Flushers |-> {}]

Accept(r) ==
  /\ request[r] = "unknown"
  /\ request' = [request EXCEPT ![r] = "open"]
  /\ UNCHANGED <<call, owed>>

End(r) ==
  /\ request[r] = "open"
  /\ request' = [request EXCEPT ![r] = "over"]
  /\ UNCHANGED <<call, owed>>

Call(f) ==
  /\ call[f] = "none"
  /\ call' = [call EXCEPT ![f] = "called"]
  /\ owed' = [owed EXCEPT ![f] = Open]
  /\ UNCHANGED request

Return(f) ==
  /\ call[f] = "called"
  /\ \A r \in owed[f] : request[r] = "over"
  /\ call' = [call EXCEPT ![f] = "returned"]
  /\ UNCHANGED <<request, owed>>

Next ==
  \/ \E r \in Requests : Accept(r) \/ End(r)
  \/ \E f \in Flushers : Call(f) \/ Return(f)

Spec == Init /\ [][Next]_vars
=============================================================================
