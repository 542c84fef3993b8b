----------------------------- MODULE RpcClient -----------------------------
(***************************************************************************)
(* What a blocking cross-core call promises its caller, seen from one      *)
(* caller and independent of channels, endpoints and timers: the function  *)
(* runs at most once per call, and a call that returns an answer returns   *)
(* only after the peer ran the function FOR THIS CALL.  A call may fail,   *)
(* even one the peer has already served; an execution that arrives after   *)
(* the call was given up is no part of any call.                           *)
(***************************************************************************)
VARIABLE phase

Phase == {"none", "open", "served", "answered", "failed"}
AtRest == {"none", "answered", "failed"}

Init == phase = "none"

\* The caller issues a call; a request that cannot be sent fails at once.
Issue == phase \in AtRest /\ phase' \in {"open", "failed"}

\* The peer runs the function.
Serve == phase = "open" /\ phase' = "served"

\* The caller gets the answer the peer computed for this call.
Answer == phase = "served" /\ phase' = "answered"

\* The caller gives up: timeout, transport error, or a failure while it was
\* itself serving the peer.
Fail == phase \in {"open", "served"} /\ phase' = "failed"

\* The caller stops or restarts, and its call is forgotten.
Forget == phase' = "none"

Next == Issue \/ Serve \/ Answer \/ Fail \/ Forget

Spec == Init /\ [][Next]_phase
=============================================================================
