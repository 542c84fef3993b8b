---------------------------- MODULE MCRpmsgTalk ----------------------------
(***************************************************************************)
(* RpmsgTalk under every fault, with the blocking calls of both sides      *)
(* shown to be calls of RpcClient.  A restarted client counts its requests *)
(* from 1 again, so that an answer to its predecessor can look like one to *)
(* itself; what a call promises ends there, and restarted is the history   *)
(* variable that says so.  The client restarts at most once.               *)
(***************************************************************************)
EXTENDS RpmsgTalk, TLC

VARIABLE restarted

mcVars == <<vars, restarted>>

MCInit == Init /\ restarted = FALSE

MCNext ==
    \/ LinuxStep /\ UNCHANGED restarted
    \/ R5Step /\ UNCHANGED restarted
    \/ (KernelDelivers \/ R5Stop \/ R5Boot) /\ UNCHANGED restarted
    \/ ~restarted /\ LinuxRestart /\ restarted' = TRUE

MCSpec == MCInit /\ [][MCNext]_mcVars

Phase(call, served, outcome) ==
    IF call = Nothing THEN outcome ELSE <<"open", "served", "served twice">>[served + 1]

LinuxRpc == INSTANCE RpcClient WITH
    phase <- IF restarted THEN "none" ELSE Phase(lCall, lServed, lOutcome)

R5Rpc == INSTANCE RpcClient WITH phase <- Phase(rCall, rServed, rOutcome)

\* A blocking call of a client that was not restarted is a call of RpcClient:
\* what send_blocking_request returns was computed by the R5 for this call,
\* and computed once.
LinuxCallsAreRpc == LinuxRpc!Spec

\* So is a call of the R5, also when the client is restarted in between.
R5CallsAreRpc == R5Rpc!Spec

\* No action tells one endpoint address from another.
EndPtSymmetry == Permutations(EndPts)
=============================================================================
