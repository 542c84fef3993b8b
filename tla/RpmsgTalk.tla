----------------------------- MODULE RpmsgTalk -----------------------------
(***************************************************************************)
(* The cross-core calls of the demo: the Linux client                      *)
(* (rpmsg_char_example.c) and the R5 firmware (example_rpmsg_talk.c,       *)
(* main.c) call functions of each other over one RPMsg channel.  Both are  *)
(* single threads that BLOCK while a call is open and serve the peer's     *)
(* requests from inside their wait loop.                                   *)
(*                                                                         *)
(* toR5 and vring are the two virtqueues; inbox is the receive queue the   *)
(* kernel keeps for the Linux endpoint; Capacity bounds all three.  The    *)
(* endpoint address is chosen by the kernel and may be one a dead Linux    *)
(* process had.  Clocks are abstracted: a wait may end before any poll of  *)
(* its queue (Timeouts), as either thread can be delayed at will.          *)
(***************************************************************************)
EXTENDS Naturals, Sequences

CONSTANTS
    EndPts,        \* endpoint addresses the Linux kernel hands out
    NoEndPt,       \* the value 0 of remoteEndPt, and a NULL rcdev
    MaxId,         \* request ids are 0..MaxId (2^32 - 1 in the code)
    WrapIds,       \* FALSE: nobody calls again once its counter has wrapped
    Capacity,      \* buffers of a virtqueue, and bound on the inbox
    MaxDrain,      \* MAX_PENDING_MESSAGES_PER_CYCLE, process_linux_messages(8)
    Timeouts,      \* may a wait run out of time?
    R5Stops,       \* may remoteproc stop the R5?
    LinuxRestarts  \* may the Linux process be killed and run again?

ASSUME ConstantsAssumption ==
    /\ NoEndPt \notin EndPts
    /\ MaxId \in Nat \ {0}
    /\ Capacity \in Nat \ {0}
    /\ MaxDrain \in Nat \ {0}
    /\ {WrapIds, Timeouts, R5Stops, LinuxRestarts} \subseteq BOOLEAN

VARIABLES
    \* the Linux client
    lpc,           \* "drain", "demo", "wait" or "burn" (inside handle_request_linux)
    endpt,         \* endpoint behind rcdev, NoEndPt when not rpmsg_connected
    attached,      \* is that endpoint still on a live channel?
    lReqId,        \* req_id_counter
    lStep,         \* position in run_demo_cycle
    lCount,        \* messages processed by this drain_pending_messages
    lCall,         \* the request of the blocking call that is open, or Nothing
    lServing,      \* the request being handled, or Nothing
    lBack,         \* the loop handle_request_linux returns to
    lOutcome,      \* what the last blocking call returned
    \* the R5 firmware
    rpc,           \* "off", "loop", "demo", "wait" or "resend" (Osal_delay(500))
    remoteEndPt,
    pingResolved,  \* linux_ping_resolved_once
    rReqId, rStep, rCount, rCall, rOutcome,
    rSentTo,       \* send_remote_endpt of the call that is open
    rSend,         \* the message whose first send failed, with its destination
    rBack,         \* the loop handle_request_r5 returns to
    \* the channel
    toR5, vring, inbox,
    \* history: how often the peer ran the function of the call that is open
    lServed, rServed

linuxVars == <<lpc, endpt, attached, lReqId, lStep, lCount, lCall, lServing,
               lBack, lOutcome>>
r5Vars == <<rpc, remoteEndPt, pingResolved, rReqId, rStep, rCount, rCall,
            rOutcome, rSentTo, rSend, rBack>>
vars == <<linuxVars, r5Vars, toR5, vring, inbox, lServed, rServed>>

-----------------------------------------------------------------------------
\* Messages.  Parameters and results play no part in the protocol.

Ids == 0..MaxId
R5Functions == {"A", "B"}
LinuxFunctions == {"X", "Y"}
Functions == R5Functions \cup LinuxFunctions \cup {"none"}
Message == [tag : {"request", "response", "command", "ping"}, id : Ids, fn : Functions]

Ping == [tag |-> "ping", id |-> 0, fn |-> "none"]
Nothing == Ping
Request(id, fn) == [tag |-> "request", id |-> id, fn |-> fn]
Command(id, fn) == [tag |-> "command", id |-> id, fn |-> fn]

\* Mutant: the function tag of the response is left unset.
ResponseWithoutTag(m) == [tag |-> "response", id |-> m.id, fn |-> "none"]

ResponseTo(m) == [tag |-> "response", id |-> m.id, fn |-> m.fn]

\* get_next_req_id: Linux counts up from 1, the R5 down from 2^32 - 1.
LinuxNextId(i) == IF i = MaxId THEN 0 ELSE i + 1
R5NextId(i) == IF i = 0 THEN MaxId ELSE i - 1
MayCall(i) == WrapIds \/ i # 0

\* The two run_demo_cycle: blocking calls, then one command.
LinuxDemo == <<"A", "B", "B", "A">>
R5Demo == <<"X", "Y", "X">>

LinuxCallOpen == lCall # Nothing
R5CallOpen == rCall # Nothing

\* The history counters distinguish never, once and more often.
OneMore(n) == IF n < 2 THEN n + 1 ELSE n

-----------------------------------------------------------------------------
(* The Linux client *)

CanWrite == attached /\ Len(toR5) < Capacity
Write(m) == toR5' = Append(toR5, [src |-> endpt, msg |-> m])

\* A write or read that meets a dead channel abandons the endpoint
\* (rpmsg_mark_disconnected); a full virtqueue leaves it alone.
DropDeadEndpoint == endpt' = IF attached THEN endpt ELSE NoEndPt

\* Back to the top of rpmsg_char_example_main.
LinuxTop == lpc' = "drain" /\ lCount' = 0 /\ lStep' = 1

\* The call that is open, if any, returns outcome.
LinuxCallReturns(outcome) ==
    /\ lCall' = Nothing /\ lServed' = 0
    /\ lOutcome' = IF LinuxCallOpen THEN outcome ELSE lOutcome

\* rpmsg_try_connect with the channel up: open an endpoint, ping once.  A
\* failed ping closes the endpoint again, which leaves no trace.
rpmsg_try_connect ==
    /\ lpc = "drain" /\ endpt = NoEndPt
    /\ rpc # "off"
    /\ Len(toR5) < Capacity
    /\ endpt' \in EndPts
    /\ attached' = TRUE
    /\ toR5' = Append(toR5, [src |-> endpt', msg |-> Ping])
    /\ UNCHANGED <<lpc, lReqId, lStep, lCount, lCall, lServing, lBack, lOutcome,
                   r5Vars, vring, inbox, lServed, rServed>>

\* recv_msg on an endpoint whose channel is gone.
LinuxReadFails ==
    /\ lpc = "wait" \/ (lpc = "drain" /\ lCount < MaxDrain)
    /\ endpt # NoEndPt /\ ~attached
    /\ DropDeadEndpoint
    /\ LinuxCallReturns("failed")
    /\ LinuxTop
    /\ UNCHANGED <<attached, lReqId, lServing, lBack, r5Vars, toR5, vring,
                   inbox, rServed>>

\* drain_pending_messages returns 0.
LinuxDrained ==
    /\ lpc = "drain" /\ endpt # NoEndPt
    /\ lCount = MaxDrain \/ (attached /\ inbox = <<>>)
    /\ lpc' = "demo" /\ lCount' = 0
    /\ UNCHANGED <<endpt, attached, lReqId, lStep, lCall, lServing, lBack,
                   lOutcome, r5Vars, toR5, vring, inbox, lServed, rServed>>

\* Mutant: drain_pending_messages has no limit.
LinuxReadsUnbounded(m) ==
    /\ lpc \in {"wait", "drain"}
    /\ attached /\ inbox # <<>>
    /\ m = Head(inbox)
    /\ inbox' = Tail(inbox)
    /\ UNCHANGED <<endpt, attached, lReqId, r5Vars, toR5, vring>>

\* recv_msg, in either loop, takes the oldest message m.
LinuxReads(m) ==
    /\ lpc = "wait" \/ (lpc = "drain" /\ lCount < MaxDrain)
    /\ attached /\ inbox # <<>>
    /\ m = Head(inbox)
    /\ inbox' = Tail(inbox)
    /\ UNCHANGED <<endpt, attached, lReqId, r5Vars, toR5, vring>>

CountMessage == lCount' = IF lpc = "drain" THEN lCount + 1 ELSE lCount

\* handle_request_linux as far as burn_time_pretending_to_do_stuff: the
\* function has run, the response is not sent yet.  A request for a function
\* Linux does not have is an error, which ends either loop.
LinuxTakesRequest == LET m == Head(inbox) IN
    /\ LinuxReads(m)
    /\ m.tag = "request"
    /\ IF m.fn \in LinuxFunctions
       THEN /\ lpc' = "burn" /\ lServing' = m /\ lBack' = lpc
            /\ rServed' = IF R5CallOpen /\ m.id = rCall.id THEN OneMore(rServed) ELSE rServed
            /\ UNCHANGED <<lStep, lCount, lCall, lOutcome, lServed>>
       ELSE /\ LinuxCallReturns("failed")
            /\ LinuxTop
            /\ UNCHANGED <<lServing, lBack, rServed>>

\* A command, a ping, or a response nobody waits for (any response while
\* draining, one with another id while waiting).
LinuxSkips == LET m == Head(inbox) IN
    /\ LinuxReads(m)
    /\ m.tag \in {"command", "ping"}
       \/ (m.tag = "response" /\ (lpc = "drain" \/ m.id # lCall.id))
    /\ CountMessage
    /\ UNCHANGED <<lpc, lStep, lCall, lServing, lBack, lOutcome, lServed, rServed>>

\* Mutant: wait_for_response takes any response for its own.
LinuxGetsAnyResponse ==
    /\ lpc = "wait"
    /\ LinuxReads(Head(inbox))
    /\ Head(inbox).tag = "response"
    /\ LinuxCallReturns("answered")
    /\ LinuxTop
    /\ UNCHANGED <<lServing, lBack, rServed>>

\* wait_for_response finds the response; run_demo_cycle goes on with the next
\* call or, one time in five, ends early.
LinuxGetsResponse == LET m == Head(inbox) IN
    /\ lpc = "wait"
    /\ LinuxReads(m)
    /\ m.tag = "response" /\ m.id = lCall.id
    /\ IF m.fn = lCall.fn
       THEN /\ LinuxCallReturns("answered")
            /\ \/ lpc' = "demo" /\ lStep' = lStep + 1 /\ UNCHANGED lCount
               \/ LinuxTop
       ELSE LinuxCallReturns("failed") /\ LinuxTop
    /\ UNCHANGED <<lServing, lBack, rServed>>

\* The end of handle_request_linux: send the response.  In the drain loop an
\* error on a dead channel is only noticed by the next read, or by the next
\* send when this was the last message of the batch.
LinuxSendsResponse ==
    /\ lpc = "burn"
    /\ lServing' = Nothing /\ lBack' = "drain"
    /\ IF CanWrite THEN Write(ResponseTo(lServing)) ELSE UNCHANGED toR5
    /\ DropDeadEndpoint
    /\ IF CanWrite \/ (~attached /\ lBack = "drain" /\ lCount + 1 = MaxDrain)
       THEN /\ lpc' = IF CanWrite THEN lBack ELSE "demo"
            /\ lCount' = IF ~CanWrite THEN 0 ELSE
                         IF lBack = "drain" THEN lCount + 1 ELSE lCount
            /\ UNCHANGED <<lStep, lCall, lOutcome, lServed>>
       ELSE LinuxCallReturns("failed") /\ LinuxTop
    /\ UNCHANGED <<attached, lReqId, r5Vars, vring, inbox, rServed>>

\* call_function_a_blocking, call_function_b_blocking up to wait_for_response.
LinuxCalls ==
    /\ lpc = "demo" /\ lStep < Len(LinuxDemo)
    /\ MayCall(lReqId)
    /\ lReqId' = LinuxNextId(lReqId)
    /\ DropDeadEndpoint
    /\ IF CanWrite
       THEN /\ lCall' = Request(lReqId, LinuxDemo[lStep])
            /\ Write(lCall')
            /\ lpc' = "wait"
            /\ UNCHANGED <<lStep, lCount, lOutcome>>
       ELSE /\ lOutcome' = "failed"
            /\ LinuxTop
            /\ UNCHANGED <<lCall, toR5>>
    /\ UNCHANGED <<attached, lServing, lBack, r5Vars, vring, inbox, lServed, rServed>>

\* send_command_a_nonblocking, the end of the cycle whether it is sent or not.
LinuxCommands ==
    /\ lpc = "demo" /\ lStep = Len(LinuxDemo)
    /\ MayCall(lReqId)
    /\ lReqId' = LinuxNextId(lReqId)
    /\ DropDeadEndpoint
    /\ IF CanWrite THEN Write(Command(lReqId, LinuxDemo[lStep])) ELSE UNCHANGED toR5
    /\ LinuxTop
    /\ UNCHANGED <<attached, lCall, lServing, lBack, lOutcome, r5Vars, vring,
                   inbox, lServed, rServed>>

\* wait_for_response reaches its deadline.
LinuxTimesOut ==
    /\ Timeouts /\ lpc = "wait"
    /\ LinuxCallReturns("failed")
    /\ LinuxTop
    /\ UNCHANGED <<endpt, attached, lReqId, lServing, lBack, r5Vars, toR5,
                   vring, inbox, rServed>>

LinuxStep ==
    \/ rpmsg_try_connect \/ LinuxReadFails \/ LinuxDrained
    \/ LinuxTakesRequest \/ LinuxSkips \/ LinuxGetsResponse
    \/ LinuxSendsResponse \/ LinuxCalls \/ LinuxCommands \/ LinuxTimesOut

-----------------------------------------------------------------------------
(* The R5 firmware *)

\* RPMessage_send finds a buffer.
CanSend == Len(vring) < Capacity
Send(dst, m) == vring' = Append(vring, [dst |-> dst, msg |-> m])

\* mark_linux_peer_stale: forget the endpoint that failed, not a newer one.
MarkStale(failed) ==
    /\ remoteEndPt' = IF failed \in {NoEndPt, remoteEndPt} THEN NoEndPt ELSE remoteEndPt
    /\ pingResolved' = FALSE

R5Top == rpc' = "loop" /\ rCount' = 0 /\ rStep' = 1

R5CallReturns(outcome) ==
    /\ rCall' = Nothing /\ rSentTo' = NoEndPt /\ rServed' = 0
    /\ rOutcome' = IF R5CallOpen THEN outcome ELSE rOutcome

\* Mutants: the peer is learned from pings only; it is learned only while there
\* is none.
LearnPeerFromPing(e) ==
    remoteEndPt' = IF e.msg.tag = "ping" THEN e.src ELSE remoteEndPt
LearnPeerOnce(e) ==
    remoteEndPt' = IF remoteEndPt = NoEndPt THEN e.src ELSE remoteEndPt

\* The sender of any message of the right size becomes the peer.
LearnPeer(e) == remoteEndPt' = e.src

\* RPMessage_recvNb, in process_linux_messages or in the wait loop of a call,
\* takes the oldest message e.
R5Reads(e) ==
    /\ rpc = "wait" \/ (rpc = "loop" /\ rCount < MaxDrain)
    /\ toR5 # <<>>
    /\ e = Head(toR5)
    /\ toR5' = Tail(toR5)
    /\ rCount' = IF rpc = "loop" THEN rCount + 1 ELSE rCount
    /\ UNCHANGED <<linuxVars, rReqId, inbox>>

\* Mutant: the wait loop of a call drops requests.
R5ServesWhenIdle == LET e == Head(toR5) IN
    /\ R5Reads(e)
    /\ e.msg.tag = "request"
    /\ LearnPeer(e)
    /\ IF rpc = "loop" /\ CanSend THEN Send(e.src, ResponseTo(e.msg)) ELSE UNCHANGED vring
    /\ UNCHANGED <<rpc, pingResolved, rStep, rCall, rOutcome, rSentTo, rSend,
                   rBack, lServed, rServed>>

\* handle_request_r5: run the function and send the response; after a failed
\* send it retries once, 500 ms later.
R5TakesRequest == LET e == Head(toR5) IN
    /\ R5Reads(e)
    /\ e.msg.tag = "request"
    /\ LearnPeer(e)
    /\ IF e.msg.fn \in R5Functions
       THEN /\ lServed' = IF LinuxCallOpen /\ e.msg.id = lCall.id
                        THEN OneMore(lServed) ELSE lServed
            /\ IF CanSend
               THEN Send(e.src, ResponseTo(e.msg)) /\ UNCHANGED <<rpc, rSend, rBack>>
               ELSE /\ rpc' = "resend" /\ rBack' = rpc
                    /\ rSend' = [dst |-> e.src, msg |-> ResponseTo(e.msg)]
                    /\ UNCHANGED vring
       ELSE UNCHANGED <<lServed, vring, rpc, rSend, rBack>>
    /\ UNCHANGED <<pingResolved, rStep, rCall, rOutcome, rSentTo, rServed>>

\* The first ping since the peer was lost is answered; if that fails the
\* endpoint just learned is forgotten again.
R5TakesPing == LET e == Head(toR5) IN
    /\ R5Reads(e)
    /\ e.msg.tag = "ping"
    /\ IF pingResolved \/ CanSend
       THEN LearnPeer(e) /\ pingResolved' = TRUE
       ELSE remoteEndPt' = NoEndPt /\ pingResolved' = FALSE
    /\ IF ~pingResolved /\ CanSend THEN Send(e.src, Ping) ELSE UNCHANGED vring
    /\ UNCHANGED <<rpc, rStep, rCall, rOutcome, rSentTo, rSend, rBack, lServed,
                   rServed>>

\* A command, or a response nobody waits for.
R5Skips == LET e == Head(toR5) IN
    /\ R5Reads(e)
    /\ e.msg.tag = "command"
       \/ (e.msg.tag = "response" /\ (rpc = "loop" \/ e.msg.id # rCall.id))
    /\ LearnPeer(e)
    /\ UNCHANGED <<rpc, pingResolved, rStep, rCall, rOutcome, rSentTo, rSend,
                   rBack, vring, lServed, rServed>>

\* Mutant: any response is taken for the one the call waits for.
R5GetsAnyResponse ==
    /\ rpc = "wait"
    /\ R5Reads(Head(toR5))
    /\ Head(toR5).msg.tag = "response"
    /\ LearnPeer(Head(toR5))
    /\ R5CallReturns("answered")
    /\ rpc' = "loop" /\ rStep' = 1
    /\ UNCHANGED <<pingResolved, rSend, rBack, vring, lServed>>

\* The wait loop of send_blocking_request_r5 finds its response.
R5GetsResponse == LET e == Head(toR5) IN
    /\ rpc = "wait"
    /\ R5Reads(e)
    /\ e.msg.tag = "response" /\ e.msg.id = rCall.id
    /\ LearnPeer(e)
    /\ IF e.msg.fn = rCall.fn
       THEN /\ R5CallReturns("answered")
            /\ \/ rpc' = "demo" /\ rStep' = rStep + 1
               \/ rpc' = "loop" /\ rStep' = 1
       ELSE R5CallReturns("failed") /\ rpc' = "loop" /\ rStep' = 1
    /\ UNCHANGED <<pingResolved, rSend, rBack, vring, lServed>>

\* process_linux_messages returns; run_demo_cycle runs if there is a peer.
R5Processed ==
    /\ rpc = "loop"
    /\ rCount = MaxDrain \/ toR5 = <<>>
    /\ rCount > 0 \/ remoteEndPt # NoEndPt
    /\ rpc' = IF remoteEndPt # NoEndPt THEN "demo" ELSE "loop"
    /\ rCount' = 0
    /\ UNCHANGED <<linuxVars, remoteEndPt, pingResolved, rReqId, rStep, rCall,
                   rOutcome, rSentTo, rSend, rBack, toR5, vring, inbox,
                   lServed, rServed>>

\* call_linux_function_x_blocking, call_linux_function_y_blocking up to the
\* wait loop of send_blocking_request_r5.
R5Calls ==
    /\ rpc = "demo" /\ rStep < Len(R5Demo)
    /\ MayCall(rReqId)
    /\ rReqId' = R5NextId(rReqId)
    /\ IF remoteEndPt = NoEndPt
       THEN /\ R5Top
            /\ rOutcome' = "failed"
            /\ UNCHANGED <<rCall, rSentTo, rSend, vring>>
       ELSE /\ rCall' = Request(rReqId, R5Demo[rStep])
            /\ rSentTo' = remoteEndPt
            /\ IF CanSend
               THEN Send(remoteEndPt, rCall') /\ rpc' = "wait" /\ UNCHANGED rSend
               ELSE /\ rpc' = "resend"
                    /\ rSend' = [dst |-> remoteEndPt, msg |-> rCall']
                    /\ UNCHANGED vring
            /\ UNCHANGED <<rStep, rCount, rOutcome>>
    /\ UNCHANGED <<linuxVars, remoteEndPt, pingResolved, rBack, toR5, inbox, lServed,
                   rServed>>

\* send_command_x_nonblocking.
R5Commands == LET m == Command(rReqId, R5Demo[rStep]) IN
    /\ rpc = "demo" /\ rStep = Len(R5Demo)
    /\ MayCall(rReqId)
    /\ rReqId' = R5NextId(rReqId)
    /\ IF remoteEndPt = NoEndPt \/ CanSend
       THEN R5Top /\ UNCHANGED rSend
       ELSE /\ rpc' = "resend" /\ rSend' = [dst |-> remoteEndPt, msg |-> m]
            /\ UNCHANGED <<rCount, rStep>>
    /\ IF remoteEndPt # NoEndPt /\ CanSend THEN Send(remoteEndPt, m) ELSE UNCHANGED vring
    /\ UNCHANGED <<linuxVars, remoteEndPt, pingResolved, rCall, rOutcome,
                   rSentTo, rBack, toR5, inbox, lServed, rServed>>

\* The second and last attempt, after Osal_delay(500).  Whatever the result, a
\* response returns to the loop it came from (its status is ignored there).
R5Resends ==
    /\ rpc = "resend"
    /\ rSend' = [dst |-> NoEndPt, msg |-> Nothing] /\ rBack' = "loop"
    /\ IF CanSend
       THEN /\ Send(rSend.dst, rSend.msg)
            /\ UNCHANGED <<remoteEndPt, pingResolved>>
       ELSE MarkStale(rSend.dst) /\ UNCHANGED vring
    /\ CASE rSend.msg.tag = "response" ->
              rpc' = rBack /\ UNCHANGED <<rCount, rStep, rCall, rOutcome, rSentTo, rServed>>
         [] rSend.msg.tag = "request" /\ CanSend ->
              rpc' = "wait" /\ UNCHANGED <<rCount, rStep, rCall, rOutcome, rSentTo, rServed>>
         [] OTHER -> R5Top /\ R5CallReturns("failed")
    /\ UNCHANGED <<linuxVars, rReqId, toR5, inbox, lServed>>

\* The ten seconds of send_blocking_request_r5 are over.
R5TimesOut ==
    /\ Timeouts /\ rpc = "wait"
    /\ MarkStale(rSentTo)
    /\ R5CallReturns("failed")
    /\ R5Top
    /\ UNCHANGED <<linuxVars, rReqId, rSend, rBack, toR5, vring, inbox, lServed>>

R5Step ==
    \/ R5TakesRequest \/ R5TakesPing \/ R5Skips \/ R5GetsResponse
    \/ R5Processed \/ R5Calls \/ R5Commands \/ R5Resends \/ R5TimesOut

-----------------------------------------------------------------------------
(* The kernel and the operator *)

\* The kernel moves a message to the endpoint it is addressed to, or drops it
\* when no endpoint has that address.
KernelDelivers == LET e == Head(vring) IN
    /\ vring # <<>>
    /\ Len(inbox) < Capacity
    /\ vring' = Tail(vring)
    /\ inbox' = IF attached /\ e.dst = endpt THEN Append(inbox, e.msg) ELSE inbox
    /\ UNCHANGED <<linuxVars, r5Vars, toR5, lServed, rServed>>

\* remoteproc stops the R5: both virtqueues and the channel go away, and the
\* Linux endpoint fails from now on.
R5Stop ==
    /\ R5Stops /\ rpc # "off"
    /\ rpc' = "off"
    /\ remoteEndPt' = NoEndPt /\ pingResolved' = FALSE
    /\ rReqId' = MaxId /\ rStep' = 1 /\ rCount' = 0
    /\ rCall' = Nothing /\ rSentTo' = NoEndPt /\ rOutcome' = "none"
    /\ rSend' = [dst |-> NoEndPt, msg |-> Nothing] /\ rBack' = "loop"
    /\ toR5' = <<>> /\ vring' = <<>> /\ inbox' = <<>>
    /\ attached' = FALSE /\ rServed' = 0
    /\ UNCHANGED <<lpc, endpt, lReqId, lStep, lCount, lCall, lServing, lBack,
                   lOutcome, lServed>>

\* setup_r5_example_talk succeeds.
R5Boot ==
    /\ rpc = "off"
    /\ rpc' = "loop"
    /\ UNCHANGED <<linuxVars, remoteEndPt, pingResolved, rReqId, rStep, rCount,
                   rCall, rOutcome, rSentTo, rSend, rBack, toR5, vring, inbox,
                   lServed, rServed>>

\* The Linux process dies and is started again; the kernel closes its endpoint.
LinuxRestart ==
    /\ LinuxRestarts
    /\ endpt' = NoEndPt /\ attached' = FALSE /\ inbox' = <<>>
    /\ lReqId' = 1 /\ lOutcome' = "none"
    /\ lCall' = Nothing /\ lServing' = Nothing /\ lBack' = "drain"
    /\ LinuxTop /\ lServed' = 0
    /\ UNCHANGED <<r5Vars, toR5, vring, rServed>>

Environment == KernelDelivers \/ R5Stop \/ R5Boot \/ LinuxRestart

-----------------------------------------------------------------------------
Init ==
    /\ lpc = "drain" /\ endpt = NoEndPt /\ attached = FALSE /\ lReqId = 1
    /\ lStep = 1 /\ lCount = 0 /\ lCall = Nothing /\ lServing = Nothing
    /\ lBack = "drain" /\ lOutcome = "none"
    /\ rpc \in {"off", "loop"} /\ remoteEndPt = NoEndPt /\ pingResolved = FALSE
    /\ rReqId = MaxId /\ rStep = 1 /\ rCount = 0 /\ rCall = Nothing
    /\ rOutcome = "none" /\ rSentTo = NoEndPt
    /\ rSend = [dst |-> NoEndPt, msg |-> Nothing] /\ rBack = "loop"
    /\ toR5 = <<>> /\ vring = <<>> /\ inbox = <<>>
    /\ lServed = 0 /\ rServed = 0

Next == LinuxStep \/ R5Step \/ Environment

Spec == Init /\ [][Next]_vars

\* Both programs poll without end and the kernel's interrupt is served; a
\* stop, a boot or a restart need never happen.
FairSpec ==
    Spec /\ WF_vars(LinuxStep) /\ WF_vars(R5Step) /\ WF_vars(KernelDelivers)

-----------------------------------------------------------------------------
(* Properties *)

TypeOK ==
    /\ lpc \in {"drain", "demo", "wait", "burn"}
    /\ endpt \in EndPts \cup {NoEndPt}
    /\ attached \in BOOLEAN
    /\ lReqId \in Ids
    /\ lStep \in 1..Len(LinuxDemo)
    /\ lCount \in 0..MaxDrain
    /\ lCall \in Message /\ lServing \in Message
    /\ lBack \in {"drain", "wait"}
    /\ lOutcome \in {"none", "answered", "failed"}
    /\ rpc \in {"off", "loop", "demo", "wait", "resend"}
    /\ remoteEndPt \in EndPts \cup {NoEndPt}
    /\ pingResolved \in BOOLEAN
    /\ rReqId \in Ids
    /\ rStep \in 1..Len(R5Demo)
    /\ rCount \in 0..MaxDrain
    /\ rCall \in Message
    /\ rOutcome \in {"none", "answered", "failed"}
    /\ rSentTo \in EndPts \cup {NoEndPt}
    /\ rSend \in [dst : EndPts \cup {NoEndPt}, msg : Message]
    /\ rBack \in {"loop", "wait"}
    /\ toR5 \in Seq([src : EndPts, msg : Message])
    /\ vring \in Seq([dst : EndPts, msg : Message])
    /\ inbox \in Seq(Message)
    /\ lServed \in 0..2 /\ rServed \in 0..2

\* When nothing is on its way to the R5, the R5 either has no peer or has the
\* endpoint the Linux client uses now: never the one of a process that died
\* and whose last messages it read late.
PeerIsCurrent ==
    attached /\ toR5 = <<>> => remoteEndPt \in {NoEndPt, endpt}

\* With nobody stopped and no wait cut short, no call of either side fails:
\* both may be blocked on each other at the same time, and no queue fills up.
NoCallFails == lOutcome # "failed" /\ rOutcome # "failed"

\* ... and every call that is issued, by either side, is answered.
CallsAnswered ==
    /\ LinuxCallOpen ~> ~LinuxCallOpen
    /\ R5CallOpen ~> ~R5CallOpen

\* A peer the R5 invalidated comes back although Linux pings only once: as
\* long as Linux stays connected, the R5 has its endpoint again and again.
PeerRecovers == <>[](attached /\ rpc # "off") => []<>(remoteEndPt = endpt)
=============================================================================
