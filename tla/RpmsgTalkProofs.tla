-------------------------- MODULE RpmsgTalkProofs --------------------------
(***************************************************************************)
(* Theorems of RpmsgTalk, for every set of endpoint addresses, id range,   *)
(* queue capacity and batch size, with timeouts, R5 stops and Linux        *)
(* restarts allowed or not: types, the R5's peer, and, as long as nobody   *)
(* calls again once its request ids have wrapped, that the blocking calls  *)
(* of both sides are calls of RpcClient; without faults, that no call of   *)
(* either side fails.                                                      *)
(***************************************************************************)
EXTENDS MCRpmsgTalk, SequenceTheorems, TLAPS

-----------------------------------------------------------------------------
(* Messages *)

LEMMA PingIsMessage == Ping \in Message /\ Nothing \in Message
BY ConstantsAssumption DEF Ping, Nothing, Message, Ids, Functions

LEMMA MadeMessages ==
    ASSUME NEW id \in Ids, NEW fn \in Functions
    PROVE  Request(id, fn) \in Message /\ Command(id, fn) \in Message
BY DEF Request, Command, Message

LEMMA ResponseIsMessage ==
    ASSUME NEW m \in Message
    PROVE  ResponseTo(m) \in Message
BY DEF ResponseTo, Message

\* What run_demo_cycle calls are functions of the other side.
LEMMA DemoFunctions ==
    /\ Len(LinuxDemo) = 4 /\ \A k \in 1..4 : LinuxDemo[k] \in Functions
    /\ Len(R5Demo) = 3 /\ \A k \in 1..3 : R5Demo[k] \in Functions
<1>1. Len(LinuxDemo) = 4 /\ \A k \in 1..4 : LinuxDemo[k] \in Functions
  BY DEF LinuxDemo, Functions, R5Functions
<1>2. Len(R5Demo) = 3 /\ \A k \in 1..3 : R5Demo[k] \in Functions
  BY DEF R5Demo, Functions, LinuxFunctions
<1>3. QED  BY <1>1, <1>2

LEMMA NextIds ==
    ASSUME NEW id \in Ids
    PROVE  LinuxNextId(id) \in Ids /\ R5NextId(id) \in Ids
BY ConstantsAssumption DEF Ids, LinuxNextId, R5NextId

\* Sequences: taking the head, adding at the end.
LEMMA HeadTail ==
    ASSUME NEW S, NEW q \in Seq(S), q # <<>>
    PROVE  /\ Head(q) \in S /\ Tail(q) \in Seq(S)
           /\ Len(q) \in Nat \ {0}
           /\ Tail(q) = <<>> => Head(q) = q[Len(q)]
           /\ Tail(q) # <<>> => Tail(q)[Len(Tail(q))] = q[Len(q)]
<1>1. Len(q) \in Nat \ {0}
  BY EmptySeq
<1>2. /\ Head(q) \in S /\ Tail(q) \in Seq(S)
      /\ Len(Tail(q)) = Len(q) - 1
      /\ \A i \in 1..Len(Tail(q)) : Tail(q)[i] = q[i+1]
  BY HeadTailProperties
<1>3. Head(q) = q[1]
  BY <1>1
<1>4. Tail(q) = <<>> => Len(q) = 1
  BY <1>1, <1>2, EmptySeq
<1>5. ASSUME Tail(q) # <<>>
      PROVE  Tail(q)[Len(Tail(q))] = q[Len(q)]
  <2>1. Len(Tail(q)) \in Nat \ {0}
    BY <1>2, <1>5, EmptySeq
  <2>2. QED  BY <1>1, <1>2, <2>1
<1>6. QED
  BY <1>1, <1>2, <1>3, <1>4, <1>5

LEMMA Appending ==
    ASSUME NEW S, NEW q \in Seq(S), NEW e \in S
    PROVE  /\ Append(q, e) \in Seq(S)
           /\ Append(q, e) # <<>>
           /\ Append(q, e)[Len(Append(q, e))] = e
OBVIOUS

LEMMA WriteTyped ==
    ASSUME toR5 \in Seq([src : EndPts, msg : Message]), endpt \in EndPts,
           NEW m \in Message, Write(m)
    PROVE  toR5' \in Seq([src : EndPts, msg : Message])
<1>1. [src |-> endpt, msg |-> m] \in [src : EndPts, msg : Message]
  OBVIOUS
<1>2. QED  BY <1>1, Appending DEF Write

LEMMA SendTyped ==
    ASSUME vring \in Seq([dst : EndPts, msg : Message]),
           NEW dst \in EndPts, NEW m \in Message, Send(dst, m)
    PROVE  vring' \in Seq([dst : EndPts, msg : Message])
<1>1. [dst |-> dst, msg |-> m] \in [dst : EndPts, msg : Message]
  OBVIOUS
<1>2. QED  BY <1>1, Appending DEF Send

-----------------------------------------------------------------------------
(* Type correctness *)

\* What the control state says about the rest, needed for the types: a call
\* that is open is not the last item of its demo cycle, a message waiting to
\* be sent again has a destination, a batch being drained is not complete
\* while one of its messages is handled, only an endpoint is attached, and
\* rBack is set only while a response waits.
ControlOK ==
    /\ attached => endpt \in EndPts
    /\ lpc = "wait" \/ (lpc = "burn" /\ lBack = "wait") => lStep < 4
    /\ lpc = "burn" /\ lBack = "drain" => lCount < MaxDrain
    /\ rpc = "wait" => rStep < 3
    /\ rpc # "resend" => rBack = "loop"
    /\ rpc = "resend" => /\ rSend.dst \in EndPts
                         /\ rBack = "wait" \/ rSend.msg.tag = "request" => rStep < 3

TInv == TypeOK /\ ControlOK

LEMMA InitTInv == Init => TInv
<1> SUFFICES ASSUME Init PROVE TInv
  OBVIOUS
<1> USE ConstantsAssumption, PingIsMessage, DemoFunctions
<1>1. 1 \in Ids /\ MaxId \in Ids /\ 0 \in 0..MaxDrain
  BY DEF Ids
<1>2. TypeOK
  <2>1. /\ toR5 \in Seq([src : EndPts, msg : Message])
        /\ vring \in Seq([dst : EndPts, msg : Message])
        /\ inbox \in Seq(Message)
    BY DEF Init
  <2>2. rSend \in [dst : EndPts \cup {NoEndPt}, msg : Message]
    BY DEF Init
  <2>0. attached \in BOOLEAN /\ pingResolved \in BOOLEAN
    BY Zenon DEF Init
  <2>3. /\ lpc \in {"drain", "demo", "wait", "burn"}
        /\ endpt \in EndPts \cup {NoEndPt}
        /\ lReqId \in Ids /\ lStep \in 1..Len(LinuxDemo) /\ lCount \in 0..MaxDrain
        /\ lCall \in Message /\ lServing \in Message
        /\ lBack \in {"drain", "wait"} /\ lOutcome \in {"none", "answered", "failed"}
    BY <1>1 DEF Init
  <2>4. /\ rpc \in {"off", "loop", "demo", "wait", "resend"}
        /\ remoteEndPt \in EndPts \cup {NoEndPt}
        /\ rReqId \in Ids /\ rStep \in 1..Len(R5Demo) /\ rCount \in 0..MaxDrain
        /\ rCall \in Message /\ rOutcome \in {"none", "answered", "failed"}
        /\ rSentTo \in EndPts \cup {NoEndPt} /\ rBack \in {"loop", "wait"}
    BY <1>1 DEF Init
  <2>5. lServed \in 0..2 /\ rServed \in 0..2
    BY DEF Init
  <2>6. QED  BY <2>1, <2>2, <2>0, <2>3, <2>4, <2>5 DEF TypeOK
<1>3. ControlOK
  BY DEF Init, ControlOK
<1>4. QED  BY <1>2, <1>3 DEF TInv

\* What recv_msg takes from the inbox and what it leaves there.
LEMMA InboxTyped ==
    ASSUME TypeOK, NEW m, LinuxReads(m)
    PROVE  m \in Message /\ inbox' \in Seq(Message)
<1>1. inbox \in Seq(Message) /\ inbox # <<>> /\ m = Head(inbox) /\ inbox' = Tail(inbox)
  BY DEF LinuxReads, TypeOK
<1>2. QED  BY <1>1, HeadTail

LEMMA LinuxStepTInv == TInv /\ LinuxStep => TInv'
<1> SUFFICES ASSUME TInv, LinuxStep PROVE TInv'
  OBVIOUS
<1> USE ConstantsAssumption, PingIsMessage, DemoFunctions
     DEF TInv, TypeOK, ControlOK, linuxVars, r5Vars, LinuxTop, DropDeadEndpoint,
         LinuxCallReturns
<1>1. CASE rpmsg_try_connect
  <2>1. toR5' \in Seq([src : EndPts, msg : Message])
    BY <1>1, Appending DEF rpmsg_try_connect
  <2>2. QED  BY <1>1, <2>1 DEF rpmsg_try_connect
<1>2. CASE LinuxReadFails
  BY <1>2 DEF LinuxReadFails
<1>3. CASE LinuxDrained
  BY <1>3 DEF LinuxDrained
<1>4. CASE LinuxTakesRequest
  <2>1. LinuxReads(Head(inbox))
    BY <1>4 DEF LinuxTakesRequest
  <2>2. Head(inbox) \in Message /\ inbox' \in Seq(Message)
    BY <2>1, InboxTyped
  <2>3. TypeOK'
    BY <1>4, <2>2 DEF LinuxTakesRequest, LinuxReads, OneMore
  <2>4. ControlOK'
    BY <1>4, <2>2 DEF LinuxTakesRequest, LinuxReads, OneMore
  <2>5. QED  BY <2>3, <2>4
<1>5. CASE LinuxSkips
  <2>1. LinuxReads(Head(inbox))
    BY <1>5 DEF LinuxSkips
  <2>2. Head(inbox) \in Message /\ inbox' \in Seq(Message)
    BY <2>1, InboxTyped
  <2>3. TypeOK'
    BY <1>5, <2>2 DEF LinuxSkips, LinuxReads, CountMessage
  <2>4. ControlOK'
    BY <1>5, <2>2 DEF LinuxSkips, LinuxReads, CountMessage
  <2>5. QED  BY <2>3, <2>4
<1>6. CASE LinuxGetsResponse
  <2>1. LinuxReads(Head(inbox))
    BY <1>6 DEF LinuxGetsResponse
  <2>2. Head(inbox) \in Message /\ inbox' \in Seq(Message)
    BY <2>1, InboxTyped
  <2>3. TypeOK'
    BY <1>6, <2>2 DEF LinuxGetsResponse, LinuxReads
  <2>4. ControlOK'
    BY <1>6, <2>2 DEF LinuxGetsResponse, LinuxReads
  <2>5. QED  BY <2>3, <2>4
<1>7. CASE LinuxSendsResponse
  <2>1. ResponseTo(lServing) \in Message
    BY ResponseIsMessage
  <2>2. toR5' \in Seq([src : EndPts, msg : Message])
    BY <1>7, <2>1, WriteTyped DEF LinuxSendsResponse, CanWrite
  <2>3. QED  BY <1>7, <2>2 DEF LinuxSendsResponse, CanWrite
<1>8. CASE LinuxCalls
  <2>1. lReqId \in Ids /\ lReqId' \in Ids
    BY <1>8, NextIds DEF LinuxCalls
  <2>2. lStep \in 1..4 /\ lStep < 4
    BY <1>8 DEF LinuxCalls
  <2>3. Request(lReqId, LinuxDemo[lStep]) \in Message
    BY <2>1, <2>2, MadeMessages
  <2>4. toR5' \in Seq([src : EndPts, msg : Message])
    BY <1>8, <2>3, WriteTyped DEF LinuxCalls, CanWrite
  <2>5. QED  BY <1>8, <2>1, <2>2, <2>3, <2>4 DEF LinuxCalls, CanWrite
<1>9. CASE LinuxCommands
  <2>1. lReqId \in Ids /\ lReqId' \in Ids
    BY <1>9, NextIds DEF LinuxCommands
  <2>2. lStep \in 1..4
    OBVIOUS
  <2>3. Command(lReqId, LinuxDemo[lStep]) \in Message
    BY <2>1, <2>2, MadeMessages
  <2>4. toR5' \in Seq([src : EndPts, msg : Message])
    BY <1>9, <2>3, WriteTyped DEF LinuxCommands, CanWrite
  <2>5. QED  BY <1>9, <2>1, <2>4 DEF LinuxCommands, CanWrite
<1>10. CASE LinuxTimesOut
  BY <1>10 DEF LinuxTimesOut
<1>11. QED
  BY <1>1, <1>2, <1>3, <1>4, <1>5, <1>6, <1>7, <1>8, <1>9, <1>10 DEF LinuxStep

\* What is taken from the head of a virtqueue.
LEMMA HeadsTyped ==
    ASSUME TInv
    PROVE  /\ toR5 # <<>> => /\ Head(toR5).src \in EndPts /\ Head(toR5).msg \in Message
                             /\ Tail(toR5) \in Seq([src : EndPts, msg : Message])
           /\ vring # <<>> => /\ Head(vring).msg \in Message
                              /\ Tail(vring) \in Seq([dst : EndPts, msg : Message])
<1>1. ASSUME toR5 # <<>>
      PROVE  /\ Head(toR5).src \in EndPts /\ Head(toR5).msg \in Message
             /\ Tail(toR5) \in Seq([src : EndPts, msg : Message])
  <2>1. toR5 \in Seq([src : EndPts, msg : Message])
    BY DEF TInv, TypeOK
  <2>2. /\ Head(toR5) \in [src : EndPts, msg : Message]
        /\ Tail(toR5) \in Seq([src : EndPts, msg : Message])
    BY <1>1, <2>1, HeadTail
  <2>3. QED  BY <2>2
<1>2. ASSUME vring # <<>>
      PROVE  /\ Head(vring).msg \in Message
             /\ Tail(vring) \in Seq([dst : EndPts, msg : Message])
  <2>1. vring \in Seq([dst : EndPts, msg : Message])
    BY DEF TInv, TypeOK
  <2>2. /\ Head(vring) \in [dst : EndPts, msg : Message]
        /\ Tail(vring) \in Seq([dst : EndPts, msg : Message])
    BY <1>2, <2>1, HeadTail
  <2>3. QED  BY <2>2
<1>3. QED  BY <1>1, <1>2

LEMMA R5StepTInv == TInv /\ R5Step => TInv'
<1> SUFFICES ASSUME TInv, R5Step PROVE TInv'
  OBVIOUS
<1> USE ConstantsAssumption, PingIsMessage, DemoFunctions
     DEF TInv, TypeOK, ControlOK, linuxVars, R5Top, R5CallReturns
<1>1. ASSUME toR5 # <<>>
      PROVE  /\ Head(toR5).src \in EndPts /\ Head(toR5).msg \in Message
             /\ Tail(toR5) \in Seq([src : EndPts, msg : Message])
  BY <1>1, HeadsTyped
<1>2. CASE R5TakesRequest
  <2>1. toR5 # <<>>
    BY <1>2 DEF R5TakesRequest, R5Reads
  <2>2. ResponseTo(Head(toR5).msg) \in Message
    BY <1>1, <2>1, ResponseIsMessage
  <2>3. vring' \in Seq([dst : EndPts, msg : Message])
    BY <1>1, <1>2, <2>1, <2>2, SendTyped DEF R5TakesRequest
  <2>4. ResponseTo(Head(toR5).msg).tag = "response"
    BY DEF ResponseTo
  <2>5. QED
    BY <1>1, <1>2, <2>1, <2>2, <2>3, <2>4
    DEF R5TakesRequest, R5Reads, LearnPeer, OneMore
<1>3. CASE R5TakesPing
  <2>1. toR5 # <<>>
    BY <1>3 DEF R5TakesPing, R5Reads
  <2>2. vring' \in Seq([dst : EndPts, msg : Message])
    BY <1>1, <1>3, <2>1, SendTyped DEF R5TakesPing
  <2>3. pingResolved' \in BOOLEAN
    BY <1>3, Zenon DEF R5TakesPing
  <2>4. QED
    BY <1>1, <1>3, <2>1, <2>2, <2>3 DEF R5TakesPing, R5Reads, LearnPeer
<1>4. CASE R5Skips
  BY <1>1, <1>4 DEF R5Skips, R5Reads, LearnPeer
<1>5. CASE R5GetsResponse
  BY <1>1, <1>5 DEF R5GetsResponse, R5Reads, LearnPeer
<1>6. CASE R5Processed
  BY <1>6 DEF R5Processed
<1>7. CASE R5Calls
  <2>1. rReqId \in Ids /\ rReqId' \in Ids /\ rStep \in 1..3 /\ rStep < 3
    BY <1>7, NextIds DEF R5Calls
  <2>2. Request(rReqId, R5Demo[rStep]) \in Message
    BY <2>1, MadeMessages
  <2>3. vring' \in Seq([dst : EndPts, msg : Message])
    BY <1>7, <2>2, SendTyped DEF R5Calls
  <2>4. QED  BY <1>7, <2>1, <2>2, <2>3 DEF R5Calls
<1>8. CASE R5Commands
  <2>1. rReqId \in Ids /\ rReqId' \in Ids /\ rStep \in 1..3
    BY <1>8, NextIds DEF R5Commands
  <2>2. Command(rReqId, R5Demo[rStep]) \in Message
    BY <2>1, MadeMessages
  <2>3. vring' \in Seq([dst : EndPts, msg : Message])
    BY <1>8, <2>2, SendTyped DEF R5Commands
  <2>4. Command(rReqId, R5Demo[rStep]).tag = "command"
    BY DEF Command
  <2>5. rSend' \in [dst : EndPts \cup {NoEndPt}, msg : Message]
    BY <1>8, <2>2 DEF R5Commands
  <2>6. rpc' = "resend" => /\ rSend'.dst \in EndPts /\ rSend'.msg.tag = "command"
                           /\ UNCHANGED rBack
    BY <1>8, <2>4 DEF R5Commands
  <2>7. TypeOK'
    BY <1>8, <2>1, <2>3, <2>5 DEF R5Commands
  <2>8. rBack = "loop" /\ UNCHANGED rBack
    BY <1>8 DEF R5Commands
  <2>9. QED  BY <1>8, <2>6, <2>7, <2>8 DEF R5Commands
<1>9. CASE R5Resends
  <2>1. rSend.dst \in EndPts /\ rSend.msg \in Message
    BY <1>9 DEF R5Resends
  <2>2. vring' \in Seq([dst : EndPts, msg : Message])
    BY <1>9, <2>1, SendTyped DEF R5Resends
  <2>3. pingResolved' \in BOOLEAN
    BY <1>9, Zenon DEF R5Resends, MarkStale
  <2>4. QED  BY <1>9, <2>1, <2>2, <2>3 DEF R5Resends, MarkStale
<1>10. CASE R5TimesOut
  <2>1. pingResolved' \in BOOLEAN
    BY <1>10, Zenon DEF R5TimesOut, MarkStale
  <2>2. QED  BY <1>10, <2>1 DEF R5TimesOut, MarkStale
<1>11. QED
  BY <1>2, <1>3, <1>4, <1>5, <1>6, <1>7, <1>8, <1>9, <1>10 DEF R5Step

LEMMA EnvironmentTInv == TInv /\ Environment => TInv'
<1> SUFFICES ASSUME TInv, Environment PROVE TInv'
  OBVIOUS
<1> USE ConstantsAssumption, PingIsMessage, DemoFunctions
     DEF TInv, TypeOK, ControlOK, linuxVars, r5Vars
<1>1. CASE KernelDelivers
  <2>1. Tail(vring) \in Seq([dst : EndPts, msg : Message]) /\ Head(vring).msg \in Message
    BY <1>1, HeadsTyped DEF KernelDelivers
  <2>2. inbox' \in Seq(Message)
    BY <1>1, <2>1, Appending DEF KernelDelivers
  <2>3. QED  BY <1>1, <2>1, <2>2 DEF KernelDelivers
<1>2. CASE R5Stop
  <2>1. /\ toR5' \in Seq([src : EndPts, msg : Message])
        /\ vring' \in Seq([dst : EndPts, msg : Message])
        /\ inbox' \in Seq(Message)
    BY <1>2 DEF R5Stop
  <2>2. MaxId \in Ids
    BY DEF Ids
  <2>3. rSend' \in [dst : EndPts \cup {NoEndPt}, msg : Message]
    BY <1>2 DEF R5Stop
  <2>4. attached' \in BOOLEAN /\ pingResolved' \in BOOLEAN
    BY <1>2, Zenon DEF R5Stop
  <2>5. QED  BY <1>2, <2>1, <2>2, <2>3, <2>4 DEF R5Stop
<1>3. CASE R5Boot
  BY <1>3 DEF R5Boot
<1>4. CASE LinuxRestart
  <2>1. inbox' \in Seq(Message)
    BY <1>4 DEF LinuxRestart
  <2>2. 1 \in Ids
    BY DEF Ids
  <2>3. attached' \in BOOLEAN
    BY <1>4, Zenon DEF LinuxRestart
  <2>4. QED  BY <1>4, <2>1, <2>2, <2>3 DEF LinuxRestart, LinuxTop
<1>5. QED  BY <1>1, <1>2, <1>3, <1>4 DEF Environment

LEMMA StutterTInv == TInv /\ UNCHANGED vars => TInv'
BY DEF TInv, TypeOK, ControlOK, vars, linuxVars, r5Vars

LEMMA TInvInvariant == Spec => []TInv
<1>1. TInv /\ [Next]_vars => TInv'
  BY LinuxStepTInv, R5StepTInv, EnvironmentTInv, StutterTInv DEF Next
<1>2. QED  BY InitTInv, <1>1, PTL DEF Spec

\* Every variable of both programs and of the channel keeps its type: in
\* particular drain_pending_messages and process_linux_messages stay within
\* their batch, and neither demo cycle runs past its last item.
THEOREM TypeCorrect == Spec => []TypeOK
<1>1. TInv => TypeOK
  BY DEF TInv
<1>2. QED  BY TInvInvariant, <1>1, PTL

-----------------------------------------------------------------------------
(* The R5's peer *)

\* PeerIsCurrent looks at the R5 at rest.  Inductively: while the Linux
\* endpoint is live, the LAST message on its way to the R5 comes from it (the
\* ping at least, so that whatever a dead process left behind is read before
\* it), and with nothing on its way the peer is that endpoint or none.
PeerInv ==
    attached =>
        IF toR5 = <<>>
        THEN remoteEndPt \in {NoEndPt, endpt}
        ELSE toR5[Len(toR5)].src = endpt

LEMMA WriteLast ==
    ASSUME TypeOK, endpt \in EndPts, NEW m \in Message, Write(m)
    PROVE  toR5' # <<>> /\ toR5'[Len(toR5')].src = endpt
<1>1. [src |-> endpt, msg |-> m] \in [src : EndPts, msg : Message]
  OBVIOUS
<1>2. toR5 \in Seq([src : EndPts, msg : Message])
  BY DEF TypeOK
<1>3. QED  BY <1>1, <1>2, Appending DEF Write

\* A Linux step that writes nothing keeps the channel, and the peer with it.
LEMMA KeepsPeer ==
    ASSUME PeerInv, UNCHANGED <<toR5, remoteEndPt>>,
           attached' => attached /\ endpt' = endpt
    PROVE  PeerInv'
BY DEF PeerInv

LEMMA LinuxStepPeer == TInv /\ PeerInv /\ LinuxStep => PeerInv'
<1> SUFFICES ASSUME TInv, PeerInv, LinuxStep PROVE PeerInv'
  OBVIOUS
<1> USE DEF r5Vars
<1>1. CASE rpmsg_try_connect
  <2>1. [src |-> endpt', msg |-> Ping] \in [src : EndPts, msg : Message]
    BY <1>1, PingIsMessage DEF rpmsg_try_connect
  <2>2. toR5 \in Seq([src : EndPts, msg : Message])
    BY DEF TInv, TypeOK
  <2>3. toR5' # <<>> /\ toR5'[Len(toR5')].src = endpt'
    BY <1>1, <2>1, <2>2, Appending DEF rpmsg_try_connect
  <2>4. QED  BY <2>3 DEF PeerInv
<1>2. CASE LinuxReadFails
  BY <1>2, KeepsPeer DEF LinuxReadFails
<1>3. CASE LinuxDrained
  BY <1>3, KeepsPeer DEF LinuxDrained
<1>4. CASE LinuxTakesRequest \/ LinuxSkips \/ LinuxGetsResponse
  BY <1>4, KeepsPeer DEF LinuxTakesRequest, LinuxSkips, LinuxGetsResponse, LinuxReads
<1>5. ASSUME DropDeadEndpoint, UNCHANGED <<attached, remoteEndPt>>,
             UNCHANGED toR5 \/ (CanWrite /\ \E m \in Message : Write(m))
      PROVE  PeerInv'
  <2>1. attached' => attached /\ endpt' = endpt
    BY <1>5 DEF DropDeadEndpoint
  <2>2. CASE UNCHANGED toR5
    BY <1>5, <2>1, <2>2, KeepsPeer
  <2>3. CASE CanWrite /\ \E m \in Message : Write(m)
    <3>1. endpt \in EndPts /\ endpt' = endpt
      BY <2>1, <2>3, <1>5 DEF CanWrite, TInv, ControlOK
    <3>2. toR5' # <<>> /\ toR5'[Len(toR5')].src = endpt
      BY <2>3, <3>1, WriteLast DEF TInv
    <3>3. QED  BY <3>1, <3>2 DEF PeerInv
  <2>4. QED  BY <1>5, <2>2, <2>3
<1>6. CASE LinuxSendsResponse
  <2>1. ResponseTo(lServing) \in Message
    BY ResponseIsMessage DEF TInv, TypeOK
  <2>2. QED  BY <1>5, <1>6, <2>1 DEF LinuxSendsResponse
<1>7. CASE LinuxCalls
  <2>1. lStep \in 1..4 /\ lReqId \in Ids
    BY DemoFunctions DEF TInv, TypeOK
  <2>2. Request(lReqId, LinuxDemo[lStep]) \in Message
    BY <2>1, DemoFunctions, MadeMessages
  <2>3. QED  BY <1>5, <1>7, <2>2 DEF LinuxCalls
<1>8. CASE LinuxCommands
  <2>1. lStep \in 1..4 /\ lReqId \in Ids
    BY DemoFunctions DEF TInv, TypeOK
  <2>2. Command(lReqId, LinuxDemo[lStep]) \in Message
    BY <2>1, DemoFunctions, MadeMessages
  <2>3. QED  BY <1>5, <1>8, <2>2 DEF LinuxCommands
<1>9. CASE LinuxTimesOut
  BY <1>9, KeepsPeer DEF LinuxTimesOut
<1>10. QED
  BY <1>1, <1>2, <1>3, <1>4, <1>6, <1>7, <1>8, <1>9 DEF LinuxStep

LEMMA R5StepPeer == TInv /\ PeerInv /\ R5Step => PeerInv'
<1> SUFFICES ASSUME TInv, PeerInv, R5Step PROVE PeerInv'
  OBVIOUS
<1> USE DEF linuxVars
<1>1. ASSUME UNCHANGED <<toR5, attached, endpt>>, remoteEndPt' \in {remoteEndPt, NoEndPt}
      PROVE  PeerInv'
  BY <1>1 DEF PeerInv
<1>2. ASSUME R5Reads(Head(toR5)), remoteEndPt' \in {Head(toR5).src, NoEndPt}
      PROVE  PeerInv'
  <2>1. /\ toR5 # <<>> /\ toR5' = Tail(toR5)
        /\ toR5 \in Seq([src : EndPts, msg : Message])
        /\ UNCHANGED <<attached, endpt>>
    BY <1>2 DEF R5Reads, TInv, TypeOK
  <2>2. CASE Tail(toR5) = <<>>
    <3>1. Head(toR5) = toR5[Len(toR5)]
      BY <2>1, <2>2, HeadTail
    <3>2. QED  BY <1>2, <2>1, <2>2, <3>1 DEF PeerInv
  <2>3. CASE Tail(toR5) # <<>>
    <3>1. Tail(toR5)[Len(Tail(toR5))] = toR5[Len(toR5)]
      BY <2>1, <2>3, HeadTail
    <3>2. QED  BY <2>1, <2>3, <3>1 DEF PeerInv
  <2>4. QED  BY <2>2, <2>3
<1>3. CASE R5TakesRequest \/ R5Skips \/ R5GetsResponse
  BY <1>2, <1>3 DEF R5TakesRequest, R5Skips, R5GetsResponse, LearnPeer
<1>4. CASE R5TakesPing
  BY <1>2, <1>4 DEF R5TakesPing, LearnPeer
<1>5. CASE R5Processed \/ R5Calls \/ R5Commands
  BY <1>1, <1>5 DEF R5Processed, R5Calls, R5Commands
<1>6. CASE R5Resends \/ R5TimesOut
  BY <1>1, <1>6 DEF R5Resends, R5TimesOut, MarkStale
<1>7. QED  BY <1>3, <1>4, <1>5, <1>6 DEF R5Step

LEMMA EnvironmentPeer == PeerInv /\ Environment => PeerInv'
BY DEF PeerInv, Environment, KernelDelivers, R5Stop, R5Boot, LinuxRestart,
       linuxVars, r5Vars

\* The R5 never settles on the endpoint of a Linux process that is gone:
\* once it has read everything addressed to it, its peer is the endpoint the
\* running client uses, or nobody.
THEOREM PeerCorrect == Spec => []PeerIsCurrent
<1>1. Init => PeerInv
  BY DEF Init, PeerInv
<1>2. TInv /\ PeerInv /\ [Next]_vars => PeerInv'
  <2>1. PeerInv /\ UNCHANGED vars => PeerInv'
    BY DEF PeerInv, vars, linuxVars, r5Vars
  <2>2. QED
    BY <2>1, LinuxStepPeer, R5StepPeer, EnvironmentPeer DEF Next
<1>3. PeerInv => PeerIsCurrent
  BY DEF PeerInv, PeerIsCurrent
<1>4. QED  BY <1>1, <1>2, <1>3, TInvInvariant, PTL DEF Spec

-----------------------------------------------------------------------------
(* Messages on their way *)

\* The messages of a virtqueue, without addresses.
Msgs(q) == [i \in 1..Len(q) |-> q[i].msg]

\* A message of that kind and id is in q; no two requests of that id are.
In(q, tag, id) == \E i \in 1..Len(q) : q[i].tag = tag /\ q[i].id = id
Once(q, id) ==
    \A i, j \in 1..Len(q) :
        q[i].tag = "request" /\ q[i].id = id /\ q[j].tag = "request" /\ q[j].id = id => i = j

LEMMA InEmpty == ASSUME NEW tag, NEW id PROVE ~In(<<>>, tag, id) /\ Once(<<>>, id)
BY DEF In, Once

LEMMA InAppend ==
    ASSUME NEW q \in Seq(Message), NEW m \in Message, NEW tag, NEW id
    PROVE  /\ In(Append(q, m), tag, id) <=> In(q, tag, id) \/ (m.tag = tag /\ m.id = id)
           /\ Once(q, id) /\ ~(In(q, "request", id) /\ m.tag = "request" /\ m.id = id)
                => Once(Append(q, m), id)
<1> DEFINE p == Append(q, m)
<1>1. /\ Len(q) \in Nat /\ Len(p) = Len(q) + 1
      /\ \A i \in 1..Len(q) : p[i] = q[i]
      /\ p[Len(q) + 1] = m
  OBVIOUS
<1> HIDE DEF p
<1>2. \A i \in 1..Len(p) : i \in 1..Len(q) \/ i = Len(q) + 1
  BY <1>1
<1>3. In(p, tag, id) <=> In(q, tag, id) \/ (m.tag = tag /\ m.id = id)
  <2>1. ASSUME In(q, tag, id) PROVE In(p, tag, id)
    <3>1. PICK i \in 1..Len(q) : q[i].tag = tag /\ q[i].id = id BY <2>1 DEF In
    <3>2. i \in 1..Len(p) /\ p[i] = q[i] BY <1>1
    <3> QED BY <3>1, <3>2 DEF In
  <2>2. ASSUME m.tag = tag, m.id = id PROVE In(p, tag, id)
    BY <1>1, <2>2 DEF In
  <2>3. ASSUME In(p, tag, id) PROVE In(q, tag, id) \/ (m.tag = tag /\ m.id = id)
    <3>1. PICK i \in 1..Len(p) : p[i].tag = tag /\ p[i].id = id BY <2>3 DEF In
    <3>2. CASE i \in 1..Len(q)
      <4>1. q[i].tag = tag /\ q[i].id = id BY <1>1, <3>1, <3>2
      <4> QED BY <3>2, <4>1 DEF In
    <3> QED BY <1>1, <1>2, <3>1, <3>2
  <2> QED BY <2>1, <2>2, <2>3
<1>4. ASSUME Once(q, id), ~(In(q, "request", id) /\ m.tag = "request" /\ m.id = id)
      PROVE  Once(p, id)
  <2> SUFFICES ASSUME NEW i \in 1..Len(p), NEW j \in 1..Len(p),
                      p[i].tag = "request", p[i].id = id,
                      p[j].tag = "request", p[j].id = id
               PROVE  i = j
    BY DEF Once
  <2>1. ASSUME NEW k \in 1..Len(q), p[k].tag = "request", p[k].id = id
        PROVE  In(q, "request", id) /\ q[k].tag = "request" /\ q[k].id = id
    BY <1>1, <2>1 DEF In
  <2>2. CASE i \in 1..Len(q) /\ j \in 1..Len(q)
    BY <1>4, <2>1, <2>2 DEF Once
  <2>3. CASE ~(i \in 1..Len(q) /\ j \in 1..Len(q))
    BY <1>1, <1>2, <1>4, <2>1, <2>3
  <2> QED BY <2>2, <2>3
<1> QED BY <1>3, <1>4 DEF p

LEMMA InHeadTail ==
    ASSUME NEW q \in Seq(Message), q # <<>>, NEW tag, NEW id
    PROVE  /\ In(q, tag, id) <=>
                In(Tail(q), tag, id) \/ (Head(q).tag = tag /\ Head(q).id = id)
           /\ Once(q, id) => /\ Once(Tail(q), id)
                             /\ Head(q).tag = "request" /\ Head(q).id = id
                                  => ~In(Tail(q), "request", id)
<1> DEFINE p == Tail(q)
<1>1. /\ Len(q) \in Nat \ {0} /\ Len(p) = Len(q) - 1 /\ Head(q) = q[1]
      /\ \A i \in 1..Len(p) : p[i] = q[i + 1]
  BY HeadTailProperties, EmptySeq
<1> HIDE DEF p
<1>2. \A i \in 1..Len(q) : i = 1 \/ (i - 1 \in 1..Len(p) /\ p[i - 1] = q[i])
  BY <1>1
<1>3. \A i \in 1..Len(p) : i + 1 \in 1..Len(q) /\ q[i + 1] = p[i]
  BY <1>1
<1>4. In(q, tag, id) <=> In(p, tag, id) \/ (Head(q).tag = tag /\ Head(q).id = id)
  <2>1. ASSUME In(p, tag, id) PROVE In(q, tag, id)
    <3>1. PICK i \in 1..Len(p) : p[i].tag = tag /\ p[i].id = id BY <2>1 DEF In
    <3> QED BY <1>3, <3>1 DEF In
  <2>2. ASSUME Head(q).tag = tag, Head(q).id = id PROVE In(q, tag, id)
    <3>1. 1 \in 1..Len(q) BY <1>1
    <3> QED BY <1>1, <2>2, <3>1 DEF In
  <2>3. ASSUME In(q, tag, id) PROVE In(p, tag, id) \/ (Head(q).tag = tag /\ Head(q).id = id)
    <3>1. PICK i \in 1..Len(q) : q[i].tag = tag /\ q[i].id = id BY <2>3 DEF In
    <3>2. CASE i = 1 BY <1>1, <3>1, <3>2
    <3>3. CASE i # 1
      <4>1. i - 1 \in 1..Len(p) /\ p[i - 1] = q[i] BY <1>2, <3>3
      <4> QED BY <3>1, <4>1 DEF In
    <3> QED BY <3>2, <3>3
  <2> QED BY <2>1, <2>2, <2>3
<1>5. ASSUME Once(q, id) PROVE Once(p, id)
  <2> SUFFICES ASSUME NEW i \in 1..Len(p), NEW j \in 1..Len(p),
                      p[i].tag = "request", p[i].id = id,
                      p[j].tag = "request", p[j].id = id
               PROVE  i = j
    BY DEF Once
  <2>1. i + 1 = j + 1 BY <1>3, <1>5 DEF Once
  <2> QED BY <2>1
<1>6. ASSUME Once(q, id), Head(q).tag = "request", Head(q).id = id, In(p, "request", id)
      PROVE  FALSE
  <2>1. PICK i \in 1..Len(p) : p[i].tag = "request" /\ p[i].id = id BY <1>6 DEF In
  <2>2. 1 \in 1..Len(q) /\ i + 1 \in 1..Len(q) BY <1>1, <1>3
  <2>3. i + 1 = 1 BY <1>1, <1>3, <1>6, <2>1, <2>2 DEF Once
  <2> QED BY <2>3
<1> QED BY <1>4, <1>5, <1>6 DEF p

LEMMA MsgsOf ==
    ASSUME NEW A, NEW q \in Seq(A), \A e \in A : e.msg \in Message
    PROVE  /\ Msgs(q) \in Seq(Message)
           /\ \A e \in A : Msgs(Append(q, e)) = Append(Msgs(q), e.msg)
           /\ q # <<>> => /\ Msgs(q) # <<>> /\ Head(Msgs(q)) = Head(q).msg
                          /\ Msgs(Tail(q)) = Tail(Msgs(q))
<1>1. Len(q) \in Nat /\ \A i \in 1..Len(q) : q[i] \in A
  OBVIOUS
<1>2. Msgs(q) \in Seq(Message) /\ Len(Msgs(q)) = Len(q)
  BY <1>1 DEF Msgs
<1>3. ASSUME NEW e \in A PROVE Msgs(Append(q, e)) = Append(Msgs(q), e.msg)
  <2>1. /\ Msgs(Append(q, e)) \in Seq(Message)
        /\ Append(Msgs(q), e.msg) \in Seq(Message)
        /\ Len(Msgs(Append(q, e))) = Len(q) + 1
        /\ Len(Append(Msgs(q), e.msg)) = Len(q) + 1
    BY <1>1, <1>2 DEF Msgs
  <2>2. \A i \in 1..Len(q) + 1 : Msgs(Append(q, e))[i] = Append(Msgs(q), e.msg)[i]
    BY <1>1, <1>2 DEF Msgs
  <2> QED BY <2>1, <2>2, SeqEqual
<1>4. ASSUME q # <<>>
      PROVE  /\ Msgs(q) # <<>> /\ Head(Msgs(q)) = Head(q).msg
             /\ Msgs(Tail(q)) = Tail(Msgs(q))
  <2>1. /\ Len(q) \in Nat \ {0} /\ Tail(q) \in Seq(A) /\ Len(Tail(q)) = Len(q) - 1
        /\ \A i \in 1..Len(q) - 1 : Tail(q)[i] = q[i + 1]
    BY <1>4, HeadTailProperties, EmptySeq
  <2>2. /\ Msgs(q) # <<>> /\ Tail(Msgs(q)) \in Seq(Message)
        /\ Len(Tail(Msgs(q))) = Len(q) - 1
        /\ \A i \in 1..Len(q) - 1 : Tail(Msgs(q))[i] = Msgs(q)[i + 1]
    BY <1>2, <2>1, HeadTailProperties, EmptySeq
  <2>3. Head(Msgs(q)) = Head(q).msg BY <1>2, <2>1, <2>2 DEF Msgs
  <2>4. /\ Msgs(Tail(q)) \in Seq(Message) /\ Len(Msgs(Tail(q))) = Len(q) - 1
        /\ \A i \in 1..Len(q) - 1 : Msgs(Tail(q))[i] = q[i + 1].msg
    BY <1>1, <2>1 DEF Msgs
  <2>5. \A i \in 1..Len(q) - 1 : Tail(Msgs(q))[i] = q[i + 1].msg
    BY <2>1, <2>2 DEF Msgs
  <2>6. Msgs(Tail(q)) = Tail(Msgs(q)) BY <2>2, <2>4, <2>5, SeqEqual
  <2> QED BY <2>2, <2>3, <2>6
<1> QED BY <1>2, <1>3, <1>4

Tags == {"request", "response"}

\* The message of tag and id is m.
Is(m, tag, id) == m.tag = tag /\ m.id = id

\* p is q after its first message m was taken, or after m was added.
Taken(q, p, m) == \A tag \in Tags, c \in Ids :
    /\ In(q, tag, c) <=> In(p, tag, c) \/ Is(m, tag, c)
    /\ Once(q, c) => Once(p, c) /\ ~(In(p, "request", c) /\ Is(m, "request", c))

Added(q, p, m) == \A tag \in Tags, c \in Ids :
    /\ In(p, tag, c) <=> In(q, tag, c) \/ Is(m, tag, c)
    /\ Once(q, c) /\ ~(In(q, "request", c) /\ Is(m, "request", c)) => Once(p, c)

LEMMA TakenHead ==
    ASSUME NEW q \in Seq(Message), q # <<>>
    PROVE  Taken(q, Tail(q), Head(q))
BY InHeadTail DEF Taken, Is

LEMMA AddedLast ==
    ASSUME NEW q \in Seq(Message), NEW m \in Message
    PROVE  Added(q, Append(q, m), m)
BY InAppend DEF Added, Is

LEMMA TakenFromT ==
    ASSUME TInv, R5Reads(Head(toR5))
    PROVE  /\ toR5 # <<>> /\ Head(toR5).msg \in Message
           /\ Taken(Msgs(toR5), Msgs(toR5'), Head(toR5).msg)
<1> DEFINE A == [src : EndPts, msg : Message]
<1>1. toR5 \in Seq(A) /\ toR5 # <<>> /\ toR5' = Tail(toR5)
  BY DEF R5Reads, TInv, TypeOK
<1>2. \A e \in A : e.msg \in Message
  OBVIOUS
<1>3. Head(toR5).msg \in Message
  BY <1>1, HeadsTyped
<1> HIDE DEF A
<1>4. /\ Msgs(toR5) \in Seq(Message) /\ Msgs(toR5) # <<>>
      /\ Head(Msgs(toR5)) = Head(toR5).msg /\ Msgs(toR5') = Tail(Msgs(toR5))
  BY <1>1, <1>2, MsgsOf
<1> QED  BY <1>1, <1>3, <1>4, TakenHead

LEMMA TakenFromI ==
    ASSUME TInv, LinuxReads(Head(inbox))
    PROVE  Head(inbox) \in Message /\ Taken(inbox, inbox', Head(inbox))
<1>1. inbox \in Seq(Message) /\ inbox # <<>> /\ inbox' = Tail(inbox)
  BY DEF LinuxReads, TInv, TypeOK
<1> QED  BY <1>1, HeadTail, TakenHead

LEMMA AddedToT ==
    ASSUME TInv, NEW e \in EndPts, NEW m \in Message,
           toR5' = Append(toR5, [src |-> e, msg |-> m])
    PROVE  Added(Msgs(toR5), Msgs(toR5'), m)
<1> DEFINE A == [src : EndPts, msg : Message]
<1>1. toR5 \in Seq(A) /\ [src |-> e, msg |-> m] \in A
  BY DEF TInv, TypeOK
<1>2. \A x \in A : x.msg \in Message
  OBVIOUS
<1> HIDE DEF A
<1>3. Msgs(toR5) \in Seq(Message) /\ Msgs(toR5') = Append(Msgs(toR5), m)
  BY <1>1, <1>2, MsgsOf
<1> QED  BY <1>3, AddedLast

LEMMA AddedToV ==
    ASSUME TInv, NEW e \in EndPts, NEW m \in Message, Send(e, m)
    PROVE  Added(Msgs(vring), Msgs(vring'), m)
<1> DEFINE A == [dst : EndPts, msg : Message]
<1>1. vring \in Seq(A) /\ [dst |-> e, msg |-> m] \in A
  BY DEF TInv, TypeOK
<1>2. \A x \in A : x.msg \in Message
  OBVIOUS
<1>3. vring' = Append(vring, [dst |-> e, msg |-> m])
  BY DEF Send
<1> HIDE DEF A
<1>4. Msgs(vring) \in Seq(Message) /\ Msgs(vring') = Append(Msgs(vring), m)
  BY <1>1, <1>2, <1>3, MsgsOf
<1> QED  BY <1>4, AddedLast

\* The kernel takes the oldest message, and keeps it for Linux or drops it.
LEMMA Moved ==
    ASSUME TInv, KernelDelivers
    PROVE  /\ Head(vring).msg \in Message
           /\ Taken(Msgs(vring), Msgs(vring'), Head(vring).msg)
           /\ inbox' = inbox \/ Added(inbox, inbox', Head(vring).msg)
<1> DEFINE A == [dst : EndPts, msg : Message]
<1>1. vring \in Seq(A) /\ vring # <<>> /\ vring' = Tail(vring) /\ inbox \in Seq(Message)
  BY DEF KernelDelivers, TInv, TypeOK
<1>2. \A x \in A : x.msg \in Message
  OBVIOUS
<1>3. Head(vring).msg \in Message
  BY <1>1, HeadsTyped
<1>4. inbox' \in {inbox, Append(inbox, Head(vring).msg)}
  BY DEF KernelDelivers
<1> HIDE DEF A
<1>5. /\ Msgs(vring) \in Seq(Message) /\ Msgs(vring) # <<>>
      /\ Head(Msgs(vring)) = Head(vring).msg /\ Msgs(vring') = Tail(Msgs(vring))
  BY <1>1, <1>2, MsgsOf
<1> QED  BY <1>1, <1>3, <1>4, <1>5, TakenHead, AddedLast

LEMMA NoneIn ==
    ASSUME NEW tag, NEW c
    PROVE  ~In(Msgs(<<>>), tag, c) /\ ~In(<<>>, tag, c)
<1>1. Msgs(<<>>) = <<>>
  BY DEF Msgs
<1> QED  BY <1>1, InEmpty

LEMMA OnceIfNone ==
    ASSUME NEW q, NEW c, ~In(q, "request", c)
    PROVE  Once(q, c)
BY DEF In, Once

-----------------------------------------------------------------------------
(* The calls of the R5 *)

\* handle_request_linux is at work on a request of that id and will answer it;
\* a message of that tag and id waits for its second attempt.
Working(live, pc, m, c) == live /\ pc = "burn" /\ m.id = c
Pending(pc, m, tag, c) == pc = "resend" /\ Is(m, tag, c)

\* Where the R5 is while it has a call open: in its wait loop, at the first
\* send, or inside handle_request_r5 called from the wait loop.
R5Place ==
    /\ R5CallOpen <=> \/ rpc = "wait"
                      \/ rpc = "resend" /\ (rBack = "wait" \/ rSend.msg.tag = "request")
    /\ R5CallOpen => rCall.tag = "request"
    /\ rpc = "resend" => /\ rSend.msg.tag = "request" => rSend.msg = rCall
                         /\ rBack = "wait" => rSend.msg.tag = "response"
    /\ ~R5CallOpen => rServed = 0
    /\ rServed \in {0, 1}

\* Ids not used yet are nowhere: no request and no answer of that id exists.
R5Fresh == \A c \in Ids : c <= rReqId =>
    /\ ~In(Msgs(vring), "request", c) /\ ~In(inbox, "request", c)
    /\ ~Working(attached, lpc, lServing, c) /\ ~In(Msgs(toR5), "response", c)
    /\ ~(R5CallOpen /\ rCall.id = c)

\* Of the call c that is open there is one request, wherever it is, until the
\* client has run the function once; and no answer before that.
R5CountOK(c) ==
    /\ rServed = 0 => /\ ~Working(attached, lpc, lServing, c)
                      /\ ~In(Msgs(toR5), "response", c)
    /\ rServed = 1 => /\ ~In(Msgs(vring), "request", c) /\ ~In(inbox, "request", c)
                      /\ ~Pending(rpc, rSend.msg, "request", c)
    /\ Once(Msgs(vring), c) /\ Once(inbox, c)
    /\ ~(In(Msgs(vring), "request", c) /\ In(inbox, "request", c))
    /\ Pending(rpc, rSend.msg, "request", c) =>
         ~In(Msgs(vring), "request", c) /\ ~In(inbox, "request", c)

R5Once == \A c \in Ids : R5CallOpen /\ rCall.id = c => R5CountOK(c)

R5CallInv == R5Place /\ R5Fresh /\ R5Once

R5Phase == Phase(rCall, rServed, rOutcome)

LEMMA PhaseIs ==
    ASSUME NEW m, NEW n, NEW o
    PROVE  /\ m = Nothing => Phase(m, n, o) = o
           /\ m # Nothing /\ n = 0 => Phase(m, n, o) = "open"
           /\ m # Nothing /\ n = 1 => Phase(m, n, o) = "served"
<1>1. 0 + 1 = 1 /\ 1 + 1 = 2
  OBVIOUS
<1>2. m = Nothing => Phase(m, n, o) = o
  BY DEF Phase
<1>3. m # Nothing /\ n = 0 => Phase(m, n, o) = "open"
  BY <1>1 DEF Phase
<1>4. m # Nothing /\ n = 1 => Phase(m, n, o) = "served"
  BY <1>1 DEF Phase
<1> QED  BY <1>2, <1>3, <1>4

\* Steps that keep the R5's calls as they are, and bring no answer that was
\* not there.
LEMMA R5Quiet ==
    ASSUME R5CallInv, UNCHANGED <<r5Vars, rServed>>,
           Msgs(vring') = Msgs(vring),
           \A c \in Ids : In(inbox', "request", c) => In(inbox, "request", c),
           \A c \in Ids : Once(inbox, c) => Once(inbox', c),
           \A c \in Ids : In(Msgs(toR5'), "response", c) => In(Msgs(toR5), "response", c),
           \A c \in Ids : Working(attached', lpc', lServing', c) =>
                            Working(attached, lpc, lServing, c)
    PROVE  R5CallInv' /\ UNCHANGED R5Phase
<1>1. R5Place' /\ UNCHANGED R5Phase
  BY DEF R5CallInv, R5Place, r5Vars, R5CallOpen, R5Phase
<1>2. R5Fresh'
  BY DEF R5CallInv, R5Fresh, r5Vars, R5CallOpen
<1>3. R5Once'
  BY DEF R5CallInv, R5Once, R5CountOK, r5Vars, R5CallOpen
<1> QED  BY <1>1, <1>2, <1>3 DEF R5CallInv

LEMMA NotWorking ==
    ASSUME NEW live, NEW pc, NEW m, NEW c, pc # "burn"
    PROVE  ~Working(live, pc, m, c)
BY DEF Working

\* A request was taken from the inbox: nothing else changed for the R5 but,
\* perhaps, that its call is now served.
LEMMA LinuxServes ==
    ASSUME TInv, R5CallInv, LinuxTakesRequest
    PROVE  R5CallInv' /\ (UNCHANGED R5Phase \/ (R5Phase = "open" /\ R5Phase' = "served"))
<1> DEFINE m == Head(inbox)
<1>1. /\ m \in Message /\ m.tag = "request" /\ Taken(inbox, inbox', m)
      /\ UNCHANGED <<r5Vars, toR5, vring>> /\ attached
  BY TakenFromI DEF LinuxTakesRequest, LinuxReads
<1>2. m.id \in Ids /\ In(inbox, "request", m.id)
  BY <1>1 DEF Message, Taken, Tags, Is
<1>3. \A c \in Ids : /\ In(inbox', "request", c) => In(inbox, "request", c)
                     /\ Once(inbox, c) => Once(inbox', c)
  BY <1>1 DEF Taken, Tags
<1>4. CASE m.fn \notin LinuxFunctions
  <2>1. lpc' = "drain" /\ rServed' = rServed
    BY <1>4 DEF LinuxTakesRequest, LinuxTop
  <2>2. \A c \in Ids : ~Working(attached', lpc', lServing', c)
    BY <2>1, NotWorking
  <2> QED  BY <1>1, <1>3, <2>1, <2>2, R5Quiet
<1>5. CASE m.fn \in LinuxFunctions
  <2>1. /\ lpc' = "burn" /\ lServing' = m
        /\ rServed' = IF R5CallOpen /\ m.id = rCall.id THEN OneMore(rServed) ELSE rServed
    BY <1>5 DEF LinuxTakesRequest
  <2>2. \A c \in Ids : Working(attached', lpc', lServing', c) => c = m.id
    BY <2>1 DEF Working
  <2>3. ~(m.id <= rReqId)
    BY <1>2 DEF R5CallInv, R5Fresh
  <2>4. ASSUME R5CallOpen, m.id = rCall.id
        PROVE  rServed = 0 /\ rServed' = 1 /\ rServed' # 0
    BY <1>2, <2>1, <2>4 DEF R5CallInv, R5Once, R5CountOK, R5Place, OneMore
  <2>5. R5Place'
    BY <1>1, <2>1, <2>4 DEF R5CallInv, R5Place, r5Vars, R5CallOpen
  <2>6. R5Fresh'
    BY <1>1, <1>3, <2>2, <2>3 DEF R5CallInv, R5Fresh, r5Vars, R5CallOpen
  <2>7. R5Once'
    <3> SUFFICES ASSUME NEW c \in Ids, R5CallOpen', rCall'.id = c
                 PROVE  R5CountOK(c)'
      BY DEF R5Once
    <3>1. R5CallOpen /\ rCall.id = c /\ R5CountOK(c)
      BY <1>1 DEF R5CallInv, R5Once, R5CallOpen, r5Vars
    <3>2. /\ In(inbox, "request", c) <=> In(inbox', "request", c) \/ Is(m, "request", c)
          /\ Once(inbox, c) => Once(inbox', c) /\ ~(In(inbox', "request", c) /\ Is(m, "request", c))
      BY <1>1 DEF Taken, Tags
    <3>3. UNCHANGED <<rpc, rSend, vring, toR5>>
      BY <1>1 DEF r5Vars
    <3>4. CASE m.id = c
      <4>1. rServed = 0 /\ rServed' = 1 /\ rServed' # 0
        BY <2>4, <3>1, <3>4
      <4>2. In(inbox, "request", c) /\ Is(m, "request", c)
        BY <1>1, <1>2, <3>4 DEF Is
      <4> QED  BY <3>1, <3>2, <3>3, <4>1, <4>2 DEF R5CountOK
    <3>5. CASE m.id # c
      <4>1. rServed' = rServed /\ ~Working(attached', lpc', lServing', c)
        BY <2>1, <2>2, <3>1, <3>5
      <4> QED  BY <3>1, <3>2, <3>3, <4>1 DEF R5CountOK
    <3> QED  BY <3>4, <3>5
  <2>8. UNCHANGED R5Phase \/ (R5Phase = "open" /\ R5Phase' = "served")
    <3>1. UNCHANGED <<rCall, rOutcome>>
      BY <1>1 DEF r5Vars
    <3>2. CASE R5CallOpen /\ m.id = rCall.id
      BY <2>4, <3>1, <3>2, PhaseIs DEF R5Phase, R5CallOpen
    <3>3. CASE ~(R5CallOpen /\ m.id = rCall.id)
      BY <2>1, <3>1, <3>3 DEF R5Phase
    <3> QED  BY <3>2, <3>3
  <2> QED  BY <2>5, <2>6, <2>7, <2>8 DEF R5CallInv
<1> QED  BY <1>4, <1>5

\* What a step of RpcClient may do to the phase of a call.
Called(p, q) ==
    \/ q \in {p, "none"}
    \/ p \in {"none", "answered", "failed"} /\ q \in {"open", "failed"}
    \/ p = "open" /\ q = "served"
    \/ p = "served" /\ q = "answered"
    \/ p \in {"open", "served"} /\ q = "failed"

R5Calling == Called(R5Phase, R5Phase')

\* What the R5's phase is in a state of the invariant.
LEMMA R5PhaseIs ==
    ASSUME TInv, R5CallInv
    PROVE  /\ R5CallOpen => /\ rServed = 0 => R5Phase = "open"
                            /\ rServed = 1 => R5Phase = "served"
                            /\ R5Phase \in {"open", "served"}
           /\ ~R5CallOpen => R5Phase = rOutcome /\ R5Phase \in {"none", "answered", "failed"}
<1>1. rServed \in {0, 1} /\ rOutcome \in {"none", "answered", "failed"}
  BY DEF R5CallInv, R5Place, TInv, TypeOK
<1>2. R5CallOpen => /\ rServed = 0 => R5Phase = "open"
                    /\ rServed = 1 => R5Phase = "served"
  BY PhaseIs DEF R5Phase, R5CallOpen
<1>3. ~R5CallOpen => R5Phase = rOutcome
  BY PhaseIs DEF R5Phase, R5CallOpen
<1> QED  BY <1>1, <1>2, <1>3

LEMMA LinuxStepR5 ==
    ASSUME TInv, R5CallInv, LinuxStep
    PROVE  R5CallInv' /\ R5Calling
<1>1. CASE LinuxTakesRequest
  BY <1>1, LinuxServes, R5PhaseIs DEF R5Calling, Called
<1>2. CASE LinuxSkips \/ LinuxGetsResponse
  <2>1. /\ Taken(inbox, inbox', Head(inbox)) /\ lpc' # "burn"
        /\ UNCHANGED <<r5Vars, toR5, vring, rServed>>
    BY <1>2, TakenFromI DEF LinuxSkips, LinuxGetsResponse, LinuxReads, LinuxTop
  <2>2. \A c \in Ids : /\ In(inbox', "request", c) => In(inbox, "request", c)
                       /\ Once(inbox, c) => Once(inbox', c)
                       /\ ~Working(attached', lpc', lServing', c)
    BY <2>1, NotWorking DEF Taken, Tags
  <2> QED  BY <2>1, <2>2, R5Quiet DEF R5Calling, Called
<1>3. CASE LinuxReadFails \/ LinuxDrained \/ LinuxTimesOut
  <2>1. UNCHANGED <<r5Vars, toR5, vring, rServed, inbox>> /\ lpc' # "burn"
    BY <1>3 DEF LinuxReadFails, LinuxDrained, LinuxTimesOut, LinuxTop
  <2>2. \A c \in Ids : ~Working(attached', lpc', lServing', c)
    BY <2>1, NotWorking
  <2> QED  BY <2>1, <2>2, R5Quiet DEF R5Calling, Called
<1>4. ASSUME UNCHANGED <<r5Vars, vring, rServed, inbox>>, lpc' # "burn",
             NEW m \in Message, m.tag # "response",
             toR5' = toR5 \/ \E e \in EndPts : toR5' = Append(toR5, [src |-> e, msg |-> m])
      PROVE  R5CallInv' /\ R5Calling
  <2>1. toR5' = toR5 \/ Added(Msgs(toR5), Msgs(toR5'), m)
    BY <1>4, AddedToT
  <2>2. \A c \in Ids : In(Msgs(toR5'), "response", c) => In(Msgs(toR5), "response", c)
    BY <1>4, <2>1 DEF Added, Tags, Is
  <2>3. \A c \in Ids : ~Working(attached', lpc', lServing', c)
    BY <1>4, NotWorking
  <2> QED  BY <1>4, <2>2, <2>3, R5Quiet DEF R5Calling, Called
<1>5. CASE rpmsg_try_connect
  <2>1. /\ UNCHANGED <<r5Vars, vring, rServed, inbox>> /\ lpc' # "burn" /\ endpt' \in EndPts
        /\ toR5' = Append(toR5, [src |-> endpt', msg |-> Ping])
    BY <1>5 DEF rpmsg_try_connect
  <2>2. Ping.tag # "response"
    BY DEF Ping
  <2> QED  BY <1>4, <2>1, <2>2, PingIsMessage
<1>6. CASE LinuxCalls
  <2>1. Request(lReqId, LinuxDemo[lStep]) \in Message
    BY MadeMessages, DemoFunctions DEF TInv, TypeOK
  <2>2. /\ UNCHANGED <<r5Vars, vring, rServed, inbox>> /\ lpc' # "burn"
        /\ CanWrite => toR5' = Append(toR5, [src |-> endpt, msg |-> Request(lReqId, LinuxDemo[lStep])])
        /\ ~CanWrite => toR5' = toR5
    BY <1>6 DEF LinuxCalls, LinuxTop, Write
  <2>3. Request(lReqId, LinuxDemo[lStep]).tag # "response"
    BY DEF Request
  <2>4. CanWrite => endpt \in EndPts
    BY DEF CanWrite, TInv, ControlOK
  <2> QED  BY <1>4, <2>1, <2>2, <2>3, <2>4
<1>7. CASE LinuxCommands
  <2>1. Command(lReqId, LinuxDemo[lStep]) \in Message
    BY MadeMessages, DemoFunctions DEF TInv, TypeOK
  <2>2. /\ UNCHANGED <<r5Vars, vring, rServed, inbox>> /\ lpc' # "burn"
        /\ CanWrite => toR5' = Append(toR5, [src |-> endpt, msg |-> Command(lReqId, LinuxDemo[lStep])])
        /\ ~CanWrite => toR5' = toR5
    BY <1>7 DEF LinuxCommands, LinuxTop, Write
  <2>3. Command(lReqId, LinuxDemo[lStep]).tag # "response"
    BY DEF Command
  <2>4. CanWrite => endpt \in EndPts
    BY DEF CanWrite, TInv, ControlOK
  <2> QED  BY <1>4, <2>1, <2>2, <2>3, <2>4
<1>8. CASE LinuxSendsResponse
  <2> DEFINE m == ResponseTo(lServing)
  <2>1. /\ UNCHANGED <<r5Vars, vring, rServed, inbox>> /\ lpc = "burn" /\ lpc' # "burn"
        /\ CanWrite => toR5' = Append(toR5, [src |-> endpt, msg |-> m])
        /\ ~CanWrite => toR5' = toR5
    BY <1>8 DEF LinuxSendsResponse, LinuxTop, Write, TInv, TypeOK
  <2>2. lServing \in Message /\ m \in Message /\ m.id = lServing.id
    BY ResponseIsMessage DEF TInv, TypeOK, ResponseTo
  <2>3. \A c \in Ids : ~Working(attached', lpc', lServing', c)
    BY <2>1, NotWorking
  <2>4. CASE ~CanWrite
    BY <2>1, <2>3, <2>4, R5Quiet DEF R5Calling, Called
  <2>5. CASE CanWrite
    <3>1. Added(Msgs(toR5), Msgs(toR5'), m)
      BY <2>1, <2>2, <2>5, AddedToT DEF CanWrite, TInv, ControlOK
    <3>2. \A c \in Ids : In(Msgs(toR5'), "response", c) =>
              In(Msgs(toR5), "response", c) \/ Working(attached, lpc, lServing, c)
      BY <2>1, <2>2, <2>5, <3>1 DEF Added, Tags, Is, Working, CanWrite
    <3>3. R5Place' /\ R5Calling
      BY <2>1 DEF R5CallInv, R5Place, r5Vars, R5CallOpen, R5Phase, R5Calling, Called
    <3>4. R5Fresh'
      BY <2>1, <2>3, <3>2 DEF R5CallInv, R5Fresh, r5Vars, R5CallOpen
    <3>5. R5Once'
      BY <2>1, <2>3, <3>2 DEF R5CallInv, R5Once, R5CountOK, r5Vars, R5CallOpen
    <3> QED  BY <3>3, <3>4, <3>5 DEF R5CallInv
  <2> QED  BY <2>4, <2>5
<1> QED
  BY <1>1, <1>2, <1>3, <1>5, <1>6, <1>7, <1>8 DEF LinuxStep

\* The R5 sends, or keeps for later, what is no request, and reads at most
\* one message.
LEMMA R5Plain ==
    ASSUME TInv, R5CallInv, UNCHANGED <<linuxVars, inbox, rReqId, rCall, rServed>>,
           \A c \in Ids : In(Msgs(toR5'), "response", c) => In(Msgs(toR5), "response", c),
           NEW m \in Message, m.tag # "request",
           vring' = vring \/ Added(Msgs(vring), Msgs(vring'), m),
           \A c \in Ids : ~Pending(rpc', rSend'.msg, "request", c)
    PROVE  R5Fresh' /\ R5Once'
<1>1. \A c \in Ids : /\ In(Msgs(vring'), "request", c) => In(Msgs(vring), "request", c)
                     /\ Once(Msgs(vring), c) => Once(Msgs(vring'), c)
  BY DEF Added, Tags, Is
<1>2. R5Fresh'
  BY <1>1 DEF R5CallInv, R5Fresh, R5CallOpen, linuxVars
<1>3. R5Once'
  BY <1>1 DEF R5CallInv, R5Once, R5CountOK, R5CallOpen, linuxVars
<1> QED  BY <1>2, <1>3

\* A call that ends leaves nothing to be said of it.
LEMMA R5CallEnds ==
    ASSUME TInv, R5CallInv, UNCHANGED <<linuxVars, inbox, rReqId>>,
           rCall' = Nothing, rServed' = 0, rpc' \in {"loop", "demo"},
           \A c \in Ids : In(Msgs(toR5'), "response", c) => In(Msgs(toR5), "response", c),
           \A c \in Ids : c <= rReqId /\ In(Msgs(vring'), "request", c) => In(Msgs(vring), "request", c)
    PROVE  R5CallInv'
<1>1. R5Place'
  BY DEF R5Place, R5CallOpen
<1>2. R5Fresh'
  BY DEF R5CallInv, R5Fresh, R5CallOpen, linuxVars
<1>3. R5Once'
  BY DEF R5Once, R5CallOpen
<1> QED  BY <1>1, <1>2, <1>3 DEF R5CallInv

LEMMA NotPending ==
    ASSUME NEW pc, NEW m, NEW tag, NEW c, pc # "resend" \/ m.tag # tag
    PROVE  ~Pending(pc, m, tag, c)
BY DEF Pending, Is

\* What a read of the R5 leaves alone.
LEMMA R5ReadsR5 ==
    ASSUME TInv, R5CallInv, R5Reads(Head(toR5))
    PROVE  /\ UNCHANGED <<linuxVars, rReqId, inbox>> /\ toR5 # <<>>
           /\ Head(toR5).src \in EndPts /\ Head(toR5).msg \in Message
           /\ \A c \in Ids : /\ In(Msgs(toR5'), "response", c) => In(Msgs(toR5), "response", c)
                             /\ Is(Head(toR5).msg, "response", c) => In(Msgs(toR5), "response", c)
           /\ rpc \in {"loop", "wait"} /\ rBack = "loop" /\ (R5CallOpen <=> rpc = "wait")
<1>1. Taken(Msgs(toR5), Msgs(toR5'), Head(toR5).msg) /\ toR5 # <<>>
  BY TakenFromT
<1>2. Head(toR5).src \in EndPts /\ Head(toR5).msg \in Message
  BY <1>1, HeadsTyped
<1>3. rpc \in {"loop", "wait"} /\ UNCHANGED <<linuxVars, rReqId, inbox>>
  BY DEF R5Reads
<1>4. rBack = "loop" /\ (R5CallOpen <=> rpc = "wait")
  BY <1>3 DEF TInv, ControlOK, R5CallInv, R5Place
<1> QED  BY <1>1, <1>2, <1>3, <1>4 DEF Taken, Tags

\* A message that does not end a call.
LEMMA R5TakesR5 ==
    ASSUME TInv, R5CallInv, R5TakesRequest \/ R5TakesPing \/ R5Skips
    PROVE  R5CallInv' /\ R5Calling
<1> DEFINE e == Head(toR5)
<1>1. R5Reads(e) /\ UNCHANGED <<rCall, rServed, rOutcome>>
  BY DEF R5TakesRequest, R5TakesPing, R5Skips
<1>2. R5Calling
  BY <1>1 DEF R5Calling, Called, R5Phase
<1>3. ASSUME NEW m \in Message, m.tag # "request",
             vring' = vring \/ Send(e.src, m), UNCHANGED <<rpc, rSend, rBack>>
      PROVE  R5CallInv'
  <2>1. vring' = vring \/ Added(Msgs(vring), Msgs(vring'), m)
    BY <1>1, <1>3, R5ReadsR5, AddedToV
  <2>2. \A c \in Ids : ~Pending(rpc', rSend'.msg, "request", c)
    BY <1>1, <1>3, R5ReadsR5, NotPending
  <2>3. R5Place'
    BY <1>1, <1>3, R5ReadsR5 DEF R5CallInv, R5Place, R5CallOpen
  <2> QED  BY <1>1, <1>3, <2>1, <2>2, <2>3, R5ReadsR5, R5Plain DEF R5CallInv
<1>4. CASE R5TakesPing
  <2>1. Ping.tag # "request"
    BY DEF Ping
  <2>2. (vring' = vring \/ Send(e.src, Ping)) /\ UNCHANGED <<rpc, rSend, rBack>>
    BY <1>4 DEF R5TakesPing
  <2> QED  BY <1>2, <1>3, <2>1, <2>2, PingIsMessage
<1>5. CASE R5Skips
  <2>1. Ping.tag # "request"
    BY DEF Ping
  <2>2. vring' = vring /\ UNCHANGED <<rpc, rSend, rBack>>
    BY <1>5 DEF R5Skips
  <2> QED  BY <1>2, <1>3, <2>1, <2>2, PingIsMessage
<1>6. CASE R5TakesRequest
  <2> DEFINE m == ResponseTo(e.msg)
  <2>1. m \in Message /\ m.tag = "response"
    BY <1>1, R5ReadsR5, ResponseIsMessage DEF ResponseTo
  <2>2. \/ (vring' = vring \/ Send(e.src, m)) /\ UNCHANGED <<rpc, rSend, rBack>>
        \/ /\ rpc' = "resend" /\ rBack' = rpc /\ vring' = vring
           /\ rSend' = [dst |-> e.src, msg |-> m]
    BY <1>6 DEF R5TakesRequest
  <2>3. CASE (vring' = vring \/ Send(e.src, m)) /\ UNCHANGED <<rpc, rSend, rBack>>
    BY <1>2, <1>3, <2>1, <2>3
  <2>4. CASE /\ rpc' = "resend" /\ rBack' = rpc /\ vring' = vring
             /\ rSend' = [dst |-> e.src, msg |-> m]
    <3>1. rSend'.msg.tag = "response"
      BY <2>1, <2>4
    <3>2. \A c \in Ids : ~Pending(rpc', rSend'.msg, "request", c)
      BY <3>1, NotPending
    <3>3. R5Place'
      BY <1>1, <2>4, <3>1, R5ReadsR5 DEF R5CallInv, R5Place, R5CallOpen
    <3>4. m.tag # "request"
      BY <2>1
    <3>5. R5Fresh' /\ R5Once'
      BY <1>1, <2>1, <2>4, <3>2, <3>4, R5ReadsR5, R5Plain
    <3> QED  BY <1>2, <3>3, <3>5 DEF R5CallInv
  <2> QED  BY <2>2, <2>3, <2>4
<1> QED  BY <1>2, <1>4, <1>5, <1>6

\* The response the call waits for: the function has run.
LEMMA R5GetsR5 ==
    ASSUME TInv, R5CallInv, R5GetsResponse
    PROVE  R5CallInv' /\ R5Calling
<1> DEFINE m == Head(toR5).msg
<1>1. /\ R5Reads(Head(toR5)) /\ m.tag = "response" /\ m.id = rCall.id /\ rpc = "wait"
      /\ rCall' = Nothing /\ rServed' = 0 /\ vring' = vring /\ rpc' \in {"loop", "demo"}
      /\ rOutcome' = IF R5CallOpen THEN IF m.fn = rCall.fn THEN "answered" ELSE "failed" ELSE rOutcome
  BY DEF R5GetsResponse, R5CallReturns
<1>2. R5CallOpen /\ m.id \in Ids /\ In(Msgs(toR5), "response", rCall.id)
  BY <1>1, R5ReadsR5 DEF Is, Message
<1>3. rServed = 1
  BY <1>1, <1>2 DEF R5CallInv, R5Once, R5CountOK, R5Place
<1>4. R5CallInv'
  BY <1>1, R5ReadsR5, R5CallEnds
<1>5. R5Phase = "served" /\ R5Phase' = rOutcome'
  BY <1>1, <1>2, <1>3, R5PhaseIs, PhaseIs DEF R5Phase
<1>6. rOutcome' \in {"answered", "failed"}
  BY <1>1, <1>2
<1> QED  BY <1>4, <1>5, <1>6 DEF R5Calling, Called

\* The R5 issues a call with an id that is nowhere yet.
LEMMA R5CallsR5 ==
    ASSUME ~WrapIds, TInv, R5CallInv, R5Calls
    PROVE  R5CallInv' /\ R5Calling
<1>0. PICK id \in Ids : id = rReqId
  BY DEF TInv, TypeOK
<1> DEFINE m == Request(rReqId, R5Demo[rStep])
<1>1. /\ id \in Ids /\ id = rReqId /\ m \in Message /\ m.tag = "request" /\ m.id = id /\ m # Nothing
      /\ rSend.msg \in Message
  <2>1. m \in Message /\ rSend.msg \in Message
    BY MadeMessages, DemoFunctions DEF TInv, TypeOK
  <2> QED  BY <1>0, <2>1 DEF Request, Nothing, Ping
<1>2. /\ id # 0 /\ rReqId' = id - 1 /\ rpc = "demo" /\ rBack' = rBack
      /\ UNCHANGED <<linuxVars, toR5, inbox, rServed>>
  BY <1>0, ConstantsAssumption DEF R5Calls, MayCall, R5NextId
<1>3. ~R5CallOpen /\ rServed = 0
  BY <1>2 DEF R5CallInv, R5Place
<1>4. \A c \in Ids : c <= rReqId' => c <= rReqId /\ c # id
  BY <1>1, <1>2 DEF Ids
<1>5. /\ ~In(Msgs(vring), "request", id) /\ ~In(inbox, "request", id)
      /\ ~Working(attached, lpc, lServing, id) /\ ~In(Msgs(toR5), "response", id)
  <2>1. id <= rReqId
    BY <1>1 DEF Ids
  <2> QED  BY <1>1, <2>1 DEF R5CallInv, R5Fresh
<1>6. Once(Msgs(vring), id) /\ Once(inbox, id)
  BY <1>5, OnceIfNone
<1>7. R5Phase \in {"none", "answered", "failed"}
  BY <1>3, R5PhaseIs
<1>8. CASE remoteEndPt = NoEndPt
  <2>1. UNCHANGED <<rCall, vring>> /\ rpc' = "loop" /\ rOutcome' = "failed"
    BY <1>8 DEF R5Calls, R5Top
  <2>2. R5Place'
    BY <1>2, <1>3, <2>1 DEF R5Place, R5CallOpen
  <2>3. R5Fresh'
    BY <1>2, <1>4, <2>1 DEF R5CallInv, R5Fresh, R5CallOpen, linuxVars
  <2>4. R5Once'
    BY <1>3, <2>1 DEF R5Once, R5CallOpen
  <2>5. R5Phase' = "failed"
    BY <1>3, <2>1, PhaseIs DEF R5Phase, R5CallOpen
  <2> QED  BY <1>7, <2>2, <2>3, <2>4, <2>5, R5PhaseIs DEF R5Calling, Called, R5CallInv
<1>9. CASE remoteEndPt # NoEndPt
  <2>1. /\ rCall' = m /\ rOutcome' = rOutcome /\ rServed' = 0
        /\ \/ Send(remoteEndPt, m) /\ rpc' = "wait"
           \/ rpc' = "resend" /\ rSend' = [dst |-> remoteEndPt, msg |-> m] /\ vring' = vring
    BY <1>2, <1>3, <1>9 DEF R5Calls
  <2>2. R5Phase' = "open"
    BY <1>1, <2>1, PhaseIs DEF R5Phase
  <2>3. R5CallOpen' /\ rBack' = "loop"
    BY <1>1, <1>2, <2>1 DEF R5CallOpen, TInv, ControlOK
  <2>4. R5Place'
    BY <1>1, <2>1, <2>3 DEF R5Place
  <2>5. CASE Send(remoteEndPt, m) /\ rpc' = "wait"
    <3>1. Added(Msgs(vring), Msgs(vring'), m)
      BY <1>1, <1>9, <2>5, AddedToV DEF TInv, TypeOK
    <3>2. \A c \in Ids : In(Msgs(vring'), "request", c) => In(Msgs(vring), "request", c) \/ c = id
      BY <1>1, <3>1 DEF Added, Tags, Is
    <3>3. R5Fresh'
      BY <1>1, <1>2, <1>4, <2>1, <3>2 DEF R5CallInv, R5Fresh, linuxVars
    <3>4. Once(Msgs(vring'), id)
      BY <1>1, <1>5, <1>6, <3>1 DEF Added, Tags
    <3>5. ~Pending(rpc', rSend'.msg, "request", id)
      BY <2>5, NotPending
    <3>6. R5CountOK(id)'
      BY <1>2, <1>5, <1>6, <2>1, <3>4, <3>5 DEF R5CountOK, linuxVars
    <3>7. R5Once'
      BY <1>1, <2>1, <3>6 DEF R5Once
    <3> QED  BY <1>7, <2>2, <2>4, <3>3, <3>7, R5PhaseIs DEF R5Calling, Called, R5CallInv
  <2>6. CASE rpc' = "resend" /\ vring' = vring
    <3>1. R5Fresh'
      BY <1>1, <1>2, <1>4, <2>1, <2>6 DEF R5CallInv, R5Fresh, linuxVars
    <3>2. R5CountOK(id)'
      BY <1>2, <1>5, <1>6, <2>1, <2>6 DEF R5CountOK, linuxVars
    <3>3. R5Once'
      BY <1>1, <2>1, <3>2 DEF R5Once
    <3> QED  BY <1>7, <2>2, <2>4, <3>1, <3>3, R5PhaseIs DEF R5Calling, Called, R5CallInv
  <2> QED  BY <2>1, <2>5, <2>6
<1> QED  BY <1>8, <1>9

\* A command takes an id as well.
LEMMA R5CommandsR5 ==
    ASSUME ~WrapIds, TInv, R5CallInv, R5Commands
    PROVE  R5CallInv' /\ R5Calling
<1> DEFINE m == Command(rReqId, R5Demo[rStep])
<1>1. rReqId \in Ids /\ m \in Message /\ m.tag # "request"
  <2>1. rReqId \in Ids /\ m \in Message
    BY MadeMessages, DemoFunctions DEF TInv, TypeOK
  <2> QED  BY <2>1 DEF Command
<1>2. /\ rReqId # 0 /\ rReqId' = rReqId - 1 /\ rpc = "demo"
      /\ UNCHANGED <<linuxVars, toR5, inbox, rServed, rCall, rOutcome, rBack>>
  BY ConstantsAssumption DEF R5Commands, MayCall, R5NextId
<1>3. /\ vring' = vring \/ (remoteEndPt \in EndPts /\ Send(remoteEndPt, m))
      /\ rpc' = "loop" \/ (rpc' = "resend" /\ rSend' = [dst |-> remoteEndPt, msg |-> m])
  BY DEF R5Commands, R5Top, TInv, TypeOK
<1>4. ~R5CallOpen /\ ~R5CallOpen' /\ rBack' = "loop"
  BY <1>2 DEF R5CallInv, R5Place, R5CallOpen, TInv, ControlOK
<1>5. \A c \in Ids : c <= rReqId' => c <= rReqId
  BY <1>1, <1>2 DEF Ids
<1>6. vring' = vring \/ Added(Msgs(vring), Msgs(vring'), m)
  BY <1>1, <1>3, AddedToV
<1>7. \A c \in Ids : In(Msgs(vring'), "request", c) => In(Msgs(vring), "request", c)
  BY <1>1, <1>6 DEF Added, Tags, Is
<1>8. R5Place'
  BY <1>1, <1>2, <1>3, <1>4 DEF R5CallInv, R5Place
<1>9. R5Fresh'
  BY <1>2, <1>4, <1>5, <1>7 DEF R5CallInv, R5Fresh, linuxVars
<1>10. R5Once'
  BY <1>4 DEF R5Once
<1>11. R5Calling
  BY <1>2 DEF R5Calling, Called, R5Phase
<1> QED  BY <1>8, <1>9, <1>10, <1>11 DEF R5CallInv

\* The call, if one is open, fails.
LEMMA R5EndsR5 ==
    ASSUME TInv, R5CallInv, UNCHANGED <<linuxVars, inbox, rReqId, toR5>>,
           R5CallReturns("failed"), rpc' = "loop",
           \A c \in Ids : In(Msgs(vring'), "request", c) =>
                In(Msgs(vring), "request", c) \/ (R5CallOpen /\ rCall.id = c)
    PROVE  R5CallInv' /\ R5Calling
<1>1. /\ rCall' = Nothing /\ rServed' = 0
      /\ rOutcome' = IF R5CallOpen THEN "failed" ELSE rOutcome
  BY DEF R5CallReturns
<1>2. \A c \in Ids : c <= rReqId /\ In(Msgs(vring'), "request", c) => In(Msgs(vring), "request", c)
  BY DEF R5CallInv, R5Fresh
<1>3. R5CallInv'
  BY <1>1, <1>2, R5CallEnds
<1>4. R5Phase' = rOutcome'
  BY <1>1, PhaseIs DEF R5Phase
<1>5. R5Calling
  BY <1>1, <1>4, R5PhaseIs DEF R5Calling, Called
<1> QED  BY <1>3, <1>5

\* The second attempt sends the request of the call, a response or a command.
LEMMA R5ResendsR5 ==
    ASSUME TInv, R5CallInv, R5Resends
    PROVE  R5CallInv' /\ R5Calling
<1> DEFINE m == rSend.msg
<1>1. /\ rpc = "resend" /\ m \in Message /\ rSend.dst \in EndPts
      /\ UNCHANGED <<linuxVars, rReqId, toR5, inbox>>
      /\ rSend' = [dst |-> NoEndPt, msg |-> Nothing] /\ rBack' = "loop"
  BY DEF R5Resends, TInv, TypeOK, ControlOK
<1>2. /\ CanSend => Send(rSend.dst, m)
      /\ ~CanSend => vring' = vring
  BY DEF R5Resends
<1>3. vring' = vring \/ Added(Msgs(vring), Msgs(vring'), m)
  BY <1>1, <1>2, AddedToV
<1>4. rSend'.msg.tag # "request"
  BY <1>1 DEF Nothing, Ping
<1>5. \A c \in Ids : ~Pending(rpc', rSend'.msg, "request", c)
  BY <1>4, NotPending
<1>6. CASE m.tag = "response"
  <2>1. rpc' = rBack /\ UNCHANGED <<rCall, rServed, rOutcome>>
    BY <1>6 DEF R5Resends
  <2>2. rBack \in {"loop", "wait"} /\ (R5CallOpen <=> rBack = "wait")
    BY <1>1, <1>6 DEF TInv, TypeOK, R5CallInv, R5Place
  <2>3. R5Place'
    BY <2>1, <2>2 DEF R5CallInv, R5Place, R5CallOpen
  <2>4. m.tag # "request"
    BY <1>6
  <2>5. R5Fresh' /\ R5Once'
    BY <1>1, <1>3, <1>5, <2>1, <2>4, R5Plain
  <2> QED  BY <2>1, <2>3, <2>5 DEF R5CallInv, R5Calling, Called, R5Phase
<1>7. CASE m.tag = "request" /\ CanSend
  <2>1. rpc' = "wait" /\ UNCHANGED <<rCall, rServed, rOutcome>>
    BY <1>7 DEF R5Resends
  <2>2. R5CallOpen /\ m = rCall
    BY <1>1, <1>7 DEF R5CallInv, R5Place
  <2>3. R5Place'
    BY <2>1, <2>2 DEF R5CallInv, R5Place, R5CallOpen
  <2>4. Added(Msgs(vring), Msgs(vring'), m)
    BY <1>1, <1>2, <1>7, AddedToV
  <2>5. \A c \in Ids : In(Msgs(vring'), "request", c) => In(Msgs(vring), "request", c) \/ rCall.id = c
    BY <2>2, <2>4 DEF Added, Tags, Is
  <2>6. R5Fresh'
    BY <1>1, <2>1, <2>2, <2>5 DEF R5CallInv, R5Fresh, R5CallOpen, linuxVars
  <2>7. R5Once'
    <3> SUFFICES ASSUME NEW c \in Ids, R5CallOpen', rCall'.id = c
                 PROVE  R5CountOK(c)'
      BY DEF R5Once
    <3>1. rCall.id = c /\ R5CountOK(c)
      BY <2>1, <2>2 DEF R5CallInv, R5Once
    <3>2. Pending(rpc, rSend.msg, "request", c)
      BY <1>1, <1>7, <2>2, <3>1 DEF Pending, Is
    <3>3. /\ ~In(Msgs(vring), "request", c) /\ ~In(inbox, "request", c)
          /\ rServed # 1 /\ Once(Msgs(vring), c) /\ Once(inbox, c)
      BY <3>1, <3>2 DEF R5CountOK
    <3>4. Once(Msgs(vring'), c)
      BY <2>4, <3>3 DEF Added, Tags
    <3>5. rServed' # 1
      BY <2>1, <3>3
    <3> QED  BY <1>1, <1>5, <2>1, <3>1, <3>3, <3>4, <3>5 DEF R5CountOK, linuxVars
  <2> QED  BY <2>1, <2>3, <2>6, <2>7 DEF R5CallInv, R5Calling, Called, R5Phase
<1>8. CASE m.tag # "response" /\ ~(m.tag = "request" /\ CanSend)
  <2>1. rpc' = "loop" /\ R5CallReturns("failed")
    BY <1>8, Zenon DEF R5Resends, R5Top
  <2>2. \A c \in Ids : In(Msgs(vring'), "request", c) => In(Msgs(vring), "request", c)
    BY <1>2, <1>3, <1>8 DEF Added, Tags, Is
  <2> QED  BY <1>1, <2>1, <2>2, R5EndsR5
<1> QED  BY <1>6, <1>7, <1>8

LEMMA R5StepR5 ==
    ASSUME ~WrapIds, TInv, R5CallInv, R5Step
    PROVE  R5CallInv' /\ R5Calling
<1>1. CASE R5Processed
  <2>1. /\ UNCHANGED <<linuxVars, rReqId, rCall, rOutcome, rServed, rBack, rSend, toR5, vring, inbox>>
        /\ rpc = "loop" /\ rpc' \in {"loop", "demo"}
    BY <1>1 DEF R5Processed
  <2>2. ~R5CallOpen /\ ~R5CallOpen'
    BY <2>1 DEF R5CallInv, R5Place, R5CallOpen
  <2>3. R5Place'
    BY <2>1, <2>2 DEF R5CallInv, R5Place
  <2>4. R5Fresh'
    BY <2>1, <2>2 DEF R5CallInv, R5Fresh, linuxVars
  <2>5. R5Once'
    BY <2>2 DEF R5Once
  <2> QED  BY <2>1, <2>3, <2>4, <2>5 DEF R5CallInv, R5Calling, Called, R5Phase
<1>2. CASE R5TimesOut
  <2>1. /\ UNCHANGED <<linuxVars, inbox, rReqId, toR5, vring>>
        /\ R5CallReturns("failed") /\ rpc' = "loop"
    BY <1>2 DEF R5TimesOut, R5Top
  <2> QED  BY <2>1, R5EndsR5
<1> QED
  BY <1>1, <1>2, R5TakesR5, R5GetsR5, R5CallsR5, R5CommandsR5, R5ResendsR5 DEF R5Step

LEMMA EnvironmentR5 ==
    ASSUME TInv, R5CallInv, Environment
    PROVE  R5CallInv' /\ R5Calling
<1>1. CASE KernelDelivers
  <2> DEFINE m == Head(vring).msg
  <2>1. /\ UNCHANGED <<linuxVars, r5Vars, toR5, rServed>>
        /\ m \in Message /\ Taken(Msgs(vring), Msgs(vring'), m)
        /\ inbox' = inbox \/ Added(inbox, inbox', m)
    BY <1>1, Moved DEF KernelDelivers
  <2>2. \A c \in Ids :
            /\ In(Msgs(vring'), "request", c) => In(Msgs(vring), "request", c)
            /\ In(inbox', "request", c) => In(inbox, "request", c) \/ In(Msgs(vring), "request", c)
    BY <2>1 DEF Taken, Added, Tags
  <2>3. R5Place' /\ R5Calling
    BY <2>1 DEF R5CallInv, R5Place, r5Vars, R5CallOpen, R5Calling, Called, R5Phase
  <2>4. R5Fresh'
    BY <2>1, <2>2 DEF R5CallInv, R5Fresh, r5Vars, linuxVars, R5CallOpen
  <2>5. R5Once'
    <3> SUFFICES ASSUME NEW c \in Ids, R5CallOpen', rCall'.id = c
                 PROVE  R5CountOK(c)'
      BY DEF R5Once
    <3>1. R5CountOK(c)
      BY <2>1 DEF R5CallInv, R5Once, R5CallOpen, r5Vars
    <3>2. /\ In(Msgs(vring), "request", c) <=> In(Msgs(vring'), "request", c) \/ Is(m, "request", c)
          /\ Once(Msgs(vring), c) => /\ Once(Msgs(vring'), c)
                                     /\ ~(In(Msgs(vring'), "request", c) /\ Is(m, "request", c))
          /\ \/ inbox' = inbox
             \/ /\ In(inbox', "request", c) <=> In(inbox, "request", c) \/ Is(m, "request", c)
                /\ Once(inbox, c) /\ ~(In(inbox, "request", c) /\ Is(m, "request", c)) => Once(inbox', c)
      BY <2>1 DEF Taken, Added, Tags
    <3>3. UNCHANGED <<attached, lpc, lServing, rpc, rSend, rServed, toR5>>
      BY <2>1 DEF linuxVars, r5Vars
    <3> QED  BY <3>1, <3>2, <3>3 DEF R5CountOK
  <2> QED  BY <2>3, <2>4, <2>5 DEF R5CallInv
<1>2. CASE R5Stop
  <2>1. /\ rCall' = Nothing /\ rServed' = 0 /\ rOutcome' = "none" /\ rpc' = "off"
        /\ toR5' = <<>> /\ vring' = <<>> /\ inbox' = <<>> /\ ~attached'
    BY <1>2 DEF R5Stop
  <2>2. R5Place' /\ R5Once' /\ ~R5CallOpen'
    BY <2>1 DEF R5Place, R5Once, R5CallOpen
  <2>3. R5Fresh'
    BY <2>1, <2>2, NoneIn DEF R5Fresh, Working
  <2>4. R5Phase' = "none"
    BY <2>1, PhaseIs DEF R5Phase
  <2> QED  BY <2>2, <2>3, <2>4, R5PhaseIs DEF R5Calling, Called, R5CallInv
<1>3. CASE R5Boot
  <2>1. /\ UNCHANGED <<linuxVars, rReqId, rCall, rOutcome, rServed, toR5, vring, inbox>>
        /\ rpc = "off" /\ rpc' = "loop"
    BY <1>3 DEF R5Boot
  <2>2. ~R5CallOpen /\ ~R5CallOpen'
    BY <2>1 DEF R5CallInv, R5Place, R5CallOpen
  <2>3. R5Place'
    BY <2>1, <2>2 DEF R5CallInv, R5Place
  <2>4. R5Fresh'
    BY <2>1, <2>2 DEF R5CallInv, R5Fresh, linuxVars
  <2>5. R5Once'
    BY <2>2 DEF R5Once
  <2> QED  BY <2>1, <2>3, <2>4, <2>5 DEF R5CallInv, R5Calling, Called, R5Phase
<1>4. CASE LinuxRestart
  <2>1. UNCHANGED <<r5Vars, rServed, toR5, vring>> /\ lpc' = "drain" /\ inbox' = <<>>
    BY <1>4 DEF LinuxRestart, LinuxTop
  <2>2. \A c \in Ids : ~Working(attached', lpc', lServing', c) /\ ~In(inbox', "request", c) /\ Once(inbox', c)
    BY <2>1, NotWorking, NoneIn, OnceIfNone
  <2> QED  BY <2>1, <2>2, R5Quiet DEF R5Calling, Called
<1> QED  BY <1>1, <1>2, <1>3, <1>4 DEF Environment

-----------------------------------------------------------------------------
(* The calls of the client *)

\* A response of that id is on its way to the client: in the virtqueue, in
\* the inbox, or waiting for its second attempt.
OnItsWay(v, i, pc, m, c) ==
    In(v, "response", c) \/ In(i, "response", c) \/ Pending(pc, m, "response", c)

\* The client's call is open in its wait loop, and while handle_request_linux
\* works that was called from there.
LinuxPlace ==
    /\ LinuxCallOpen <=> lpc = "wait" \/ (lpc = "burn" /\ lBack = "wait")
    /\ ~LinuxCallOpen => lServed = 0
    /\ lServed \in {0, 1}

\* The client's ids go up from 1 (and end at 0, when all are used).
LinuxFresh == \A c \in Ids : lReqId # 0 /\ c >= lReqId =>
    /\ ~In(Msgs(toR5), "request", c)
    /\ ~OnItsWay(Msgs(vring), inbox, rpc, rSend.msg, c)
    /\ ~(LinuxCallOpen /\ lCall.id = c)

\* Of the call c that is open there is one request until the R5 has served it
\* once, and no response before that.
LinuxCountOK(c) ==
    /\ lServed = 0 => ~OnItsWay(Msgs(vring), inbox, rpc, rSend.msg, c)
    /\ lServed = 1 => ~In(Msgs(toR5), "request", c)
    /\ Once(Msgs(toR5), c)

LinuxOnce == \A c \in Ids : LinuxCallOpen /\ lCall.id = c => LinuxCountOK(c)

LinuxCallInv == LinuxPlace /\ LinuxFresh /\ LinuxOnce

LinuxPhase == Phase(lCall, lServed, lOutcome)
LinuxCalling == Called(LinuxPhase, LinuxPhase')

LEMMA LinuxPhaseIs ==
    ASSUME TInv, LinuxCallInv
    PROVE  /\ LinuxCallOpen => /\ lServed = 0 => LinuxPhase = "open"
                               /\ lServed = 1 => LinuxPhase = "served"
                               /\ LinuxPhase \in {"open", "served"}
           /\ ~LinuxCallOpen => LinuxPhase = lOutcome /\ LinuxPhase \in {"none", "answered", "failed"}
<1>1. lServed \in {0, 1} /\ lOutcome \in {"none", "answered", "failed"}
  BY DEF LinuxCallInv, LinuxPlace, TInv, TypeOK
<1>2. LinuxCallOpen => /\ lServed = 0 => LinuxPhase = "open"
                       /\ lServed = 1 => LinuxPhase = "served"
  BY PhaseIs DEF LinuxPhase, LinuxCallOpen
<1>3. ~LinuxCallOpen => LinuxPhase = lOutcome
  BY PhaseIs DEF LinuxPhase, LinuxCallOpen
<1> QED  BY <1>1, <1>2, <1>3

\* Steps that bring no request and no response that was not there.
LEMMA LinuxQuiet ==
    ASSUME LinuxCallInv, UNCHANGED <<lReqId, lCall, lServed>>,
           \A c \in Ids : In(Msgs(toR5'), "request", c) => In(Msgs(toR5), "request", c),
           \A c \in Ids : Once(Msgs(toR5), c) => Once(Msgs(toR5'), c),
           \A c \in Ids : OnItsWay(Msgs(vring'), inbox', rpc', rSend'.msg, c) =>
                            OnItsWay(Msgs(vring), inbox, rpc, rSend.msg, c)
    PROVE  LinuxFresh' /\ LinuxOnce'
<1>1. LinuxFresh'
  BY DEF LinuxCallInv, LinuxFresh, LinuxCallOpen
<1>2. LinuxOnce'
  BY DEF LinuxCallInv, LinuxOnce, LinuxCountOK, LinuxCallOpen
<1> QED  BY <1>1, <1>2

\* Such a step of the R5 or of the kernel.
LEMMA LinuxIdle ==
    ASSUME LinuxCallInv, UNCHANGED <<linuxVars, lServed>>,
           \A c \in Ids : In(Msgs(toR5'), "request", c) => In(Msgs(toR5), "request", c),
           \A c \in Ids : Once(Msgs(toR5), c) => Once(Msgs(toR5'), c),
           \A c \in Ids : OnItsWay(Msgs(vring'), inbox', rpc', rSend'.msg, c) =>
                            OnItsWay(Msgs(vring), inbox, rpc, rSend.msg, c)
    PROVE  LinuxCallInv' /\ LinuxCalling
<1>1. UNCHANGED <<lReqId, lCall, lServed>>
  BY DEF linuxVars
<1>2. LinuxFresh' /\ LinuxOnce'
  BY <1>1, LinuxQuiet
<1>3. LinuxPlace' /\ LinuxCalling
  BY DEF LinuxCallInv, LinuxPlace, linuxVars, LinuxCallOpen, LinuxPhase, LinuxCalling,
       Called
<1> QED  BY <1>2, <1>3 DEF LinuxCallInv

\* A call that returns, if one is open.
LEMMA LinuxEnds ==
    ASSUME TInv, LinuxCallInv, UNCHANGED <<lReqId, vring, rpc, rSend>>,
           NEW o \in {"failed", "answered"}, LinuxCallReturns(o),
           o = "answered" => lServed = 1, lpc' \in {"drain", "demo"},
           \A c \in Ids : In(Msgs(toR5'), "request", c) => In(Msgs(toR5), "request", c),
           \A c \in Ids : In(inbox', "response", c) => In(inbox, "response", c)
    PROVE  LinuxCallInv' /\ LinuxCalling
<1>1. /\ lCall' = Nothing /\ lServed' = 0
      /\ lOutcome' = IF LinuxCallOpen THEN o ELSE lOutcome
  BY DEF LinuxCallReturns
<1>2. LinuxPlace' /\ LinuxOnce' /\ ~LinuxCallOpen'
  BY <1>1 DEF LinuxPlace, LinuxOnce, LinuxCallOpen
<1>3. LinuxFresh'
  BY <1>2 DEF LinuxCallInv, LinuxFresh, OnItsWay
<1>4. LinuxPhase' = lOutcome'
  BY <1>1, PhaseIs DEF LinuxPhase
<1>5. LinuxCalling
  <2>1. CASE LinuxCallOpen
    BY <1>1, <1>4, <2>1, LinuxPhaseIs DEF LinuxCalling, Called
  <2>2. CASE ~LinuxCallOpen
    BY <1>1, <1>4, <2>2, LinuxPhaseIs DEF LinuxCalling, Called
  <2> QED  BY <2>1, <2>2
<1> QED  BY <1>2, <1>3, <1>5 DEF LinuxCallInv

\* recv_msg, whatever is done with the message.
LEMMA LinuxReadsLinux ==
    ASSUME TInv, LinuxReads(Head(inbox))
    PROVE  /\ UNCHANGED <<lReqId, r5Vars, toR5, vring>> /\ lpc \in {"wait", "drain"}
           /\ Head(inbox) \in Message
           /\ \A c \in Ids :
                /\ In(inbox', "response", c) => In(inbox, "response", c)
                /\ Is(Head(inbox), "response", c) => In(inbox, "response", c)
                /\ OnItsWay(Msgs(vring'), inbox', rpc', rSend'.msg, c) =>
                     OnItsWay(Msgs(vring), inbox, rpc, rSend.msg, c)
<1>1. Head(inbox) \in Message /\ Taken(inbox, inbox', Head(inbox))
  BY TakenFromI
<1>2. UNCHANGED <<lReqId, r5Vars, toR5, vring>> /\ lpc \in {"wait", "drain"}
  BY DEF LinuxReads
<1>3. \A c \in Ids : /\ In(inbox', "response", c) => In(inbox, "response", c)
                     /\ Is(Head(inbox), "response", c) => In(inbox, "response", c)
  BY <1>1 DEF Taken, Tags
<1> QED  BY <1>1, <1>2, <1>3 DEF OnItsWay, r5Vars

\* The three things the client does with a message.
LEMMA LinuxReadsStep ==
    ASSUME TInv, LinuxCallInv, LinuxTakesRequest \/ LinuxSkips \/ LinuxGetsResponse
    PROVE  LinuxCallInv' /\ LinuxCalling
<1> DEFINE m == Head(inbox)
<1>1. LinuxReads(m)
  BY DEF LinuxTakesRequest, LinuxSkips, LinuxGetsResponse
<1>2. UNCHANGED <<rpc, rSend>>
  BY <1>1, LinuxReadsLinux DEF r5Vars
<1>3. CASE UNCHANGED <<lCall, lServed, lOutcome>> /\ LinuxPlace'
  <2>1. LinuxFresh' /\ LinuxOnce'
    BY <1>1, <1>3, LinuxReadsLinux, LinuxQuiet
  <2>2. LinuxCalling
    BY <1>3 DEF LinuxCalling, LinuxPhase, Called
  <2> QED  BY <1>3, <2>1, <2>2 DEF LinuxCallInv
<1>4. CASE LinuxCallReturns("failed") /\ lpc' \in {"drain", "demo"}
  BY <1>1, <1>2, <1>4, LinuxReadsLinux, LinuxEnds
<1>5. CASE LinuxTakesRequest
  <2>1. CASE m.fn \in LinuxFunctions
    <3>1. UNCHANGED <<lCall, lServed, lOutcome>> /\ lpc' = "burn" /\ lBack' = lpc
      BY <1>5, <2>1 DEF LinuxTakesRequest
    <3>2. LinuxPlace'
      BY <1>1, <3>1, LinuxReadsLinux DEF LinuxCallInv, LinuxPlace, LinuxCallOpen
    <3> QED  BY <1>3, <3>1, <3>2
  <2>2. CASE m.fn \notin LinuxFunctions
    BY <1>4, <1>5, <2>2 DEF LinuxTakesRequest, LinuxTop
  <2> QED  BY <2>1, <2>2
<1>6. CASE LinuxSkips
  <2>1. UNCHANGED <<lCall, lServed, lOutcome, lpc, lBack>>
    BY <1>6 DEF LinuxSkips
  <2>2. LinuxPlace'
    BY <2>1 DEF LinuxCallInv, LinuxPlace, LinuxCallOpen
  <2> QED  BY <1>3, <2>1, <2>2
<1>7. CASE LinuxGetsResponse
  <2>1. /\ lpc = "wait" /\ m.tag = "response" /\ m.id = lCall.id
        /\ lpc' \in {"drain", "demo"}
        /\ LinuxCallReturns("answered") \/ LinuxCallReturns("failed")
    BY <1>7 DEF LinuxGetsResponse, LinuxTop
  <2>2. LinuxCallOpen /\ lCall.id \in Ids /\ In(inbox, "response", lCall.id)
    BY <1>1, <2>1, LinuxReadsLinux DEF LinuxCallInv, LinuxPlace, Is, Message
  <2>3. lServed = 1
    BY <2>2 DEF LinuxCallInv, LinuxOnce, LinuxCountOK, LinuxPlace, OnItsWay
  <2> QED  BY <1>1, <1>2, <1>4, <2>1, <2>3, LinuxReadsLinux, LinuxEnds
<1> QED  BY <1>5, <1>6, <1>7

\* The client writes a message that is no request, or none.
LEMMA LinuxWrites ==
    ASSUME TInv, LinuxCallInv, UNCHANGED <<r5Vars, vring, inbox>>,
           NEW m \in Message, NEW e \in EndPts, m.tag # "request",
           toR5' = toR5 \/ toR5' = Append(toR5, [src |-> e, msg |-> m])
    PROVE  \A c \in Ids : /\ In(Msgs(toR5'), "request", c) => In(Msgs(toR5), "request", c)
                          /\ Once(Msgs(toR5), c) => Once(Msgs(toR5'), c)
                          /\ OnItsWay(Msgs(vring'), inbox', rpc', rSend'.msg, c) =>
                               OnItsWay(Msgs(vring), inbox, rpc, rSend.msg, c)
<1>1. toR5' = toR5 \/ Added(Msgs(toR5), Msgs(toR5'), m)
  BY AddedToT
<1> QED  BY <1>1 DEF Added, Tags, Is, r5Vars

\* The client issues a call with an id that is nowhere yet.
LEMMA LinuxCallsLinux ==
    ASSUME ~WrapIds, TInv, LinuxCallInv, LinuxCalls
    PROVE  LinuxCallInv' /\ LinuxCalling
<1>0. PICK id \in Ids : id = lReqId
  BY DEF TInv, TypeOK
<1> DEFINE m == Request(lReqId, LinuxDemo[lStep])
<1>1. m \in Message /\ m.tag = "request" /\ m.id = id /\ m # Nothing
  <2>1. m \in Message
    BY MadeMessages, DemoFunctions DEF TInv, TypeOK
  <2> QED  BY <1>0, <2>1 DEF Request, Nothing, Ping
<1>2. /\ id # 0 /\ lReqId' = LinuxNextId(id) /\ lpc = "demo"
      /\ UNCHANGED <<r5Vars, vring, inbox, lServed, rpc, rSend>>
  BY <1>0 DEF LinuxCalls, MayCall, r5Vars
<1>3. ~LinuxCallOpen /\ lServed = 0
  BY <1>2 DEF LinuxCallInv, LinuxPlace
<1>4. \A c \in Ids : lReqId' # 0 /\ c >= lReqId' => lReqId # 0 /\ c >= lReqId /\ c # id
  BY <1>0, <1>2, ConstantsAssumption DEF Ids, LinuxNextId
<1>5. /\ ~In(Msgs(toR5), "request", id)
      /\ ~OnItsWay(Msgs(vring), inbox, rpc, rSend.msg, id)
  <2>1. id >= lReqId
    BY <1>0, ConstantsAssumption DEF Ids
  <2> QED  BY <1>0, <1>2, <2>1 DEF LinuxCallInv, LinuxFresh
<1>6. LinuxPhase \in {"none", "answered", "failed"}
  BY <1>3, LinuxPhaseIs
<1>7. CASE ~CanWrite
  <2>1. UNCHANGED <<lCall, toR5>> /\ lpc' = "drain" /\ lOutcome' = "failed"
    BY <1>7 DEF LinuxCalls, LinuxTop
  <2>2. LinuxPlace'
    BY <1>2, <1>3, <2>1 DEF LinuxPlace, LinuxCallOpen
  <2>3. LinuxFresh'
    BY <1>2, <1>4, <2>1 DEF LinuxCallInv, LinuxFresh, LinuxCallOpen
  <2>4. LinuxOnce'
    BY <1>3, <2>1 DEF LinuxOnce, LinuxCallOpen
  <2>5. LinuxPhase' = "failed"
    BY <1>3, <2>1, PhaseIs DEF LinuxPhase, LinuxCallOpen
  <2> QED  BY <1>6, <2>2, <2>3, <2>4, <2>5 DEF LinuxCallInv, LinuxCalling, Called
<1>8. CASE CanWrite
  <2>1. /\ lCall' = m /\ lOutcome' = lOutcome /\ lServed' = 0 /\ lpc' = "wait"
        /\ toR5' = Append(toR5, [src |-> endpt, msg |-> m])
    BY <1>2, <1>3, <1>8 DEF LinuxCalls, Write
  <2>2. LinuxPhase' = "open"
    BY <1>1, <2>1, PhaseIs DEF LinuxPhase
  <2>3. LinuxPlace'
    BY <1>1, <2>1 DEF LinuxPlace, LinuxCallOpen
  <2>4. Added(Msgs(toR5), Msgs(toR5'), m)
    BY <1>1, <1>8, <2>1, AddedToT DEF CanWrite, TInv, ControlOK
  <2>5. \A c \in Ids : In(Msgs(toR5'), "request", c) => In(Msgs(toR5), "request", c) \/ c = id
    BY <1>1, <2>4 DEF Added, Tags, Is
  <2>6. LinuxFresh'
    BY <1>1, <1>2, <1>4, <2>1, <2>5 DEF LinuxCallInv, LinuxFresh
  <2>7. Once(Msgs(toR5), id)
    BY <1>5, OnceIfNone
  <2>8. Once(Msgs(toR5'), id)
    BY <1>5, <2>4, <2>7 DEF Added, Tags
  <2>9. LinuxCountOK(id)'
    BY <1>2, <1>5, <2>1, <2>8 DEF LinuxCountOK
  <2>10. LinuxOnce'
    BY <1>1, <2>1, <2>9 DEF LinuxOnce
  <2> QED  BY <1>6, <2>2, <2>3, <2>6, <2>10 DEF LinuxCallInv, LinuxCalling, Called
<1> QED  BY <1>7, <1>8

LEMMA LinuxCommandsLinux ==
    ASSUME ~WrapIds, TInv, LinuxCallInv, LinuxCommands
    PROVE  LinuxCallInv' /\ LinuxCalling
<1> DEFINE m == Command(lReqId, LinuxDemo[lStep])
<1>1. lReqId \in Ids /\ m \in Message /\ m.tag # "request"
  <2>1. lReqId \in Ids /\ m \in Message
    BY MadeMessages, DemoFunctions DEF TInv, TypeOK
  <2> QED  BY <2>1 DEF Command
<1>2. /\ lReqId # 0 /\ lReqId' = LinuxNextId(lReqId) /\ lpc = "demo" /\ lpc' = "drain"
      /\ UNCHANGED <<r5Vars, vring, inbox, lServed, lCall, lOutcome>>
      /\ CanWrite => toR5' = Append(toR5, [src |-> endpt, msg |-> m])
      /\ ~CanWrite => toR5' = toR5
  BY DEF LinuxCommands, MayCall, Write, LinuxTop
<1>3. ~LinuxCallOpen /\ ~LinuxCallOpen'
  BY <1>2 DEF LinuxCallInv, LinuxPlace, LinuxCallOpen
<1>4. \A c \in Ids : lReqId' # 0 /\ c >= lReqId' => lReqId # 0 /\ c >= lReqId
  BY <1>1, <1>2, ConstantsAssumption DEF Ids, LinuxNextId
<1>5. \A c \in Ids : /\ In(Msgs(toR5'), "request", c) => In(Msgs(toR5), "request", c)
                     /\ OnItsWay(Msgs(vring'), inbox', rpc', rSend'.msg, c) =>
                          OnItsWay(Msgs(vring), inbox, rpc, rSend.msg, c)
  <2>1. CASE CanWrite
    <3>1. endpt \in EndPts
      BY <2>1 DEF CanWrite, TInv, ControlOK
    <3> QED  BY <1>1, <1>2, <2>1, <3>1, LinuxWrites
  <2>2. CASE ~CanWrite
    BY <1>2, <2>2 DEF r5Vars
  <2> QED  BY <2>1, <2>2
<1>6. LinuxPlace'
  BY <1>2, <1>3 DEF LinuxCallInv, LinuxPlace
<1>7. LinuxFresh'
  BY <1>3, <1>4, <1>5 DEF LinuxCallInv, LinuxFresh
<1>8. LinuxOnce'
  BY <1>3 DEF LinuxOnce
<1> QED  BY <1>2, <1>6, <1>7, <1>8 DEF LinuxCallInv, LinuxCalling, LinuxPhase, Called

LEMMA LinuxStepLinux ==
    ASSUME ~WrapIds, TInv, LinuxCallInv, LinuxStep
    PROVE  LinuxCallInv' /\ LinuxCalling
<1>1. CASE rpmsg_try_connect
  <2>1. /\ UNCHANGED <<r5Vars, vring, inbox, lReqId, lCall, lServed, lOutcome, lpc, lBack>>
        /\ endpt' \in EndPts /\ toR5' = Append(toR5, [src |-> endpt', msg |-> Ping])
    BY <1>1 DEF rpmsg_try_connect
  <2>2. Ping.tag # "request"
    BY DEF Ping
  <2>3. LinuxFresh' /\ LinuxOnce'
    BY <2>1, <2>2, PingIsMessage, LinuxWrites, LinuxQuiet
  <2>4. LinuxPlace' /\ LinuxCalling
    BY <2>1 DEF LinuxCallInv, LinuxPlace, LinuxCallOpen, LinuxCalling, LinuxPhase,
         Called
  <2> QED  BY <2>3, <2>4 DEF LinuxCallInv
<1>2. CASE LinuxReadFails \/ LinuxTimesOut
  <2>1. /\ UNCHANGED <<r5Vars, toR5, vring, inbox, lReqId>>
        /\ LinuxCallReturns("failed") /\ lpc' = "drain"
    BY <1>2 DEF LinuxReadFails, LinuxTimesOut, LinuxTop
  <2>2. UNCHANGED <<rpc, rSend>>
    BY <2>1 DEF r5Vars
  <2> QED  BY <2>1, <2>2, LinuxEnds
<1>3. CASE LinuxDrained
  <2>1. /\ UNCHANGED <<r5Vars, toR5, vring, inbox, lReqId, lCall, lServed, lOutcome>>
        /\ lpc = "drain" /\ lpc' = "demo"
    BY <1>3 DEF LinuxDrained
  <2>2. LinuxPlace' /\ LinuxCalling
    BY <2>1 DEF LinuxCallInv, LinuxPlace, LinuxCallOpen, LinuxCalling, LinuxPhase,
         Called
  <2>3. LinuxFresh' /\ LinuxOnce'
    BY <2>1, LinuxQuiet DEF r5Vars
  <2> QED  BY <2>2, <2>3 DEF LinuxCallInv
<1>4. CASE LinuxSendsResponse
  <2> DEFINE m == ResponseTo(lServing)
  <2>1. /\ UNCHANGED <<r5Vars, vring, inbox, lReqId>> /\ lpc = "burn" /\ lBack \in {"drain", "wait"}
        /\ CanWrite => toR5' = Append(toR5, [src |-> endpt, msg |-> m])
        /\ ~CanWrite => toR5' = toR5
    BY <1>4 DEF LinuxSendsResponse, Write, TInv, TypeOK
  <2>2. m \in Message /\ m.tag # "request" /\ UNCHANGED <<rpc, rSend>>
    BY <2>1, ResponseIsMessage DEF TInv, TypeOK, ResponseTo, r5Vars
  <2>3. \A c \in Ids : /\ In(Msgs(toR5'), "request", c) => In(Msgs(toR5), "request", c)
                       /\ Once(Msgs(toR5), c) => Once(Msgs(toR5'), c)
                       /\ OnItsWay(Msgs(vring'), inbox', rpc', rSend'.msg, c) =>
                            OnItsWay(Msgs(vring), inbox, rpc, rSend.msg, c)
    <3>1. CASE CanWrite
      <4>1. endpt \in EndPts
        BY <3>1 DEF CanWrite, TInv, ControlOK
      <4> QED  BY <2>1, <2>2, <3>1, <4>1, LinuxWrites
    <3>2. CASE ~CanWrite
      BY <2>1, <3>2 DEF r5Vars
    <3> QED  BY <3>1, <3>2
  <2>4. \/ LinuxCallReturns("failed") /\ lpc' = "drain"
        \/ /\ UNCHANGED <<lCall, lOutcome, lServed>>
           /\ lpc' = lBack \/ (lpc' = "demo" /\ lBack = "drain")
    BY <1>4 DEF LinuxSendsResponse, LinuxTop
  <2>5. CASE LinuxCallReturns("failed") /\ lpc' = "drain"
    BY <2>1, <2>2, <2>3, <2>5, LinuxEnds
  <2>6. CASE /\ UNCHANGED <<lCall, lOutcome, lServed>>
             /\ lpc' = lBack \/ (lpc' = "demo" /\ lBack = "drain")
    <3>1. LinuxPlace' /\ LinuxCalling
      BY <2>1, <2>6 DEF LinuxCallInv, LinuxPlace, LinuxCallOpen, LinuxCalling,
           LinuxPhase, Called
    <3>2. LinuxFresh' /\ LinuxOnce'
      BY <2>1, <2>3, <2>6, LinuxQuiet
    <3> QED  BY <3>1, <3>2 DEF LinuxCallInv
  <2> QED  BY <2>4, <2>5, <2>6
<1> QED
  BY <1>1, <1>2, <1>3, <1>4, LinuxReadsStep, LinuxCallsLinux, LinuxCommandsLinux
     DEF LinuxStep

\* The R5 takes a message of the client, sends at most something that is no
\* response, and keeps no response for later.
LEMMA R5ReadsLinux ==
    ASSUME TInv, LinuxCallInv, R5TakesPing \/ R5Skips \/ R5GetsResponse
    PROVE  LinuxCallInv' /\ LinuxCalling
<1>1. R5Reads(Head(toR5)) /\ UNCHANGED <<lServed, rSend>> /\ rpc' # "resend"
  BY DEF R5TakesPing, R5Skips, R5GetsResponse, R5Reads
<1>2. /\ UNCHANGED <<linuxVars, inbox>> /\ toR5 # <<>>
      /\ Taken(Msgs(toR5), Msgs(toR5'), Head(toR5).msg)
      /\ Head(toR5).src \in EndPts
  BY <1>1, TakenFromT, HeadsTyped DEF R5Reads
<1>3. vring' = vring \/ Send(Head(toR5).src, Ping)
  BY DEF R5TakesPing, R5Skips, R5GetsResponse
<1>4. vring' = vring \/ Added(Msgs(vring), Msgs(vring'), Ping)
  BY <1>2, <1>3, AddedToV, PingIsMessage
<1>5. Ping.tag # "response"
  BY DEF Ping
<1>6. \A c \in Ids : OnItsWay(Msgs(vring'), inbox', rpc', rSend'.msg, c) =>
                       OnItsWay(Msgs(vring), inbox, rpc, rSend.msg, c)
  BY <1>1, <1>2, <1>4, <1>5, NotPending DEF Added, Tags, Is, OnItsWay
<1>7. \A c \in Ids : /\ In(Msgs(toR5'), "request", c) => In(Msgs(toR5), "request", c)
                     /\ Once(Msgs(toR5), c) => Once(Msgs(toR5'), c)
  BY <1>2 DEF Taken, Tags
<1> QED  BY <1>1, <1>2, <1>6, <1>7, LinuxIdle

\* The R5 sends, or keeps for later, one message that is no response.
LEMMA R5SendsLinux ==
    ASSUME TInv, LinuxCallInv, UNCHANGED <<linuxVars, toR5, inbox, lServed>>,
           NEW m \in Message, m.tag # "response", NEW e \in EndPts,
           vring' = vring \/ Send(e, m),
           rpc' # "resend" \/ rSend' = [dst |-> e, msg |-> m]
    PROVE  LinuxCallInv' /\ LinuxCalling
<1>1. vring' = vring \/ Added(Msgs(vring), Msgs(vring'), m)
  BY AddedToV
<1>2. \A c \in Ids : ~Pending(rpc', rSend'.msg, "response", c)
  BY NotPending
<1>3. \A c \in Ids : OnItsWay(Msgs(vring'), inbox', rpc', rSend'.msg, c) =>
                       OnItsWay(Msgs(vring), inbox, rpc, rSend.msg, c)
  BY <1>1, <1>2 DEF Added, Tags, Is, OnItsWay
<1> QED  BY <1>3, LinuxIdle

\* A step of the R5 that sends nothing.
LEMMA R5QuietLinux ==
    ASSUME LinuxCallInv, UNCHANGED <<linuxVars, toR5, vring, inbox, lServed>>, rpc' # "resend"
    PROVE  LinuxCallInv' /\ LinuxCalling
<1>1. \A c \in Ids : ~Pending(rpc', rSend'.msg, "response", c)
  BY NotPending
<1>2. \A c \in Ids : OnItsWay(Msgs(vring'), inbox', rpc', rSend'.msg, c) =>
                       OnItsWay(Msgs(vring), inbox, rpc, rSend.msg, c)
  BY <1>1 DEF OnItsWay
<1> QED  BY <1>2, LinuxIdle

\* The R5 serves a request of the client.
LEMMA R5ServesLinux ==
    ASSUME TInv, LinuxCallInv, R5TakesRequest
    PROVE  LinuxCallInv' /\ LinuxCalling
<1> DEFINE e == Head(toR5)
           m == Head(toR5).msg
           r == ResponseTo(m)
<1>1. R5Reads(e) /\ m.tag = "request" /\ rpc # "resend"
  BY DEF R5TakesRequest, R5Reads
<1>2. /\ UNCHANGED <<linuxVars, inbox>> /\ toR5 # <<>> /\ e.src \in EndPts
      /\ Taken(Msgs(toR5), Msgs(toR5'), m) /\ m \in Message
  BY <1>1, TakenFromT, HeadsTyped DEF R5Reads
<1>3. r \in Message /\ r.tag = "response" /\ r.id = m.id /\ m.id \in Ids
  BY <1>2, ResponseIsMessage DEF ResponseTo, Message
<1>4. \/ (vring' = vring \/ Send(e.src, r)) /\ UNCHANGED <<rpc, rSend>>
      \/ vring' = vring /\ rSend' = [dst |-> e.src, msg |-> r]
  BY DEF R5TakesRequest
<1>5. lServed' = IF m.fn \in R5Functions /\ LinuxCallOpen /\ m.id = lCall.id
                 THEN OneMore(lServed) ELSE lServed
  BY DEF R5TakesRequest
<1>6. m.fn \notin R5Functions => UNCHANGED <<vring, rpc, rSend>>
  BY DEF R5TakesRequest
<1>7. UNCHANGED <<lReqId, lCall, lOutcome, lpc, lBack>>
  BY <1>2 DEF linuxVars
<1>8. \A c \in Ids : /\ In(Msgs(toR5), "request", c) <=> In(Msgs(toR5'), "request", c) \/ c = m.id
                     /\ Once(Msgs(toR5), c) => /\ Once(Msgs(toR5'), c)
                                               /\ c = m.id => ~In(Msgs(toR5'), "request", c)
  BY <1>1, <1>2, <1>3 DEF Taken, Tags, Is
<1>9. \A c \in Ids : OnItsWay(Msgs(vring'), inbox', rpc', rSend'.msg, c) =>
                       \/ OnItsWay(Msgs(vring), inbox, rpc, rSend.msg, c)
                       \/ c = m.id /\ m.fn \in R5Functions
  <2>1. CASE m.fn \notin R5Functions
    BY <1>2, <1>6, <2>1
  <2>2. CASE vring' = vring /\ rSend' = [dst |-> e.src, msg |-> r] /\ m.fn \in R5Functions
    <3>1. \A c \in Ids : Pending(rpc', rSend'.msg, "response", c) => c = m.id
      BY <1>3, <2>2 DEF Pending, Is
    <3> QED  BY <1>2, <2>2, <3>1 DEF OnItsWay
  <2>3. CASE /\ vring' = vring \/ Send(e.src, r)
             /\ UNCHANGED <<rpc, rSend>> /\ m.fn \in R5Functions
    <3>1. vring' = vring \/ Added(Msgs(vring), Msgs(vring'), r)
      BY <1>2, <1>3, <2>3, AddedToV
    <3>2. \A c \in Ids : In(Msgs(vring'), "response", c) => In(Msgs(vring), "response", c) \/ c = m.id
      BY <1>3, <3>1 DEF Added, Tags, Is
    <3> QED  BY <1>2, <2>3, <3>2 DEF OnItsWay
  <2> QED  BY <1>4, <2>1, <2>2, <2>3
<1>10. ASSUME LinuxCallOpen, m.id = lCall.id
       PROVE  lServed = 0
  BY <1>3, <1>8, <1>10 DEF LinuxCallInv, LinuxOnce, LinuxCountOK, LinuxPlace
<1>11. LinuxFresh'
  BY <1>3, <1>7, <1>8, <1>9 DEF LinuxCallInv, LinuxFresh, LinuxCallOpen
<1>12. CASE m.fn \in R5Functions /\ LinuxCallOpen /\ m.id = lCall.id
  <2>1. lServed = 0 /\ lServed' = 1
    BY <1>5, <1>10, <1>12 DEF OneMore
  <2>2. LinuxPlace'
    BY <1>7, <1>12, <2>1 DEF LinuxCallInv, LinuxPlace, LinuxCallOpen
  <2>3. LinuxOnce'
    BY <1>7, <1>8, <1>12, <2>1 DEF LinuxCallInv, LinuxOnce, LinuxCountOK, LinuxCallOpen
  <2>4. LinuxPhase = "open" /\ LinuxPhase' = "served"
    BY <1>7, <1>12, <2>1, PhaseIs DEF LinuxPhase, LinuxCallOpen
  <2> QED  BY <1>11, <2>2, <2>3, <2>4 DEF LinuxCallInv, LinuxCalling, Called
<1>13. CASE ~(m.fn \in R5Functions /\ LinuxCallOpen /\ m.id = lCall.id)
  <2>1. lServed' = lServed
    BY <1>5, <1>13
  <2>2. LinuxPlace' /\ LinuxCalling
    BY <1>7, <2>1 DEF LinuxCallInv, LinuxPlace, LinuxCallOpen, LinuxCalling, LinuxPhase,
         Called
  <2>3. LinuxOnce'
    BY <1>7, <1>8, <1>9, <1>13, <2>1 DEF LinuxCallInv, LinuxOnce, LinuxCountOK,
         LinuxCallOpen
  <2> QED  BY <1>11, <2>2, <2>3 DEF LinuxCallInv
<1> QED  BY <1>12, <1>13

\* What the R5 sends at the second attempt was on its way before.
LEMMA R5ResendsLinux ==
    ASSUME TInv, LinuxCallInv, R5Resends
    PROVE  LinuxCallInv' /\ LinuxCalling
<1> DEFINE m == rSend.msg
<1>1. /\ rpc = "resend" /\ m \in Message /\ rSend.dst \in EndPts
      /\ UNCHANGED <<linuxVars, toR5, inbox, lServed>>
      /\ rSend' = [dst |-> NoEndPt, msg |-> Nothing]
  BY DEF R5Resends, TInv, TypeOK, ControlOK
<1>2. vring' = vring \/ Send(rSend.dst, m)
  BY DEF R5Resends
<1>3. vring' = vring \/ Added(Msgs(vring), Msgs(vring'), m)
  BY <1>1, <1>2, AddedToV
<1>4. rSend'.msg.tag # "response"
  BY <1>1 DEF Nothing, Ping
<1>5. \A c \in Ids : ~Pending(rpc', rSend'.msg, "response", c)
  BY <1>4, NotPending
<1>6. \A c \in Ids : OnItsWay(Msgs(vring'), inbox', rpc', rSend'.msg, c) =>
                       OnItsWay(Msgs(vring), inbox, rpc, rSend.msg, c)
  BY <1>1, <1>3, <1>5 DEF Added, Tags, OnItsWay, Pending
<1> QED  BY <1>1, <1>6, LinuxIdle

LEMMA R5StepLinux ==
    ASSUME TInv, LinuxCallInv, R5Step
    PROVE  LinuxCallInv' /\ LinuxCalling
<1>1. CASE R5Processed \/ R5TimesOut
  BY <1>1, R5QuietLinux DEF R5Processed, R5TimesOut, R5Top
<1>2. CASE R5Calls
  <2> DEFINE m == Request(rReqId, R5Demo[rStep])
  <2>1. m \in Message
    BY MadeMessages, DemoFunctions DEF TInv, TypeOK
  <2>2. m.tag # "response"
    BY DEF Request
  <2>3. UNCHANGED <<linuxVars, toR5, inbox, lServed>>
    BY <1>2 DEF R5Calls
  <2>4. CASE remoteEndPt = NoEndPt
    BY <1>2, <2>3, <2>4, R5QuietLinux DEF R5Calls, R5Top
  <2>5. CASE remoteEndPt # NoEndPt
    <3>1. /\ remoteEndPt \in EndPts
          /\ vring' = vring \/ Send(remoteEndPt, m)
          /\ rpc' # "resend" \/ rSend' = [dst |-> remoteEndPt, msg |-> m]
      BY <1>2, <2>5 DEF R5Calls, TInv, TypeOK
    <3> QED  BY <2>1, <2>2, <2>3, <3>1, R5SendsLinux
  <2> QED  BY <2>4, <2>5
<1>3. CASE R5Commands
  <2> DEFINE m == Command(rReqId, R5Demo[rStep])
  <2>1. m \in Message
    BY MadeMessages, DemoFunctions DEF TInv, TypeOK
  <2>2. m.tag # "response"
    BY DEF Command
  <2>3. UNCHANGED <<linuxVars, toR5, inbox, lServed>>
    BY <1>3 DEF R5Commands
  <2>4. CASE remoteEndPt = NoEndPt
    BY <1>3, <2>3, <2>4, R5QuietLinux DEF R5Commands, R5Top
  <2>5. CASE remoteEndPt # NoEndPt
    <3>1. /\ remoteEndPt \in EndPts
          /\ vring' = vring \/ Send(remoteEndPt, m)
          /\ rpc' # "resend" \/ rSend' = [dst |-> remoteEndPt, msg |-> m]
      BY <1>3, <2>5 DEF R5Commands, R5Top, TInv, TypeOK
    <3> QED  BY <2>1, <2>2, <2>3, <3>1, R5SendsLinux
  <2> QED  BY <2>4, <2>5
<1> QED
  BY <1>1, <1>2, <1>3, R5ReadsLinux, R5ServesLinux, R5ResendsLinux DEF R5Step

LEMMA EnvironmentLinux ==
    ASSUME TInv, LinuxCallInv, KernelDelivers \/ R5Stop \/ R5Boot
    PROVE  LinuxCallInv' /\ LinuxCalling
<1>1. CASE KernelDelivers
  <2> DEFINE m == Head(vring).msg
  <2>1. /\ UNCHANGED <<linuxVars, r5Vars, toR5, lServed, rpc, rSend>>
        /\ m \in Message /\ Taken(Msgs(vring), Msgs(vring'), m)
        /\ inbox' = inbox \/ Added(inbox, inbox', m)
    BY <1>1, Moved DEF KernelDelivers, r5Vars
  <2>2. \A c \in Ids : OnItsWay(Msgs(vring'), inbox', rpc', rSend'.msg, c) =>
                         OnItsWay(Msgs(vring), inbox, rpc, rSend.msg, c)
    BY <2>1 DEF Taken, Added, Tags, OnItsWay
  <2> QED  BY <2>1, <2>2, LinuxIdle
<1>2. CASE R5Stop
  <2>1. /\ UNCHANGED <<lpc, lReqId, lCall, lServed, lOutcome, lBack>> /\ rpc' = "off"
        /\ toR5' = <<>> /\ vring' = <<>> /\ inbox' = <<>>
    BY <1>2 DEF R5Stop
  <2>2. \A c \in Ids : /\ ~In(Msgs(toR5'), "request", c) /\ Once(Msgs(toR5'), c)
                       /\ ~OnItsWay(Msgs(vring'), inbox', rpc', rSend'.msg, c)
    BY <2>1, NoneIn, OnceIfNone, NotPending DEF OnItsWay
  <2>3. LinuxFresh' /\ LinuxOnce'
    BY <2>1, <2>2, LinuxQuiet
  <2>4. LinuxPlace' /\ LinuxCalling
    BY <2>1 DEF LinuxCallInv, LinuxPlace, LinuxCallOpen, LinuxCalling, LinuxPhase,
         Called
  <2> QED  BY <2>3, <2>4 DEF LinuxCallInv
<1>3. CASE R5Boot
  BY <1>3, R5QuietLinux DEF R5Boot
<1> QED  BY <1>1, <1>2, <1>3

-----------------------------------------------------------------------------
(* Every call is a call of RpcClient *)

LEMMA MCInitInv == MCInit => TInv /\ R5CallInv /\ LinuxCallInv
<1> SUFFICES ASSUME MCInit PROVE TInv /\ R5CallInv /\ LinuxCallInv
  OBVIOUS
<1>1. TInv
  BY InitTInv DEF MCInit
<1>2. /\ lpc = "drain" /\ rpc \in {"off", "loop"} /\ lCall = Nothing /\ rCall = Nothing
      /\ toR5 = <<>> /\ vring = <<>> /\ inbox = <<>> /\ lServed = 0 /\ rServed = 0
  BY DEF MCInit, Init
<1>3. R5Place /\ R5Once /\ LinuxPlace /\ LinuxOnce /\ ~R5CallOpen /\ ~LinuxCallOpen
  BY <1>2 DEF R5Place, R5Once, LinuxPlace, LinuxOnce, R5CallOpen, LinuxCallOpen
<1>4. R5Fresh
  BY <1>2, <1>3, NoneIn, NotWorking DEF R5Fresh
<1>5. LinuxFresh
  BY <1>2, <1>3, NoneIn, NotPending DEF LinuxFresh, OnItsWay
<1> QED  BY <1>1, <1>3, <1>4, <1>5 DEF R5CallInv, LinuxCallInv

\* Both sides' invariants; the client's ends with its restart.
RpcInv == TInv /\ R5CallInv /\ (~restarted => LinuxCallInv)

LEMMA MCNextInv ==
    ASSUME ~WrapIds, RpcInv, [MCNext]_mcVars
    PROVE  /\ RpcInv' /\ R5Calling
           /\ restarted => restarted'
           /\ restarted' \/ LinuxCalling
<1> USE DEF RpcInv
<1>1. CASE LinuxStep /\ UNCHANGED restarted
  BY <1>1, LinuxStepTInv, LinuxStepR5, LinuxStepLinux
<1>2. CASE R5Step /\ UNCHANGED restarted
  BY <1>2, R5StepTInv, R5StepR5, R5StepLinux
<1>3. CASE (KernelDelivers \/ R5Stop \/ R5Boot) /\ UNCHANGED restarted
  BY <1>3, EnvironmentTInv, EnvironmentR5, EnvironmentLinux DEF Environment
<1>4. CASE LinuxRestart /\ restarted' = TRUE
  BY <1>4, EnvironmentTInv, EnvironmentR5 DEF Environment
<1>5. CASE UNCHANGED mcVars
  <2>1. UNCHANGED <<vars, restarted>> /\ TInv'
    BY <1>5, StutterTInv DEF mcVars
  <2>2. UNCHANGED <<linuxVars, r5Vars, toR5, vring, inbox, lServed, rServed, restarted,
                    rpc, rSend, attached, lpc, lServing>>
    BY <2>1 DEF vars, linuxVars, r5Vars
  <2>3. R5CallInv' /\ R5Calling
    BY <2>2, R5Quiet DEF R5Calling, Called
  <2>4. ~restarted => LinuxCallInv' /\ LinuxCalling
    BY <2>2, LinuxIdle
  <2> QED  BY <2>1, <2>2, <2>3, <2>4
<1> QED  BY <1>1, <1>2, <1>3, <1>4, <1>5 DEF MCNext

\* What send_blocking_request_r5 returns was computed by the client for this
\* call and computed once, whatever stops, restarts, times out or comes late,
\* as long as the ids do not start again.
THEOREM R5CallsRefine ==
    ASSUME ~WrapIds
    PROVE  MCSpec => R5CallsAreRpc
<1>1. MCInit => RpcInv /\ R5Rpc!Init
  <2>1. MCInit => rCall = Nothing /\ rOutcome = "none"
    BY DEF MCInit, Init
  <2> QED  BY <2>1, MCInitInv, PhaseIs DEF RpcInv, R5Rpc!Init
<1>2. RpcInv /\ [MCNext]_mcVars => RpcInv' /\ [R5Rpc!Next]_(Phase(rCall, rServed, rOutcome))
  <2>1. R5Calling => R5Rpc!Next \/ UNCHANGED Phase(rCall, rServed, rOutcome)
    BY DEF R5Calling, Called, R5Phase, R5Rpc!Next, R5Rpc!Issue, R5Rpc!Serve,
           R5Rpc!Answer, R5Rpc!Fail, R5Rpc!Forget, R5Rpc!AtRest
  <2> QED  BY <2>1, MCNextInv
<1> QED  BY <1>1, <1>2, PTL DEF MCSpec, R5CallsAreRpc, R5Rpc!Spec

\* The same of send_blocking_request in a client that was not restarted: an R5
\* that was stopped and booted in between never answers for its predecessor.
THEOREM LinuxCallsRefine ==
    ASSUME ~WrapIds
    PROVE  MCSpec => LinuxCallsAreRpc
<1> DEFINE phase == IF restarted THEN "none" ELSE Phase(lCall, lServed, lOutcome)
<1>1. MCInit => RpcInv /\ LinuxRpc!Init
  <2>1. MCInit => lCall = Nothing /\ lOutcome = "none" /\ ~restarted
    BY DEF MCInit, Init
  <2> QED  BY <2>1, MCInitInv, PhaseIs DEF RpcInv, LinuxRpc!Init
<1>2. RpcInv /\ [MCNext]_mcVars => RpcInv' /\ [LinuxRpc!Next]_phase
  <2> SUFFICES ASSUME RpcInv, [MCNext]_mcVars
               PROVE  RpcInv' /\ [LinuxRpc!Next]_phase
    OBVIOUS
  <2>1. CASE restarted'
    BY <2>1, MCNextInv DEF LinuxRpc!Next, LinuxRpc!Forget
  <2>2. CASE ~restarted /\ ~restarted'
    <3>1. Called(LinuxPhase, LinuxPhase')
      BY <2>2, MCNextInv DEF LinuxCalling
    <3> QED
      BY <2>2, <3>1, MCNextInv
      DEF Called, LinuxPhase, LinuxRpc!Next, LinuxRpc!Issue, LinuxRpc!Serve,
          LinuxRpc!Answer, LinuxRpc!Fail, LinuxRpc!Forget, LinuxRpc!AtRest
  <2> QED  BY <2>1, <2>2, MCNextInv
<1> QED  BY <1>1, <1>2, PTL DEF MCSpec, LinuxCallsAreRpc, LinuxRpc!Spec

-----------------------------------------------------------------------------
(* Calls that succeed *)

\* NoCallFails says what neither program can see: that the queues never fill up and
\* that nobody answers wrongly.  Inductively: of each kind of message there is at most
\* one on its way to either side, so that three places are always enough; and a call
\* that is open has its request on its way, or the other side at work on it, or its
\* response on its way back, and never two of these.

\* What is on its way to the R5, and to Linux: in the inbox, then in the virtqueue.
ToR5 == Msgs(toR5)
ToLinux == inbox \o Msgs(vring)

\* Each way carries messages of three kinds.
Kind(m) == IF m.tag \in {"command", "ping"} THEN "free" ELSE m.tag
Kinds == {"free", "request", "response"}
Carried(q) == {q[i] : i \in 1..Len(q)}
Has(S, k) == \E m \in S : Kind(m) = k

\* It carries at most one of each, and a request behind the one that asks for nothing.
Lane(q) ==
    /\ \A i, j \in 1..Len(q) : Kind(q[i]) = Kind(q[j]) => i = j
    /\ \A i, j \in 1..Len(q) : Kind(q[i]) = "request" /\ Kind(q[j]) = "free" => j < i

\* Kind has no other value.
LEMMA KindIsOne == \A m \in Message : Kind(m) \in Kinds
  BY DEF Kind, Kinds, Message

\* So there is room for a kind that is not on its way.
LEMMA LaneRoom ==
    ASSUME NEW q \in Seq(Message), Lane(q), NEW k \in Kinds, ~Has(Carried(q), k)
    PROVE  Len(q) < 3
<1> SUFFICES ASSUME Len(q) >= 3 PROVE FALSE
  OBVIOUS
<1>1. 1 \in 1..Len(q) /\ 2 \in 1..Len(q) /\ 3 \in 1..Len(q)
  OBVIOUS
<1>2. \A i \in 1..Len(q) : Kind(q[i]) \in Kinds /\ Kind(q[i]) # k
  BY KindIsOne DEF Has, Carried
<1>3. Kind(q[1]) # Kind(q[2]) /\ Kind(q[1]) # Kind(q[3]) /\ Kind(q[2]) # Kind(q[3])
  BY <1>1 DEF Lane
<1>4. QED
  BY <1>1, <1>2, <1>3 DEF Kinds

\* A kind that is not on its way may follow, if it does not overtake a request.
LEMMA LaneAppend ==
    ASSUME NEW q \in Seq(Message), NEW m \in Message, Lane(q), ~Has(Carried(q), Kind(m)),
           Kind(m) = "free" => ~Has(Carried(q), "request")
    PROVE  /\ Append(q, m) \in Seq(Message) /\ Lane(Append(q, m))
           /\ Carried(Append(q, m)) = Carried(q) \cup {m}
<1> DEFINE p == Append(q, m)
<1>1. /\ Len(q) \in Nat /\ Len(p) = Len(q) + 1 /\ p \in Seq(Message)
      /\ \A i \in 1..Len(q) : p[i] = q[i]
      /\ p[Len(q) + 1] = m
  OBVIOUS
<1> HIDE DEF p
<1>2. /\ \A i \in 1..Len(p) : i \in 1..Len(q) \/ i = Len(q) + 1
      /\ \A i \in 1..Len(q) : i \in 1..Len(p) /\ i < Len(q) + 1
      /\ Len(q) + 1 \in 1..Len(p)
  BY <1>1
<1>3. Carried(p) = Carried(q) \cup {m}
  BY <1>1, <1>2 DEF Carried
<1>4. \A i \in 1..Len(q) : Kind(p[i]) # Kind(m)
  BY <1>1 DEF Has, Carried
<1>5. \A i, j \in 1..Len(p) : Kind(p[i]) = Kind(p[j]) => i = j
  BY <1>1, <1>2, <1>4 DEF Lane
<1>6. \A i \in 1..Len(q) : Kind(m) = "free" => Kind(p[i]) # "request"
  BY <1>1 DEF Has, Carried
<1>7. \A i, j \in 1..Len(p) : Kind(p[i]) = "request" /\ Kind(p[j]) = "free" => j < i
  <2> SUFFICES ASSUME NEW i \in 1..Len(p), NEW j \in 1..Len(p),
                      Kind(p[i]) = "request", Kind(p[j]) = "free"
               PROVE  j < i
    OBVIOUS
  <2>1. CASE i \in 1..Len(q) /\ j \in 1..Len(q)
    BY <1>1, <2>1 DEF Lane
  <2>2. CASE j = Len(q) + 1
    <3>1. Kind(m) = "free" /\ i # Len(q) + 1
      BY <1>1, <2>2
    <3>2. QED
      BY <1>2, <1>6, <3>1
  <2>3. CASE i = Len(q) + 1 /\ j \in 1..Len(q)
    BY <1>2, <2>3
  <2>4. QED
    BY <1>2, <2>1, <2>2, <2>3
<1>8. QED
  BY <1>1, <1>3, <1>5, <1>7 DEF Lane, p

\* The oldest message was the only one of its kind.
LEMMA LaneTail ==
    ASSUME NEW q \in Seq(Message), q # <<>>, Lane(q)
    PROVE  /\ Tail(q) \in Seq(Message) /\ Lane(Tail(q))
           /\ Carried(Tail(q)) = Carried(q) \ {Head(q)}
           /\ Head(q) \in Carried(q) /\ Head(q) \in Message
           /\ Kind(Head(q)) = "request" => ~Has(Carried(q), "free")
           /\ \A m \in Carried(q) : Kind(m) = Kind(Head(q)) => m = Head(q)
<1> DEFINE p == Tail(q)
<1>1. /\ Len(q) \in Nat \ {0} /\ Len(p) = Len(q) - 1 /\ Head(q) = q[1] /\ p \in Seq(Message)
      /\ \A i \in 1..Len(p) : p[i] = q[i + 1]
  BY HeadTailProperties, EmptySeq
<1> HIDE DEF p
<1>2. /\ \A i \in 1..Len(q) : i = 1 \/ (i - 1 \in 1..Len(p) /\ p[i - 1] = q[i])
      /\ \A i \in 1..Len(p) : i + 1 \in 1..Len(q) /\ i + 1 # 1
      /\ 1 \in 1..Len(q)
  BY <1>1
<1>3. \A i \in 2..Len(q) : Kind(q[i]) # Kind(q[1])
  BY <1>1, <1>2 DEF Lane
<1>4. Carried(p) = Carried(q) \ {Head(q)}
  <2>1. ASSUME NEW m \in Carried(p) PROVE m \in Carried(q) \ {Head(q)}
    <3>1. PICK i \in 1..Len(p) : m = p[i]
      BY DEF Carried
    <3>2. i + 1 \in 2..Len(q) /\ m = q[i + 1]
      BY <1>1, <1>2, <3>1
    <3>3. m # q[1] /\ m \in Carried(q)
      BY <1>3, <3>2 DEF Carried
    <3>4. QED
      BY <1>1, <3>3
  <2>2. ASSUME NEW m \in Carried(q) \ {Head(q)} PROVE m \in Carried(p)
    <3>1. PICK i \in 1..Len(q) : m = q[i]
      BY DEF Carried
    <3>2. i # 1
      BY <1>1, <3>1
    <3>3. QED
      BY <1>2, <3>1, <3>2 DEF Carried
  <2>3. QED
    BY <2>1, <2>2
<1>5. Lane(p)
  <2>1. ASSUME NEW i \in 1..Len(p), NEW j \in 1..Len(p), Kind(p[i]) = Kind(p[j]) PROVE i = j
    <3>1. i + 1 = j + 1
      BY <1>1, <1>2, <2>1 DEF Lane
    <3>2. QED
      BY <3>1
  <2>2. ASSUME NEW i \in 1..Len(p), NEW j \in 1..Len(p),
               Kind(p[i]) = "request", Kind(p[j]) = "free"
        PROVE  j < i
    <3>1. j + 1 < i + 1
      BY <1>1, <1>2, <2>2 DEF Lane
    <3>2. QED
      BY <3>1
  <2>3. QED
    BY <2>1, <2>2 DEF Lane
<1>6. Kind(Head(q)) = "request" => ~Has(Carried(q), "free")
  <2> SUFFICES ASSUME Kind(q[1]) = "request", NEW i \in 1..Len(q), Kind(q[i]) = "free"
               PROVE  FALSE
    BY <1>1 DEF Has, Carried
  <2>1. i < 1
    BY <1>2 DEF Lane
  <2>2. QED
    BY <2>1
<1>7. \A m \in Carried(q) : Kind(m) = Kind(Head(q)) => m = Head(q)
  BY <1>1, <1>2 DEF Lane, Carried
<1>8. Head(q) \in Carried(q) /\ Head(q) \in Message
  BY <1>1, <1>2 DEF Carried
<1>9. QED
  BY <1>1, <1>4, <1>5, <1>6, <1>7, <1>8 DEF p

\* A side that calls: S is what it has on its way, B what comes back, working says that
\* the other side is at its request.  While the call is open the request, the work on
\* it or its response exists, and never two of these; and what asks for nothing is ahead of the first request of
\* a cycle.
CallOK(S, B, call, working, step) ==
    /\ call # Nothing => call.tag = "request"
    /\ working => call # Nothing
    /\ \A m \in S : Kind(m) = "request" => m = call
    /\ \A m \in B : Kind(m) = "response" => call = Request(m.id, m.fn)
    /\ ~(Has(S, "request") /\ working)
    /\ ~(Has(S, "request") /\ Has(B, "response"))
    /\ ~(working /\ Has(B, "response"))
    /\ call # Nothing => Has(S, "request") \/ working \/ Has(B, "response")
    /\ Has(S, "free") => step = 1 /\ (call # Nothing => Has(S, "request"))

LEMMA KindIs ==
    ASSUME NEW m \in Message
    PROVE  /\ (Kind(m) = "request") <=> (m.tag = "request")
           /\ (Kind(m) = "response") <=> (m.tag = "response")
           /\ (Kind(m) = "free") <=> (m.tag \in {"command", "ping"})
<1>1. m.tag \in {"request", "response", "command", "ping"}
  BY DEF Message
<1>2. QED
  BY <1>1 DEF Kind

LEMMA KindsMade ==
    /\ \A m \in Message : Kind(ResponseTo(m)) = "response" /\ ResponseTo(m) \in Message
    /\ \A id, fn :
         /\ Request(id, fn).tag = "request" /\ Kind(Request(id, fn)) = "request"
         /\ Request(id, fn) # Nothing /\ Kind(Command(id, fn)) = "free"
    /\ Kind(Ping) = "free" /\ Nothing.tag = "ping"
<1>1. ASSUME NEW m \in Message
      PROVE  Kind(ResponseTo(m)) = "response" /\ ResponseTo(m) \in Message
  BY ResponseIsMessage DEF ResponseTo, Kind
<1>2. ASSUME NEW id, NEW fn
      PROVE  /\ Request(id, fn).tag = "request" /\ Kind(Request(id, fn)) = "request"
             /\ Request(id, fn) # Nothing /\ Kind(Command(id, fn)) = "free"
  <2>1. Request(id, fn).tag = "request" /\ Command(id, fn).tag = "command"
    BY DEF Request, Command
  <2>2. Nothing.tag = "ping"
    BY DEF Ping, Nothing
  <2>3. QED
    BY <2>1, <2>2 DEF Kind
<1>3. Kind(Ping) = "free" /\ Nothing.tag = "ping"
  BY DEF Kind, Ping, Nothing
<1>4. QED
  BY <1>1, <1>2, <1>3

\* Taking another message than its request or its response keeps a call in order.
LEMMA CallTake ==
    ASSUME NEW S, NEW B, NEW call, NEW working, NEW step, CallOK(S, B, call, working, step),
           NEW m \in S, Kind(m) # "request"
    PROVE  CallOK(S \ {m}, B, call, working, step)
<1>1. \A k : Has(S \ {m}, k) => Has(S, k)
  BY DEF Has
<1>2. Has(S, "request") => Has(S \ {m}, "request")
  BY DEF Has
<1>3. Has(S \ {m}, "free") => step = 1 /\ (call # Nothing => Has(S \ {m}, "request"))
  BY <1>1, <1>2 DEF CallOK
<1>4. QED
  BY <1>1, <1>2, <1>3 DEF CallOK

LEMMA CallTakeBack ==
    ASSUME NEW S, NEW B, NEW call, NEW working, NEW step, CallOK(S, B, call, working, step),
           NEW m \in B, Kind(m) # "response"
    PROVE  CallOK(S, B \ {m}, call, working, step)
<1>1. Has(B \ {m}, "response") <=> Has(B, "response")
  BY DEF Has
<1>2. QED
  BY <1>1 DEF CallOK

\* What does not belong to the call comes into either direction.
LEMMA CallBeside ==
    ASSUME NEW S, NEW B, NEW call, NEW working, NEW step, CallOK(S, B, call, working, step),
           NEW m
    PROVE  /\ Kind(m) = "response" => CallOK(S \cup {m}, B, call, working, step)
           /\ Kind(m) # "response" => CallOK(S, B \cup {m}, call, working, step)
<1>1. CASE Kind(m) = "response"
  <2>1. \A k : k # "response" => (Has(S \cup {m}, k) <=> Has(S, k))
    BY <1>1 DEF Has
  <2>2. QED
    BY <1>1, <2>1 DEF CallOK
<1>2. CASE Kind(m) # "response"
  <2>1. Has(B \cup {m}, "response") <=> Has(B, "response")
    BY <1>2 DEF Has
  <2>2. QED
    BY <1>2, <2>1 DEF CallOK
<1>3. QED
  BY <1>1, <1>2

\* A call begins.
LEMMA CallBegins ==
    ASSUME NEW S \in SUBSET Message, NEW B \in SUBSET Message, NEW step,
           CallOK(S, B, Nothing, FALSE, step),
           NEW r \in Message, r.tag = "request"
    PROVE  /\ ~Has(S, "request") /\ ~Has(B, "response")
           /\ CallOK(S \cup {r}, B, r, FALSE, step)
<1>1. ~Has(S, "request")
  BY KindIs, KindsMade DEF CallOK, Has
<1>2. ~Has(B, "response")
  BY KindIs, KindsMade DEF CallOK, Has, Request, Message
<1>3. Has(S \cup {r}, "request") /\ (Has(S \cup {r}, "free") => Has(S, "free"))
  BY KindIs, KindsMade DEF Has
<1>4. \A m \in S \cup {r} : Kind(m) = "request" => m = r
  BY <1>1 DEF Has
<1>5. \A m \in B : Kind(m) # "response"
  BY <1>2 DEF Has
<1>6. QED
  BY <1>1, <1>2, <1>3, <1>4, <1>5 DEF CallOK

\* A message that asks for nothing ends a cycle, or begins the first one.
LEMMA CallFree ==
    ASSUME NEW S \in SUBSET Message, NEW B \in SUBSET Message, NEW step,
           CallOK(S, B, Nothing, FALSE, step),
           NEW m, Kind(m) = "free"
    PROVE  ~Has(S, "request") /\ CallOK(S \cup {m}, B, Nothing, FALSE, 1)
<1>1. ~Has(S, "request")
  BY KindIs, KindsMade DEF CallOK, Has
<1>2. ~Has(S \cup {m}, "request")
  BY <1>1 DEF Has
<1>3. \A x \in S \cup {m} : Kind(x) # "request"
  BY <1>2 DEF Has
<1>4. QED
  BY <1>1, <1>2, <1>3 DEF CallOK

\* The other side takes the request,
LEMMA CallTaken ==
    ASSUME NEW S \in SUBSET Message, NEW B \in SUBSET Message, NEW call, NEW step,
           CallOK(S, B, call, FALSE, step),
           NEW r \in S, Kind(r) = "request", ~Has(S, "free")
    PROVE  /\ r = call /\ call # Nothing /\ ~Has(B, "response")
           /\ CallOK(S \ {r}, B, call, TRUE, step)
<1>1. r = call /\ Has(S, "request") /\ call # Nothing
  BY KindIs, KindsMade DEF CallOK, Has
<1>2. ~Has(B, "response")
  BY <1>1 DEF CallOK
<1>3. ~Has(S \ {r}, "request") /\ ~Has(S \ {r}, "free")
  BY <1>1 DEF CallOK, Has
<1>4. QED
  BY <1>1, <1>2, <1>3 DEF CallOK

\* and sends the response, which is that of the call.
LEMMA CallServed ==
    ASSUME NEW S \in SUBSET Message, NEW B \in SUBSET Message, NEW call \in Message, NEW step,
           CallOK(S, B, call, TRUE, step)
    PROVE  /\ ~Has(B, "response")
           /\ CallOK(S, B \cup {ResponseTo(call)}, call, FALSE, step)
<1>1. call = Request(call.id, call.fn) /\ call # Nothing
  BY DEF CallOK, Message, Request
<1>2. ~Has(S, "request") /\ ~Has(B, "response")
  BY DEF CallOK
<1>3. ResponseTo(call).id = call.id /\ ResponseTo(call).fn = call.fn
  BY DEF ResponseTo
<1>4. \A m \in B \cup {ResponseTo(call)} : Kind(m) = "response" => call = Request(m.id, m.fn)
  BY <1>1, <1>3 DEF CallOK
<1>5. Has(B \cup {ResponseTo(call)}, "response")
  BY KindsMade DEF Has
<1>6. QED
  BY <1>1, <1>2, <1>4, <1>5 DEF CallOK

\* The caller takes the response: nothing of the call is left, and nothing is ahead
\* of the next one.
LEMMA CallReturned ==
    ASSUME NEW S \in SUBSET Message, NEW B \in SUBSET Message, NEW call, NEW working, NEW step,
           CallOK(S, B, call, working, step),
           NEW r \in B, Kind(r) = "response",
           \A m \in B : Kind(m) = Kind(r) => m = r, NEW next
    PROVE  /\ call = Request(r.id, r.fn) /\ call # Nothing
           /\ CallOK(S, B \ {r}, Nothing, FALSE, next)
<1>1. call = Request(r.id, r.fn) /\ Has(B, "response")
  BY DEF CallOK, Has
<1>2. call # Nothing
  BY <1>1 DEF Request, Nothing, Ping
<1>3. ~Has(S, "request")
  BY <1>1 DEF CallOK
<1>4. ~Has(S, "free")
  BY <1>2, <1>3 DEF CallOK
<1>5. ~Has(B \ {r}, "response") /\ \A m \in S : Kind(m) # "request"
  BY <1>3 DEF Has
<1>6. \A m \in B \ {r} : Kind(m) # "response"
  BY <1>5 DEF Has
<1>7. QED
  BY <1>1, <1>2, <1>3, <1>4, <1>5, <1>6 DEF CallOK

LinuxCallOK == CallOK(Carried(ToR5), Carried(ToLinux), lCall, FALSE, lStep)
R5CallOK == CallOK(Carried(ToLinux), Carried(ToR5), rCall, lpc = "burn", rStep)

\* No call has failed; a call is open in the wait loops, and in no resend.
Calm ==
    /\ lOutcome # "failed" /\ rOutcome # "failed"
    /\ rpc \in {"off", "loop", "demo", "wait"}
    /\ rCall # Nothing <=> rpc = "wait"
    /\ rpc \in {"off", "loop"} => rStep = 1
    /\ rpc = "demo" => remoteEndPt # NoEndPt
    /\ lCall # Nothing <=> lpc = "wait" \/ (lpc = "burn" /\ lBack = "wait")
    /\ lpc = "drain" \/ (lpc = "burn" /\ lBack = "drain") => lStep = 1
    /\ lpc = "burn" => lServing = rCall
    /\ lCall # Nothing => lCall.fn \in R5Functions
    /\ rCall # Nothing => rCall.fn \in LinuxFunctions

\* There is one endpoint, and the R5 answers it once it has read its ping.
Acquainted ==
    /\ endpt # NoEndPt <=> attached
    /\ ~attached => lpc = "drain" /\ toR5 = <<>> /\ pingResolved = FALSE
    /\ pingResolved = FALSE =>
        /\ remoteEndPt = NoEndPt /\ vring = <<>> /\ inbox = <<>> /\ rpc \in {"off", "loop"}
        /\ attached => toR5 # <<>> /\ Head(toR5).msg.tag = "ping"
    /\ remoteEndPt \in {NoEndPt, endpt}
    /\ \A i \in 1..Len(toR5) : toR5[i].src = endpt
    /\ \A i \in 1..Len(vring) : vring[i].dst = endpt

\* All of it, without and with the types.
Flow == Calm /\ Acquainted /\ Lane(ToR5) /\ Lane(ToLinux) /\ LinuxCallOK /\ R5CallOK
FlowInv ==
    /\ TInv /\ Calm /\ Acquainted
    /\ Lane(ToR5) /\ Lane(ToLinux) /\ LinuxCallOK /\ R5CallOK

\* The two ways as sequences of messages.
LEMMA WaysTyped ==
    ASSUME TInv
    PROVE  /\ ToR5 \in Seq(Message) /\ Len(ToR5) = Len(toR5)
           /\ ToLinux \in Seq(Message) /\ Msgs(vring) \in Seq(Message) /\ inbox \in Seq(Message)
           /\ Len(ToLinux) = Len(inbox) + Len(vring)
           /\ Len(inbox) \in Nat /\ Len(vring) \in Nat
           /\ Carried(ToR5) \in SUBSET Message /\ Carried(ToLinux) \in SUBSET Message
<1> DEFINE A == [src : EndPts, msg : Message]
           B == [dst : EndPts, msg : Message]
<1>1. toR5 \in Seq(A) /\ vring \in Seq(B) /\ inbox \in Seq(Message)
  BY DEF TInv, TypeOK
<1>2. (\A x \in A : x.msg \in Message) /\ (\A x \in B : x.msg \in Message)
  OBVIOUS
<1> HIDE DEF A, B
<1>3. Msgs(toR5) \in Seq(Message) /\ Msgs(vring) \in Seq(Message)
  BY <1>1, <1>2, MsgsOf
<1>4. Len(Msgs(toR5)) = Len(toR5) /\ Len(Msgs(vring)) = Len(vring)
  BY <1>1 DEF Msgs
<1>5. ToLinux \in Seq(Message) /\ Len(ToLinux) = Len(inbox) + Len(vring)
  <2>1. /\ inbox \o Msgs(vring) \in Seq(Message)
        /\ Len(inbox \o Msgs(vring)) = Len(inbox) + Len(Msgs(vring))
    BY <1>1, <1>3
  <2>2. QED
    BY <1>4, <2>1 DEF ToLinux
<1>6. \A q \in Seq(Message) : Carried(q) \in SUBSET Message
  BY DEF Carried
<1>7. QED
  BY <1>1, <1>3, <1>4, <1>5, <1>6, LenProperties DEF ToR5

\* The head of a sequence, and what the rest is.
LEMMA FirstOf ==
    ASSUME NEW S, NEW q \in Seq(S), q # <<>>
    PROVE  /\ Head(q) \in S /\ Head(q) = q[1] /\ 1 \in 1..Len(q)
           /\ \A i \in 1..Len(Tail(q)) : i + 1 \in 1..Len(q) /\ Tail(q)[i] = q[i + 1]
<1>1. Len(q) \in Nat \ {0} /\ Head(q) \in S /\ Head(q) = q[1] /\ Len(Tail(q)) = Len(q) - 1
  BY HeadTailProperties, EmptySeq
<1>2. \A i \in 1..Len(Tail(q)) : Tail(q)[i] = q[i + 1]
  BY HeadTailProperties
<1>3. QED
  BY <1>1, <1>2

\* Writing to the R5,
LEMMA WriteAdds ==
    ASSUME TInv, NEW e \in EndPts, NEW m \in Message,
           toR5' = Append(toR5, [src |-> e, msg |-> m])
    PROVE  ToR5' = Append(ToR5, m)
<1> DEFINE A == [src : EndPts, msg : Message]
<1>1. toR5 \in Seq(A) /\ [src |-> e, msg |-> m] \in A /\ [src |-> e, msg |-> m].msg = m
  BY DEF TInv, TypeOK
<1>2. \A x \in A : x.msg \in Message
  OBVIOUS
<1> HIDE DEF A
<1>3. Msgs(Append(toR5, [src |-> e, msg |-> m])) = Append(Msgs(toR5), m)
  BY <1>1, <1>2, MsgsOf
<1>4. QED
  BY <1>3 DEF ToR5, Msgs

\* sending to Linux,
LEMMA SendAdds ==
    ASSUME TInv, NEW e \in EndPts, NEW m \in Message, Send(e, m), inbox' = inbox
    PROVE  ToLinux' = Append(ToLinux, m)
<1> DEFINE A == [dst : EndPts, msg : Message]
<1>1. vring \in Seq(A) /\ [dst |-> e, msg |-> m] \in A /\ [dst |-> e, msg |-> m].msg = m
  BY DEF TInv, TypeOK
<1>2. \A x \in A : x.msg \in Message
  OBVIOUS
<1>3. vring' = Append(vring, [dst |-> e, msg |-> m])
  BY DEF Send
<1> HIDE DEF A
<1>4. Msgs(vring') = Append(Msgs(vring), m) /\ Msgs(vring) \in Seq(Message)
  BY <1>1, <1>2, <1>3, MsgsOf
<1>5. inbox \in Seq(Message)
  BY DEF TInv, TypeOK
<1>6. inbox \o Append(Msgs(vring), m) = Append(inbox \o Msgs(vring), m)
  BY <1>4, <1>5
<1>7. QED
  BY <1>4, <1>6 DEF ToLinux, Msgs

\* reading from either,
LEMMA R5Takes ==
    ASSUME TInv, R5Reads(Head(toR5))
    PROVE  /\ ToR5 # <<>> /\ Head(ToR5) = Head(toR5).msg /\ ToR5' = Tail(ToR5)
           /\ toR5 # <<>> /\ Head(toR5).msg \in Message /\ Head(toR5).src \in EndPts
           /\ Head(toR5) = toR5[1] /\ 1 \in 1..Len(toR5)
<1> DEFINE A == [src : EndPts, msg : Message]
<1>1. toR5 \in Seq(A) /\ toR5 # <<>> /\ toR5' = Tail(toR5)
  BY DEF R5Reads, TInv, TypeOK
<1>2. \A x \in A : x.msg \in Message /\ x.src \in EndPts
  OBVIOUS
<1>3. Head(toR5) \in A /\ Head(toR5) = toR5[1] /\ 1 \in 1..Len(toR5)
  BY <1>1, FirstOf
<1> HIDE DEF A
<1>4. /\ Msgs(toR5) # <<>> /\ Head(Msgs(toR5)) = Head(toR5).msg
      /\ Msgs(Tail(toR5)) = Tail(Msgs(toR5))
  BY <1>1, <1>2, MsgsOf
<1>5. QED
  BY <1>1, <1>2, <1>3, <1>4 DEF ToR5, Msgs

LEMMA LinuxTakes ==
    ASSUME TInv, LinuxReads(Head(inbox))
    PROVE  /\ ToLinux # <<>> /\ Head(ToLinux) = Head(inbox) /\ ToLinux' = Tail(ToLinux)
           /\ Head(inbox) \in Message
<1>1. inbox \in Seq(Message) /\ inbox # <<>> /\ inbox' = Tail(inbox) /\ vring' = vring
  BY DEF LinuxReads, TInv, TypeOK
<1>2. Msgs(vring) \in Seq(Message)
  BY WaysTyped
<1> DEFINE v == Msgs(vring)
<1>3. ToLinux = inbox \o v /\ ToLinux' = Tail(inbox) \o v
  BY <1>1 DEF ToLinux, Msgs
<1> HIDE DEF v
<1>4. Head(inbox) \in Message /\ Tail(inbox) \in Seq(Message)
  BY <1>1, HeadTail
<1>5. inbox \o v # <<>> /\ Head(inbox \o v) = Head(inbox) /\ Tail(inbox \o v) = Tail(inbox) \o v
  BY <1>1, <1>2, <1>4 DEF v
<1>6. QED
  BY <1>3, <1>4, <1>5

\* and what the kernel does to them: nothing.
LEMMA KernelKeeps ==
    ASSUME TInv, Acquainted, KernelDelivers
    PROVE  ToLinux' = ToLinux /\ \A i \in 1..Len(vring') : vring'[i].dst = endpt
<1> DEFINE A == [dst : EndPts, msg : Message]
<1>1. vring \in Seq(A) /\ vring # <<>> /\ inbox \in Seq(Message) /\ vring' = Tail(vring)
  BY DEF KernelDelivers, TInv, TypeOK
<1>2. \A x \in A : x.msg \in Message
  OBVIOUS
<1>3. /\ Head(vring) \in A /\ Head(vring) = vring[1] /\ 1 \in 1..Len(vring)
      /\ \A i \in 1..Len(Tail(vring)) : i + 1 \in 1..Len(vring) /\ Tail(vring)[i] = vring[i + 1]
  BY <1>1, FirstOf
<1> HIDE DEF A
<1>4. attached = TRUE /\ Head(vring).dst = endpt
  BY <1>1, <1>3 DEF Acquainted, TInv, TypeOK
<1>5. inbox' = Append(inbox, Head(vring).msg)
  BY <1>4 DEF KernelDelivers
<1>6. /\ Msgs(vring) # <<>> /\ Head(Msgs(vring)) = Head(vring).msg
      /\ Msgs(Tail(vring)) = Tail(Msgs(vring)) /\ Msgs(vring) \in Seq(Message)
  BY <1>1, <1>2, MsgsOf
<1> DEFINE v == Msgs(vring)
<1>7. ToLinux = inbox \o v /\ ToLinux' = Append(inbox, Head(v)) \o Tail(v)
  BY <1>1, <1>5, <1>6 DEF ToLinux, Msgs
<1>8. v \in Seq(Message) /\ v # <<>>
  BY <1>6
<1> HIDE DEF v
<1>9. Append(inbox, Head(v)) \o Tail(v) = inbox \o v
  <2>1. /\ Len(v) \in Nat \ {0} /\ Head(v) = v[1] /\ Head(v) \in Message /\ Tail(v) \in Seq(Message)
        /\ Len(Tail(v)) = Len(v) - 1 /\ \A i \in 1..Len(v) - 1 : Tail(v)[i] = v[i + 1]
    BY <1>8, HeadTailProperties, EmptySeq
  <2> DEFINE n == Len(inbox)
             a == Append(inbox, Head(v)) \o Tail(v)
             b == inbox \o v
  <2>2. /\ a \in Seq(Message) /\ b \in Seq(Message) /\ n \in Nat
        /\ Len(a) = n + Len(v) /\ Len(b) = n + Len(v)
    BY <1>1, <1>8, <2>1
  <2>3. ASSUME NEW i \in 1..n + Len(v) PROVE a[i] = b[i]
    <3>1. CASE i \in 1..n
      BY <1>1, <1>8, <2>1, <3>1
    <3>2. CASE i = n + 1
      BY <1>1, <1>8, <2>1, <3>2
    <3>3. CASE i \in n + 2 .. n + Len(v)
      <4>1. a[i] = Tail(v)[i - (n + 1)] /\ b[i] = v[i - n]
        BY <1>1, <1>8, <2>1, <3>3
      <4>2. i - (n + 1) \in 1..Len(v) - 1 /\ (i - (n + 1)) + 1 = i - n
        BY <2>1, <2>2, <3>3
      <4>3. QED
        BY <2>1, <4>1, <4>2
    <3>4. QED
      BY <2>1, <2>2, <3>1, <3>2, <3>3
  <2> HIDE DEF a, b, n
  <2>4. a = b
    BY <2>2, <2>3, SeqEqual
  <2>5. QED
    BY <2>4 DEF a, b
<1>10. \A i \in 1..Len(vring') : vring'[i].dst = endpt
  BY <1>1, <1>3 DEF Acquainted
<1>11. QED
  BY <1>7, <1>9, <1>10

\* No process is stopped and no wait cut short; a queue holds three messages.
NoFaults == ~Timeouts /\ ~R5Stops /\ ~LinuxRestarts /\ Capacity >= 3

\* Then both sides may write what is not on its way yet.
LEMMA MayWrite ==
    ASSUME FlowInv, NoFaults, NEW k \in Kinds, ~Has(Carried(ToR5), k), attached
    PROVE  CanWrite
<1>1. Len(ToR5) < 3 /\ Len(ToR5) = Len(toR5)
  BY WaysTyped, LaneRoom DEF FlowInv
<1>2. QED
  BY <1>1, ConstantsAssumption DEF CanWrite, NoFaults

LEMMA MaySend ==
    ASSUME FlowInv, NoFaults, NEW k \in Kinds, ~Has(Carried(ToLinux), k)
    PROVE  CanSend
<1>1. /\ Len(ToLinux) < 3 /\ Len(ToLinux) = Len(inbox) + Len(vring)
      /\ Len(inbox) \in Nat /\ Len(vring) \in Nat
  BY WaysTyped, LaneRoom DEF FlowInv
<1>2. QED
  BY <1>1, ConstantsAssumption DEF CanSend, NoFaults

\* The invariant of the channel after a write and after a send.
LEMMA Written ==
    ASSUME FlowInv, NEW m \in Message, endpt \in EndPts, Write(m),
           ~Has(Carried(ToR5), Kind(m)),
           Kind(m) = "free" => ~Has(Carried(ToR5), "request")
    PROVE  /\ Lane(ToR5') /\ Carried(ToR5') = Carried(ToR5) \cup {m}
           /\ \A i \in 1..Len(toR5') : toR5'[i].src = endpt
           /\ toR5 # <<>> => toR5' # <<>> /\ Head(toR5') = Head(toR5)
<1>1. ToR5' = Append(ToR5, m)
  BY WriteAdds DEF Write, FlowInv
<1>2. Lane(ToR5') /\ Carried(ToR5') = Carried(ToR5) \cup {m}
  BY <1>1, WaysTyped, LaneAppend DEF FlowInv
<1> DEFINE A == [src : EndPts, msg : Message]
           e == [src |-> endpt, msg |-> m]
<1>3. toR5 \in Seq(A) /\ toR5' = Append(toR5, e) /\ e \in A /\ e.src = endpt
  BY DEF FlowInv, TInv, TypeOK, Write
<1> HIDE DEF A, e
<1>4. \A i \in 1..Len(toR5') : (i \in 1..Len(toR5) /\ toR5'[i] = toR5[i]) \/ toR5'[i] = e
  BY <1>3
<1>5. \A i \in 1..Len(toR5') : toR5'[i].src = endpt
  BY <1>3, <1>4 DEF FlowInv, Acquainted
<1>6. toR5 # <<>> => toR5' # <<>> /\ Head(toR5') = Head(toR5)
  BY <1>3
<1>7. QED
  BY <1>2, <1>5, <1>6

LEMMA Sent ==
    ASSUME FlowInv, NEW m \in Message, endpt \in EndPts, Send(endpt, m), inbox' = inbox,
           ~Has(Carried(ToLinux), Kind(m)),
           Kind(m) = "free" => ~Has(Carried(ToLinux), "request")
    PROVE  /\ Lane(ToLinux') /\ Carried(ToLinux') = Carried(ToLinux) \cup {m}
           /\ \A i \in 1..Len(vring') : vring'[i].dst = endpt
<1>1. ToLinux' = Append(ToLinux, m)
  BY SendAdds DEF FlowInv
<1>2. Lane(ToLinux') /\ Carried(ToLinux') = Carried(ToLinux) \cup {m}
  BY <1>1, WaysTyped, LaneAppend DEF FlowInv
<1> DEFINE A == [dst : EndPts, msg : Message]
           e == [dst |-> endpt, msg |-> m]
<1>3. vring \in Seq(A) /\ vring' = Append(vring, e) /\ e \in A /\ e.dst = endpt
  BY DEF FlowInv, TInv, TypeOK, Send
<1> HIDE DEF A, e
<1>4. \A i \in 1..Len(vring') : (i \in 1..Len(vring) /\ vring'[i] = vring[i]) \/ vring'[i] = e
  BY <1>3
<1>5. \A i \in 1..Len(vring') : vring'[i].dst = endpt
  BY <1>3, <1>4 DEF FlowInv, Acquainted
<1>6. QED
  BY <1>2, <1>5

\* What is read is the oldest, the only one of its kind, and no request with something
\* behind it that asks for nothing.
LEMMA R5Got ==
    ASSUME FlowInv, R5Reads(Head(toR5)), NEW m, m = Head(toR5).msg
    PROVE  /\ m \in Carried(ToR5) /\ m \in Message
           /\ Lane(ToR5') /\ Carried(ToR5') = Carried(ToR5) \ {m}
           /\ Kind(m) = "request" => ~Has(Carried(ToR5), "free")
           /\ \A x \in Carried(ToR5) : Kind(x) = Kind(m) => x = m
           /\ Head(toR5).src = endpt /\ endpt \in EndPts /\ attached
           /\ \A i \in 1..Len(toR5') : toR5'[i].src = endpt
           /\ pingResolved = FALSE => m.tag = "ping"
<1>1. /\ ToR5 # <<>> /\ Head(ToR5) = m /\ ToR5' = Tail(ToR5) /\ ToR5 \in Seq(Message)
      /\ Head(toR5) = toR5[1] /\ 1 \in 1..Len(toR5) /\ Head(toR5).src \in EndPts
      /\ toR5 # <<>>
  BY R5Takes, WaysTyped DEF FlowInv
<1>2. /\ m \in Carried(ToR5) /\ m \in Message
      /\ Lane(ToR5') /\ Carried(ToR5') = Carried(ToR5) \ {m}
      /\ Kind(m) = "request" => ~Has(Carried(ToR5), "free")
      /\ \A x \in Carried(ToR5) : Kind(x) = Kind(m) => x = m
  BY <1>1, LaneTail DEF FlowInv
<1>3. Head(toR5).src = endpt /\ attached /\ (pingResolved = FALSE => m.tag = "ping")
  BY <1>1 DEF FlowInv, Acquainted
<1> DEFINE A == [src : EndPts, msg : Message]
<1>4. toR5 \in Seq(A) /\ toR5' = Tail(toR5)
  BY DEF FlowInv, TInv, TypeOK, R5Reads
<1> HIDE DEF A
<1>5. \A i \in 1..Len(toR5') : i + 1 \in 1..Len(toR5) /\ toR5'[i] = toR5[i + 1]
  BY <1>1, <1>4, FirstOf
<1>6. \A i \in 1..Len(toR5') : toR5'[i].src = endpt
  BY <1>5 DEF FlowInv, Acquainted
<1>7. QED
  BY <1>1, <1>2, <1>3, <1>6

LEMMA LinuxGot ==
    ASSUME FlowInv, LinuxReads(Head(inbox)), NEW m, m = Head(inbox)
    PROVE  /\ m \in Carried(ToLinux) /\ m \in Message
           /\ Lane(ToLinux') /\ Carried(ToLinux') = Carried(ToLinux) \ {m}
           /\ Kind(m) = "request" => ~Has(Carried(ToLinux), "free")
           /\ \A x \in Carried(ToLinux) : Kind(x) = Kind(m) => x = m
           /\ pingResolved
<1>1. ToLinux # <<>> /\ Head(ToLinux) = m /\ ToLinux' = Tail(ToLinux) /\ ToLinux \in Seq(Message)
  BY LinuxTakes, WaysTyped DEF FlowInv
<1>2. inbox # <<>> /\ pingResolved
  BY DEF LinuxReads, FlowInv, Acquainted, TInv, TypeOK
<1>3. QED
  BY <1>1, <1>2, LaneTail DEF FlowInv

\* The calls after a step.
LEMMA CallsNow ==
    /\ LinuxCallOK' <=> CallOK(Carried(ToR5'), Carried(ToLinux'), lCall', FALSE, lStep')
    /\ R5CallOK' <=> CallOK(Carried(ToLinux'), Carried(ToR5'), rCall', lpc' = "burn", rStep')
  BY DEF LinuxCallOK, R5CallOK

LEMMA CallsBefore ==
    ASSUME FlowInv
    PROVE  /\ CallOK(Carried(ToR5), Carried(ToLinux), lCall, FALSE, lStep)
           /\ CallOK(Carried(ToLinux), Carried(ToR5), rCall, lpc = "burn", rStep)
           /\ Carried(ToR5) \in SUBSET Message /\ Carried(ToLinux) \in SUBSET Message
           /\ Lane(ToR5) /\ Lane(ToLinux) /\ lCall \in Message /\ rCall \in Message
  BY WaysTyped DEF FlowInv, LinuxCallOK, R5CallOK, TInv, TypeOK

\* What a step does not write to or read from stays.
LEMMA WaysStay ==
    /\ UNCHANGED toR5 => ToR5' = ToR5 /\ Carried(ToR5') = Carried(ToR5)
    /\ UNCHANGED <<vring, inbox>> => ToLinux' = ToLinux /\ Carried(ToLinux') = Carried(ToLinux)
  BY DEF ToR5, ToLinux, Msgs

\* The steps of the client: it connects, drains,
LEMMA ConnectFlows == FlowInv /\ rpmsg_try_connect => Flow'
<1> SUFFICES ASSUME FlowInv, rpmsg_try_connect PROVE Flow'
  OBVIOUS
<1>1. /\ lpc = "drain" /\ endpt = NoEndPt /\ rpc # "off" /\ endpt' \in EndPts /\ attached' = TRUE
      /\ toR5' = Append(toR5, [src |-> endpt', msg |-> Ping])
      /\ UNCHANGED <<lpc, lReqId, lStep, lCount, lCall, lServing, lBack, lOutcome>>
      /\ UNCHANGED <<rpc, remoteEndPt, pingResolved, rReqId, rStep, rCount, rCall, rOutcome,
                     rSentTo, rSend, rBack, vring, inbox>>
  BY DEF rpmsg_try_connect, r5Vars
<1>2. ~attached /\ toR5 = <<>> /\ pingResolved = FALSE /\ remoteEndPt = NoEndPt
      /\ vring = <<>> /\ inbox = <<>> /\ rpc \in {"off", "loop"}
  BY <1>1 DEF FlowInv, Acquainted
<1>3. endpt' # NoEndPt
  BY <1>1, ConstantsAssumption
<1>4. /\ Len(toR5') = 1 /\ toR5'[1] = [src |-> endpt', msg |-> Ping] /\ toR5' # <<>>
      /\ Head(toR5') = [src |-> endpt', msg |-> Ping] /\ Ping.tag = "ping"
  BY <1>1, <1>2 DEF Ping
<1>5. Acquainted'
  BY <1>1, <1>2, <1>3, <1>4 DEF Acquainted
<1>6. Calm'
  BY <1>1 DEF Calm, FlowInv
<1>7. ToR5 = <<>> /\ ToR5' = Append(ToR5, Ping)
  BY <1>1, <1>2, WriteAdds, PingIsMessage DEF FlowInv, ToR5, Msgs
<1>8. Carried(ToR5) = {}
  BY <1>7 DEF Carried
<1>9. Lane(ToR5') /\ Carried(ToR5') = Carried(ToR5) \cup {Ping}
  <2>1. ~Has(Carried(ToR5), Kind(Ping)) /\ ~Has(Carried(ToR5), "request")
    BY <1>8 DEF Has
  <2>2. QED
    BY <1>7, <2>1, CallsBefore, PingIsMessage, WaysTyped, LaneAppend DEF FlowInv
<1>10. Lane(ToLinux') /\ Carried(ToLinux') = Carried(ToLinux)
  BY <1>1, WaysStay, CallsBefore
<1>11. lCall = Nothing /\ rCall = Nothing /\ lStep = 1 /\ lpc # "burn"
  BY <1>1, <1>2 DEF FlowInv, Calm
<1>12. LinuxCallOK'
  BY <1>1, <1>9, <1>10, <1>11, CallsBefore, CallsNow, CallFree, KindsMade
<1>13. R5CallOK'
  <2>1. Carried(ToLinux) = {}
    BY <1>2 DEF ToLinux, Msgs, Carried
  <2>2. Carried(ToR5') = {Ping}
    BY <1>8, <1>9
  <2>3. CallOK({}, {Ping}, Nothing, FALSE, rStep)
    BY KindsMade DEF CallOK, Has
  <2>4. QED
    BY <1>1, <1>10, <1>11, <2>1, <2>2, <2>3, CallsNow
<1>14. QED
  BY <1>5, <1>6, <1>9, <1>10, <1>12, <1>13 DEF Flow

LEMMA DrainedFlows == FlowInv /\ LinuxDrained => Flow'
<1> SUFFICES ASSUME FlowInv, LinuxDrained PROVE Flow'
  OBVIOUS
<1>1. /\ lpc = "drain" /\ lpc' = "demo" /\ endpt # NoEndPt
      /\ UNCHANGED <<endpt, attached, lReqId, lStep, lCall, lServing, lBack, lOutcome>>
      /\ UNCHANGED <<rpc, remoteEndPt, pingResolved, rReqId, rStep, rCount, rCall, rOutcome,
                     rSentTo, rSend, rBack, toR5, vring, inbox>>
  BY DEF LinuxDrained, r5Vars
<1>2. Calm' /\ Acquainted'
  BY <1>1 DEF Calm, Acquainted, FlowInv
<1>3. /\ ToR5' = ToR5 /\ Carried(ToR5') = Carried(ToR5)
      /\ ToLinux' = ToLinux /\ Carried(ToLinux') = Carried(ToLinux)
  BY <1>1, WaysStay
<1>4. (lpc' = "burn") = (lpc = "burn")
  BY <1>1
<1>5. LinuxCallOK' /\ R5CallOK'
  BY <1>1, <1>3, <1>4, CallsBefore, CallsNow
<1>6. QED
  BY <1>2, <1>3, <1>5, CallsBefore DEF Flow

\* takes a request of the R5, or passes over what is not for it,
LEMMA LinuxTakesFlows == FlowInv /\ LinuxTakesRequest => Flow'
<1> SUFFICES ASSUME FlowInv, LinuxTakesRequest PROVE Flow'
  OBVIOUS
<1> DEFINE m == Head(inbox)
<1>1. LinuxReads(m) /\ m.tag = "request"
  BY DEF LinuxTakesRequest
<1>2. /\ m \in Carried(ToLinux) /\ m \in Message
      /\ Lane(ToLinux') /\ Carried(ToLinux') = Carried(ToLinux) \ {m}
      /\ Kind(m) = "request" => ~Has(Carried(ToLinux), "free")
      /\ pingResolved
  BY <1>1, LinuxGot
<1>3. Kind(m) = "request" /\ ~Has(Carried(ToLinux), "free") /\ Has(Carried(ToLinux), "request")
  BY <1>1, <1>2, KindIs DEF Has
<1>4. lpc \in {"drain", "wait"}
  BY <1>1 DEF LinuxReads
<1>5. CallOK(Carried(ToLinux), Carried(ToR5), rCall, FALSE, rStep)
  BY <1>3, <1>4, CallsBefore DEF CallOK
<1>6. /\ m = rCall /\ rCall # Nothing
      /\ CallOK(Carried(ToLinux) \ {m}, Carried(ToR5), rCall, TRUE, rStep)
  BY <1>2, <1>3, <1>5, CallsBefore, CallTaken
<1>7. m.fn \in LinuxFunctions
  BY <1>6 DEF FlowInv, Calm
<1>8. /\ lpc' = "burn" /\ lServing' = m /\ lBack' = lpc
      /\ UNCHANGED <<endpt, attached, lReqId, lStep, lCount, lCall, lOutcome>>
      /\ UNCHANGED <<rpc, remoteEndPt, pingResolved, rReqId, rStep, rCount, rCall, rOutcome,
                     rSentTo, rSend, rBack, toR5, vring>>
  BY <1>7 DEF LinuxTakesRequest, LinuxReads, r5Vars
<1> HIDE DEF m
<1>9. ToR5' = ToR5 /\ Carried(ToR5') = Carried(ToR5)
  BY <1>8, WaysStay
<1>10. R5CallOK'
  <2>1. (lpc' = "burn") = TRUE
    BY <1>8
  <2>2. QED
    BY <1>2, <1>6, <1>8, <1>9, <2>1, CallsNow
<1>11. LinuxCallOK'
  <2>1. CallOK(Carried(ToR5), Carried(ToLinux) \ {m}, lCall, FALSE, lStep)
    BY <1>2, <1>3, CallsBefore, CallTakeBack
  <2>2. QED
    BY <1>2, <1>8, <1>9, <2>1, CallsNow
<1>12. Calm'
  BY <1>4, <1>6, <1>8 DEF Calm, FlowInv
<1>13. Acquainted'
  BY <1>2, <1>8 DEF Acquainted, FlowInv, TInv, TypeOK
<1>14. QED
  BY <1>2, <1>9, <1>10, <1>11, <1>12, <1>13, CallsBefore DEF Flow

LEMMA LinuxSkipsFlows == FlowInv /\ LinuxSkips => Flow'
<1> SUFFICES ASSUME FlowInv, LinuxSkips PROVE Flow'
  OBVIOUS
<1> DEFINE m == Head(inbox)
<1>1. LinuxReads(m) /\ m.tag # "request"
  BY DEF LinuxSkips
<1>2. /\ m \in Carried(ToLinux) /\ m \in Message
      /\ Lane(ToLinux') /\ Carried(ToLinux') = Carried(ToLinux) \ {m}
      /\ Kind(m) = "request" => ~Has(Carried(ToLinux), "free")
      /\ pingResolved
  BY <1>1, LinuxGot
<1>3. /\ UNCHANGED <<endpt, attached, lReqId, lpc, lStep, lCall, lServing, lBack, lOutcome>>
      /\ UNCHANGED <<rpc, remoteEndPt, pingResolved, rReqId, rStep, rCount, rCall, rOutcome,
                     rSentTo, rSend, rBack, toR5, vring>>
      /\ m.tag = "response" => lpc = "drain" \/ m.id # lCall.id
  BY DEF LinuxSkips, LinuxReads, r5Vars
<1>11. Kind(m) # "request" /\ Kind(m) # "response"
  <2>1. Kind(m) # "request" /\ (Kind(m) = "response" <=> m.tag = "response")
    BY <1>1, <1>2, KindIs
  <2>2. ASSUME Kind(m) = "response" PROVE FALSE
    <3>1. lCall = Request(m.id, m.fn)
      BY <1>2, <2>2, CallsBefore DEF CallOK
    <3>2. lCall.id = m.id /\ lCall # Nothing
      BY <3>1, KindsMade DEF Request
    <3>3. lpc # "drain"
      BY <3>2 DEF FlowInv, Calm
    <3>4. QED
      BY <1>3, <2>1, <2>2, <3>2, <3>3
  <2>3. QED
    BY <2>1, <2>2
<1> HIDE DEF m
<1>4. ToR5' = ToR5 /\ Carried(ToR5') = Carried(ToR5)
  BY <1>3, WaysStay
<1>5. CallOK(Carried(ToLinux) \ {m}, Carried(ToR5), rCall, lpc = "burn", rStep)
  BY <1>2, <1>11, CallsBefore, CallTake
<1>6. CallOK(Carried(ToR5), Carried(ToLinux) \ {m}, lCall, FALSE, lStep)
  BY <1>2, <1>11, CallsBefore, CallTakeBack
<1>7. LinuxCallOK' /\ R5CallOK'
  <2>1. (lpc' = "burn") = (lpc = "burn")
    BY <1>3
  <2>2. QED
    BY <1>2, <1>3, <1>4, <1>5, <1>6, <2>1, CallsNow
<1>8. Calm'
  BY <1>3 DEF Calm, FlowInv
<1>9. Acquainted'
  BY <1>2, <1>3 DEF Acquainted, FlowInv, TInv, TypeOK
<1>10. QED
  BY <1>2, <1>4, <1>7, <1>8, <1>9, CallsBefore DEF Flow

\* the response to its call,
LEMMA LinuxGetsFlows == FlowInv /\ LinuxGetsResponse => Flow'
<1> SUFFICES ASSUME FlowInv, LinuxGetsResponse PROVE Flow'
  OBVIOUS
<1> DEFINE m == Head(inbox)
<1>1. LinuxReads(m) /\ m.tag = "response" /\ lpc = "wait"
  BY DEF LinuxGetsResponse
<1>2. /\ m \in Carried(ToLinux) /\ m \in Message
      /\ Lane(ToLinux') /\ Carried(ToLinux') = Carried(ToLinux) \ {m}
      /\ \A x \in Carried(ToLinux) : Kind(x) = Kind(m) => x = m
      /\ pingResolved
  BY <1>1, LinuxGot
<1>3. Kind(m) = "response"
  BY <1>1, <1>2, KindIs
<1>4. /\ lCall = Request(m.id, m.fn) /\ lCall # Nothing
      /\ CallOK(Carried(ToR5), Carried(ToLinux) \ {m}, Nothing, FALSE, lStep')
  BY <1>2, <1>3, CallsBefore, CallReturned
<1>5. m.fn = lCall.fn
  BY <1>4 DEF Request
<1>6. /\ lCall' = Nothing /\ lOutcome' = "answered"
      /\ (lpc' = "demo") \/ (lpc' = "drain" /\ lStep' = 1)
      /\ UNCHANGED <<endpt, attached, lServing, lBack>>
      /\ UNCHANGED <<rpc, remoteEndPt, pingResolved, rReqId, rStep, rCount, rCall, rOutcome,
                     rSentTo, rSend, rBack, toR5, vring>>
  BY <1>4, <1>5
  DEF LinuxGetsResponse, LinuxReads, LinuxCallReturns, LinuxCallOpen, LinuxTop, r5Vars
<1> HIDE DEF m
<1>7. ToR5' = ToR5 /\ Carried(ToR5') = Carried(ToR5)
  BY <1>6, WaysStay
<1>8. LinuxCallOK'
  BY <1>2, <1>4, <1>6, <1>7, CallsNow
<1>9. CallOK(Carried(ToLinux) \ {m}, Carried(ToR5), rCall, lpc = "burn", rStep)
  BY <1>2, <1>3, CallsBefore, CallTake
<1>10. R5CallOK'
  <2>1. (lpc' = "burn") = (lpc = "burn")
    BY <1>1, <1>6
  <2>2. QED
    BY <1>2, <1>6, <1>7, <1>9, <2>1, CallsNow
<1>11. Calm'
  BY <1>1, <1>6 DEF Calm, FlowInv
<1>12. Acquainted'
  BY <1>2, <1>6 DEF Acquainted, FlowInv, TInv, TypeOK
<1>13. QED
  BY <1>2, <1>7, <1>8, <1>10, <1>11, <1>12, CallsBefore DEF Flow

\* Its endpoint is on the channel whenever it is beyond the drain loop.
LEMMA Connected ==
    ASSUME FlowInv, lpc # "drain" \/ endpt # NoEndPt
    PROVE  attached /\ endpt \in EndPts
  BY DEF FlowInv, Acquainted, TInv, TypeOK, ControlOK

\* A step that only writes to the R5, with the client's own variables in order.
LEMMA ClientWrites ==
    ASSUME FlowInv, NEW m \in Message, endpt \in EndPts, Write(m),
           ~Has(Carried(ToR5), Kind(m)),
           Kind(m) = "free" => ~Has(Carried(ToR5), "request"),
           UNCHANGED <<endpt, attached>>, attached,
           UNCHANGED <<rpc, remoteEndPt, pingResolved, vring, inbox>>
    PROVE  /\ Acquainted' /\ Lane(ToR5') /\ Lane(ToLinux')
           /\ Carried(ToR5') = Carried(ToR5) \cup {m}
           /\ Carried(ToLinux') = Carried(ToLinux)
<1>1. /\ Lane(ToR5') /\ Carried(ToR5') = Carried(ToR5) \cup {m}
      /\ \A i \in 1..Len(toR5') : toR5'[i].src = endpt
      /\ toR5 # <<>> => toR5' # <<>> /\ Head(toR5') = Head(toR5)
  BY Written
<1>2. Acquainted'
  BY <1>1 DEF Acquainted, FlowInv
<1>3. Lane(ToLinux') /\ Carried(ToLinux') = Carried(ToLinux)
  BY WaysStay, CallsBefore
<1>4. QED
  BY <1>1, <1>2, <1>3

\* It answers,
LEMMA LinuxSendsFlows == FlowInv /\ NoFaults /\ LinuxSendsResponse => Flow'
<1> SUFFICES ASSUME FlowInv, NoFaults, LinuxSendsResponse PROVE Flow'
  OBVIOUS
<1> DEFINE m == ResponseTo(rCall)
<1>1. lpc = "burn" /\ lServing = rCall /\ lBack \in {"drain", "wait"}
  BY DEF LinuxSendsResponse, FlowInv, Calm, TInv, TypeOK
<1>2. attached /\ endpt \in EndPts
  BY <1>1, Connected
<1>3. CallOK(Carried(ToLinux), Carried(ToR5), rCall, TRUE, rStep)
  <2>1. (lpc = "burn") = TRUE
    BY <1>1
  <2>2. QED
    BY <2>1, CallsBefore
<1>4. /\ ~Has(Carried(ToR5), "response")
      /\ CallOK(Carried(ToLinux), Carried(ToR5) \cup {m}, rCall, FALSE, rStep)
  BY <1>3, CallsBefore, CallServed
<1>5. m \in Message /\ Kind(m) = "response"
  BY CallsBefore, KindsMade
<1>6. CanWrite
  BY <1>2, <1>4, MayWrite DEF Kinds
<1>7. /\ Write(m) /\ lpc' = lBack /\ lServing' = Nothing /\ lBack' = "drain"
      /\ UNCHANGED <<endpt, attached, lStep, lCall, lOutcome, inbox>>
      /\ UNCHANGED <<rpc, remoteEndPt, pingResolved, rReqId, rStep, rCount, rCall, rOutcome,
                     rSentTo, rSend, rBack, vring>>
  BY <1>1, <1>2, <1>6 DEF LinuxSendsResponse, DropDeadEndpoint, r5Vars
<1> HIDE DEF m
<1>8. /\ Acquainted' /\ Lane(ToR5') /\ Lane(ToLinux')
      /\ Carried(ToR5') = Carried(ToR5) \cup {m}
      /\ Carried(ToLinux') = Carried(ToLinux)
  BY <1>2, <1>4, <1>5, <1>7, ClientWrites
<1>9. R5CallOK'
  <2>1. (lpc' = "burn") = FALSE
    BY <1>1, <1>7
  <2>2. QED
    BY <1>4, <1>7, <1>8, <2>1, CallsNow
<1>10. LinuxCallOK'
  <2>1. CallOK(Carried(ToR5) \cup {m}, Carried(ToLinux), lCall, FALSE, lStep)
    BY <1>5, CallsBefore, CallBeside
  <2>2. QED
    BY <1>7, <1>8, <2>1, CallsNow
<1>11. Calm'
  BY <1>1, <1>7 DEF Calm, FlowInv
<1>12. QED
  BY <1>8, <1>9, <1>10, <1>11 DEF Flow

\* calls, and ends its cycle with a command.
LEMMA LinuxCallsFlows == FlowInv /\ NoFaults /\ LinuxCalls => Flow'
<1> SUFFICES ASSUME FlowInv, NoFaults, LinuxCalls PROVE Flow'
  OBVIOUS
<1> DEFINE r == Request(lReqId, LinuxDemo[lStep])
<1>1. lpc = "demo" /\ lStep < 4 /\ lStep \in 1..4 /\ lReqId \in Ids
  BY DemoFunctions DEF LinuxCalls, FlowInv, TInv, TypeOK
<1>2. attached /\ endpt \in EndPts
  BY <1>1, Connected
<1>3. r \in Message /\ r.tag = "request" /\ Kind(r) = "request" /\ r # Nothing
  BY <1>1, MadeMessages, DemoFunctions, KindsMade
<1>4. lCall = Nothing
  BY <1>1 DEF FlowInv, Calm
<1>5. CallOK(Carried(ToR5), Carried(ToLinux), Nothing, FALSE, lStep)
  BY <1>4, CallsBefore
<1>14. r.fn \in R5Functions
  <2>1. /\ LinuxDemo[1] \in R5Functions /\ LinuxDemo[2] \in R5Functions
        /\ LinuxDemo[3] \in R5Functions /\ lStep \in {1, 2, 3}
    BY <1>1 DEF LinuxDemo, R5Functions
  <2>2. r.fn = LinuxDemo[lStep]
    BY DEF Request
  <2>3. QED
    BY <2>1, <2>2
<1> HIDE DEF r
<1>6. /\ ~Has(Carried(ToR5), "request")
      /\ CallOK(Carried(ToR5) \cup {r}, Carried(ToLinux), r, FALSE, lStep)
  BY <1>3, <1>5, CallsBefore, CallBegins
<1>7. CanWrite
  BY <1>2, <1>6, MayWrite DEF Kinds
<1>8. /\ Write(r) /\ lCall' = r /\ lpc' = "wait"
      /\ UNCHANGED <<endpt, attached, lStep, lServing, lBack, lOutcome, inbox>>
      /\ UNCHANGED <<rpc, remoteEndPt, pingResolved, rReqId, rStep, rCount, rCall, rOutcome,
                     rSentTo, rSend, rBack, vring>>
  BY <1>2, <1>7 DEF LinuxCalls, DropDeadEndpoint, r5Vars, r, Write
<1>9. /\ Acquainted' /\ Lane(ToR5') /\ Lane(ToLinux')
      /\ Carried(ToR5') = Carried(ToR5) \cup {r}
      /\ Carried(ToLinux') = Carried(ToLinux)
  BY <1>2, <1>3, <1>6, <1>8, ClientWrites
<1>10. LinuxCallOK'
  BY <1>6, <1>8, <1>9, CallsNow
<1>11. R5CallOK'
  <2>1. CallOK(Carried(ToLinux), Carried(ToR5) \cup {r}, rCall, lpc = "burn", rStep)
    BY <1>3, CallsBefore, CallBeside
  <2>2. (lpc' = "burn") = (lpc = "burn")
    BY <1>1, <1>8
  <2>3. QED
    BY <1>8, <1>9, <2>1, <2>2, CallsNow
<1>12. Calm'
  BY <1>1, <1>3, <1>8, <1>14 DEF Calm, FlowInv
<1>13. QED
  BY <1>9, <1>10, <1>11, <1>12 DEF Flow

LEMMA LinuxCommandsFlows == FlowInv /\ NoFaults /\ LinuxCommands => Flow'
<1> SUFFICES ASSUME FlowInv, NoFaults, LinuxCommands PROVE Flow'
  OBVIOUS
<1> DEFINE m == Command(lReqId, LinuxDemo[lStep])
<1>1. lpc = "demo" /\ lStep = 4 /\ lStep \in 1..4 /\ lReqId \in Ids
  BY DemoFunctions DEF LinuxCommands, FlowInv, TInv, TypeOK
<1>2. attached /\ endpt \in EndPts
  BY <1>1, Connected
<1>3. m \in Message /\ Kind(m) = "free"
  BY <1>1, MadeMessages, DemoFunctions, KindsMade
<1>4. lCall = Nothing
  BY <1>1 DEF FlowInv, Calm
<1>5. /\ CallOK(Carried(ToR5), Carried(ToLinux), Nothing, FALSE, lStep)
      /\ ~Has(Carried(ToR5), "free")
  BY <1>1, <1>4, CallsBefore DEF CallOK
<1> HIDE DEF m
<1>6. /\ ~Has(Carried(ToR5), "request")
      /\ CallOK(Carried(ToR5) \cup {m}, Carried(ToLinux), Nothing, FALSE, 1)
  BY <1>3, <1>5, CallsBefore, CallFree
<1>7. CanWrite
  BY <1>2, <1>5, MayWrite DEF Kinds
<1>8. /\ Write(m) /\ lpc' = "drain" /\ lStep' = 1
      /\ UNCHANGED <<endpt, attached, lCall, lServing, lBack, lOutcome, inbox>>
      /\ UNCHANGED <<rpc, remoteEndPt, pingResolved, rReqId, rStep, rCount, rCall, rOutcome,
                     rSentTo, rSend, rBack, vring>>
  BY <1>2, <1>7 DEF LinuxCommands, DropDeadEndpoint, LinuxTop, r5Vars, m
<1>9. /\ Acquainted' /\ Lane(ToR5') /\ Lane(ToLinux')
      /\ Carried(ToR5') = Carried(ToR5) \cup {m}
      /\ Carried(ToLinux') = Carried(ToLinux)
  BY <1>2, <1>3, <1>5, <1>6, <1>8, ClientWrites
<1>10. LinuxCallOK'
  BY <1>4, <1>6, <1>8, <1>9, CallsNow
<1>11. R5CallOK'
  <2>1. CallOK(Carried(ToLinux), Carried(ToR5) \cup {m}, rCall, lpc = "burn", rStep)
    BY <1>3, CallsBefore, CallBeside
  <2>2. (lpc' = "burn") = (lpc = "burn")
    BY <1>1, <1>8
  <2>3. QED
    BY <1>8, <1>9, <2>1, <2>2, CallsNow
<1>12. Calm'
  BY <1>1, <1>4, <1>8 DEF Calm, FlowInv
<1>13. QED
  BY <1>9, <1>10, <1>11, <1>12 DEF Flow

LEMMA LinuxFlows == FlowInv /\ NoFaults /\ LinuxStep => Flow'
<1>1. ~(FlowInv /\ LinuxReadFails)
  BY DEF FlowInv, Acquainted, LinuxReadFails
<1>2. ~(NoFaults /\ LinuxTimesOut)
  BY DEF NoFaults, LinuxTimesOut
<1>3. QED
  BY <1>1, <1>2, ConnectFlows, DrainedFlows, LinuxTakesFlows, LinuxSkipsFlows,
       LinuxGetsFlows,
     LinuxSendsFlows, LinuxCallsFlows, LinuxCommandsFlows, Zenon
  DEF LinuxStep

\* What the R5 reads makes the endpoint its peer, and leaves Linux alone.
LEMMA R5Learns ==
    ASSUME FlowInv, R5Reads(Head(toR5)), LearnPeer(Head(toR5)), pingResolved' = TRUE,
           \A i \in 1..Len(vring') : vring'[i].dst = endpt
    PROVE  Acquainted'
<1>1. /\ Head(toR5).src = endpt /\ endpt \in EndPts /\ attached
      /\ \A i \in 1..Len(toR5') : toR5'[i].src = endpt
  BY R5Got
<1>2. UNCHANGED <<endpt, attached, lpc>> /\ remoteEndPt' = endpt
  BY <1>1 DEF R5Reads, LearnPeer, linuxVars
<1>3. QED
  BY <1>1, <1>2 DEF Acquainted, FlowInv

LEMMA R5TakesFlows == FlowInv /\ NoFaults /\ R5TakesRequest => Flow'
<1> SUFFICES ASSUME FlowInv, NoFaults, R5TakesRequest PROVE Flow'
  OBVIOUS
<1> DEFINE e == Head(toR5)
           m == Head(toR5).msg
<1>1. R5Reads(e) /\ LearnPeer(e) /\ m.tag = "request" /\ pingResolved' = pingResolved
  BY DEF R5TakesRequest
<1>2. /\ m \in Carried(ToR5) /\ m \in Message
      /\ Lane(ToR5') /\ Carried(ToR5') = Carried(ToR5) \ {m}
      /\ Kind(m) = "request" => ~Has(Carried(ToR5), "free")
      /\ e.src = endpt /\ endpt \in EndPts /\ attached
      /\ pingResolved = FALSE => m.tag = "ping"
  BY <1>1, R5Got
<1>3. Kind(m) = "request" /\ pingResolved' = TRUE
  BY <1>1, <1>2, KindIs DEF FlowInv, TInv, TypeOK
<1>4. /\ m = lCall /\ ~Has(Carried(ToLinux), "response")
      /\ CallOK(Carried(ToR5) \ {m}, Carried(ToLinux), lCall, TRUE, lStep)
  BY <1>2, <1>3, CallsBefore, CallTaken
<1>5. CanSend
  BY <1>4, MaySend DEF Kinds
<1>6. CallOK(Carried(ToLinux), Carried(ToR5) \ {m}, rCall, lpc = "burn", rStep)
  BY <1>2, <1>3, CallsBefore, CallTakeBack
<1>7. /\ UNCHANGED <<lpc, endpt, attached, lStep, lCall, lServing, lBack, lOutcome, inbox>>
      /\ UNCHANGED <<rpc, rStep, rCall, rOutcome>>
      /\ remoteEndPt' = endpt
  BY <1>2, <1>5 DEF R5TakesRequest, R5Reads, LearnPeer, linuxVars
<1>8. Calm'
  BY <1>1, <1>2, <1>7, ConstantsAssumption DEF Calm, FlowInv
<1>9. (lpc' = "burn") = (lpc = "burn")
  BY <1>7
<1>10. m.fn \in R5Functions
  BY <1>4, CallsBefore DEF FlowInv, Calm, CallOK
<1>11. Flow'
  <2> DEFINE a == ResponseTo(m)
  <2>1. Send(endpt, a)
    BY <1>2, <1>5, <1>10 DEF R5TakesRequest
  <2>2. a \in Message /\ Kind(a) = "response"
    BY <1>2, KindsMade
  <2> HIDE DEF e, m, a
  <2>3. /\ Lane(ToLinux') /\ Carried(ToLinux') = Carried(ToLinux) \cup {a}
        /\ \A i \in 1..Len(vring') : vring'[i].dst = endpt
    BY <1>2, <1>4, <1>7, <2>1, <2>2, Sent
  <2>4. CallOK(Carried(ToR5) \ {m}, Carried(ToLinux) \cup {a}, lCall, FALSE, lStep)
    <3>1. (Carried(ToR5) \ {m}) \in SUBSET Message
      BY CallsBefore
    <3>2. QED
      BY <1>4, <3>1, CallsBefore, CallServed DEF a
  <2>5. LinuxCallOK'
    BY <1>2, <1>7, <2>3, <2>4, CallsNow
  <2>6. CallOK(Carried(ToLinux) \cup {a}, Carried(ToR5) \ {m}, rCall, lpc = "burn", rStep)
    BY <1>6, <2>2, CallBeside
  <2>7. R5CallOK'
    BY <1>2, <1>7, <1>9, <2>3, <2>6, CallsNow
  <2>8. Acquainted'
    BY <1>1, <1>3, <2>3, R5Learns DEF e
  <2>9. QED
    BY <1>2, <1>8, <2>3, <2>5, <2>7, <2>8 DEF Flow
<1>12. QED
  BY <1>11

\* A message that is neither a request nor the response to the R5's call.
LEMMA R5Passes ==
    ASSUME FlowInv, R5Reads(Head(toR5)), LearnPeer(Head(toR5)), pingResolved' = TRUE,
           Head(toR5).msg.tag \notin {"request", "response"},
           UNCHANGED <<rpc, rStep, rCall, rOutcome, vring>>
    PROVE  Flow'
<1> DEFINE m == Head(toR5).msg
<1>1. /\ m \in Carried(ToR5) /\ m \in Message
      /\ Lane(ToR5') /\ Carried(ToR5') = Carried(ToR5) \ {m}
      /\ Head(toR5).src = endpt /\ endpt \in EndPts
  BY R5Got
<1>2. Kind(m) # "request" /\ Kind(m) # "response"
  BY <1>1, KindIs
<1>3. /\ UNCHANGED <<lpc, endpt, attached, lStep, lCall, lServing, lBack, lOutcome, inbox>>
      /\ remoteEndPt' = endpt
  BY <1>1 DEF R5Reads, LearnPeer, linuxVars
<1>4. Calm'
  BY <1>1, <1>3, ConstantsAssumption DEF Calm, FlowInv
<1>5. \A i \in 1..Len(vring') : vring'[i].dst = endpt
  BY DEF FlowInv, Acquainted
<1>6. Acquainted'
  BY <1>5, R5Learns
<1> HIDE DEF m
<1>7. Lane(ToLinux') /\ Carried(ToLinux') = Carried(ToLinux)
  BY <1>3, WaysStay, CallsBefore
<1>8. CallOK(Carried(ToR5) \ {m}, Carried(ToLinux), lCall, FALSE, lStep)
  BY <1>1, <1>2, CallsBefore, CallTake
<1>9. CallOK(Carried(ToLinux), Carried(ToR5) \ {m}, rCall, lpc = "burn", rStep)
  BY <1>1, <1>2, CallsBefore, CallTakeBack
<1>10. (lpc' = "burn") = (lpc = "burn")
  BY <1>3
<1>11. LinuxCallOK' /\ R5CallOK'
  BY <1>1, <1>3, <1>7, <1>8, <1>9, <1>10, CallsNow
<1>12. QED
  BY <1>1, <1>4, <1>6, <1>7, <1>11 DEF Flow

\* The first ping is answered, on an empty way back.
LEMMA R5PingFlows == FlowInv /\ NoFaults /\ R5TakesPing => Flow'
<1> SUFFICES ASSUME FlowInv, NoFaults, R5TakesPing PROVE Flow'
  OBVIOUS
<1> DEFINE e == Head(toR5)
           m == Head(toR5).msg
<1>1. /\ R5Reads(e) /\ m.tag = "ping"
      /\ UNCHANGED <<rpc, rStep, rCall, rOutcome>>
  BY DEF R5TakesPing
<1>2. /\ m \in Carried(ToR5) /\ m \in Message
      /\ Lane(ToR5') /\ Carried(ToR5') = Carried(ToR5) \ {m}
      /\ e.src = endpt /\ endpt \in EndPts /\ attached
  BY <1>1, R5Got
<1>3. Kind(m) = "free" /\ pingResolved \in BOOLEAN
  BY <1>1, <1>2, KindIs DEF FlowInv, TInv, TypeOK
<1>4. CASE pingResolved = TRUE
  <2>1. LearnPeer(e) /\ pingResolved' = TRUE /\ UNCHANGED vring
    BY <1>4, Zenon DEF R5TakesPing
  <2>2. m.tag \notin {"request", "response"}
    BY <1>1
  <2>3. QED
    BY <1>1, <2>1, <2>2, R5Passes
<1>5. CASE pingResolved = FALSE
  <2>1. vring = <<>> /\ inbox = <<>> /\ rpc \in {"off", "loop"}
    BY <1>5 DEF FlowInv, Acquainted
  <2>2. rCall = Nothing /\ rStep = 1
    BY <2>1 DEF FlowInv, Calm
  <2>3. Carried(ToLinux) = {}
    BY <2>1 DEF ToLinux, Msgs, Carried
  <2>4. ~Has(Carried(ToLinux), "free") /\ ~Has(Carried(ToLinux), "request")
    BY <2>3 DEF Has
  <2>5. CanSend
    BY <2>4, MaySend DEF Kinds
  <2>6. LearnPeer(e) /\ pingResolved' = TRUE /\ Send(e.src, Ping)
    BY <1>5, <2>5, Zenon DEF R5TakesPing
  <2>7. Send(endpt, Ping) /\ Kind(Ping) = "free"
    BY <1>2, <2>6, KindsMade
  <2>8. /\ UNCHANGED <<lpc, endpt, attached, lStep, lCall, lServing, lBack, lOutcome, inbox>>
        /\ remoteEndPt' = endpt
    BY <1>1, <1>2, <2>6 DEF R5Reads, LearnPeer, linuxVars
  <2> HIDE DEF e, m
  <2>9. /\ Lane(ToLinux') /\ Carried(ToLinux') = Carried(ToLinux) \cup {Ping}
        /\ \A i \in 1..Len(vring') : vring'[i].dst = endpt
    BY <1>2, <2>4, <2>7, <2>8, PingIsMessage, Sent
  <2>10. Calm'
    BY <1>1, <1>2, <2>8, ConstantsAssumption DEF Calm, FlowInv
  <2>11. Acquainted'
    BY <1>1, <2>6, <2>9, R5Learns DEF e
  <2>12. /\ CallOK(Carried(ToLinux), Carried(ToR5), Nothing, FALSE, 1)
         /\ (lpc' = "burn") = FALSE
    <3>1. CallOK(Carried(ToLinux), Carried(ToR5), Nothing, lpc = "burn", 1)
      BY <2>2, CallsBefore
    <3>2. lpc # "burn"
      BY <3>1 DEF CallOK
    <3>3. (lpc = "burn") = FALSE
      BY <3>2
    <3>4. QED
      BY <2>8, <3>1, <3>3
  <2>13. R5CallOK'
    <3>1. CallOK(Carried(ToLinux), Carried(ToR5) \ {m}, Nothing, FALSE, 1)
      BY <1>2, <1>3, <2>12, CallTakeBack
    <3>2. (Carried(ToR5) \ {m}) \in SUBSET Message
      BY CallsBefore
    <3>3. CallOK(Carried(ToLinux) \cup {Ping}, Carried(ToR5) \ {m}, Nothing, FALSE, 1)
      BY <2>7, <3>1, <3>2, CallsBefore, CallFree
    <3>4. QED
      BY <1>1, <1>2, <2>2, <2>9, <2>12, <3>3, CallsNow
  <2>14. LinuxCallOK'
    <3>1. CallOK(Carried(ToR5) \ {m}, Carried(ToLinux), lCall, FALSE, lStep)
      BY <1>2, <1>3, CallsBefore, CallTake
    <3>2. CallOK(Carried(ToR5) \ {m}, Carried(ToLinux) \cup {Ping}, lCall, FALSE, lStep)
      BY <2>7, <3>1, CallBeside
    <3>3. QED
      BY <1>2, <2>8, <2>9, <3>2, CallsNow
  <2>15. QED
    BY <1>2, <2>9, <2>10, <2>11, <2>13, <2>14 DEF Flow
<1>6. QED
  BY <1>3, <1>4, <1>5

LEMMA R5SkipsFlows == FlowInv /\ R5Skips => Flow'
<1> SUFFICES ASSUME FlowInv, R5Skips PROVE Flow'
  OBVIOUS
<1> DEFINE m == Head(toR5).msg
<1>1. /\ R5Reads(Head(toR5)) /\ LearnPeer(Head(toR5))
      /\ m.tag = "command" \/ (m.tag = "response" /\ (rpc = "loop" \/ m.id # rCall.id))
      /\ UNCHANGED <<rpc, pingResolved, rStep, rCall, rOutcome, vring>>
  BY DEF R5Skips
<1>2. pingResolved' = TRUE /\ m \in Carried(ToR5) /\ m \in Message
  BY <1>1, R5Got DEF FlowInv, TInv, TypeOK
<1>3. ASSUME m.tag = "response" PROVE FALSE
  <2>1. Kind(m) = "response"
    BY <1>2, <1>3, KindIs
  <2>2. rCall = Request(m.id, m.fn)
    BY <1>2, <2>1, CallsBefore DEF CallOK
  <2>3. rCall.id = m.id /\ rCall # Nothing
    BY <2>2, KindsMade DEF Request
  <2>4. rpc # "loop"
    BY <2>3 DEF FlowInv, Calm
  <2>5. QED
    BY <1>1, <1>3, <2>3, <2>4
<1>4. m.tag \notin {"request", "response"}
  BY <1>1, <1>3
<1>5. QED
  BY <1>1, <1>2, <1>4, R5Passes

LEMMA R5GetsFlows == FlowInv /\ R5GetsResponse => Flow'
<1> SUFFICES ASSUME FlowInv, R5GetsResponse PROVE Flow'
  OBVIOUS
<1> DEFINE e == Head(toR5)
           m == Head(toR5).msg
<1>1. R5Reads(e) /\ LearnPeer(e) /\ m.tag = "response" /\ pingResolved' = pingResolved
  BY DEF R5GetsResponse
<1>2. /\ m \in Carried(ToR5) /\ m \in Message
      /\ Lane(ToR5') /\ Carried(ToR5') = Carried(ToR5) \ {m}
      /\ \A x \in Carried(ToR5) : Kind(x) = Kind(m) => x = m
      /\ e.src = endpt /\ endpt \in EndPts /\ attached
      /\ pingResolved = FALSE => m.tag = "ping"
  BY <1>1, R5Got
<1>3. Kind(m) = "response" /\ pingResolved' = TRUE
  BY <1>1, <1>2, KindIs DEF FlowInv, TInv, TypeOK
<1>4. /\ rCall = Request(m.id, m.fn) /\ rCall # Nothing
      /\ CallOK(Carried(ToLinux), Carried(ToR5) \ {m}, Nothing, FALSE, rStep')
  BY <1>2, <1>3, CallsBefore, CallReturned
<1>5. lpc # "burn"
  <2>1. Has(Carried(ToR5), "response")
    BY <1>2, <1>3 DEF Has
  <2>2. QED
    BY <2>1, CallsBefore DEF CallOK
<1>6. m.fn = rCall.fn
  BY <1>4 DEF Request
<1>7. /\ rCall' = Nothing /\ rOutcome' = "answered"
      /\ rpc' = "demo" \/ (rpc' = "loop" /\ rStep' = 1)
      /\ UNCHANGED <<lpc, endpt, attached, lStep, lCall, lServing, lBack, lOutcome, inbox, vring>>
      /\ remoteEndPt' = endpt
  BY <1>2, <1>4, <1>6
  DEF R5GetsResponse, R5Reads, LearnPeer, R5CallReturns, R5CallOpen, linuxVars
<1>8. \A i \in 1..Len(vring') : vring'[i].dst = endpt
  BY <1>7 DEF FlowInv, Acquainted
<1>9. Acquainted'
  BY <1>1, <1>3, <1>8, R5Learns
<1> HIDE DEF e, m
<1>10. Calm'
  BY <1>2, <1>7, <1>5, ConstantsAssumption DEF Calm, FlowInv
<1>11. Lane(ToLinux') /\ Carried(ToLinux') = Carried(ToLinux)
  BY <1>7, WaysStay, CallsBefore
<1>12. CallOK(Carried(ToR5) \ {m}, Carried(ToLinux), lCall, FALSE, lStep)
  BY <1>2, <1>3, CallsBefore, CallTake
<1>13. LinuxCallOK'
  BY <1>2, <1>7, <1>11, <1>12, CallsNow
<1>14. R5CallOK'
  <2>1. (lpc' = "burn") = FALSE
    BY <1>7, <1>5
  <2>2. QED
    BY <1>2, <1>4, <1>7, <1>11, <2>1, CallsNow
<1>15. QED
  BY <1>2, <1>9, <1>10, <1>11, <1>13, <1>14 DEF Flow

\* The rest of the R5's loop and of its demo cycle.
LEMMA ProcessedFlows == FlowInv /\ R5Processed => Flow'
<1> SUFFICES ASSUME FlowInv, R5Processed PROVE Flow'
  OBVIOUS
<1>1. /\ rpc = "loop" /\ rpc' = IF remoteEndPt # NoEndPt THEN "demo" ELSE "loop"
      /\ UNCHANGED <<lpc, endpt, attached, lStep, lCall, lServing, lBack, lOutcome>>
      /\ UNCHANGED <<remoteEndPt, pingResolved, rStep, rCall, rOutcome, toR5, vring, inbox>>
  BY DEF R5Processed, linuxVars
<1>2. Calm'
  BY <1>1 DEF Calm, FlowInv
<1>3. Acquainted'
  BY <1>1 DEF Acquainted, FlowInv
<1>4. /\ ToR5' = ToR5 /\ Carried(ToR5') = Carried(ToR5)
      /\ ToLinux' = ToLinux /\ Carried(ToLinux') = Carried(ToLinux)
  BY <1>1, WaysStay
<1>5. (lpc' = "burn") = (lpc = "burn")
  BY <1>1
<1>6. LinuxCallOK' /\ R5CallOK'
  BY <1>1, <1>4, <1>5, CallsBefore, CallsNow
<1>7. QED
  BY <1>2, <1>3, <1>4, <1>6, CallsBefore DEF Flow

\* In its cycle the R5 has a peer, no call and no request at Linux.
LEMMA R5Cycle ==
    ASSUME FlowInv, rpc = "demo"
    PROVE  /\ remoteEndPt = endpt /\ remoteEndPt # NoEndPt /\ endpt \in EndPts
           /\ attached /\ pingResolved # FALSE /\ rCall = Nothing /\ lpc # "burn"
           /\ CallOK(Carried(ToLinux), Carried(ToR5), Nothing, FALSE, rStep)
<1>1. remoteEndPt # NoEndPt /\ rCall = Nothing
  BY DEF FlowInv, Calm
<1>2. remoteEndPt = endpt /\ pingResolved # FALSE
  BY <1>1 DEF FlowInv, Acquainted
<1>3. attached /\ endpt \in EndPts
  BY <1>1, <1>2, Connected
<1>4. CallOK(Carried(ToLinux), Carried(ToR5), Nothing, lpc = "burn", rStep)
  BY <1>1, CallsBefore
<1>5. lpc # "burn"
  BY <1>4 DEF CallOK
<1>6. (lpc = "burn") = FALSE
  BY <1>5
<1>7. QED
  BY <1>1, <1>2, <1>3, <1>4, <1>5, <1>6

\* A step that only sends to Linux, with the R5's own variables in order.
LEMMA R5Sends ==
    ASSUME FlowInv, rpc = "demo", NEW m \in Message, Send(endpt, m),
           ~Has(Carried(ToLinux), Kind(m)),
           Kind(m) = "free" => ~Has(Carried(ToLinux), "request"),
           UNCHANGED <<lpc, endpt, attached, remoteEndPt, pingResolved, toR5, inbox>>
    PROVE  /\ Acquainted' /\ Lane(ToR5') /\ Lane(ToLinux')
           /\ Carried(ToLinux') = Carried(ToLinux) \cup {m}
           /\ Carried(ToR5') = Carried(ToR5)
<1>1. /\ Lane(ToLinux') /\ Carried(ToLinux') = Carried(ToLinux) \cup {m}
      /\ \A i \in 1..Len(vring') : vring'[i].dst = endpt
  BY R5Cycle, Sent
<1>2. Acquainted'
  BY <1>1, R5Cycle DEF Acquainted, FlowInv
<1>3. Lane(ToR5') /\ Carried(ToR5') = Carried(ToR5)
  BY WaysStay, CallsBefore
<1>4. QED
  BY <1>1, <1>2, <1>3

LEMMA R5CallsFlows == FlowInv /\ NoFaults /\ R5Calls => Flow'
<1> SUFFICES ASSUME FlowInv, NoFaults, R5Calls PROVE Flow'
  OBVIOUS
<1> DEFINE r == Request(rReqId, R5Demo[rStep])
<1>1. rpc = "demo" /\ rStep < 3 /\ rStep \in 1..3 /\ rReqId \in Ids
  BY DemoFunctions DEF R5Calls, FlowInv, TInv, TypeOK
<1>2. /\ remoteEndPt = endpt /\ remoteEndPt # NoEndPt /\ lpc # "burn"
      /\ CallOK(Carried(ToLinux), Carried(ToR5), Nothing, FALSE, rStep)
  BY <1>1, R5Cycle
<1>3. r \in Message /\ r.tag = "request" /\ Kind(r) = "request" /\ r # Nothing
  BY <1>1, MadeMessages, DemoFunctions, KindsMade
<1>4. r.fn \in LinuxFunctions
  <2>1. R5Demo[1] \in LinuxFunctions /\ R5Demo[2] \in LinuxFunctions /\ rStep \in {1, 2}
    BY <1>1 DEF R5Demo, LinuxFunctions
  <2>2. r.fn = R5Demo[rStep]
    BY DEF Request
  <2>3. QED
    BY <2>1, <2>2
<1> HIDE DEF r
<1>5. /\ ~Has(Carried(ToLinux), "request")
      /\ CallOK(Carried(ToLinux) \cup {r}, Carried(ToR5), r, FALSE, rStep)
  BY <1>2, <1>3, CallsBefore, CallBegins
<1>6. CanSend
  BY <1>5, MaySend DEF Kinds
<1>7. /\ Send(endpt, r) /\ rCall' = r /\ rpc' = "wait"
      /\ UNCHANGED <<lpc, endpt, attached, lStep, lCall, lServing, lBack, lOutcome>>
      /\ UNCHANGED <<remoteEndPt, pingResolved, rStep, rOutcome, toR5, inbox>>
  BY <1>2, <1>6 DEF R5Calls, linuxVars, r, Send
<1>8. /\ Acquainted' /\ Lane(ToR5') /\ Lane(ToLinux')
      /\ Carried(ToLinux') = Carried(ToLinux) \cup {r}
      /\ Carried(ToR5') = Carried(ToR5)
  BY <1>1, <1>3, <1>5, <1>7, R5Sends
<1>9. R5CallOK'
  <2>1. (lpc' = "burn") = FALSE
    BY <1>2, <1>7
  <2>2. QED
    BY <1>5, <1>7, <1>8, <2>1, CallsNow
<1>10. LinuxCallOK'
  <2>1. CallOK(Carried(ToR5), Carried(ToLinux) \cup {r}, lCall, FALSE, lStep)
    BY <1>3, CallsBefore, CallBeside
  <2>2. QED
    BY <1>7, <1>8, <2>1, CallsNow
<1>11. Calm'
  BY <1>2, <1>3, <1>4, <1>7 DEF Calm, FlowInv
<1>12. QED
  BY <1>8, <1>9, <1>10, <1>11 DEF Flow

\* The command ends the cycle, so that none of an earlier one is still on its way.
LEMMA R5CommandsFlows == FlowInv /\ NoFaults /\ R5Commands => Flow'
<1> SUFFICES ASSUME FlowInv, NoFaults, R5Commands PROVE Flow'
  OBVIOUS
<1> DEFINE m == Command(rReqId, R5Demo[rStep])
<1>1. rpc = "demo" /\ rStep = 3 /\ rStep \in 1..3 /\ rReqId \in Ids
  BY DemoFunctions DEF R5Commands, FlowInv, TInv, TypeOK
<1>2. /\ remoteEndPt = endpt /\ remoteEndPt # NoEndPt /\ lpc # "burn" /\ rCall = Nothing
      /\ CallOK(Carried(ToLinux), Carried(ToR5), Nothing, FALSE, rStep)
  BY <1>1, R5Cycle
<1>3. m \in Message /\ Kind(m) = "free"
  BY <1>1, MadeMessages, DemoFunctions, KindsMade
<1>4. ~Has(Carried(ToLinux), "free")
  BY <1>1, <1>2 DEF CallOK
<1> HIDE DEF m
<1>5. /\ ~Has(Carried(ToLinux), "request")
      /\ CallOK(Carried(ToLinux) \cup {m}, Carried(ToR5), Nothing, FALSE, 1)
  BY <1>2, <1>3, CallsBefore, CallFree
<1>6. CanSend
  BY <1>4, MaySend DEF Kinds
<1>7. /\ Send(endpt, m) /\ rpc' = "loop" /\ rStep' = 1
      /\ UNCHANGED <<lpc, endpt, attached, lStep, lCall, lServing, lBack, lOutcome>>
      /\ UNCHANGED <<remoteEndPt, pingResolved, rCall, rOutcome, toR5, inbox>>
  BY <1>2, <1>6 DEF R5Commands, R5Top, linuxVars, m
<1>8. /\ Acquainted' /\ Lane(ToR5') /\ Lane(ToLinux')
      /\ Carried(ToLinux') = Carried(ToLinux) \cup {m}
      /\ Carried(ToR5') = Carried(ToR5)
  BY <1>1, <1>3, <1>4, <1>5, <1>7, R5Sends
<1>9. R5CallOK'
  <2>1. (lpc' = "burn") = FALSE
    BY <1>2, <1>7
  <2>2. QED
    BY <1>2, <1>5, <1>7, <1>8, <2>1, CallsNow
<1>10. LinuxCallOK'
  <2>1. CallOK(Carried(ToR5), Carried(ToLinux) \cup {m}, lCall, FALSE, lStep)
    BY <1>3, CallsBefore, CallBeside
  <2>2. QED
    BY <1>7, <1>8, <2>1, CallsNow
<1>11. Calm'
  BY <1>2, <1>7 DEF Calm, FlowInv
<1>12. QED
  BY <1>8, <1>9, <1>10, <1>11 DEF Flow

LEMMA R5Flows == FlowInv /\ NoFaults /\ R5Step => Flow'
<1>1. ~(FlowInv /\ R5Resends)
  BY DEF FlowInv, Calm, R5Resends
<1>2. ~(NoFaults /\ R5TimesOut)
  BY DEF NoFaults, R5TimesOut
<1>3. QED
  BY <1>1, <1>2, R5TakesFlows, R5PingFlows, R5SkipsFlows, R5GetsFlows, ProcessedFlows,
     R5CallsFlows, R5CommandsFlows, Zenon
  DEF R5Step

\* The rest of the world only moves a response on, or boots the R5.
LEMMA EnvironmentFlows == FlowInv /\ NoFaults /\ Environment => Flow'
<1> SUFFICES ASSUME FlowInv, NoFaults, Environment PROVE Flow'
  OBVIOUS
<1>1. /\ UNCHANGED <<lpc, endpt, attached, lStep, lCall, lServing, lBack, lOutcome>>
      /\ UNCHANGED <<remoteEndPt, pingResolved, rStep, rCall, rOutcome, toR5>>
      /\ UNCHANGED rpc \/ (rpc = "off" /\ rpc' = "loop")
  BY DEF Environment, NoFaults, R5Stop, LinuxRestart, KernelDelivers, R5Boot, linuxVars,
       r5Vars
<1>2. Calm'
  BY <1>1 DEF Calm, FlowInv
<1>3. /\ ToLinux' = ToLinux /\ Carried(ToLinux') = Carried(ToLinux)
      /\ Acquainted'
  <2>1. CASE KernelDelivers
    <3>1. ToLinux' = ToLinux /\ \A i \in 1..Len(vring') : vring'[i].dst = endpt
      BY <2>1, KernelKeeps DEF FlowInv
    <3>2. pingResolved # FALSE
      BY <2>1 DEF KernelDelivers, FlowInv, Acquainted
    <3>3. Carried(ToLinux') = Carried(ToLinux)
      BY <3>1 DEF Carried
    <3>4. Acquainted'
      BY <1>1, <3>1, <3>2 DEF Acquainted, FlowInv
    <3>5. QED
      BY <3>1, <3>3, <3>4
  <2>2. CASE R5Boot
    <3>1. UNCHANGED <<vring, inbox>>
      BY <2>2 DEF R5Boot
    <3>2. Acquainted'
      BY <1>1, <3>1 DEF Acquainted, FlowInv
    <3>3. QED
      BY <3>1, <3>2, WaysStay
  <2>3. QED
    BY <2>1, <2>2 DEF Environment, NoFaults, R5Stop, LinuxRestart
<1>4. ToR5' = ToR5 /\ Carried(ToR5') = Carried(ToR5)
  BY <1>1, WaysStay
<1>5. (lpc' = "burn") = (lpc = "burn")
  BY <1>1
<1>6. LinuxCallOK' /\ R5CallOK'
  BY <1>1, <1>3, <1>4, <1>5, CallsBefore, CallsNow
<1>7. QED
  BY <1>2, <1>3, <1>4, <1>6, CallsBefore DEF Flow

LEMMA StutterFlows == FlowInv /\ UNCHANGED vars => Flow'
<1> SUFFICES ASSUME FlowInv, UNCHANGED vars PROVE Flow'
  OBVIOUS
<1>1. /\ UNCHANGED <<lpc, endpt, attached, lStep, lCall, lServing, lBack, lOutcome>>
      /\ UNCHANGED <<rpc, remoteEndPt, pingResolved, rStep, rCall, rOutcome, toR5, vring, inbox>>
  BY DEF vars, linuxVars, r5Vars
<1>2. Calm' /\ Acquainted'
  BY <1>1 DEF Calm, Acquainted, FlowInv
<1>3. /\ ToR5' = ToR5 /\ Carried(ToR5') = Carried(ToR5)
      /\ ToLinux' = ToLinux /\ Carried(ToLinux') = Carried(ToLinux)
  BY <1>1, WaysStay
<1>4. (lpc' = "burn") = (lpc = "burn")
  BY <1>1
<1>5. LinuxCallOK' /\ R5CallOK'
  BY <1>1, <1>3, <1>4, CallsBefore, CallsNow
<1>6. QED
  BY <1>2, <1>3, <1>5, CallsBefore DEF Flow

LEMMA InitFlows == Init => FlowInv
<1> SUFFICES ASSUME Init PROVE FlowInv
  OBVIOUS
<1>1. TInv
  BY InitTInv
<1>2. Calm /\ Acquainted
  BY DEF Init, Calm, Acquainted
<1>3. ToR5 = <<>> /\ ToLinux = <<>>
  BY DEF Init, ToR5, ToLinux, Msgs
<1>4. Carried(ToR5) = {} /\ Carried(ToLinux) = {}
  BY <1>3 DEF Carried
<1>5. Lane(ToR5) /\ Lane(ToLinux)
  BY <1>3 DEF Lane
<1>6. lCall = Nothing /\ rCall = Nothing /\ lpc # "burn"
  BY DEF Init
<1>7. LinuxCallOK /\ R5CallOK
  BY <1>4, <1>6 DEF LinuxCallOK, R5CallOK, CallOK, Has
<1>8. QED
  BY <1>1, <1>2, <1>5, <1>7 DEF FlowInv

LEMMA FlowStays ==
    ASSUME NoFaults
    PROVE  Spec => []FlowInv
<1>1. FlowInv /\ [Next]_vars => FlowInv'
  <2> SUFFICES ASSUME FlowInv, [Next]_vars PROVE FlowInv'
    OBVIOUS
  <2>1. TInv'
    BY LinuxStepTInv, R5StepTInv, EnvironmentTInv, StutterTInv DEF Next, FlowInv
  <2>2. Flow'
    BY NoFaults, LinuxFlows, R5Flows, EnvironmentFlows, StutterFlows, Zenon DEF Next
  <2>3. QED
    BY <2>1, <2>2 DEF FlowInv, Flow
<1>2. QED
  BY InitFlows, <1>1, PTL DEF Spec

\* With no process stopped and no wait cut short, no call of either side ever fails,
\* with every number of endpoints, request id range and batch size, and with queues of
\* three messages on: however the two programs are scheduled, blocked on each other,
\* their three messages of each way find room, and no response is taken for another.
THEOREM CallsSucceed ==
    ASSUME NoFaults
    PROVE  Spec => []NoCallFails
<1>1. FlowInv => NoCallFails
  BY DEF FlowInv, Calm, NoCallFails
<1>2. QED
  BY FlowStays, <1>1, PTL

\* What a side that waits waits for: its request is on its way, or the other side is
\* at work on it, or its own response is on the way back.
LinuxAnswerComes ==
    \/ \E i \in 1..Len(toR5) : toR5[i].msg = lCall
    \/ \E i \in 1..Len(vring) : vring[i].msg = ResponseTo(lCall)
    \/ \E i \in 1..Len(inbox) : inbox[i] = ResponseTo(lCall)

R5AnswerComes ==
    \/ \E i \in 1..Len(vring) : vring[i].msg = rCall
    \/ \E i \in 1..Len(inbox) : inbox[i] = rCall
    \/ lpc = "burn" /\ lServing = rCall
    \/ \E i \in 1..Len(toR5) : toR5[i].msg = ResponseTo(rCall)

NobodyWaitsInVain ==
    /\ LinuxCallOpen => LinuxAnswerComes
    /\ R5CallOpen => R5AnswerComes

\* Where a message on its way is.
LEMMA Whereabouts ==
    ASSUME TInv
    PROVE  /\ \A m \in Carried(ToR5) : \E i \in 1..Len(toR5) : toR5[i].msg = m
           /\ \A m \in Carried(ToLinux) : \/ \E i \in 1..Len(vring) : vring[i].msg = m
                                          \/ \E i \in 1..Len(inbox) : inbox[i] = m
<1>1. ASSUME NEW m \in Carried(ToR5) PROVE \E i \in 1..Len(toR5) : toR5[i].msg = m
  BY <1>1, WaysTyped DEF Carried, ToR5, Msgs
<1>2. ASSUME NEW m \in Carried(ToLinux)
      PROVE  \/ \E i \in 1..Len(vring) : vring[i].msg = m
             \/ \E i \in 1..Len(inbox) : inbox[i] = m
  <2> DEFINE n == Len(inbox)
  <2>1. PICK i \in 1..Len(ToLinux) : ToLinux[i] = m
    BY <1>2 DEF Carried
  <2>2. n \in Nat /\ Len(vring) \in Nat /\ Len(Msgs(vring)) = Len(vring) /\ i \in 1..n + Len(vring)
    BY <2>1, WaysTyped DEF Msgs
  <2>3. CASE i <= n
    <3>1. i \in 1..n /\ inbox[i] = m
      BY <2>1, <2>2, <2>3 DEF ToLinux
    <3>2. QED
      BY <3>1
  <2>4. CASE i > n
    <3>1. i - n \in 1..Len(vring) /\ Msgs(vring)[i - n] = m
      BY <2>1, <2>2, <2>4 DEF ToLinux
    <3>2. vring[i - n].msg = m
      BY <3>1 DEF Msgs
    <3>3. QED
      BY <3>1, <3>2
  <2>5. QED
    BY <2>2, <2>3, <2>4
<1>3. QED
  BY <1>1, <1>2

\* A response to a call is the response to its request.
LEMMA ItsResponse ==
    ASSUME NEW S, NEW B \in SUBSET Message, NEW call, NEW working, NEW step,
           CallOK(S, B, call, working, step), call # Nothing
    PROVE  call \in S \/ working \/ ResponseTo(call) \in B
<1>1. CASE Has(S, "request")
  BY <1>1 DEF CallOK, Has
<1>2. CASE Has(B, "response")
  <2>1. PICK m \in B : Kind(m) = "response"
    BY <1>2 DEF Has
  <2>2. call = Request(m.id, m.fn) /\ m \in Message /\ m.tag = "response"
    BY <2>1, KindIs DEF CallOK
  <2>3. call.id = m.id /\ call.fn = m.fn
    BY <2>2 DEF Request
  <2>4. m = [tag |-> m.tag, id |-> m.id, fn |-> m.fn]
    BY <2>2 DEF Message
  <2>5. QED
    BY <2>1, <2>2, <2>3, <2>4 DEF ResponseTo
<1>3. QED
  BY <1>1, <1>2 DEF CallOK

\* Nor does a call ever wait in vain: with no process stopped and no wait cut short,
\* the request of a call that is open is on its way, or being handled, or its response
\* is on its way back, at every moment between the send and the return of either
\* side's wait loop; none of them is passed over by the loop that reads it, and so
\* the two sides are never both waiting with nothing between them.
THEOREM NoCallIsLost ==
    ASSUME NoFaults
    PROVE  Spec => [](NobodyWaitsInVain /\ (toR5 = <<>> /\ vring = <<>> /\ inbox = <<>> =>
                                              ~(lpc = "wait" /\ rpc = "wait")))
<1>1. FlowInv => NobodyWaitsInVain
  <2> SUFFICES ASSUME FlowInv PROVE NobodyWaitsInVain
    OBVIOUS
  <2>1. TInv
    BY DEF FlowInv
  <2>2. LinuxCallOpen => LinuxAnswerComes
    <3> SUFFICES ASSUME lCall # Nothing PROVE LinuxAnswerComes
      BY DEF LinuxCallOpen
    <3>1. lCall \in Carried(ToR5) \/ ResponseTo(lCall) \in Carried(ToLinux)
      BY CallsBefore, ItsResponse
    <3>2. QED
      BY <2>1, <3>1, Whereabouts DEF LinuxAnswerComes
  <2>3. R5CallOpen => R5AnswerComes
    <3> SUFFICES ASSUME rCall # Nothing PROVE R5AnswerComes
      BY DEF R5CallOpen
    <3>1. rCall \in Carried(ToLinux) \/ lpc = "burn" \/ ResponseTo(rCall) \in Carried(ToR5)
      BY CallsBefore, ItsResponse
    <3>2. lpc = "burn" => lServing = rCall
      BY DEF FlowInv, Calm
    <3>3. QED
      BY <2>1, <3>1, <3>2, Whereabouts DEF R5AnswerComes
  <2>4. QED
    BY <2>2, <2>3 DEF NobodyWaitsInVain
<1>2. FlowInv => (toR5 = <<>> /\ vring = <<>> /\ inbox = <<>> => ~(lpc = "wait" /\ rpc = "wait"))
  <2> SUFFICES ASSUME FlowInv, toR5 = <<>>, vring = <<>>, inbox = <<>>, lpc = "wait" PROVE FALSE
    OBVIOUS
  <2>1. LinuxCallOpen
    BY DEF FlowInv, Calm, LinuxCallOpen
  <2>2. LinuxAnswerComes
    BY <1>1, <2>1 DEF NobodyWaitsInVain
  <2>3. QED
    BY <2>2 DEF LinuxAnswerComes
<1>3. QED
  BY FlowStays, <1>1, <1>2, PTL
=============================================================================
