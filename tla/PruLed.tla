-------------------------------- MODULE PruLed --------------------------------
(***************************************************************************)
(* The single-core LED demo: the firmware of PRU0_0 (rpmsg_led/main.c)     *)
(* and the script that asks it for blinks (blink_count.py), over RPMsg.    *)
(*                                                                         *)
(* A message is in the vring before the kick that announces it; the kick   *)
(* sets a system event, which stays set until the firmware clears it.  The *)
(* kernel's endpoint of the announced channel exists as long as the        *)
(* channel and queues what comes while nobody has it open; that of a       *)
(* device the script has created itself ends when the script closes it.    *)
(***************************************************************************)
EXTENDS PruNumbers

CONSTANTS
    Counts,       \* numbers of blinks that are asked for
    MaxRuns,      \* bound: runs of the script
    MaxStops      \* bound: stops of the core

VARIABLES
    fw,                      \* where the firmware is, see TypeOK
    msg, count, left,        \* the message it serves; what blink_led has left to do
    event,                   \* system event FROM_ARM_HOST
    driverOk, announced,     \* status of the virtio device; the channel exists
    vring,                   \* messages to the core
    host, dev, run, asked,   \* the script, its device, its number and count
    queue,                   \* acknowledgements at the endpoint of the channel
    inbox,                   \* those at the endpoint of a created device
    printed,                 \* the acknowledgement the last run printed
    blinks, stops,           \* history: blinks for msg; stops so far
    gaveUp                   \* history: did a run give up since the core started?

fwVars == <<fw, msg, count, left, blinks>>
linkVars == <<event, vring, queue, inbox>>
coreVars == <<driverOk, announced, stops>>
hostVars == <<host, dev, run, asked, printed, gaveUp>>
vars == <<fwVars, linkVars, coreVars, hostVars>>

NoMsg == [run |-> 0, asked |-> 0, dev |-> "none"]
NoAck == [run |-> 0, count |-> 0, blinks |-> 0]

Init ==
    /\ fw = "off" /\ msg = NoMsg /\ count = 0 /\ left = 0 /\ blinks = 0
    /\ event = FALSE /\ driverOk = FALSE /\ announced = FALSE
    /\ vring = <<>> /\ queue = <<>> /\ inbox = <<>>
    /\ host = "idle" /\ dev = "none" /\ run = 0 /\ asked = 0 /\ printed = NoAck
    /\ stops = 0 /\ gaveUp = FALSE

-----------------------------------------------------------------------------
(* The firmware *)

Boot ==
    /\ fw = "boot" /\ fw' = "wait_ok" /\ event' = FALSE
    /\ UNCHANGED <<msg, count, left, blinks, vring, queue, inbox, coreVars, hostVars>>

\* pru_rpmsg_init, and pru_rpmsg_channel until it succeeds.
Announce ==
    /\ fw = "wait_ok" /\ driverOk
    /\ fw' = "poll" /\ announced' = TRUE
    /\ UNCHANGED <<msg, count, left, blinks, linkVars, driverOk, stops, hostVars>>

Poll ==
    /\ fw = "poll" /\ event
    /\ event' = FALSE /\ fw' = "receive"
    /\ UNCHANGED <<msg, count, left, blinks, vring, queue, inbox, coreVars, hostVars>>

\* Mutant: one message for each look at the event.
ReceiveOnce ==
    /\ fw = "receive"
    /\ IF vring = <<>> \/ (left = 0 /\ blinks > 0)
       THEN fw' = "poll" /\ blinks' = 0 /\ UNCHANGED <<msg, count, left, vring>>
       ELSE /\ msg' = Head(vring) /\ vring' = Tail(vring)
            /\ count' = ParseUint32(Message(msg'.asked))
            /\ left' = count' /\ blinks' = 0
            /\ fw' = "blink"
    /\ UNCHANGED <<event, queue, inbox, coreVars, hostVars>>

\* Mutant: the sender of the first message is never forgotten.
ReceiveKeepsSender ==
    /\ fw = "receive"
    /\ IF vring = <<>>
       THEN fw' = "poll" /\ UNCHANGED <<msg, count, left, blinks, vring>>
       ELSE /\ msg' = IF msg = NoMsg THEN Head(vring) ELSE msg
            /\ vring' = Tail(vring)
            /\ count' = ParseUint32(Message(Head(vring).asked))
            /\ left' = count' /\ blinks' = 0
            /\ fw' = "blink"
    /\ UNCHANGED <<event, queue, inbox, coreVars, hostVars>>

\* The inner loop ends when there is no message.
Receive ==
    /\ fw = "receive"
    /\ IF vring = <<>>
       THEN fw' = "poll" /\ UNCHANGED <<msg, count, left, blinks, vring>>
       ELSE /\ msg' = Head(vring) /\ vring' = Tail(vring)
            /\ count' = ParseUint32(Message(msg'.asked))
            /\ left' = count' /\ blinks' = 0
            /\ fw' = "blink"
    /\ UNCHANGED <<event, queue, inbox, coreVars, hostVars>>

\* blink_led.
Blink ==
    /\ fw = "blink"
    /\ IF left = 0 THEN fw' = "send" /\ UNCHANGED <<left, blinks>>
                   ELSE left' = left - 1 /\ blinks' = blinks + 1 /\ fw' = fw
    /\ UNCHANGED <<msg, count, linkVars, coreVars, hostVars>>

\* "Blinked <count> times", back to where the message came from.
Send ==
    /\ fw = "send" /\ fw' = "receive"
    /\ LET ack == [run |-> msg.run, count |-> count, blinks |-> blinks]
       IN IF msg.dev = "channel"
          THEN queue' = Append(queue, ack) /\ UNCHANGED inbox
          ELSE /\ inbox' = IF dev = "created" /\ run = msg.run THEN Append(inbox, ack) ELSE inbox
               /\ UNCHANGED queue
    /\ UNCHANGED <<msg, count, left, blinks, event, vring, coreVars, hostVars>>

Firmware == Boot \/ Announce \/ Poll \/ Receive \/ Blink \/ Send

-----------------------------------------------------------------------------
(* Starting and stopping the core; the interrupt controller is not reset *)

Start ==
    /\ fw = "off" /\ fw' = "boot"
    /\ UNCHANGED <<msg, count, left, blinks, linkVars, coreVars, hostVars>>

\* The kernel takes longer to probe the virtio device than the core to boot.
DriverOk ==
    /\ fw = "wait_ok" /\ ~driverOk /\ driverOk' = TRUE
    /\ UNCHANGED <<fwVars, linkVars, announced, stops, hostVars>>

Stop ==
    /\ fw # "off" /\ stops < MaxStops
    /\ fw' = "off" /\ stops' = stops + 1
    /\ driverOk' = FALSE /\ announced' = FALSE
    /\ vring' = <<>> /\ queue' = <<>> /\ inbox' = <<>>
    /\ dev' = IF dev = "none" THEN "none" ELSE "gone"
    /\ gaveUp' = FALSE
    /\ UNCHANGED <<msg, count, left, blinks, event, host, run, asked, printed>>

-----------------------------------------------------------------------------
(* The script *)

Begin ==
    /\ host = "idle" /\ run < MaxRuns
    /\ run' = run + 1 /\ asked' \in Counts
    /\ host' = "resolve" /\ printed' = NoAck
    /\ UNCHANGED <<fwVars, linkVars, coreVars, dev, gaveUp>>

\* resolve_device: the device of the channel, else one of its own, once the
\* control device is there; else it gives up.
Resolve ==
    /\ host = "resolve"
    /\ \/ announced /\ dev' = "channel" /\ host' = "write"
       \/ driverOk /\ ~announced /\ dev' = "created" /\ host' = "write"
       \/ ~announced /\ dev' = "none" /\ host' = "idle"
    /\ UNCHANGED <<fwVars, linkVars, coreVars, run, asked, printed, gaveUp>>

\* The script ends and closes its device; what the endpoint has queued is lost.
Close == host' = "idle" /\ dev' = "none" /\ queue' = <<>> /\ inbox' = <<>>

Write ==
    /\ host = "write"
    /\ IF dev = "gone"
       THEN Close /\ UNCHANGED vring
       ELSE /\ vring' = Append(vring, [run |-> run, asked |-> asked, dev |-> dev])
            /\ host' = "kick" /\ UNCHANGED <<dev, queue, inbox>>
    /\ UNCHANGED <<fwVars, event, coreVars, run, asked, printed, gaveUp>>

Kick ==
    /\ host = "kick" /\ host' = "wait" /\ event' = TRUE
    /\ UNCHANGED <<fwVars, vring, queue, inbox, coreVars, dev, run, asked, printed, gaveUp>>

\* The first message that comes is printed.
Read ==
    /\ host = "wait" /\ queue \o inbox # <<>>
    /\ printed' = Head(IF dev = "channel" THEN queue ELSE inbox)
    /\ Close
    /\ UNCHANGED <<fwVars, event, vring, coreVars, run, asked, gaveUp>>

DeviceGone ==
    /\ host = "wait" /\ dev = "gone"
    /\ Close
    /\ UNCHANGED <<fwVars, event, vring, coreVars, run, asked, printed, gaveUp>>

\* The deadline passes.
GiveUp ==
    /\ host = "wait" /\ queue \o inbox = <<>>
    /\ Close /\ gaveUp' = TRUE
    /\ UNCHANGED <<fwVars, event, vring, coreVars, run, asked, printed>>

Script == Resolve \/ Write \/ Kick \/ Read \/ DeviceGone

Next == Firmware \/ Start \/ DriverOk \/ Stop \/ Begin \/ Script \/ GiveUp

\* The core runs while it is started, the kernel goes on with its probe, and
\* the script is scheduled; its deadline may be as far off as the blinks need.
Spec == Init /\ [][Next]_vars /\ WF_vars(Firmware) /\ WF_vars(DriverOk) /\ WF_vars(Script)

-----------------------------------------------------------------------------
(* Properties *)

Messages == [run : 0..MaxRuns, asked : Counts \cup {0}, dev : {"none", "channel", "created"}]
Acks == [run : 0..MaxRuns, count : 0..(Word - 1), blinks : Nat]

TypeOK ==
    /\ fw \in {"off", "boot", "wait_ok", "poll", "receive", "blink", "send"}
    /\ msg \in Messages /\ count \in 0..(Word - 1) /\ left \in 0..(Word - 1) /\ blinks \in Nat
    /\ event \in BOOLEAN /\ driverOk \in BOOLEAN /\ announced \in BOOLEAN
    /\ vring \in Seq(Messages) /\ queue \in Seq(Acks) /\ inbox \in Seq(Acks)
    /\ host \in {"idle", "resolve", "write", "kick", "wait"}
    /\ dev \in {"none", "channel", "created", "gone"}
    /\ run \in 0..MaxRuns /\ asked \in Counts \cup {0} /\ stops \in 0..MaxStops
    /\ printed \in Acks /\ gaveUp \in BOOLEAN

\* "Send a blink count to PRU0_0 over rpmsg_char and print the ACK": what a run
\* prints is the answer to its own message, as long as no earlier run gave up:
\* the late answer to that one would be taken for it.  The count in it is the
\* "number of LED blinks" it asked for, and the LED has blinked that often.
PrintsOwnAck ==
    [][ Read => /\ ~gaveUp => printed'.run = run
                /\ printed'.run = run => /\ printed'.count = asked
                                         /\ printed'.blinks = asked ]_vars

\* A script that waits long enough gets an answer, or an error when the core is
\* stopped, even if it was faster than the announcement of the channel.
RunEnds == host = "wait" ~> host = "idle"

\* However many messages scripts that gave up have left, and however their
\* kicks fall together, the vring is emptied in the end.
VringDrained == vring # <<>> ~> vring = <<>>
=============================================================================
