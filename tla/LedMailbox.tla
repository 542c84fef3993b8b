----------------------------- MODULE LedMailbox -----------------------------
(***************************************************************************)
(* The two-core LED demo: RTU0_0 (rpmsg_led/main.c) takes blink requests   *)
(* from Linux and hands them to PRU0_0 (led_worker/main.c) through a       *)
(* mailbox in shared memory (led_mailbox.h) that no lock protects.  Each   *)
(* action is one access of a core to the mailbox.  Operators start and     *)
(* stop the cores with run.sh; the memory keeps its content meanwhile, and *)
(* holds garbage after power-on.                                           *)
(***************************************************************************)
EXTENDS Naturals

CONSTANTS
    MaxCount,   \* bound on the blinks asked for (and on garbage in blink_count)
    MaxSeq,     \* nobody makes more than MaxSeq requests (2^32 - 1) in a row
    Together    \* the cores are restarted together, as run.sh stop and start do

ASSUME ConstantsAssumption ==
    /\ MaxCount \in Nat \ {0} /\ MaxSeq \in Nat \ {0}
    /\ Together \in BOOLEAN

VARIABLES
    seq, blinkCount, doneSeq,     \* the mailbox
    rtu,                          \* where RTU0_0 is, see TypeOK
    rtuCount, nextSeq,            \* count and next_seq of mailbox_request_and_wait
    pru,                          \* where PRU0_0 is
    lastSeq, pruSeq, pruLeft,     \* last_seq, seq; what blink_led has left to do
    request, blinks               \* history: see LedService

mailboxVars == <<seq, blinkCount, doneSeq>>
rtuVars == <<rtu, rtuCount, nextSeq>>
pruVars == <<pru, lastSeq, pruSeq, pruLeft>>
history == <<request, blinks>>
vars == <<mailboxVars, rtuVars, pruVars, history>>

-----------------------------------------------------------------------------
(* RTU0_0 *)

\* mailbox_init, store by store.
InitSeq ==
    /\ rtu = "init_seq" /\ rtu' = "init_count"
    /\ seq' = 0
    /\ UNCHANGED <<blinkCount, doneSeq, rtuCount, nextSeq, pruVars, history>>

InitCount ==
    /\ rtu = "init_count" /\ rtu' = "init_done"
    /\ blinkCount' = 0
    /\ UNCHANGED <<seq, doneSeq, rtuCount, nextSeq, pruVars, history>>

InitDone ==
    /\ rtu = "init_done" /\ rtu' = "idle"
    /\ doneSeq' = 0
    /\ UNCHANGED <<seq, blinkCount, rtuCount, nextSeq, pruVars, history>>

\* A message from Linux asks for at least one blink.
Take ==
    /\ rtu = "idle" /\ seq < MaxSeq
    /\ rtu' = "post_count"
    /\ rtuCount' \in 1..MaxCount
    /\ request' = "open" /\ blinks' = 0
    /\ UNCHANGED <<mailboxVars, nextSeq, pruVars>>

\* Mutant: seq is bumped before blink_count is written.
PostSeqFirst ==
    /\ rtu = "post_count" /\ rtu' = "post_seq"
    /\ nextSeq' = seq + 1 /\ seq' = seq + 1
    /\ UNCHANGED <<blinkCount, doneSeq, rtuCount, pruVars, history>>

\* mailbox_request_and_wait: the count, then the sequence number, then wait.
PostCount ==
    /\ rtu = "post_count" /\ rtu' = "post_seq"
    /\ blinkCount' = rtuCount
    /\ UNCHANGED <<seq, doneSeq, rtuCount, nextSeq, pruVars, history>>

PostSeq ==
    /\ rtu = "post_seq" /\ rtu' = "wait"
    /\ nextSeq' = seq + 1 /\ seq' = seq + 1
    /\ UNCHANGED <<blinkCount, doneSeq, rtuCount, pruVars, history>>

\* done_seq has arrived: "Blinked <count> times" goes back to Linux.
Acknowledge ==
    /\ rtu = "wait" /\ doneSeq = nextSeq
    /\ rtu' = "idle"
    /\ request' = "answered"
    /\ UNCHANGED <<mailboxVars, rtuCount, nextSeq, pruVars, blinks>>

RtuStep ==
    InitSeq \/ InitCount \/ InitDone \/ Take \/ PostCount \/ PostSeq \/ Acknowledge

-----------------------------------------------------------------------------
(* PRU0_0 *)

BootDone ==
    /\ pru = "boot_done" /\ pru' = "boot_seq"
    /\ doneSeq' = 0
    /\ UNCHANGED <<seq, blinkCount, rtuVars, lastSeq, pruSeq, pruLeft, history>>

BootSeq ==
    /\ pru = "boot_seq" /\ pru' = "poll"
    /\ lastSeq' = seq
    /\ UNCHANGED <<mailboxVars, rtuVars, pruSeq, pruLeft, history>>

\* The poll sees another sequence number.
Notice ==
    /\ pru = "poll" /\ seq # lastSeq
    /\ pru' = "read_count"
    /\ pruSeq' = seq
    /\ UNCHANGED <<mailboxVars, rtuVars, lastSeq, pruLeft, history>>

ReadCount ==
    /\ pru = "read_count" /\ pru' = "blink"
    /\ pruLeft' = blinkCount /\ lastSeq' = pruSeq
    /\ UNCHANGED <<mailboxVars, rtuVars, pruSeq, history>>

\* Mutant: the loop makes one turn too many.
BlinkOnceMore ==
    /\ pru = "blink"
    /\ pruLeft' = pruLeft - 1
    /\ blinks' = blinks + 1
    /\ UNCHANGED <<mailboxVars, rtuVars, pru, lastSeq, pruSeq, request>>

\* One turn of blink_led.
Blink ==
    /\ pru = "blink" /\ pruLeft > 0
    /\ pruLeft' = pruLeft - 1
    /\ blinks' = blinks + 1
    /\ UNCHANGED <<mailboxVars, rtuVars, pru, lastSeq, pruSeq, request>>

\* Mutant: done_seq is counted up instead of set.
FinishByCounting ==
    /\ pru = "blink" /\ pruLeft = 0
    /\ pru' = "poll"
    /\ doneSeq' = doneSeq + 1
    /\ UNCHANGED <<seq, blinkCount, rtuVars, lastSeq, pruSeq, pruLeft, history>>

Finish ==
    /\ pru = "blink" /\ pruLeft = 0
    /\ pru' = "poll"
    /\ doneSeq' = pruSeq
    /\ UNCHANGED <<seq, blinkCount, rtuVars, lastSeq, pruSeq, pruLeft, history>>

PruStep == BootDone \/ BootSeq \/ Notice \/ ReadCount \/ Blink \/ Finish

-----------------------------------------------------------------------------
(* run.sh *)

\* RTU0_0 is started first, and stopped last.
StartRtu ==
    /\ rtu = "off" /\ (Together => pru = "off")
    /\ rtu' = "init_seq"
    /\ UNCHANGED <<mailboxVars, rtuCount, nextSeq, pruVars, history>>

\* PRU0_0 is started a second later, when mailbox_init has long been done.
StartPru ==
    /\ pru = "off"
    /\ rtu \notin {"off", "init_seq", "init_count", "init_done"}
    /\ pru' = "boot_done"
    /\ UNCHANGED <<mailboxVars, rtuVars, lastSeq, pruSeq, pruLeft, history>>

StopPru ==
    /\ pru # "off"
    /\ pru' = "off"
    /\ UNCHANGED <<mailboxVars, rtuVars, lastSeq, pruSeq, pruLeft, history>>

StopRtu ==
    /\ rtu # "off" /\ (Together => pru = "off")
    /\ rtu' = "off"
    /\ request' = "none"
    /\ UNCHANGED <<mailboxVars, rtuCount, nextSeq, pruVars, blinks>>

Operator == StartRtu \/ StartPru \/ StopPru \/ StopRtu

-----------------------------------------------------------------------------
Init ==
    /\ seq \in 0..MaxSeq /\ blinkCount \in 0..MaxCount /\ doneSeq \in 0..MaxSeq
    /\ rtu = "off" /\ rtuCount = 0 /\ nextSeq = 0
    /\ pru = "off" /\ lastSeq = 0 /\ pruSeq = 0 /\ pruLeft = 0
    /\ request = "none" /\ blinks = 0

Next == RtuStep \/ PruStep \/ Operator

Spec == Init /\ [][Next]_vars

\* Both cores run as long as nobody stops them, and nobody need ask for
\* anything.
FairSpec ==
    Spec /\ WF_vars(PruStep) /\ WF_vars(RtuStep /\ ~Take)

-----------------------------------------------------------------------------
(* Properties *)

TypeOK ==
    /\ seq \in 0..MaxSeq /\ blinkCount \in 0..MaxCount /\ doneSeq \in 0..MaxSeq
    /\ rtu \in {"off", "init_seq", "init_count", "init_done", "idle", "post_count",
                "post_seq", "wait"}
    /\ rtuCount \in 0..MaxCount /\ nextSeq \in 0..MaxSeq
    /\ pru \in {"off", "boot_done", "boot_seq", "poll", "read_count", "blink"}
    /\ lastSeq \in 0..MaxSeq /\ pruSeq \in 0..MaxSeq /\ pruLeft \in 0..MaxCount
    /\ request \in {"none", "open", "answered"} /\ blinks \in Nat

\* README: RTU0_0 "ACKs after PRU finishes".  The acknowledgement follows
\* exactly the blinks of this request, none of an earlier one or of what
\* was in the memory at power-on, and there are no others.
Service == INSTANCE LedService WITH asked <- rtuCount, shown <- blinks
BlinksAsAsked == Service!Spec

\* A request posted while the PRU polls is acknowledged, unless a core stops.
RequestAcknowledged ==
    rtu = "post_seq" /\ pru \notin {"off", "boot_done", "boot_seq"}
        ~> rtu \in {"idle", "off"} \/ pru = "off"

\* "RTU waits for done_seq before RPMsg ACK", its header says: an answered
\* request has been blinked.
AckAfterBlinks == request = "answered" => blinks >= rtuCount
=============================================================================
