----------------------------- MODULE R5Shutdown -----------------------------
(***************************************************************************)
(* The graceful stop of the R5 (bbai64_rpmsg.c, main.c): the kernel sends  *)
(* RP_MBOX_SHUTDOWN, the mailbox interrupt sets two variables, the main    *)
(* thread, wherever it is, finds out by polling, leaves its loop, ACKs and *)
(* parks in WFI.  The kernel gives up after StopTimeout (-16).             *)
(*                                                                         *)
(* RpmsgTalk has the messages; here they are a choice, and what counts is  *)
(* where the main thread spends its time.  Delays are in units of 100 ms;  *)
(* code between two delays takes no time.                                  *)
(***************************************************************************)
EXTENDS Naturals

CONSTANTS
    CallTimeout,   \* TIMEOUT_DEFAULT_S
    Resend,        \* Osal_delay(500)
    Pause,         \* Osal_delay(100)
    ShortBurn,     \* burn_time_pretending_to_do_stuff(5, 200), its upper end
    MinBurn,       \* burn_time_pretending_to_do_stuff(800, 1200)
    MaxBurn,
    StopTimeout,   \* how long the kernel waits for the ACK
    Linux,         \* IPC_MPU1_0, which is 0
    Unset          \* SHUTDOWN_REMOTE_UNSET

ASSUME ConstantsAssumption ==
    /\ {CallTimeout, Resend, Pause, ShortBurn, MinBurn, MaxBurn, StopTimeout} \subseteq Nat
    /\ MinBurn <= MaxBurn
    /\ Linux # Unset

VARIABLES
    \* the main thread
    pc,            \* see TypeOK
    left, next,    \* inside a delay: how long still, and where it goes on
    item,          \* position in run_demo_cycle: two calls and a command
    callLeft,      \* time left of the blocking call
    sciReady,      \* gSciclientReady
    \* written by the interrupt
    gbShutdown, gbShutdownRemotecoreID,
    \* the mailbox and the kernel
    registered,    \* is the interrupt enabled, with IpcRpMboxCallback?
    mailbox,       \* an RP_MBOX_SHUTDOWN in the FIFO
    kernel,        \* "up", "stopping", "acked", "failed" (-16), "offline"
    waited,        \* how long the kernel has been waiting for the ACK
    \* history
    acks,          \* ACKs sent since boot
    unheard        \* was the last stop sent to a firmware that could not hear it?

mainVars == <<pc, left, next, item, callLeft, sciReady>>
isrVars == <<gbShutdown, gbShutdownRemotecoreID>>
kernelVars == <<registered, mailbox, kernel, waited, unheard>>
vars == <<mainVars, isrVars, kernelVars, acks>>

-----------------------------------------------------------------------------
(* The main thread *)

GoTo(place) == pc' = place /\ UNCHANGED <<left, next>>
Delay(time, place) == pc' = "delay" /\ left' = time /\ next' = place

Delayed ==
    /\ pc = "delay" /\ left = 0
    /\ pc' = next
    /\ UNCHANGED <<left, next, item, callLeft, sciReady, isrVars, kernelVars, acks>>

\* The I/O tests, which know nothing of a shutdown.
Tests ==
    /\ pc = "tests"
    /\ GoTo("init")
    /\ UNCHANGED <<item, callLeft, sciReady, isrVars, kernelVars, acks>>

\* setup_ipc up to Ipc_init, any step of which may fail.  A shutdown sent
\* before is in the FIFO still, or lost.
IpcInit ==
    /\ pc = "init"
    /\ sciReady' \in BOOLEAN
    /\ \E ok \in BOOLEAN :
          /\ GoTo(IF ok THEN "vdev" ELSE "setup_failed")
          /\ registered' = ok
    /\ mailbox' \in {mailbox, FALSE}
    /\ UNCHANGED <<item, callLeft, isrVars, kernel, waited, unheard, acks>>

\* Ipc_isRemoteReady is polled together with the shutdown flag.
VdevReady ==
    /\ pc = "vdev"
    /\ GoTo("create")
    /\ UNCHANGED <<item, callLeft, sciReady, isrVars, kernelVars, acks>>

VdevAborts ==
    /\ pc = "vdev" /\ gbShutdown
    /\ GoTo("setup_failed")
    /\ UNCHANGED <<item, callLeft, sciReady, isrVars, kernelVars, acks>>

\* RPMessage_create and RPMessage_announce.
Create ==
    /\ pc = "create"
    /\ \E ok \in BOOLEAN : GoTo(IF ok THEN "loop" ELSE "setup_failed")
    /\ UNCHANGED <<item, callLeft, sciReady, isrVars, kernelVars, acks>>

\* main, when setup_r5_example_talk fails.
SetupFailed ==
    /\ pc = "setup_failed"
    /\ GoTo(IF gbShutdown THEN "ack" ELSE "returned")
    /\ UNCHANGED <<item, callLeft, sciReady, isrVars, kernelVars, acks>>

\* The condition of main's loop.
Loop ==
    /\ pc = "loop"
    /\ GoTo(IF gbShutdown THEN "ack" ELSE "process")
    /\ item' = 1
    /\ UNCHANGED <<callLeft, sciReady, isrVars, kernelVars, acks>>

\* Mutant: as long as requests come, the drain loop does not look at the flag.
ProcessDrains ==
    /\ pc = "process"
    /\ Delay(Resend, "process")
    /\ UNCHANGED <<item, callLeft, sciReady, isrVars, kernelVars, acks>>

\* process_linux_messages: a request whose response cannot be sent at once.
ProcessResends ==
    /\ pc = "process" /\ ~gbShutdown
    /\ Delay(Resend, "process")
    /\ UNCHANGED <<item, callLeft, sciReady, isrVars, kernelVars, acks>>

\* It returns; there is a peer or there is not.
ProcessReturns ==
    /\ pc = "process"
    /\ IF gbShutdown
       THEN GoTo("loop")
       ELSE GoTo("demo") \/ Delay(Pause, "loop")
    /\ UNCHANGED <<item, callLeft, sciReady, isrVars, kernelVars, acks>>

\* The end of run_demo_cycle after a success and after an error.
CycleEnds(rest) == \E time \in MinBurn..MaxBurn : Delay(rest + time, "loop")
CycleFails == Delay(Pause, "loop")

\* A request or command of run_demo_cycle has been sent.
Sent ==
    IF item < 3
    THEN GoTo("wait") /\ callLeft' = CallTimeout
    ELSE CycleEnds(0) /\ UNCHANGED callLeft

\* Each item of run_demo_cycle starts with a send.
Demo ==
    /\ pc = "demo"
    /\ \/ Sent
       \/ (Delay(Resend, "resend") \/ CycleFails) /\ UNCHANGED callLeft
    /\ UNCHANGED <<item, sciReady, isrVars, kernelVars, acks>>

SecondSend ==
    /\ pc = "resend"
    /\ Sent \/ (CycleFails /\ UNCHANGED callLeft)
    /\ UNCHANGED <<item, sciReady, isrVars, kernelVars, acks>>

\* The wait loop of send_blocking_request_r5 serves a request of Linux whose
\* response cannot be sent at once.
WaitResends ==
    /\ pc = "wait" /\ ~gbShutdown /\ callLeft > 0
    /\ Delay(Resend, "wait")
    /\ UNCHANGED <<item, callLeft, sciReady, isrVars, kernelVars, acks>>

\* The response is there.
WaitAnswered ==
    /\ pc = "wait" /\ ~gbShutdown /\ callLeft > 0
    /\ \E rest \in 0..ShortBurn : CycleEnds(rest) \/ Delay(rest, "demo")
    /\ item' = item + 1 /\ callLeft' = 0
    /\ UNCHANGED <<sciReady, isrVars, kernelVars, acks>>

\* A shutdown, a timeout or a response with the wrong tag ends the call.
WaitFails ==
    /\ pc = "wait"
    /\ CycleFails /\ callLeft' = 0
    /\ UNCHANGED <<item, sciReady, isrVars, kernelVars, acks>>

\* Mutant: Sciclient is shut down first, and may hang.
AckAfterDeinit ==
    /\ pc = "ack"
    /\ \/ /\ GoTo("deinit")
          /\ acks' = acks + 1
          /\ kernel' = IF kernel = "stopping" THEN "acked" ELSE kernel
       \/ sciReady /\ GoTo("hung") /\ UNCHANGED <<acks, kernel>>
    /\ UNCHANGED <<item, callLeft, sciReady, isrVars, registered, mailbox, waited, unheard>>

\* finalize_ipc_shutdown: first the ACK, to whoever asked.
Ack ==
    /\ pc = "ack"
    /\ GoTo("deinit")
    /\ IF gbShutdownRemotecoreID # Unset
       THEN /\ acks' = acks + 1
            /\ kernel' = IF kernel = "stopping" THEN "acked" ELSE kernel
       ELSE UNCHANGED <<acks, kernel>>
    /\ UNCHANGED <<item, callLeft, sciReady, isrVars, registered, mailbox, waited, unheard>>

\* Then Sciclient_deinit, which may hang, and the interrupts.
Deinit ==
    /\ pc = "deinit"
    /\ \/ GoTo("wfi") /\ sciReady' = FALSE /\ registered' = FALSE
       \/ sciReady /\ GoTo("hung") /\ UNCHANGED <<sciReady, registered>>
    /\ UNCHANGED <<item, callLeft, isrVars, mailbox, kernel, waited, unheard, acks>>

MainStep ==
    \/ Delayed \/ Tests \/ IpcInit \/ VdevAborts \/ Create \/ SetupFailed
    \/ Loop \/ ProcessResends \/ ProcessReturns \/ Demo \/ SecondSend
    \/ WaitResends \/ WaitAnswered \/ WaitFails \/ Ack \/ Deinit

-----------------------------------------------------------------------------
(* The interrupt, the kernel and the clock *)

InterruptPending == registered /\ mailbox

\* Mutant: "a common bug is to treat remoteCoreId == 0 as unset".
CallbackTakesZeroForUnset ==
    /\ InterruptPending
    /\ mailbox' = FALSE
    /\ gbShutdown' = TRUE
    /\ gbShutdownRemotecoreID' = IF Linux = 0 THEN Unset ELSE Linux
    /\ UNCHANGED <<mainVars, registered, kernel, waited, unheard, acks>>

IpcRpMboxCallback ==
    /\ InterruptPending
    /\ mailbox' = FALSE
    /\ gbShutdown' = TRUE /\ gbShutdownRemotecoreID' = Linux
    /\ UNCHANGED <<mainVars, registered, kernel, waited, unheard, acks>>

\* remoteproc stop, tried again after it failed.
KernelStops ==
    /\ kernel \in {"up", "failed"}
    /\ kernel' = "stopping" /\ waited' = 0
    /\ mailbox' = TRUE
    /\ unheard' = (~registered \/ pc \in {"deinit", "hung", "returned"})
    /\ UNCHANGED <<mainVars, isrVars, registered, acks>>

KernelTimesOut ==
    /\ kernel = "stopping" /\ waited = StopTimeout
    /\ kernel' = "failed"
    /\ UNCHANGED <<mainVars, isrVars, registered, mailbox, waited, unheard, acks>>

\* With the ACK seen and the core in WFI the kernel resets the core.
KernelHalts ==
    /\ kernel = "acked" /\ pc = "wfi"
    /\ kernel' = "offline"
    /\ UNCHANGED <<mainVars, isrVars, registered, mailbox, waited, unheard, acks>>

KernelStarts ==
    /\ kernel = "offline"
    /\ pc' = "tests" /\ left' = 0 /\ next' = "tests" /\ item' = 1 /\ callLeft' = 0
    /\ sciReady' = FALSE /\ gbShutdown' = FALSE /\ gbShutdownRemotecoreID' = Unset
    /\ registered' = FALSE /\ mailbox' = FALSE /\ kernel' = "up" /\ waited' = 0
    /\ acks' = 0 /\ unheard' = FALSE

\* The main thread does nothing before time passes: it is in a delay or in a
\* loop that polls for what is not there, or it is at an end.
MainIdle ==
    \/ pc = "delay" /\ left > 0
    \/ pc = "wait" /\ callLeft > 0 /\ ~gbShutdown
    \/ pc = "vdev" /\ ~gbShutdown
    \/ pc \in {"tests", "hung", "wfi", "returned"}

Tick ==
    /\ MainIdle /\ ~InterruptPending
    /\ kernel = "stopping" => waited < StopTimeout
    /\ left' = IF left > 0 THEN left - 1 ELSE 0
    /\ callLeft' = IF callLeft > 0 THEN callLeft - 1 ELSE 0
    /\ waited' = IF kernel = "stopping" THEN waited + 1 ELSE waited
    /\ UNCHANGED <<pc, next, item, sciReady, isrVars, registered, mailbox,
                   kernel, unheard, acks>>

Environment ==
    \/ IpcRpMboxCallback \/ VdevReady
    \/ KernelStops \/ KernelTimesOut \/ KernelHalts \/ KernelStarts \/ Tick

-----------------------------------------------------------------------------
Init ==
    /\ pc = "tests" /\ left = 0 /\ next = "tests" /\ item = 1 /\ callLeft = 0
    /\ sciReady = FALSE /\ gbShutdown = FALSE /\ gbShutdownRemotecoreID = Unset
    /\ registered = FALSE /\ mailbox = FALSE /\ kernel = "up" /\ waited = 0
    /\ acks = 0 /\ unheard = FALSE

Next == MainStep \/ Environment
Spec == Init /\ [][Next]_vars

\* The core runs, takes its interrupts, time passes and the kernel's timer runs
\* out; nobody need ever stop the core, and Linux need never set up its side.
FairSpec ==
    /\ Spec
    /\ WF_vars(MainStep) /\ WF_vars(IpcRpMboxCallback)
    /\ WF_vars(Tick) /\ WF_vars(KernelTimesOut)

-----------------------------------------------------------------------------
(* Properties *)

\* Beside the types: the requester is recorded exactly when the flag is set.
TypeOK ==
    /\ pc \in {"delay", "tests", "init", "vdev", "create", "setup_failed", "loop",
               "process", "demo", "resend", "wait", "ack", "deinit", "hung", "wfi",
               "returned"}
    /\ left \in 0..MaxBurn + ShortBurn + Resend + Pause
    /\ next \in {"tests", "loop", "process", "demo", "resend", "wait"}
    /\ item \in 1..3 /\ callLeft \in 0..CallTimeout /\ sciReady \in BOOLEAN
    /\ gbShutdown \in BOOLEAN
    /\ gbShutdownRemotecoreID = IF gbShutdown THEN Linux ELSE Unset
    /\ registered \in BOOLEAN /\ mailbox \in BOOLEAN
    /\ kernel \in {"up", "stopping", "acked", "failed", "offline"}
    /\ waited \in 0..StopTimeout /\ acks \in 0..1 /\ unheard \in BOOLEAN

\* A stop the firmware can hear never runs into the kernel's timeout, wherever
\* the main thread is when it arrives and however many of the delays that do not
\* look at gbShutdown it still has before it.
AnsweredInTime == kernel = "failed" => unheard \/ pc = "returned"

\* A shutdown the interrupt has taken is acknowledged once, even if what comes
\* after the ACK hangs; unless main returned because the setup had failed.
ShutdownAcked == gbShutdown ~> acks = 1 \/ pc = "returned"

\* "echo stop -> kernel sends RP_MBOX_SHUTDOWN over the mailbox ->
\* IpcRpMboxCallback sets gbShutdown -> main loop exits ->
\* finalize_ipc_shutdown() sends RP_MBOX_SHUTDOWN_ACK".
ShutdownAlwaysAcked == gbShutdown ~> acks = 1
=============================================================================
