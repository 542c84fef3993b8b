---------------------------- MODULE RpmsgCharLib ----------------------------
(***************************************************************************)
(* The rpmsg_char library under the Linux client: the list of endpoints    *)
(* and its mutex, opening and closing with their failures, the signal      *)
(* handler that rpmsg_char_init installs, and what exit() still runs after *)
(* it.  The kernel's endpoint devices, the process's file descriptors and  *)
(* the remote processor are modelled as the code uses them.                *)
(*                                                                         *)
(* The client has one thread; a signal handler runs in place of it, never  *)
(* returns to it, and leaves the mutex as it finds it.                     *)
(***************************************************************************)
EXTENDS Naturals, SequencesExt

CONSTANTS
    Handles,         \* memory for struct rpmsg_char_endpt
    Devs, Fds,       \* /dev/rpmsgN; file descriptors
    NameLength,      \* of the endpoint device's name
    OpenMayFail,     \* a device that exists may still not open
    SignalsInCalls   \* a signal may arrive inside a library call

None == "none"
Closed == "closed"
Gone == "gone"      \* open, but the device is no more

VARIABLES
    \* the kernel
    rproc,         \* "running", "stopping" ("running" in sysfs) or "offline"
    devs, fds,     \* the endpoint devices; what each descriptor is open on
    \* the library
    mutex, inited, list,
    alive, fdOf,   \* handles that are allocated; rcdev.fd of each
    handler,       \* SIGINT and SIGTERM run signal_handler
    \* the client
    rcdev, initialized,   \* rcdev and rpmsg_initialized
    \* control
    phase,         \* "run", "handler", "atexit" or "done"
    pc, ret,       \* where the process is; where rpmsg_char_close returns to
    cur, next      \* handle of the call; next one of _rpmsg_char_cleanup

kernelVars == <<rproc, devs, fds>>
libVars == <<mutex, inited, list, alive, fdOf, handler>>
clientVars == <<rcdev, initialized>>
controlVars == <<phase, pc, ret, cur, next>>
vars == <<kernelVars, libVars, clientVars, controlVars>>

Running == rproc \in {"running", "stopping"}
Listed(h) == h \in ToSet(list)
Position(h) == CHOOSE i \in DOMAIN list : list[i] = h
Goto(l) == pc' = l /\ UNCHANGED <<phase, ret, cur, next>>

Init ==
    /\ rproc = "running" /\ devs = {} /\ fds = [f \in Fds |-> Closed]
    /\ mutex = FALSE /\ inited = FALSE /\ list = <<>>
    /\ alive = {} /\ fdOf = [h \in Handles |-> None] /\ handler = FALSE
    /\ rcdev = None /\ initialized = FALSE
    /\ phase = "run" /\ pc = "loop" /\ ret = "loop" /\ cur = None /\ next = None

-----------------------------------------------------------------------------
(* rpmsg_char_init and rpmsg_char_open *)

\* Signal handlers are installed last; a failure leaves nothing behind.
InitLib ==
    /\ pc = "loop" /\ rcdev = None /\ Running
    /\ ~initialized /\ ~mutex /\ ~inited
    /\ handler' = TRUE /\ inited' = TRUE /\ initialized' = TRUE
    /\ UNCHANGED <<kernelVars, mutex, list, alive, fdOf, rcdev, controlVars>>

OpenEnter == \E h \in Handles \ alive :
    /\ pc = "loop" /\ rcdev = None /\ Running
    /\ initialized /\ ~mutex /\ inited
    /\ NameLength < 32
    /\ mutex' = TRUE /\ alive' = alive \cup {h}
    /\ cur' = h /\ pc' = "find"
    /\ UNCHANGED <<kernelVars, inited, list, fdOf, handler, clientVars, phase, ret, next>>

\* The label out: the handle is freed, the client will try again.
OpenFails ==
    /\ alive' = alive \ {cur} /\ mutex' = FALSE
    /\ Goto("loop")
    /\ UNCHANGED <<rproc, inited, list, fdOf, handler, clientVars>>

\* sysfs names the processor's remoteproc and the virtio device, which a
\* stopping processor may already have lost.
FindRproc ==
    /\ pc = "find"
    /\ \/ Running /\ Goto("ctrldev") /\ UNCHANGED <<libVars, clientVars, kernelVars>>
       \/ rproc # "running" /\ OpenFails /\ UNCHANGED <<devs, fds>>

\* The rpmsg device of the channel, once the firmware has announced it, and
\* the control device beside it.
FindCtrldev ==
    /\ pc = "ctrldev"
    /\ \/ rproc = "running" /\ Goto("create") /\ UNCHANGED <<libVars, clientVars, kernelVars>>
       \/ OpenFails /\ UNCHANGED <<devs, fds>>

CreateEptdev ==
    /\ pc = "create"
    /\ IF rproc = "running"
       THEN /\ \E d \in Devs \ devs : devs' = devs \cup {d}
            /\ Goto("open")
            /\ UNCHANGED <<rproc, fds, libVars, clientVars>>
       ELSE OpenFails /\ UNCHANGED <<devs, fds>>

\* The device is looked up by its name, which file_read_string reads into 32
\* bytes together with a newline, and refuses when they are full.
NameIsFound == NameLength + 1 < 32

OpenEptdev ==
    /\ pc = "open"
    /\ \/ \E d \in devs, f \in Fds :
             /\ NameIsFound /\ fds[f] = Closed /\ \A g \in Fds : fds[g] # d
             /\ fds' = [fds EXCEPT ![f] = d] /\ fdOf' = [fdOf EXCEPT ![cur] = f]
             /\ Goto("local")
             /\ UNCHANGED <<rproc, devs, mutex, inited, list, alive, handler, clientVars>>
       \/ /\ devs = {} \/ ~NameIsFound \/ OpenMayFail
          /\ OpenFails /\ UNCHANGED <<devs, fds>>

\* Mutant: the descriptor is closed, the device stays.
DestroyEptdevClosesOnly(f) ==
    IF fds[f] \in devs
    THEN fds' = [fds EXCEPT ![f] = Closed] /\ UNCHANGED devs
    ELSE UNCHANGED <<devs, fds>>

\* _rpmsg_char_destroy_eptdev: the ioctl deletes the device; only then is the
\* descriptor closed.
DestroyEptdev(f) ==
    IF fds[f] \in devs
    THEN devs' = devs \ {fds[f]} /\ fds' = [fds EXCEPT ![f] = Closed]
    ELSE UNCHANGED <<devs, fds>>

\* The local address is read back from sysfs.
GetLocalEndpt ==
    /\ pc = "local"
    /\ \/ /\ fds[fdOf[cur]] # Gone
          /\ list' = Append(list, cur) /\ rcdev' = cur
          /\ mutex' = FALSE /\ Goto("ping")
          /\ UNCHANGED <<kernelVars, inited, alive, fdOf, handler, initialized>>
       \/ /\ fds[fdOf[cur]] = Gone \/ OpenMayFail
          /\ DestroyEptdev(fdOf[cur]) /\ OpenFails

-----------------------------------------------------------------------------
(* rpmsg_char_close *)

CloseEnter ==
    /\ pc = "want_close" /\ ~mutex
    /\ IF Listed(cur) THEN mutex' = TRUE /\ Goto("close")
                      ELSE mutex' = mutex /\ Goto("closed")
    /\ UNCHANGED <<kernelVars, inited, list, alive, fdOf, handler, clientVars>>

\* Mutant: the oldest endpoint leaves the list in place of the closed one.
DestroyRemovesHead ==
    /\ pc = "close"
    /\ DestroyEptdev(fdOf[cur])
    /\ IF fds[fdOf[cur]] \in devs
       THEN list' = Tail(list) /\ alive' = alive \ {cur}
       ELSE UNCHANGED <<list, alive>>
    /\ mutex' = FALSE /\ Goto("closed")
    /\ UNCHANGED <<rproc, inited, fdOf, handler, clientVars>>

\* Mutant: the mutex stays locked when the device cannot be destroyed.
DestroyKeepsMutex ==
    /\ pc = "close"
    /\ DestroyEptdev(fdOf[cur])
    /\ IF fds[fdOf[cur]] \in devs
       THEN list' = RemoveAt(list, Position(cur)) /\ alive' = alive \ {cur}
            /\ mutex' = FALSE
       ELSE UNCHANGED <<list, alive, mutex>>
    /\ Goto("closed")
    /\ UNCHANGED <<rproc, inited, fdOf, handler, clientVars>>

\* A handle whose device cannot be destroyed stays on the list.
Destroy ==
    /\ pc = "close"
    /\ DestroyEptdev(fdOf[cur])
    /\ IF fds[fdOf[cur]] \in devs
       THEN list' = RemoveAt(list, Position(cur)) /\ alive' = alive \ {cur}
       ELSE UNCHANGED <<list, alive>>
    /\ mutex' = FALSE /\ Goto("closed")
    /\ UNCHANGED <<rproc, inited, fdOf, handler, clientVars>>

CloseReturns ==
    /\ pc = "closed"
    /\ Goto(ret)
    /\ rcdev' = IF ret = "sweep" THEN rcdev ELSE None
    /\ UNCHANGED <<kernelVars, libVars, initialized>>

-----------------------------------------------------------------------------
(* rpmsg_char_exit *)

\* The handler calls exit, which calls rpmsg_cleanup_atexit, which calls
\* rpmsg_char_exit again.
ExitReturns ==
    /\ IF phase = "handler" THEN pc' = "cleanup" /\ phase' = "atexit"
                            ELSE pc' = "done" /\ phase' = "done"
    /\ UNCHANGED <<ret, cur>>

ExitCheck ==
    /\ pc = "want_exit" /\ ~mutex
    /\ IF inited
       THEN /\ next' = IF list = <<>> THEN None ELSE Head(list)
            /\ pc' = "sweep" /\ UNCHANGED <<phase, ret, cur>>
       ELSE ExitReturns /\ UNCHANGED next
    /\ UNCHANGED <<kernelVars, libVars, clientVars>>

\* _rpmsg_char_cleanup: iter->next is read before iter is freed.
Sweep ==
    /\ pc = "sweep"
    /\ IF next = None
       THEN Goto("want_fini")
       ELSE /\ next' = IF Position(next) = Len(list) THEN None
                                                   ELSE list[Position(next) + 1]
            /\ pc' = "want_close" /\ ret' = "sweep" /\ cur' = next
            /\ UNCHANGED phase
    /\ UNCHANGED <<kernelVars, libVars, clientVars>>

ExitFini ==
    /\ pc = "want_fini" /\ ~mutex
    /\ inited' = FALSE
    /\ ExitReturns
    /\ UNCHANGED <<kernelVars, mutex, list, alive, fdOf, handler, clientVars, next>>

-----------------------------------------------------------------------------
(* The client *)

\* rpmsg_abandon_endpoint: close without DESTROY_EPT.
Abandon ==
    /\ fds' = [fds EXCEPT ![fdOf[rcdev]] = Closed]
    /\ rcdev' = None
    /\ UNCHANGED <<rproc, devs, libVars, initialized>>

AskToClose(l) == pc' = "want_close" /\ cur' = rcdev /\ ret' = l /\ UNCHANGED <<phase, next>>

\* The end of rpmsg_try_connect.
Ping ==
    /\ pc = "ping"
    /\ \/ Goto("loop") /\ UNCHANGED <<kernelVars, libVars, clientVars>>
       \/ (~Running \/ fds[fdOf[rcdev]] = Gone) /\ Abandon /\ Goto("loop")
       \/ Running /\ AskToClose("loop") /\ UNCHANGED <<kernelVars, libVars, clientVars>>

\* rpmsg_mark_disconnected.
Disconnect ==
    /\ pc = "loop" /\ rcdev # None /\ fds[fdOf[rcdev]] = Gone
    /\ Abandon /\ Goto("loop")

\* rpmsg_cleanup, in a process that exits.
CleanupEndpoint ==
    /\ pc = "cleanup"
    /\ \/ rcdev = None /\ Goto("cleanup_lib")
          /\ UNCHANGED <<kernelVars, libVars, clientVars>>
       \/ rcdev # None /\ ~Running /\ Abandon /\ Goto("cleanup_lib")
       \/ rcdev # None /\ Running /\ AskToClose("cleanup_lib")
          /\ UNCHANGED <<kernelVars, libVars, clientVars>>

CleanupLib ==
    /\ pc = "cleanup_lib"
    /\ IF initialized THEN Goto("want_exit") ELSE ExitReturns /\ UNCHANGED next
    /\ initialized' = FALSE
    /\ UNCHANGED <<kernelVars, libVars, rcdev>>

Signal ==
    /\ phase = "run" /\ (mutex => SignalsInCalls)
    /\ IF handler THEN phase' = "handler" /\ pc' = "want_exit"
                  ELSE phase' = "done" /\ pc' = "done"
    /\ UNCHANGED <<kernelVars, libVars, clientVars, ret, cur, next>>

Process ==
    \/ InitLib \/ OpenEnter \/ FindRproc \/ FindCtrldev \/ CreateEptdev \/ OpenEptdev \/ GetLocalEndpt
    \/ CloseEnter \/ Destroy \/ CloseReturns \/ ExitCheck \/ Sweep \/ ExitFini
    \/ Ping \/ Disconnect \/ CleanupEndpoint \/ CleanupLib

-----------------------------------------------------------------------------
(* The remote processor *)

\* The kernel takes the channel and its devices away, then stops the core.
R5Stop ==
    /\ rproc = "running" /\ rproc' = "stopping"
    /\ devs' = {}
    /\ fds' = [f \in Fds |-> IF fds[f] = Closed THEN Closed ELSE Gone]
    /\ UNCHANGED <<libVars, clientVars, controlVars>>

R5Off ==
    /\ rproc = "stopping" /\ rproc' = "offline"
    /\ UNCHANGED <<devs, fds, libVars, clientVars, controlVars>>

R5Start ==
    /\ rproc = "offline" /\ rproc' = "running"
    /\ UNCHANGED <<devs, fds, libVars, clientVars, controlVars>>

Next == Process \/ Signal \/ R5Stop \/ R5Off \/ R5Start

\* The process runs on; neither signals nor stops of the R5 need to come.
Spec == Init /\ [][Next]_vars /\ WF_vars(Process)

-----------------------------------------------------------------------------
(* Properties *)

Calls == {"find", "ctrldev", "create", "open", "local", "close"}

TypeOK ==
    /\ rproc \in {"running", "stopping", "offline"} /\ devs \subseteq Devs
    /\ fds \in [Fds -> Devs \cup {Closed, Gone}]
    /\ mutex \in BOOLEAN /\ inited \in BOOLEAN /\ handler \in BOOLEAN
    /\ list \in Seq(Handles) /\ alive \subseteq Handles
    /\ fdOf \in [Handles -> Fds \cup {None}]
    /\ {rcdev, cur, next} \subseteq Handles \cup {None} /\ initialized \in BOOLEAN
    /\ pc = "local" => fdOf[cur] \in Fds
    /\ phase \in {"run", "handler", "atexit", "done"}
    /\ ret \in {"loop", "sweep", "cleanup_lib"}
    /\ pc \in Calls \cup {"loop", "ping", "want_close", "closed", "want_exit", "sweep",
                          "want_fini", "cleanup", "cleanup_lib", "done"}

\* The list holds allocated endpoints, each once, and the pointer that
\* _rpmsg_char_cleanup follows from one call of rpmsg_char_close to the next
\* is never that of a freed one.
ListIsSound ==
    /\ ToSet(list) \subseteq alive /\ IsInjective(list)
    /\ pc = "sweep" => next = None \/ Listed(next)

\* Abandoned endpoints stay on the list with descriptors that later ones
\* reuse; the one the client works with is listed all the same, and its
\* descriptor is its own until the kernel takes the device away.
CurrentEndpointIsOpen ==
    phase = "run" /\ rcdev # None /\ pc \in {"loop", "ping"} =>
        /\ Listed(rcdev)
        /\ fds[fdOf[rcdev]] \in devs \cup {Gone}

\* rpmsg_char_init installs its handlers "to perform any cleanup of stale
\* rpmsg endpoint devices during abnormal termination": a signal ends the
\* process.
SignalEndsProcess == phase = "handler" ~> phase = "done"

\* rpmsg_char_exit performs "the necessary cleanup of stale rpmsg endpoint
\* devices": no more of them outlive the process than failed to open.
NoOtherDeviceIsLeft(failed) == phase = "done" => Cardinality(devs) <= failed
=============================================================================
