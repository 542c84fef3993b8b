--------------------------- MODULE MCLinuxClient ---------------------------
(***************************************************************************)
(* Two parts of the Linux client for TLC, one of which a behaviour is      *)
(* about from its first state on: how it finds the R5 again                *)
(* (LinuxReconnect), and what it does to endpoints and devices through     *)
(* the rpmsg_char library (RpmsgCharLib).  The other part stays as it is.  *)
(***************************************************************************)
EXTENDS LinuxReconnect

CONSTANTS Handles, Devs, Fds, NameLength, OpenMayFail, SignalsInCalls

\* What stands for the lack of a handle, a device or a descriptor is none.
ASSUME NamesAreApart ==
    /\ "none" \notin Handles /\ "none" \notin Fds
    /\ "closed" \notin Devs /\ "gone" \notin Devs

VARIABLES
    part,
    rproc, devs, fds, mutex, inited, list, alive, fdOf, handler, rcdev, initialized,
    phase, libPc, ret, cur, next,
    failedOpens    \* history: devices that exist and once failed to open

libVars == <<rproc, devs, fds, mutex, inited, list, alive, fdOf, handler, rcdev,
             initialized, phase, libPc, ret, cur, next,
             failedOpens>>
mcVars == <<part, vars, libVars>>

Lib == INSTANCE RpmsgCharLib WITH pc <- libPc

MCInit ==
    /\ Lib!Init /\ failedOpens = 0
    /\ \/ part = "reconnect" /\ Init
       \/ part = "library" /\ Init /\ known /\ state = "offline"

\* The kernel takes all devices away at once.
CountFailedOpens ==
    failedOpens' = IF devs' = {} THEN 0
                   ELSE IF libPc = "open" /\ libPc' = "loop" THEN failedOpens + 1
                   ELSE failedOpens

InReconnect(A) == part = "reconnect" /\ A /\ UNCHANGED <<part, libVars>>
InLibrary(A) == part = "library" /\ A /\ CountFailedOpens /\ UNCHANGED <<part, vars>>

MCNext == InReconnect(Next) \/ InLibrary(Lib!Next)

\* The fairness of the two parts.
MCSpec ==
    /\ MCInit /\ [][MCNext]_mcVars
    /\ WF_mcVars(InReconnect(ClientStep)) /\ WF_mcVars(InReconnect(Tick))
    /\ SF_mcVars(InReconnect(PingSucceeds))
    /\ WF_mcVars(InLibrary(Lib!Process))

-----------------------------------------------------------------------------
(* The properties of RpmsgCharLib. *)

\* The list of the library, the walk of _rpmsg_char_cleanup along it, and the
\* endpoint the client works with, whatever older ones it abandoned.
EndpointsAreSound == Lib!TypeOK /\ Lib!ListIsSound /\ Lib!CurrentEndpointIsOpen

\* The handler of rpmsg_char_init ends the process, outside a library call.
SignalEndsProcess == Lib!SignalEndsProcess

\* The devices left behind are no more than those that were created and then
\* failed to open; all have the same name, so that any of them may be found.
NoOtherDeviceIsLeft == Lib!NoOtherDeviceIsLeft(failedOpens)
=============================================================================
