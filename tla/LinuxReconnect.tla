--------------------------- MODULE LinuxReconnect ---------------------------
(***************************************************************************)
(* How the Linux client (rpmsg_char_example.c) finds the R5 again: it      *)
(* watches the remoteproc state in sysfs, waits a grace period, opens an   *)
(* endpoint, pings once, and backs off after every failure.                *)
(*                                                                         *)
(* Time is counted in units (seconds, say) in which the 10 ms and 250 ms   *)
(* sleeps of the client vanish.  Instants are kept as what the code        *)
(* computes from them, an age or a remaining time, so that the model is    *)
(* finite without a bound on the clock; ages stop counting where the code  *)
(* no longer tells them apart.                                             *)
(***************************************************************************)
EXTENDS Naturals

CONSTANTS
    Backoff,       \* RECONNECT_BACKOFF_MS
    Grace,         \* REMOTEPROC_RPMSG_GRACE_MS
    MaxLate        \* units an attempt to connect may take

ASSUME ConstantsAssumption ==
    /\ Backoff \in Nat /\ Grace \in Nat
    /\ MaxLate \in 0..Backoff

VARIABLES
    \* the R5 and the kernel
    state,       \* "offline", "running", or "stopping" (still "running" in sysfs)
    channel,     \* has the firmware announced its RPMsg channel?
    known,       \* FALSE: sysfs does not name the R5 (r5_remoteproc_instance = -1)
    \* the client
    pc,          \* "top", in rpmsg_try_connect "probed", "open", "ping"; "connected"
    endpoint,    \* rcdev: "none", "live", or "dead" when its channel is gone
    backoff,     \* next_reconnect_attempt_ms, as the time left
    late,        \* age of now_ms in the attempt that is going on
    wasRunning,  \* r5_remoteproc_was_running
    runningFor,  \* age of r5_remoteproc_running_since_ms
    \* history
    upFor,       \* how long the R5 has been running
    sawStop      \* has the client read "offline" since the R5 was last up for Grace?

r5Vars == <<state, channel, known>>
clientVars == <<pc, endpoint, backoff, late, wasRunning, runningFor>>
vars == <<r5Vars, clientVars, upFor, sawStop>>

Smaller(a, b) == IF a < b THEN a ELSE b

-----------------------------------------------------------------------------
(* The client *)

\* is_r5_remoteproc_running: what cannot be read counts as running.
Running == known => state \in {"running", "stopping"}
ClientSees == sawStop' = (sawStop \/ ~Running)

\* Every failed attempt sets next_reconnect_attempt_ms from its own now_ms.
Retry == pc' = "top" /\ backoff' = Backoff - late /\ late' = 0

\* rpmsg_try_connect: the first look at sysfs, before anything else.
Probe ==
    /\ pc = "top" /\ backoff = 0
    /\ ClientSees
    /\ IF Running THEN pc' = "probed" /\ UNCHANGED <<backoff, late>> ELSE Retry
    /\ UNCHANGED <<r5Vars, endpoint, wasRunning, runningFor, upFor>>

\* Mutant: the grace period starts again with every attempt.
JudgeAfresh ==
    /\ pc = "probed"
    /\ wasRunning' = Running
    /\ runningFor' = 0
    /\ IF Grace = 0 THEN pc' = "open" /\ UNCHANGED <<backoff, late>> ELSE Retry
    /\ ClientSees
    /\ UNCHANGED <<r5Vars, endpoint, upFor>>

\* is_r5_remoteproc_ready_for_rpmsg, which looks at sysfs a second time.
Judge ==
    /\ pc = "probed"
    /\ wasRunning' = Running
    /\ runningFor' = IF ~Running THEN 0 ELSE IF wasRunning THEN runningFor ELSE late
    /\ IF Running /\ runningFor' - late >= Grace
       THEN pc' = "open" /\ UNCHANGED <<backoff, late>>
       ELSE Retry
    /\ ClientSees
    /\ UNCHANGED <<r5Vars, endpoint, upFor>>

\* rpmsg_char_init and rpmsg_char_open, which need the channel's devices.
Open ==
    /\ pc = "open"
    /\ IF channel
       THEN endpoint' = "live" /\ pc' = "ping" /\ UNCHANGED <<backoff, late>>
       ELSE Retry /\ UNCHANGED endpoint
    /\ UNCHANGED <<r5Vars, wasRunning, runningFor, upFor, sawStop>>

\* The ping is written.
PingSucceeds ==
    /\ pc = "ping" /\ endpoint = "live"
    /\ pc' = "connected" /\ backoff' = 0 /\ late' = 0
    /\ UNCHANGED <<r5Vars, endpoint, wasRunning, runningFor, upFor, sawStop>>

\* It is not: the channel is gone or its queue is full.  The endpoint is
\* abandoned or closed.
PingFails ==
    /\ pc = "ping"
    /\ endpoint' = "none"
    /\ Retry
    /\ UNCHANGED <<r5Vars, wasRunning, runningFor, upFor, sawStop>>

\* Mutants: the endpoint is kept; an error counts only while the R5 runs.
LoseChannelKeepEndpoint ==
    /\ pc = "connected" /\ endpoint = "dead"
    /\ pc' = "top" /\ backoff' = Backoff
    /\ UNCHANGED <<r5Vars, endpoint, late, wasRunning, runningFor, upFor, sawStop>>
LoseChannelWhileRunning ==
    /\ pc = "connected" /\ endpoint = "dead" /\ state = "running"
    /\ endpoint' = "none"
    /\ pc' = "top" /\ backoff' = Backoff
    /\ UNCHANGED <<r5Vars, late, wasRunning, runningFor, upFor, sawStop>>

\* rpmsg_mark_disconnected: a read or write meets a transport error.
LoseChannel ==
    /\ pc = "connected" /\ endpoint = "dead"
    /\ endpoint' = "none"
    /\ pc' = "top" /\ backoff' = Backoff
    /\ UNCHANGED <<r5Vars, late, wasRunning, runningFor, upFor, sawStop>>

ClientStep == Probe \/ Judge \/ Open \/ PingSucceeds \/ PingFails \/ LoseChannel

-----------------------------------------------------------------------------
(* The R5, the kernel and the clock *)

R5Start ==
    /\ state = "offline"
    /\ state' = "running"
    /\ UNCHANGED <<channel, known, clientVars, upFor, sawStop>>

\* The firmware gets as far as RPMessage_announce.
Announce ==
    /\ state = "running" /\ ~channel
    /\ channel' = TRUE
    /\ UNCHANGED <<state, known, clientVars, upFor, sawStop>>

\* The kernel first removes the channel, then waits for the firmware's ACK,
\* for ever if the stop fails.
R5StopBegins ==
    /\ state = "running"
    /\ state' = "stopping" /\ channel' = FALSE
    /\ endpoint' = IF endpoint = "live" THEN "dead" ELSE endpoint
    /\ UNCHANGED <<known, pc, backoff, late, wasRunning, runningFor, upFor, sawStop>>

R5StopEnds ==
    /\ state = "stopping"
    /\ state' = "offline" /\ upFor' = 0
    /\ UNCHANGED <<channel, known, clientVars, sawStop>>

\* One unit of time.
Tick ==
    /\ LET between == pc \in {"top", "connected"} IN
          /\ between \/ late < MaxLate
          /\ late' = IF between THEN 0 ELSE late + 1
    /\ backoff' = IF backoff = 0 THEN 0 ELSE backoff - 1
    /\ runningFor' = IF wasRunning THEN Smaller(runningFor + 1, Grace + MaxLate) ELSE 0
    /\ upFor' = IF state = "running" THEN Smaller(upFor + 1, Grace) ELSE upFor
    /\ sawStop' = (sawStop /\ ~(state = "running" /\ upFor' = Grace))
    /\ UNCHANGED <<r5Vars, pc, endpoint, wasRunning>>

Environment == R5Start \/ Announce \/ R5StopBegins \/ R5StopEnds \/ Tick

-----------------------------------------------------------------------------
\* The client starts, or starts again: it knows nothing (its variables are
\* static), and the R5 may be anywhere.
Init ==
    /\ state \in {"offline", "running", "stopping"} /\ known \in BOOLEAN
    /\ channel \in BOOLEAN /\ (channel => state = "running")
    /\ upFor \in 0..Grace /\ (state = "offline" => upFor = 0)
    /\ pc = "top" /\ endpoint = "none" /\ backoff = 0 /\ late = 0
    /\ wasRunning = FALSE /\ runningFor = 0
    /\ sawStop = FALSE

Next == ClientStep \/ Environment

Spec == Init /\ [][Next]_vars

\* The client's loop never stops, and neither does the clock.  The queue the
\* ping goes to is not full for ever: the R5 polls it.
FairSpec ==
    Spec /\ WF_vars(ClientStep) /\ WF_vars(Tick) /\ SF_vars(PingSucceeds)

-----------------------------------------------------------------------------
(* Properties *)

\* Beside the types: the client holds an endpoint exactly while it uses it, so
\* that no attempt to connect can lose one that is open.
TypeOK ==
    /\ state \in {"offline", "running", "stopping"}
    /\ channel \in BOOLEAN /\ known \in BOOLEAN
    /\ pc \in {"top", "probed", "open", "ping", "connected"}
    /\ endpoint \in {"none", "live", "dead"}
    /\ backoff \in 0..Backoff /\ late \in 0..MaxLate
    /\ wasRunning \in BOOLEAN /\ runningFor \in 0..Grace + MaxLate
    /\ upFor \in 0..Grace /\ sawStop \in BOOLEAN
    /\ (endpoint # "none") <=> (pc \in {"ping", "connected"})

\* An R5 that keeps running and has announced its channel is connected to in
\* the end, for good, whatever restarts of it came before.
Connects ==
    <>[](state = "running" /\ channel) => <>[](pc = "connected" /\ endpoint = "live")

\* The endpoint of an R5 that went away is given up, also while sysfs goes on
\* saying "running" because the stop hangs.
LetsGo == <>[](state # "running") => <>[](endpoint = "none")

\* README: the client "watches remoteproc sysfs (`running`), waits a short
\* grace period, opens RPMSG".  So a client that saw the R5 stopped opens no
\* endpoint before the R5 has been running for the grace period.
GraceAfterStop == [][pc = "probed" /\ pc' = "open" => ~sawStop]_vars
=============================================================================
