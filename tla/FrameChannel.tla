---------------------------- MODULE FrameChannel ----------------------------
(***************************************************************************)
(* What bbai64_uart_read_frame promises (the comments before it and in     *)
(* bbai64_uart.h): one call parses one framed packet.  Frames come out in  *)
(* the order they went in, each at most once and unharmed; one that is too *)
(* large for the buffer is skipped whole and its size reported; one that   *)
(* was damaged on the way is refused; only a timeout may lose another.     *)
(***************************************************************************)
EXTENDS Naturals, Sequences

CONSTANTS Payloads, BufferLength
VARIABLES
    queue,     \* frames sent and not taken out yet
    status,    \* of the last call, READING during one
    given,     \* the payload that call handed over, <<>> if none
    size       \* its *payload_length

vars == <<queue, status, given, size>>

Frame == [payload: Payloads, intact: BOOLEAN]

Init == queue = <<>> /\ status = "IDLE" /\ given = <<>> /\ size = 0

Send == \E f \in Frame :
    queue' = Append(queue, f) /\ UNCHANGED <<status, given, size>>

Call ==
    /\ status # "READING" /\ status' = "READING"
    /\ given' = <<>> /\ size' = 0
    /\ UNCHANGED queue

\* The port is not set up.
Reject ==
    /\ status # "READING" /\ status' = "INVALID_ARGUMENT"
    /\ given' = <<>> /\ size' = 0
    /\ UNCHANGED queue

\* The call takes the oldest frame off the channel.
Take(s) ==
    /\ status = "READING" /\ status' = s
    /\ queue # <<>> /\ queue' = Tail(queue)

Ok ==
    /\ Take("OK") /\ Head(queue).intact
    /\ given' = Head(queue).payload /\ size' = Len(given')

TooSmall ==
    /\ Take("BUFFER_TOO_SMALL") /\ Len(Head(queue).payload) > BufferLength
    /\ given' = <<>> /\ size' = Len(Head(queue).payload)

Refuse == \E s \in {"END_MARKER_MISMATCH", "CHECKSUM_MISMATCH"} :
    /\ Take(s) /\ ~Head(queue).intact
    /\ given' = <<>> /\ size' = 0

\* Where the clock stops the call it may have been reading a frame; nothing
\* is promised of *payload_length.
Timeout ==
    /\ \/ Take("TIMEOUT")
       \/ status = "READING" /\ status' = "TIMEOUT" /\ queue' = queue
    /\ given' = <<>>

\* The port is set up anew, or drained.
Flush ==
    /\ status # "READING" /\ status' = "IDLE"
    /\ \E n \in 0..Len(queue) : queue' = SubSeq(queue, n + 1, Len(queue))
    /\ given' = <<>> /\ size' = 0

Next == Send \/ Call \/ Reject \/ Ok \/ TooSmall \/ Refuse \/ Timeout \/ Flush

Spec == Init /\ [][Next]_vars
=============================================================================
