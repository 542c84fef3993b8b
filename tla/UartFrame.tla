----------------------------- MODULE UartFrame ------------------------------
(***************************************************************************)
(* The framed UART driver of the R5, bbai64_uart.c.  A peer writes frames  *)
(* with bbai64_uart_write_frame, whatever is in their payloads; between    *)
(* them, and instead of some of their bytes, the line carries noise.  The  *)
(* reader takes one byte at a time out of the receive FIFO, between checks *)
(* of the deadline, which may pass at any of them.                         *)
(***************************************************************************)
EXTENDS UartChecksum

CONSTANTS
    StartMarker, EndMarker,  \* start_bytes and end_bytes, each up to 8 bytes
    LengthType,              \* "U8", "U16_LE" or "U16_BE"
    Adjustment,              \* length_adjustment
    ChecksumType,            \* checksum_type
    BigEndian,               \* checksum_big_endian
    Scope,                   \* checksum_scope_flags, as a set
    Payloads, BufferLength,  \* what the peer sends; payload_buffer_length
    Noise,                   \* bytes that are not part of a frame
    FifoSize,                \* depth of the receive FIFO
    MaxFaults,               \* bound on noise, damage, losses and timeouts
    LengthSafe               \* the length field itself is never damaged

LengthSize == IF LengthType = "U8" THEN 1 ELSE 2
ChecksumSize ==
    IF ChecksumType = "NONE" THEN 0 ELSE IF ChecksumType \in Crc16 THEN 2 ELSE 1

MaxMarkerBytes == 8
L == Len(StartMarker)

\* bbai64_uart_frame_config_is_valid.
FrameConfigIsValid ==
    /\ Len(StartMarker) <= MaxMarkerBytes /\ Len(EndMarker) <= MaxMarkerBytes
    /\ LengthType \in {"U8", "U16_LE", "U16_BE"}
    /\ ChecksumType \in ChecksumTypes
    /\ Scope \subseteq {"HEADER", "LENGTH", "PAYLOAD"}
    /\ ChecksumType = "NONE" <=> Scope = {}

ASSUME ConstantsAssumption ==
    /\ StartMarker \in Seq(Byte) /\ EndMarker \in Seq(Byte)
    /\ FrameConfigIsValid
    /\ BigEndian \in BOOLEAN /\ Adjustment \in Int
    /\ \A p \in Payloads : p \in Seq(Byte)
    /\ BufferLength \in Nat /\ Noise \subseteq Byte
    /\ FifoSize \in Nat \ {0} /\ MaxFaults \in Nat
    /\ LengthSafe \in BOOLEAN

-----------------------------------------------------------------------------
(* The layout of a frame *)

\* bbai64_uart_frame_encode_length fails for a number that does not fit.
EncodedLength(n) == n + Adjustment
LengthFits(n) ==
    /\ EncodedLength(n) >= 0
    /\ EncodedLength(n) <= IF LengthType = "U8" THEN 255 ELSE 65535
EncodeLength(n) ==
    LET low == EncodedLength(n) % 256
        high == EncodedLength(n) \div 256
    IN IF LengthType = "U8" THEN <<low>>
       ELSE IF LengthType = "U16_LE" THEN <<low, high>> ELSE <<high, low>>

\* bbai64_uart_frame_decode_payload_length; it fails for a negative number.
DecodeLength(b) ==
    (IF LengthType = "U8" THEN b[1]
     ELSE IF LengthType = "U16_LE" THEN b[1] + 256 * b[2]
                                   ELSE 256 * b[1] + b[2]) - Adjustment

\* bbai64_uart_frame_compute_checksum: the parts in scope, in wire order.
InScope(part, s) == IF part \in Scope THEN s ELSE <<>>
Checksum(lengthBytes, payload) ==
    ChecksumBytes(ChecksumType, BigEndian,
                  ValueOf(ChecksumType, InScope("HEADER", StartMarker)
                                        \o InScope("LENGTH", lengthBytes)
                                        \o InScope("PAYLOAD", payload)))

\* bbai64_uart_write_frame.
Wire(p) ==
    StartMarker \o EncodeLength(Len(p)) \o p
    \o Checksum(EncodeLength(Len(p)), p) \o EndMarker

\* bbai64_uart_frame_encoded_size, of a length that fits.
EncodedSize(n) == L + LengthSize + n + ChecksumSize + Len(EndMarker)

-----------------------------------------------------------------------------
(* The search for the start marker *)

LastBytes(n, s) == IF Len(s) <= n THEN s ELSE SubSeq(s, Len(s) - n + 1, Len(s))

\* The first k bytes of the marker are the last k bytes of s.
MarkerEnds(k, s) ==
    k <= Len(s) /\ \A i \in 1..k : StartMarker[i] = s[Len(s) - k + i]

Largest(S) == CHOOSE k \in S : \A j \in S : j <= k

\* Mutant: a byte that does not fit starts the match all over.
NextMatchFromScratch(matched, byte) ==
    IF StartMarker[matched + 1] = byte THEN matched + 1 ELSE 0

\* bbai64_uart_next_marker_match_length: the bytes matched so far are the
\* only ones it remembers; the longest candidate is tried first.
NextMatch(matched, byte) ==
    LET sequence == Append(SubSeq(StartMarker, 1, matched), byte)
    IN Largest({0} \cup {k \in 1..matched + 1 : k <= L /\ MarkerEnds(k, sequence)})

-----------------------------------------------------------------------------
VARIABLES
    line, fifo,      \* bytes of the frame being sent, and in the receive FIFO
    ready,           \* is_initialized
    pc,              \* where the reader is
    matched,         \* bytes of the start marker matched
    got,             \* what has been read after the marker
    left,            \* bytes still to be thrown away
    status, size,    \* of the last call: its result and *payload_length
    sent, recent,    \* history: the last bytes sent, and read since the call
    awaited,         \* history: frames whose first byte has not been read
    current,         \* history: the frame that byte was last read of
    faults, lost,    \* history: faults so far; an intact frame was just lost
    clean,           \* history: only frames' beginnings look like a marker
    whole            \* history: no noise, and no read that ends inside a frame

wire == <<line, fifo, sent, clean>>
call == <<pc, matched, got, left, recent>>
result == <<status, size>>
frames == <<awaited, current, lost, whole>>
vars == <<wire, ready, call, result, frames, faults>>

Init ==
    /\ line = <<>> /\ fifo = <<>> /\ sent = <<>>
    /\ ready = FALSE
    /\ pc = "idle" /\ matched = 0 /\ got = <<>> /\ left = 0 /\ recent = <<>>
    /\ status = "IDLE" /\ size = 0
    /\ awaited = <<>> /\ current = <<>> /\ lost = FALSE /\ faults = 0
    /\ clean = TRUE /\ whole = TRUE

-----------------------------------------------------------------------------
(* The peer and the line *)

\* With w, nothing but a frame's beginning looks like a start marker.  The
\* writer does not see to that: it neither escapes nor refuses a payload.
Clean(w, isFrame) ==
    LET s == sent \o w
    IN \A i \in 1..Len(s) - L + 1 :
          SubSeq(s, i, i + L - 1) = StartMarker => isFrame /\ i = Len(sent) + 1

\* One byte of a frame is changed or, unless lengths are safe, lost.
Damaged(w) ==
    LET changeable == IF LengthSafe THEN L + LengthSize + 1..Len(w) ELSE 1..Len(w)
        change == {[w EXCEPT ![i] = (@ + 1) % 256] : i \in changeable}
        loss == {SubSeq(w, 1, i - 1) \o SubSeq(w, i + 1, Len(w)) : i \in 1..Len(w)}
    IN IF LengthSafe THEN change ELSE change \cup loss

Put(w, isFrame) ==
    /\ line = <<>>
    /\ line' = [i \in DOMAIN w |-> [byte |-> w[i], start |-> isFrame /\ i = 1]]
    /\ sent' = LastBytes(L - 1, sent \o w) /\ clean' = (clean /\ Clean(w, isFrame))
    /\ UNCHANGED <<fifo, ready, call, result, current, lost>>

WriteFrame == \E p \in Payloads :
    /\ LengthFits(Len(p))
    /\ Put(Wire(p), TRUE)
    /\ awaited' = Append(awaited, [payload |-> p, intact |-> TRUE])
    /\ UNCHANGED <<whole, faults>>

WriteDamaged == \E p \in Payloads : \E w \in Damaged(Wire(p)) :
    /\ LengthFits(Len(p)) /\ faults < MaxFaults
    /\ Put(w, TRUE)
    /\ awaited' = Append(awaited, [payload |-> p, intact |-> FALSE])
    /\ faults' = faults + 1
    /\ UNCHANGED whole

MakeNoise == \E b \in Noise :
    /\ faults < MaxFaults
    /\ Put(<<b>>, FALSE)
    /\ whole' = FALSE /\ faults' = faults + 1
    /\ UNCHANGED awaited

Arrive ==
    /\ line # <<>> /\ Len(fifo) < FifoSize
    /\ fifo' = Append(fifo, Head(line)) /\ line' = Tail(line)
    /\ UNCHANGED <<sent, clean, ready, call, result, frames, faults>>

-----------------------------------------------------------------------------
(* The reader *)

\* The next byte to be read, if q is in the FIFO, is a frame's first.
AtBoundary(q) == LET rest == q \o line IN rest = <<>> \/ Head(rest).start

\* bbai64_uart_init resets the module and its FIFOs, unless the
\* configuration is not valid: then the handle is no longer usable.
UartInit ==
    /\ pc = "idle"
    /\ \/ ready' = TRUE /\ fifo' = <<>>
          /\ awaited' = LastBytes(IF \E i \in DOMAIN line : line[i].start THEN 1 ELSE 0, awaited)
          /\ whole' = (whole /\ AtBoundary(<<>>))
       \/ ready' = FALSE /\ UNCHANGED <<fifo, awaited, whole>>
    /\ status' = "IDLE" /\ size' = 0
    /\ UNCHANGED <<line, sent, clean, call, current, lost, faults>>

\* UARTCharGet.
GetChar ==
    /\ fifo # <<>> /\ fifo' = Tail(fifo)
    /\ IF Head(fifo).start
       THEN /\ current' = <<Head(awaited)>> /\ awaited' = Tail(awaited)
            /\ lost' = (lost \/ (pc \notin {"drain", "raw"} /\ current # <<>> /\ current[1].intact))
            /\ UNCHANGED whole
       ELSE UNCHANGED frames
    /\ UNCHANGED <<line, sent, clean, ready, faults>>

\* What the fields read so far say.
LengthBytes == SubSeq(got, 1, LengthSize)
PayloadLength == DecodeLength(LengthBytes)
TrailerSize == ChecksumSize + Len(EndMarker)
Needed == IF pc = "length" THEN LengthSize
                           ELSE LengthSize + PayloadLength + TrailerSize
Payload == SubSeq(got, LengthSize + 1, LengthSize + PayloadLength)
Trailer == SubSeq(got, LengthSize + PayloadLength + 1, Len(got))

\* The frame in hand is what the call reports, not bytes it took for one.
Reports(s) ==
    \/ s = "OK" /\ Payload = current[1].payload
    \/ s = "BUFFER_TOO_SMALL" /\ size = Len(current[1].payload)

\* bbai64_uart_read_frame returns.
Return(s) ==
    /\ pc' = "idle" /\ status' = s
    /\ current' = <<>>
    /\ lost' = (lost \/ (current # <<>> /\ current[1].intact /\ ~Reports(s)))
    /\ whole' = (whole /\ (s = "TIMEOUT" => AtBoundary(fifo)))
    /\ UNCHANGED <<wire, ready, matched, got, left, recent, awaited>>

Call ==
    /\ pc = "idle"
    /\ IF ready THEN pc' = "marker" /\ status' = "READING"
                ELSE pc' = pc /\ status' = "INVALID_ARGUMENT"
    /\ size' = 0 /\ matched' = 0 /\ got' = <<>> /\ left' = 0 /\ recent' = <<>>
    /\ lost' = FALSE
    /\ UNCHANGED <<wire, ready, awaited, current, whole, faults>>

\* bbai64_uart_read_start_marker_before_deadline.
MarkerByte ==
    /\ pc = "marker" /\ matched < L
    /\ GetChar
    /\ matched' = NextMatch(matched, Head(fifo).byte)
    /\ recent' = LastBytes(L, Append(recent, Head(fifo).byte))
    /\ UNCHANGED <<pc, got, left, result>>

MarkerFound ==
    /\ pc = "marker" /\ matched = L
    /\ pc' = "length"
    /\ UNCHANGED <<wire, ready, matched, got, left, recent, result, frames, faults>>

\* bbai64_uart_read_bytes_before_deadline.
FieldByte ==
    /\ pc \in {"length", "body"} /\ Len(got) < Needed
    /\ GetChar
    /\ got' = Append(got, Head(fifo).byte)
    /\ UNCHANGED <<pc, matched, left, recent, result>>

\* Mutant: the discard counts the length field, which has been read.
DecodeDiscardsMore ==
    /\ pc = "length" /\ Len(got) = LengthSize
    /\ \/ /\ PayloadLength < 0
          /\ Return("LENGTH_OUT_OF_RANGE") /\ UNCHANGED <<size, faults>>
       \/ /\ PayloadLength > BufferLength
          /\ pc' = "discard" /\ left' = LengthSize + PayloadLength + TrailerSize
          /\ size' = PayloadLength
          /\ UNCHANGED <<wire, ready, matched, got, recent, status, frames, faults>>
       \/ /\ PayloadLength \in 0..BufferLength
          /\ pc' = "body"
          /\ UNCHANGED <<wire, ready, matched, got, left, recent, result, frames, faults>>

\* The length is known: refuse it, skip the frame, or read on.
Decode ==
    /\ pc = "length" /\ Len(got) = LengthSize
    /\ \/ /\ PayloadLength < 0
          /\ Return("LENGTH_OUT_OF_RANGE") /\ UNCHANGED <<size, faults>>
       \/ /\ PayloadLength > BufferLength
          /\ pc' = "discard" /\ left' = PayloadLength + TrailerSize
          /\ size' = PayloadLength
          /\ UNCHANGED <<wire, ready, matched, got, recent, status, frames, faults>>
       \/ /\ PayloadLength \in 0..BufferLength
          /\ pc' = "body"
          /\ UNCHANGED <<wire, ready, matched, got, left, recent, result, frames, faults>>

\* Mutant: one turn too many.
DiscardByteTooMany ==
    /\ pc = "discard" /\ left >= 0
    /\ GetChar
    /\ left' = left - 1
    /\ UNCHANGED <<pc, matched, got, recent, result>>

\* bbai64_uart_discard_bytes_before_deadline.
DiscardByte ==
    /\ pc = "discard" /\ left > 0
    /\ GetChar
    /\ left' = left - 1
    /\ UNCHANGED <<pc, matched, got, recent, result>>

Discarded ==
    /\ pc = "discard" /\ left = 0
    /\ Return("BUFFER_TOO_SMALL")
    /\ UNCHANGED <<size, faults>>

\* The end marker is looked at before the checksum.
Verify ==
    /\ pc = "body" /\ Len(got) = Needed
    /\ LET endMatches == SubSeq(Trailer, ChecksumSize + 1, TrailerSize) = EndMarker
           sumMatches == SubSeq(Trailer, 1, ChecksumSize) = Checksum(LengthBytes, Payload)
       IN \/ /\ ~endMatches
             /\ Return("END_MARKER_MISMATCH") /\ size' = 0
          \/ /\ endMatches /\ ~sumMatches
             /\ Return("CHECKSUM_MISMATCH") /\ size' = 0
          \/ /\ endMatches /\ sumMatches
             /\ Return("OK") /\ size' = PayloadLength
    /\ UNCHANGED faults

ReadStep ==
    \/ MarkerByte \/ MarkerFound \/ FieldByte \/ Decode
    \/ DiscardByte \/ Discarded \/ Verify

\* The deadline is looked at before each byte, whether or not one is there.
Waiting ==
    \/ pc = "marker" /\ matched < L
    \/ pc \in {"length", "body"} /\ Len(got) < Needed
    \/ pc = "discard" /\ left > 0
Quiet == line = <<>> /\ fifo = <<>>

Timeout ==
    /\ Waiting /\ Return("TIMEOUT")
    /\ faults' = IF Quiet THEN faults ELSE faults + 1
    /\ faults' <= MaxFaults
    /\ UNCHANGED size

\* bbai64_uart_drain_rx, and the reads that know of no frames: they stop
\* early when the caller's buffer is full or the time is up.
DrainBegin ==
    /\ pc = "idle" /\ ready
    /\ pc' \in {"drain", "raw"} /\ status' = "IDLE" /\ size' = 0
    /\ UNCHANGED <<wire, ready, matched, got, left, recent, frames, faults>>

DrainByte ==
    /\ pc \in {"drain", "raw"}
    /\ GetChar
    /\ UNCHANGED <<call, result>>

DrainEnd ==
    /\ pc = "raw" \/ (pc = "drain" /\ fifo = <<>>)
    /\ pc' = "idle" /\ current' = <<>>
    /\ whole' = (whole /\ AtBoundary(fifo))
    /\ UNCHANGED <<wire, ready, matched, got, left, recent, result, awaited, lost, faults>>

DrainStep == DrainByte \/ DrainEnd

Next ==
    \/ WriteFrame \/ WriteDamaged \/ MakeNoise \/ Arrive
    \/ UartInit \/ Call \/ ReadStep \/ Timeout \/ DrainBegin \/ DrainStep

Spec == Init /\ [][Next]_vars

\* Bytes that are on the line arrive; a loop that finds a byte takes it, and
\* one that waits on a silent line reaches its deadline.
FairSpec ==
    /\ Spec /\ WF_vars(Arrive) /\ WF_vars(ReadStep) /\ WF_vars(DrainStep)
    /\ WF_vars(Timeout /\ Quiet)

-----------------------------------------------------------------------------
(* Properties *)

Statuses == {"IDLE", "READING", "OK", "TIMEOUT", "INVALID_ARGUMENT", "LENGTH_OUT_OF_RANGE",
             "BUFFER_TOO_SMALL", "END_MARKER_MISMATCH", "CHECKSUM_MISMATCH"}

TypeOK ==
    /\ \A q \in {line, fifo} : q \in Seq([byte : Byte, start : BOOLEAN])
    /\ Len(fifo) <= FifoSize
    /\ ready \in BOOLEAN
    /\ pc \in {"idle", "marker", "length", "body", "discard", "drain", "raw"}
    /\ matched \in 0..L /\ recent \in Seq(Byte) /\ sent \in Seq(Byte)
    /\ got \in Seq(Byte) /\ left \in Nat
    /\ status \in Statuses /\ size \in Nat
    /\ \A q \in {awaited, current} : q \in Seq([payload : Payloads, intact : BOOLEAN])
    /\ faults \in 0..MaxFaults
    /\ lost \in BOOLEAN /\ clean \in BOOLEAN /\ whole \in BOOLEAN

\* "Advance a streaming marker match by one byte while preserving any suffix
\* that is also a prefix of the marker": without a copy of the stream, the
\* match is always the longest the bytes read so far allow.
MatchIsLongest ==
    pc = "marker" =>
        /\ MarkerEnds(matched, recent)
        /\ \A k \in matched + 1..L : ~MarkerEnds(k, recent)

\* What goes onto the line, if anything does, looks like a marker only where
\* a frame begins.
CleanPut ==
    line = <<>> /\ line' # <<>> =>
        Clean([i \in DOMAIN line' |-> line'[i].byte], line'[1].start)

\* "the parser can recover even when it starts mid-stream": whatever bytes
\* of frames were damaged or lost, lengths and markers too, and whatever
\* payloads looked like a frame, if from some time on nothing looks like a
\* marker except where a frame begins, then only finitely many intact frames
\* are lost: the reader is back in step.  Where payloads never stop to look
\* like frames one fault may cost any number of frames.
Resync == <>[][CleanPut]_vars => <>[][lost' => lost]_vars
=============================================================================
