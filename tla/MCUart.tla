------------------------------- MODULE MCUart -------------------------------
(***************************************************************************)
(* Small instances of the framed UART driver for TLC.  A behaviour is      *)
(* about one part from its first state on: frames of one configuration, on *)
(* a line that adds noise and damages bodies; frames of another, of which  *)
(* any byte may be damaged or lost; or a checksum.  In both, some payloads *)
(* look like a frame.                                                      *)
(***************************************************************************)
EXTENDS UartFrame, ChecksumPair

VARIABLE part

frameVars == <<vars, part>>
mcVars == <<vars, pairVars, part>>

-----------------------------------------------------------------------------
(* Constants *)

\* The pattern the driver's comment names, a marker that overlaps itself.
MCStart == <<170, 170, 85>>
MCEnd == <<3>>

\* One payload ends with a byte of the marker; one holds what looks like the
\* frame of an empty payload.
MCPayloads == {<<170>>, MCStart \o <<1, 0>>}

\* The second configuration: a length of one byte, no checksum, no end marker.
\* One payload completes a marker that its length, 170, begins: what follows,
\* the first byte of the next frame, reads as the length 2, and nothing tells
\* the reader.  The other is too large for the buffer and looks like no frame.
LossyPayloads == {<<170, 85>>, <<85, 170, 170>>}
Lossy == INSTANCE UartFrame WITH
    EndMarker <- <<>>, ChecksumType <- "NONE", Scope <- {}, Adjustment <- 168,
    LengthType <- "U8",
    Payloads <- LossyPayloads, Noise <- {},
    FifoSize <- 1, LengthSafe <- FALSE

\* Every pair of wrong bytes of the short message, single ones of the others.
MCShort == <<49, 50>>
MCMessages == {MCShort, Digits, <<0>>, <<255, 0, 255>>, <<170, 85, 1>>}
MCMaxBurst == [m \in MCMessages |-> IF m = MCShort THEN 2 ELSE 1]
MCTypes == ChecksumTypes
MCByte == Byte

-----------------------------------------------------------------------------
MCInit ==
    /\ Init
    /\ \/ part = "checksum" /\ PairInit
       \/ /\ part \in {"frames", "lossy"}
          /\ PairInit /\ type = "NONE" /\ message = MCShort

InFrames(A) == part = "frames" /\ A /\ UNCHANGED <<pairVars, part>>
InLossy(A) == part = "lossy" /\ A /\ UNCHANGED <<pairVars, part>>
InChecksum(A) == part = "checksum" /\ A /\ UNCHANGED frameVars

MCNext == InFrames(Next) \/ InLossy(Lossy!Next) \/ InChecksum(PairNext)

\* The fairness of the reader and the line.
MCSpec ==
    /\ MCInit /\ [][MCNext]_mcVars
    /\ WF_mcVars(InLossy(Lossy!Arrive)) /\ WF_mcVars(InLossy(Lossy!ReadStep))
    /\ WF_mcVars(InLossy(Lossy!DrainStep))
    /\ WF_mcVars(InLossy(Lossy!Timeout /\ Quiet))

-----------------------------------------------------------------------------
TypesOK == (IF part = "lossy" THEN Lossy!TypeOK ELSE TypeOK) /\ PairTypeOK

\* The first configuration lets the reader keep step: there is a start marker,
\* lengths are not damaged, and the checksum covers payloads.
KeepsStep == L > 0 /\ LengthSafe /\ "PAYLOAD" \in Scope
ASSUME MCKeepsStep == KeepsStep

\* Either nothing on the line has looked like a start marker except where a
\* frame begins; then there may be noise, and reads may end anywhere.  Or there
\* has been no noise and no read, drain or set-up has left the rest of a frame
\* to the next call; then payloads may look like frames.
Tame == clean \/ whole

\* While only frames' bodies are damaged, the byte stream is a channel of
\* frames, for as long as Tame: a payload that looks like a frame, after noise
\* or a read that ended early, may be taken for one, and nothing is promised
\* from then on.
Channel == INSTANCE FrameChannel WITH
    queue <- IF part = "frames" THEN current \o awaited ELSE <<>>,
    status <- IF part = "frames" THEN status ELSE "IDLE",
    given <- IF part = "frames" /\ status = "OK" THEN Payload ELSE <<>>,
    size <- IF part = "frames" /\ status # "READING" THEN size ELSE 0
FramesInOrder == Channel!Init /\ [][Tame => [Channel!Next]_(Channel!vars)]_mcVars
=============================================================================
