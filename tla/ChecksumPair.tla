---------------------------- MODULE ChecksumPair ----------------------------
(***************************************************************************)
(* What a checksum is for: the writer computes it over the bytes it sends, *)
(* the reader over those it hears, one burst of which may be wrong.        *)
(***************************************************************************)
EXTENDS UartChecksum, FiniteSets

CONSTANTS
    Types,       \* the checksum types compared
    Messages,    \* what is in the scope of the checksum
    Wrong,       \* bytes that may be heard in place of another
    MaxBurst     \* bound on the length of the burst, for each message

ASSUME PairAssumption ==
    /\ Types \subseteq ChecksumTypes
    /\ \A m \in Messages : m \in Seq(Byte)
    /\ Wrong \subseteq Byte /\ MaxBurst \in [Messages -> Nat]

VARIABLES
    type, message,      \* checksum_type of both sides; what is sent
    index,              \* bytes fed so far
    sender, receiver,   \* the running values
    errors              \* history: the bytes heard wrong

pairVars == <<type, message, index, sender, receiver, errors>>

PairInit ==
    /\ type \in Types /\ message \in Messages
    /\ index = 0 /\ errors = {}
    /\ sender = InitValue(type) /\ receiver = InitValue(type)

Feed(heard) ==
    /\ index' = index + 1
    /\ sender' = Update(type, sender, message[index + 1])
    /\ receiver' = Update(type, receiver, heard)
    /\ UNCHANGED <<type, message>>

Heard ==
    /\ index < Len(message)
    /\ Feed(message[index + 1])
    /\ UNCHANGED errors

Misheard == \E b \in Wrong :
    /\ index < Len(message) /\ b # message[index + 1]
    /\ \A i \in errors : index + 1 < i + MaxBurst[message]
    /\ Feed(b)
    /\ errors' = errors \cup {index + 1}

PairNext == Heard \/ Misheard
PairSpec == PairInit /\ [][PairNext]_pairVars

-----------------------------------------------------------------------------
(* Properties *)

\* The running values stay within the widths of the driver's variables.
Values(t) ==
    IF t = "NONE" THEN {0}
    ELSE IF t = "SUM8" THEN Byte
    ELSE IF t = "XOR8" THEN SUBSET (0..7) ELSE SUBSET (0..15)

PairTypeOK ==
    /\ type \in Types /\ message \in Messages /\ index \in 0..Len(message)
    /\ sender \in Values(type) /\ receiver \in Values(type)
    /\ errors \subseteq 1..index

\* A frame with one wrong byte, at any place of any message, is found out by
\* every checksum of the driver: no later byte can make the two values equal
\* again.
OneByteIsNoticed ==
    type # "NONE" /\ (\E i \in 1..index : errors = {i}) => sender # receiver

\* The 16-bit checksums also find out every burst of two bytes.
BurstIsNoticed ==
    type \in Crc16 /\ (\E i \in errors : errors \subseteq {i, i + 1}) => sender # receiver

\* Both: no frame that is wrong in one byte, nor, with a CRC, in a burst of two,
\* is handed over as an intact one.
ErrorsAreNoticed == OneByteIsNoticed /\ BurstIsNoticed

\* CRC16_IBM and CRC16_CCITT_FALSE are the checksums known by these names: of
\* "123456789" they make 0xBB3D and 0x29B1, high byte first when
\* checksum_big_endian is set.
Digits == <<49, 50, 51, 52, 53, 54, 55, 56, 57>>
WellKnownValues ==
    message = Digits /\ index = 9 =>
        /\ type = "CRC16_IBM" =>
              ChecksumBytes(type, TRUE, sender) = <<187, 61>>
        /\ type = "CRC16_CCITT_FALSE" =>
              ChecksumBytes(type, FALSE, sender) = <<177, 41>>
=============================================================================
