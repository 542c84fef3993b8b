---------------------------- MODULE UartChecksum ----------------------------
(***************************************************************************)
(* The checksums of the framed UART driver, bbai64_uart.c.  The running    *)
(* value of the 16-bit ones and of XOR8 is the set of its bits that are 1, *)
(* so that an exclusive or is a symmetric difference; that of SUM8 is a    *)
(* number.                                                                 *)
(***************************************************************************)
EXTENDS Integers, Sequences

ChecksumTypes == {"NONE", "XOR8", "SUM8", "CRC16_IBM", "CRC16_CCITT_FALSE"}
Crc16 == {"CRC16_IBM", "CRC16_CCITT_FALSE"}

Byte == 0..255
Weight == [i \in 0..7 |-> 2^i]
Bits(b) == {i \in 0..7 : (b \div Weight[i]) % 2 = 1}
Low(bits) == LET sum[i \in 0..8] ==
                    IF i = 0 THEN 0
                    ELSE sum[i - 1] + (IF i - 1 \in bits THEN Weight[i - 1] ELSE 0)
             IN sum[8]
ShiftRight8(bits) == {i \in 0..7 : i + 8 \in bits}
Xor(S, T) == (S \ T) \cup (T \ S)

-----------------------------------------------------------------------------
(* One byte *)

\* Mutant: the polynomial is forgotten.
IbmStepNoFeedback(r) == {i \in 0..14 : i + 1 \in r}

\* value >> 1, with 0xA001 if the bit that falls out is 1.
IbmStep(r) ==
    LET shifted == {i \in 0..14 : i + 1 \in r}
    IN IF 0 \in r THEN Xor(shifted, {0, 13, 15}) ELSE shifted

\* Mutant: 0x1020, whose lowest bit is missing.
CcittStepEvenPoly(r) ==
    LET shifted == {i \in 1..15 : i - 1 \in r}
    IN IF 15 \in r THEN Xor(shifted, {5, 12}) ELSE shifted

\* value << 1 in 16 bits, with 0x1021 if the bit that falls out is 1.
CcittStep(r) ==
    LET shifted == {i \in 1..15 : i - 1 \in r}
    IN IF 15 \in r THEN Xor(shifted, {0, 5, 12}) ELSE shifted

Ibm2(r) == IbmStep(IbmStep(r))
Ibm4(r) == Ibm2(Ibm2(r))
Ibm8(r) == Ibm4(Ibm4(r))
Ccitt2(r) == CcittStep(CcittStep(r))
Ccitt4(r) == Ccitt2(Ccitt2(r))
Ccitt8(r) == Ccitt4(Ccitt4(r))

High(bits) == {i \in 8..15 : i - 8 \in bits}

\* bbai64_uart_checksum_state_init.
InitValue(type) ==
    IF type \in {"NONE", "SUM8"} THEN 0
    ELSE IF type = "CRC16_CCITT_FALSE" THEN 0..15 ELSE {}

\* One turn of the loop of bbai64_uart_checksum_state_update.
Update(type, value, byte) ==
    IF type = "NONE" THEN value
    ELSE IF type = "XOR8" THEN Xor(value, Bits(byte))
    ELSE IF type = "SUM8" THEN (value + byte) % 256
    ELSE IF type = "CRC16_IBM" THEN Ibm8(Xor(value, Bits(byte)))
    ELSE Ccitt8(Xor(value, High(Bits(byte))))

-----------------------------------------------------------------------------
(* A message *)

\* The value after all bytes of s.
ValueOf(type, s) ==
    LET value[i \in 0..Len(s)] ==
            IF i = 0 THEN InitValue(type) ELSE Update(type, value[i - 1], s[i])
    IN value[Len(s)]

\* The bytes bbai64_uart_frame_compute_checksum puts on the wire.
ChecksumBytes(type, bigEndian, value) ==
    IF type = "NONE" THEN <<>>
    ELSE IF type = "SUM8" THEN <<value>>
    ELSE IF type = "XOR8" THEN <<Low(value)>>
    ELSE IF bigEndian THEN <<Low(ShiftRight8(value)), Low(value)>>
    ELSE <<Low(value), Low(ShiftRight8(value))>>
=============================================================================
