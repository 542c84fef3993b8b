-------------------------- MODULE UartFrameProofs ---------------------------
(***************************************************************************)
(* What holds of the framed UART driver for every marker, every length     *)
(* layout and every stream of bytes: the marker search never misses a      *)
(* marker, although it keeps nothing of the stream but a count, the length *)
(* field can be read back, the byte-level reader is a channel of frames,   *)
(* and no counter leaves its range, whatever the reader takes for a frame. *)
(***************************************************************************)
EXTENDS MCUart, ChecksumPairProofs, SequenceTheorems


-----------------------------------------------------------------------------
(* Sequences *)

LEMMA SeqFacts ==
    ASSUME NEW S, NEW s \in Seq(S)
    PROVE  Len(s) \in Nat /\ DOMAIN s = 1..Len(s) /\ \A i \in 1..Len(s) : s[i] \in S
OBVIOUS

LEMMA AppendFacts ==
    ASSUME NEW S, NEW s \in Seq(S), NEW e \in S
    PROVE  /\ Append(s, e) \in Seq(S) /\ Len(Append(s, e)) = Len(s) + 1
           /\ \A i \in 1..Len(s) : Append(s, e)[i] = s[i]
           /\ Append(s, e)[Len(s) + 1] = e
OBVIOUS

LEMMA AppendLast ==
    ASSUME NEW S, NEW s \in Seq(S), NEW t \in Seq(S), NEW e \in S
    PROVE  s \o Append(t, e) = Append(s \o t, e)
OBVIOUS

LEMMA Concatenation ==
    ASSUME NEW S, NEW a \in Seq(S), NEW b \in Seq(S)
    PROVE  /\ a \o b \in Seq(S) /\ Len(a \o b) = Len(a) + Len(b)
           /\ Len(a) \in Nat /\ Len(b) \in Nat
           /\ \A i \in 1..Len(a) : (a \o b)[i] = a[i]
           /\ \A i \in 1..Len(b) : (a \o b)[Len(a) + i] = b[i]
OBVIOUS

\* What the actions of the driver do to the FIFO.
LEMMA HeadTail ==
    ASSUME NEW S, NEW s \in Seq(S), s # <<>>
    PROVE  /\ Len(s) \in Nat /\ Len(s) >= 1 /\ Head(s) = s[1] /\ s[1] \in S
           /\ Tail(s) \in Seq(S) /\ Len(Tail(s)) = Len(s) - 1
           /\ \A i \in 1..Len(s) - 1 : Tail(s)[i] = s[i + 1]
OBVIOUS

LEMMA HeadRest ==
    ASSUME NEW S, NEW s \in Seq(S), s # <<>>
    PROVE  <<Head(s)>> \in Seq(S) /\ Len(<<Head(s)>>) = 1 /\ <<Head(s)>> \o Tail(s) = s
OBVIOUS

LEMMA SameSeq ==
    ASSUME NEW S, NEW a \in Seq(S), NEW b \in Seq(S), Len(a) = Len(b),
           \A j \in 1..Len(a) : a[j] = b[j]
    PROVE  a = b
OBVIOUS

LEMMA Part ==
    ASSUME NEW S, NEW s \in Seq(S), NEW m \in Nat, NEW k \in Nat, m + k <= Len(s)
    PROVE  LET t == SubSeq(s, m + 1, m + k)
           IN /\ t \in Seq(S) /\ Len(t) = k
              /\ \A j \in 1..k : t[j] = s[m + j]
<1> DEFINE t == SubSeq(s, m + 1, m + k)
<1>1. \A i \in m + 1..m + k : i \in 1..Len(s) /\ s[i] \in S
  OBVIOUS
<1>2. /\ t \in Seq(S)
      /\ Len(t) = IF m + 1 <= m + k THEN (m + k) - (m + 1) + 1 ELSE 0
      /\ \A i \in 1..(m + k) - (m + 1) + 1 : t[i] = s[(m + 1) + i - 1]
  BY <1>1, SubSeqProperties
<1> HIDE DEF t
<1>3. Len(t) = k
  BY <1>2
<1>4. \A j \in 1..k : j \in 1..(m + k) - (m + 1) + 1 /\ (m + 1) + j - 1 = m + j
  OBVIOUS
<1>5. \A j \in 1..k : t[j] = s[m + j]
  BY <1>2, <1>4
<1>6. QED
  BY <1>2, <1>3, <1>5 DEF t

LEMMA SuffixIs ==
    ASSUME NEW S, NEW s \in Seq(S), NEW t \in Seq(S), NEW m \in Nat, m <= Len(s),
           Len(t) = Len(s) - m, \A k \in 1..Len(t) : t[k] = s[m + k]
    PROVE  m \in 0..Len(s) /\ t = SubSeq(s, m + 1, Len(s))
<1>1. Len(s) \in Nat /\ Len(t) \in Nat
  BY SeqFacts
<1>2. PICK k : k = Len(s) - m
  OBVIOUS
<1>3. k \in Nat /\ m + k = Len(s)
  BY ONLY <1>1, <1>2, m \in Nat, m <= Len(s)
<1>4. LET u == SubSeq(s, m + 1, m + k)
      IN u \in Seq(S) /\ Len(u) = k /\ \A j \in 1..k : u[j] = s[m + j]
  <2>1. s \in Seq(S) /\ m \in Nat /\ k \in Nat /\ m + k <= Len(s)
    BY <1>1, <1>3
  <2>2. QED
    BY ONLY <2>1, Part
<1>5. PICK u : u = SubSeq(s, m + 1, m + k)
  OBVIOUS
<1>6. u \in Seq(S) /\ Len(u) = Len(t) /\ \A j \in 1..Len(t) : t[j] = u[j]
  BY <1>2, <1>4, <1>5
<1>7. t = u
  BY <1>6, SameSeq
<1>8. QED
  BY <1>1, <1>3, <1>5, <1>7

-----------------------------------------------------------------------------
(* The length of a frame *)

\* The two bytes of a length.
LEMMA HighByte ==
    ASSUME NEW e \in Int, e >= 0, e <= 65535,
           NEW q \in Int, NEW r \in Int, r >= 0, r <= 255, r + 256 * q = e
    PROVE  q >= 0 /\ q <= 255
OBVIOUS

LEMMA SplitInBytes ==
    ASSUME NEW e \in Int, e >= 0, e <= 65535
    PROVE  /\ e % 256 \in 0..255 /\ e \div 256 \in 0..255
           /\ (e % 256) + 256 * (e \div 256) = e
           /\ 256 * (e \div 256) + (e % 256) = e
           /\ e <= 255 => e % 256 = e
<1>1. e % 256 \in 0..255  OBVIOUS
<1>2. e \div 256 \in Int  OBVIOUS
<1>3. (e % 256) + 256 * (e \div 256) = e  OBVIOUS
<1>4. e \div 256 >= 0 /\ e \div 256 <= 255  BY <1>1, <1>2, <1>3, HighByte
<1>5. e <= 255 => e % 256 = e  OBVIOUS
<1>6. 256 * (e \div 256) + (e % 256) = e  OBVIOUS
<1>7. e \div 256 \in 0..255  BY <1>2, <1>4
<1>8. QED  BY <1>1, <1>3, <1>5, <1>6, <1>7

\* The length field: what write_frame encodes, read_frame decodes, for every
\* length_adjustment and payload length that bbai64_uart_frame_encode_length
\* accepts, in every layout.
THEOREM LengthRoundTrip ==
    ASSUME NEW n \in Nat, LengthFits(n)
    PROVE  /\ DecodeLength(EncodeLength(n)) = n
           /\ EncodeLength(n) \in Seq(Byte) /\ Len(EncodeLength(n)) = LengthSize
<1> DEFINE e == EncodedLength(n)
<1>1. e \in Int /\ Adjustment \in Int /\ e - Adjustment = n
  BY ConstantsAssumption DEF EncodedLength
<1>2. e >= 0 /\ e <= 65535 /\ (LengthType = "U8" => e <= 255)
  BY <1>1 DEF LengthFits
<1> HIDE DEF e
<1>3. /\ e % 256 \in Byte /\ e \div 256 \in Byte
      /\ (e % 256) + 256 * (e \div 256) = e
      /\ 256 * (e \div 256) + (e % 256) = e
      /\ LengthType = "U8" => e % 256 = e
  BY <1>1, <1>2, SplitInBytes DEF Byte
<1>4. CASE LengthType = "U8"
  <2>1. EncodeLength(n) = <<e % 256>>  BY <1>4 DEF EncodeLength, e
  <2>2. DecodeLength(EncodeLength(n)) = (e % 256) - Adjustment
    BY <1>4, <2>1 DEF DecodeLength
  <2>3. QED  BY <1>1, <1>3, <1>4, <2>1, <2>2 DEF LengthSize
<1>5. CASE LengthType = "U16_LE"
  <2>1. EncodeLength(n) = <<e % 256, e \div 256>>
    BY <1>5, LengthType # "U8" DEF EncodeLength, e
  <2>2. EncodeLength(n)[1] = e % 256 /\ EncodeLength(n)[2] = e \div 256
    BY <2>1
  <2>3. DecodeLength(EncodeLength(n)) = ((e % 256) + 256 * (e \div 256)) - Adjustment
    <3>1. \A b : DecodeLength(b) = (b[1] + 256 * b[2]) - Adjustment
      BY <1>5 DEF DecodeLength
    <3>2. QED  BY <2>2, <3>1
  <2>4. QED  BY <1>1, <1>3, <1>5, <2>1, <2>3 DEF LengthSize
<1>6. CASE LengthType = "U16_BE"
  <2>1. EncodeLength(n) = <<e \div 256, e % 256>>  BY <1>6 DEF EncodeLength, e
  <2>2. EncodeLength(n)[1] = e \div 256 /\ EncodeLength(n)[2] = e % 256
    BY <2>1
  <2>3. DecodeLength(EncodeLength(n)) = (256 * (e \div 256) + (e % 256)) - Adjustment
    <3>1. \A b : DecodeLength(b) = (256 * b[1] + b[2]) - Adjustment
      BY <1>6 DEF DecodeLength
    <3>2. QED  BY <2>2, <3>1
  <2>4. QED  BY <1>1, <1>3, <1>6, <2>1, <2>3 DEF LengthSize
<1>7. LengthType \in {"U8", "U16_LE", "U16_BE"}
  BY ConstantsAssumption, Zenon DEF FrameConfigIsValid
<1>8. QED  BY <1>4, <1>5, <1>6, <1>7

LEMMA ShortTuples ==
    ASSUME NEW S, NEW a \in S, NEW b \in S
    PROVE  /\ <<>> \in Seq(S) /\ Len(<<>>) = 0
           /\ <<a>> \in Seq(S) /\ Len(<<a>>) = 1
           /\ <<a, b>> \in Seq(S) /\ Len(<<a, b>>) = 2
OBVIOUS

\* The checksum takes as many bytes as bbai64_uart_frame_checksum_size_bytes
\* says.
LEMMA ChecksumLength ==
    ASSUME NEW v
    PROVE  LET c == ChecksumBytes(ChecksumType, BigEndian, v)
           IN Len(c) = ChecksumSize /\ \E S : c \in Seq(S)
<1> DEFINE c == ChecksumBytes(ChecksumType, BigEndian, v)
           low == Low(v)
           high == Low(ShiftRight8(v))
           S == {v, low, high}
<1>1. ChecksumType \in ChecksumTypes
  BY ConstantsAssumption, Zenon DEF FrameConfigIsValid
<1>2. CASE ChecksumType = "NONE"
  <2>1. c = <<>>  BY <1>2 DEF ChecksumBytes
  <2>2. ChecksumSize = 0  BY <1>2 DEF ChecksumSize
  <2> HIDE DEF c
  <2>3. c \in Seq(S) /\ Len(c) = 0  BY <2>1, ShortTuples
  <2>4. QED  BY <2>2, <2>3 DEF c
<1>3. CASE ChecksumType \in {"XOR8", "SUM8"}
  <2>1. c = <<v>> \/ c = <<low>>  BY <1>3 DEF ChecksumBytes
  <2>2. ChecksumSize = 1  BY <1>3 DEF ChecksumSize, Crc16
  <2> HIDE DEF c, low, high
  <2>3. c \in Seq(S) /\ Len(c) = 1  BY <2>1
  <2>4. QED  BY <2>2, <2>3 DEF c
<1>4. CASE ChecksumType \in Crc16
  <2>1. ChecksumType \notin {"NONE", "SUM8", "XOR8"}  BY <1>4 DEF Crc16
  <2>2. c = IF BigEndian THEN <<high, low>> ELSE <<low, high>>
    BY <2>1, Zenon DEF ChecksumBytes
  <2>3. ChecksumSize = 2  BY <1>4 DEF ChecksumSize, Crc16
  <2> HIDE DEF c, low, high
  <2>4. c = <<high, low>> \/ c = <<low, high>>  BY <2>2, Zenon
  <2>5. low \in S /\ high \in S  OBVIOUS
  <2> HIDE DEF S
  <2>6. c \in Seq(S) /\ Len(c) = 2  BY <2>4, <2>5, ShortTuples
  <2>7. QED  BY <2>3, <2>6 DEF c
<1>5. QED  BY <1>1, <1>2, <1>3, <1>4 DEF ChecksumTypes, Crc16

\* bbai64_uart_frame_encoded_size is "total bytes placed on the wire", although
\* length_adjustment changes the number in the length field.
THEOREM EncodedSizeIsWireLength ==
    ASSUME NEW p \in Seq(Byte), LengthFits(Len(p))
    PROVE  Len(Wire(p)) = EncodedSize(Len(p))
<1> DEFINE lengthBytes == EncodeLength(Len(p))
           checksum == Checksum(lengthBytes, p)
<1>1. lengthBytes \in Seq(Byte) /\ Len(lengthBytes) = LengthSize
  BY LengthRoundTrip
<1>2. Len(checksum) = ChecksumSize /\ \E S : checksum \in Seq(S)
  BY ChecksumLength DEF Checksum
<1>3. PICK S : checksum \in Seq(S)  BY <1>2
<1>4. StartMarker \in Seq(Byte) /\ EndMarker \in Seq(Byte)
  BY ConstantsAssumption
<1> DEFINE T == Byte \cup S
<1>5. /\ StartMarker \in Seq(T) /\ EndMarker \in Seq(T) /\ p \in Seq(T)
      /\ lengthBytes \in Seq(T) /\ checksum \in Seq(T)
  BY <1>1, <1>3, <1>4
<1>6. Wire(p) = StartMarker \o lengthBytes \o p \o checksum \o EndMarker
  BY DEF Wire
<1> HIDE DEF T, lengthBytes, checksum
<1>7. Len(Wire(p)) = Len(StartMarker) + Len(lengthBytes) + Len(p) + Len(checksum)
                     + Len(EndMarker)
  BY <1>5, <1>6
<1>8. QED  BY <1>1, <1>2, <1>7 DEF EncodedSize, L

-----------------------------------------------------------------------------
(* The search for the start marker *)

LEMMA MarkerLength ==
    StartMarker \in Seq(Byte) /\ L \in Nat /\ L \in 0..MaxMarkerBytes
<1>1. StartMarker \in Seq(Byte) /\ Len(StartMarker) <= MaxMarkerBytes
  BY ConstantsAssumption DEF FrameConfigIsValid
<1>2. Len(StartMarker) \in Nat  BY <1>1
<1>3. MaxMarkerBytes \in Nat  BY DEF MaxMarkerBytes
<1>4. QED  BY <1>1, <1>2, <1>3 DEF L

\* A marker has at most BBAI64_UART_FRAME_MAX_MARKER_BYTES bytes, so there is
\* a longest candidate.
LEMMA LargestExists ==
    ASSUME NEW C \in SUBSET (0..MaxMarkerBytes), 0 \in C
    PROVE  Largest(C) \in C /\ \A j \in C : j <= Largest(C)
<1>1. C \subseteq 0..8  BY DEF MaxMarkerBytes
<1>2. \E k \in C : \A j \in C : j <= k
  <2>1. SUFFICES ASSUME \A k \in C : \E j \in C : j > k  PROVE FALSE
    OBVIOUS
  <2>2. 8 \notin C  BY <1>1, <2>1
  <2>3. 7 \notin C  BY <1>1, <2>1, <2>2
  <2>4. 6 \notin C  BY <1>1, <2>1, <2>2, <2>3
  <2>5. 5 \notin C  BY <1>1, <2>1, <2>2, <2>3, <2>4
  <2>6. 4 \notin C  BY <1>1, <2>1, <2>2, <2>3, <2>4, <2>5
  <2>7. 3 \notin C  BY <1>1, <2>1, <2>2, <2>3, <2>4, <2>5, <2>6
  <2>8. 2 \notin C  BY <1>1, <2>1, <2>2, <2>3, <2>4, <2>5, <2>6, <2>7
  <2>9. 1 \notin C  BY <1>1, <2>1, <2>2, <2>3, <2>4, <2>5, <2>6, <2>7, <2>8
  <2>10. QED  BY <1>1, <2>1, <2>2, <2>3, <2>4, <2>5, <2>6, <2>7, <2>8, <2>9
<1>3. QED  BY <1>2 DEF Largest

LEMMA ShiftIndex ==
    ASSUME NEW la \in Int, NEW lz \in Int, NEW lr \in Int, NEW k \in Int, NEW i \in Int,
           la = lr + 1
    PROVE  la - lz + (lz - k + i) = lr + 1 - k + i
OBVIOUS

LEMMA LastBytesType ==
    ASSUME NEW S, NEW r \in Seq(S), NEW b \in S
    PROVE  LastBytes(L, Append(r, b)) \in Seq(S)
<1>1. Append(r, b) \in Seq(S)  OBVIOUS
<1>2. QED  BY <1>1, MarkerLength DEF LastBytes

\* The marker ends a stream by one byte more than it ended the stream before,
\* and to tell one needs only the last L bytes.
LEMMA EndsAfterAppend ==
    ASSUME NEW S, NEW r \in Seq(S), NEW b \in S, NEW k \in 1..L
    PROVE  /\ LastBytes(L, Append(r, b)) \in Seq(S)
           /\ MarkerEnds(k, LastBytes(L, Append(r, b)))
                 <=> MarkerEnds(k - 1, r) /\ StartMarker[k] = b
<1> DEFINE a == Append(r, b)  z == LastBytes(L, a)
<1>1. /\ a \in Seq(S) /\ Len(a) = Len(r) + 1 /\ Len(r) \in Nat
      /\ a[Len(r) + 1] = b /\ \A i \in 1..Len(r) : a[i] = r[i]
  OBVIOUS
<1>2. /\ z \in Seq(S) /\ Len(z) \in Nat
      /\ Len(z) = (IF Len(a) <= L THEN Len(a) ELSE L)
  <2>1. z \in Seq(S) /\ Len(z) \in Nat
    BY LastBytesType
  <2>2. CASE Len(a) <= L
    BY <2>1, <2>2 DEF LastBytes
  <2>3. CASE ~(Len(a) <= L)
    <3>1. z = SubSeq(a, Len(a) - L + 1, Len(a))
      BY <2>3 DEF LastBytes
    <3>2. Len(a) - L + 1 \in 1..Len(a) + 1
      BY <1>1, <2>3, MarkerLength
    <3>3. Len(z) = Len(a) - (Len(a) - L + 1) + 1
      BY <1>1, <3>1, <3>2
    <3> QED BY <1>1, <2>1, <2>3, <3>3, MarkerLength
  <2> QED BY <2>2, <2>3, <2>1
<1>3. \A i \in 1..Len(z) : z[i] = a[Len(a) - Len(z) + i]
  <2>1. CASE Len(a) <= L
    <3>1. z = a  BY <2>1 DEF LastBytes
    <3>2. QED  BY <1>1, <1>2, <3>1
  <2>2. CASE ~(Len(a) <= L)
    <3>1. z = SubSeq(a, Len(a) - L + 1, Len(a))  BY <2>2 DEF LastBytes
    <3>2. Len(z) = L /\ Len(a) > L  BY <1>1, <1>2, <2>2, MarkerLength
    <3>3. \A i \in 1..L : z[i] = a[Len(a) - L + i]
      <4> DEFINE m == Len(a) - L + 1
      <4>1. m \in Int /\ Len(a) \in Int /\ m > 0  BY <1>1, <3>2, MarkerLength
      <4>2. \A i \in m..Len(a) : a[i] \in S  BY <1>1, <4>1
      <4>3. Len(a) - m + 1 = L /\ \A i \in 1..L : m + i - 1 = Len(a) - L + i
        BY <4>1, <3>2, MarkerLength
      <4> HIDE DEF m
      <4>4. z = SubSeq(a, m, Len(a))  BY <3>1 DEF m
      <4>5. \A i \in 1..Len(a) - m + 1 : z[i] = a[m + i - 1]
        BY <4>1, <4>2, <4>4, SubSeqProperties
      <4>6. QED  BY <4>3, <4>5
    <3>4. QED  BY <3>2, <3>3
  <2>3. QED  BY <2>1, <2>2
<1> HIDE DEF a, z
<1>4. k \in Nat /\ k > 0 /\ k <= L /\ L \in Nat  BY MarkerLength
<1>5. k <= Len(z) <=> k - 1 <= Len(r)
  BY <1>1, <1>2, MarkerLength
<1>6. ASSUME k <= Len(z)
      PROVE  (\A i \in 1..k : StartMarker[i] = z[Len(z) - k + i])
             <=> (\A i \in 1..k - 1 : StartMarker[i] = r[Len(r) - (k - 1) + i])
                 /\ StartMarker[k] = b
  <2>1. \A i \in 1..k : z[Len(z) - k + i] = a[Len(r) + 1 - k + i]
    <3>1. ASSUME NEW i \in 1..k
          PROVE  z[Len(z) - k + i] = a[Len(r) + 1 - k + i]
      <4>1. Len(z) - k + i \in 1..Len(z)
        BY <1>2, <1>6, <1>4
      <4>2. Len(a) - Len(z) + (Len(z) - k + i) = Len(r) + 1 - k + i
        <5>1. /\ Len(a) \in Int /\ Len(z) \in Int /\ Len(r) \in Int
              /\ k \in Int /\ i \in Int /\ Len(a) = Len(r) + 1
          BY <1>1, <1>2, <1>4
        <5>2. QED  BY <5>1, ShiftIndex
      <4>3. QED  BY <1>3, <4>1, <4>2
    <3>2. QED  BY <3>1
  <2>2. \A i \in 1..k - 1 : a[Len(r) + 1 - k + i] = r[Len(r) - (k - 1) + i]
    <3>1. ASSUME NEW i \in 1..k - 1
          PROVE  a[Len(r) + 1 - k + i] = r[Len(r) - (k - 1) + i]
      <4>1. Len(r) + 1 - k + i \in 1..Len(r) /\ Len(r) + 1 - k + i = Len(r) - (k - 1) + i
        BY <1>1, <1>5, <1>6, <1>4
      <4>2. QED  BY <4>1, <1>1
    <3>2. QED  BY <3>1
  <2>3. a[Len(r) + 1 - k + k] = b
    BY <1>1, <1>4
  <2>4. 1..k = (1..k - 1) \cup {k}
    BY <1>4
  <2>5. \A i \in 1..k - 1 : z[Len(z) - k + i] = r[Len(r) - (k - 1) + i]
    BY <2>1, <2>2, <2>4
  <2>6. z[Len(z) - k + k] = b
    BY <2>1, <2>3, <2>4
  <2>7. QED  BY <2>4, <2>5, <2>6
<1>7. QED  BY <1>2, <1>5, <1>6 DEF MarkerEnds, a, z

\* What is left of the stream after a match of m bytes: the marker itself.
LEMMA EndsWithin ==
    ASSUME NEW S, NEW r \in Seq(S), NEW m \in Nat, m < L, MarkerEnds(m, r),
           NEW j \in 0..m
    PROVE  MarkerEnds(j, r) <=> \A i \in 1..j : StartMarker[i] = StartMarker[m - j + i]
<1>1. Len(r) \in Nat /\ m <= Len(r) /\ j <= Len(r)
  BY DEF MarkerEnds
<1>2. \A i \in 1..m : StartMarker[i] = r[Len(r) - m + i]
  BY DEF MarkerEnds
<1>3. ASSUME NEW i \in 1..j
      PROVE  StartMarker[m - j + i] = r[Len(r) - j + i]
  <2>1. m - j + i \in 1..m /\ Len(r) - m + (m - j + i) = Len(r) - j + i
    BY <1>1
  <2>2. QED  BY <1>2, <2>1
<1>4. QED  BY <1>1, <1>3 DEF MarkerEnds

\* The candidates are judged by the bytes matched and the new one.
LEMMA CandidateEnds ==
    ASSUME NEW m \in Nat, m < L, NEW b, NEW k \in 1..m + 1
    PROVE  MarkerEnds(k, Append(SubSeq(StartMarker, 1, m), b))
           <=> /\ \A i \in 1..k - 1 : StartMarker[i] = StartMarker[m - (k - 1) + i]
               /\ StartMarker[k] = b
<1> DEFINE T == Byte \cup {b}
           p == SubSeq(StartMarker, 1, m)
           q == Append(p, b)
<1>1. L \in Nat /\ L = Len(StartMarker) /\ \A i \in 1..L : StartMarker[i] \in T
  BY MarkerLength DEF L
<1>2. p \in Seq(T) /\ Len(p) = m /\ \A i \in 1..m : p[i] = StartMarker[i]
  <2>1. \A i \in 1..m : StartMarker[i] \in T  BY <1>1
  <2>2. /\ p \in Seq(T) /\ Len(p) = (IF 1 <= m THEN m - 1 + 1 ELSE 0)
        /\ \A i \in 1..m - 1 + 1 : p[i] = StartMarker[1 + i - 1]
    BY <2>1, SubSeqProperties
  <2>3. QED  BY <2>2
<1> HIDE DEF p
<1>3. /\ b \in T /\ Len(q) = m + 1 /\ q[m + 1] = b
      /\ \A i \in 1..m : q[i] = StartMarker[i]
  BY <1>2
<1> HIDE DEF q, T
<1>4. \A i \in 1..k - 1 : q[m + 1 - k + i] = StartMarker[m - (k - 1) + i]
  <2>1. ASSUME NEW i \in 1..k - 1
        PROVE  q[m + 1 - k + i] = StartMarker[m - (k - 1) + i]
    <3>1. m + 1 - k + i \in 1..m /\ m + 1 - k + i = m - (k - 1) + i
      OBVIOUS
    <3>2. QED  BY <1>3, <3>1
  <2>2. QED  BY <2>1
<1>5. 1..k = (1..k - 1) \cup {k} /\ m + 1 - k + k = m + 1 /\ k <= m + 1
  OBVIOUS
<1>6. (\A i \in 1..k : StartMarker[i] = q[m + 1 - k + i])
      <=> /\ \A i \in 1..k - 1 : StartMarker[i] = StartMarker[m - (k - 1) + i]
          /\ StartMarker[k] = b
  BY <1>3, <1>4, <1>5
<1>7. QED  BY <1>3, <1>5, <1>6 DEF MarkerEnds, q, p

\* The step of the search: what NextMatch makes of the longest match is the
\* longest match again.
LEMMA NextMatchIsLongest ==
    ASSUME NEW S, NEW r \in Seq(S), NEW b \in S, NEW m \in Nat, m < L,
           MarkerEnds(m, r), \A k \in m + 1..L : ~MarkerEnds(k, r)
    PROVE  LET z == LastBytes(L, Append(r, b))
           IN /\ NextMatch(m, b) \in 0..L
              /\ MarkerEnds(NextMatch(m, b), z)
              /\ \A k \in NextMatch(m, b) + 1..L : ~MarkerEnds(k, z)
<1> DEFINE z == LastBytes(L, Append(r, b))
           q == Append(SubSeq(StartMarker, 1, m), b)
           C == {0} \cup {k \in 1..m + 1 : k <= L /\ MarkerEnds(k, q)}
<1>1. L \in Nat /\ C \in SUBSET (0..MaxMarkerBytes) /\ 0 \in C
  <2>1. L \in Nat /\ MaxMarkerBytes \in Nat /\ L <= MaxMarkerBytes
    BY MarkerLength DEF MaxMarkerBytes
  <2>2. \A k \in 1..m + 1 : k <= L => k \in 0..MaxMarkerBytes
    BY <2>1
  <2>3. 0 \in 0..MaxMarkerBytes  BY <2>1
  <2>4. QED  BY <2>1, <2>2, <2>3
<1>2. Largest(C) \in C /\ \A j \in C : j <= Largest(C)
  BY <1>1, LargestExists
<1>3. NextMatch(m, b) = Largest(C)
  BY DEF NextMatch
<1>4. z \in Seq(S) /\ MarkerEnds(0, z)
  <2>1. z \in Seq(S)  BY LastBytesType
  <2>2. QED  BY <2>1 DEF MarkerEnds
<1>5. ASSUME NEW k \in 1..L
      PROVE  MarkerEnds(k, z) <=> k \in C
  <2>1. MarkerEnds(k, z) <=> MarkerEnds(k - 1, r) /\ StartMarker[k] = b
    BY EndsAfterAppend
  <2>2. CASE k <= m + 1
    <3>1. MarkerEnds(k - 1, r)
          <=> \A i \in 1..k - 1 : StartMarker[i] = StartMarker[m - (k - 1) + i]
      BY <1>1, <2>2, EndsWithin
    <3>2. MarkerEnds(k, q) <=> MarkerEnds(k - 1, r) /\ StartMarker[k] = b
      BY <1>1, <2>2, <3>1, CandidateEnds
    <3>3. QED  BY <1>1, <2>1, <2>2, <3>2
  <2>3. CASE ~(k <= m + 1)
    <3>1. ~MarkerEnds(k - 1, r)  BY <1>1, <2>3
    <3>2. QED  BY <1>1, <2>1, <2>3, <3>1
  <2>4. QED  BY <2>2, <2>3
<1> HIDE DEF z, q
<1>6. Largest(C) \in 0..L  BY <1>1, <1>2
<1>7. MarkerEnds(Largest(C), z)
  <2>1. CASE Largest(C) = 0  BY <1>4, <2>1
  <2>2. CASE Largest(C) # 0  BY <1>1, <1>2, <1>5, <1>6, <2>2
  <2>3. QED  BY <2>1, <2>2
<1>8. \A k \in Largest(C) + 1..L : ~MarkerEnds(k, z)
  <2>1. ASSUME NEW k \in Largest(C) + 1..L  PROVE ~MarkerEnds(k, z)
    <3>1. k \in 1..L /\ k > Largest(C)  BY <1>1, <1>6
    <3>2. k \notin C  BY <1>1, <1>2, <1>6, <3>1
    <3>3. QED  BY <1>5, <3>1, <3>2
  <2>2. QED  BY <2>1
<1>9. QED  BY <1>3, <1>6, <1>7, <1>8 DEF z

\* What the search needs of itself; the type of the bytes does not matter.
SearchInv ==
    /\ matched \in 0..L
    /\ \E S : recent \in Seq(S)
    /\ MatchIsLongest

LEMMA InitSearch == Init => SearchInv
<1> SUFFICES ASSUME Init PROVE SearchInv
  OBVIOUS
<1>1. matched \in 0..L  BY MarkerLength DEF Init
<1>2. recent \in Seq({})  BY DEF Init
<1>3. MatchIsLongest  BY DEF Init, MatchIsLongest
<1>4. QED  BY <1>1, <1>2, <1>3 DEF SearchInv

LEMMA CallKeepsSearch == SearchInv /\ Call => SearchInv'
<1> SUFFICES ASSUME SearchInv, Call PROVE SearchInv'
  OBVIOUS
<1>1. matched' = 0 /\ recent' = <<>>  BY DEF Call
<1>2. L \in Nat  BY MarkerLength
<1>3. MarkerEnds(0, <<>>) /\ \A k \in 1..L : ~MarkerEnds(k, <<>>)
  <2>1. Len(<<>>) = 0  OBVIOUS
  <2>2. QED  BY <1>2, <2>1 DEF MarkerEnds
<1>4. MatchIsLongest'  BY <1>1, <1>3 DEF MatchIsLongest, MarkerEnds
<1>5. recent' \in Seq({})  BY <1>1
<1>6. QED  BY <1>1, <1>2, <1>4, <1>5 DEF SearchInv

LEMMA MarkerByteKeepsSearch == SearchInv /\ MarkerByte => SearchInv'
<1> SUFFICES ASSUME SearchInv, MarkerByte PROVE SearchInv'
  OBVIOUS
<1> DEFINE b == Head(fifo).byte
<1>1. PICK S0 : recent \in Seq(S0)  BY DEF SearchInv
<1> DEFINE S == S0 \cup {b}
<1>2. recent \in Seq(S) /\ b \in S  BY <1>1
<1>3. /\ pc = "marker" /\ matched < L
      /\ matched' = NextMatch(matched, b)
      /\ recent' = LastBytes(L, Append(recent, b))
  BY DEF MarkerByte
<1>4. /\ matched \in Nat /\ MarkerEnds(matched, recent)
      /\ \A k \in matched + 1..L : ~MarkerEnds(k, recent)
  BY <1>3, MarkerLength DEF SearchInv, MatchIsLongest
<1> HIDE DEF S, b
<1>5. /\ matched' \in 0..L
      /\ MarkerEnds(matched', recent')
      /\ \A k \in matched' + 1..L : ~MarkerEnds(k, recent')
  BY <1>2, <1>3, <1>4, NextMatchIsLongest
<1>6. recent' \in Seq(S)  BY <1>2, <1>3, LastBytesType
<1>7. MatchIsLongest'  BY <1>5 DEF MatchIsLongest, MarkerEnds
<1>8. QED  BY <1>5, <1>6, <1>7 DEF SearchInv

\* Everything else leaves the search alone or ends it.
LEMMA OthersKeepSearch ==
    ASSUME SearchInv, UNCHANGED <<matched, recent>>, pc' = pc \/ pc' # "marker"
    PROVE  SearchInv'
BY DEF SearchInv, MatchIsLongest, MarkerEnds

\* The marker search is right for every marker and every stream, with noise,
\* damaged and lost bytes, and wherever the deadline cuts it short: a start
\* marker is never missed because its beginning looked like something else.
THEOREM SearchCorrect == Spec => []MatchIsLongest
<1>1. SearchInv /\ [Next]_vars => SearchInv'
  <2> SUFFICES ASSUME SearchInv, [Next]_vars PROVE SearchInv'
    OBVIOUS
  <2> USE DEF wire, call, result, frames
  <2>1. CASE WriteFrame \/ WriteDamaged \/ MakeNoise
    BY <2>1, OthersKeepSearch DEF WriteFrame, WriteDamaged, MakeNoise, Put
  <2>2. CASE Arrive  BY <2>2, OthersKeepSearch DEF Arrive
  <2>3. CASE UartInit  BY <2>3, OthersKeepSearch DEF UartInit
  <2>4. CASE Call  BY <2>4, CallKeepsSearch
  <2>5. CASE MarkerByte  BY <2>5, MarkerByteKeepsSearch
  <2>6. CASE MarkerFound  BY <2>6, OthersKeepSearch DEF MarkerFound
  <2>7. CASE FieldByte  BY <2>7, OthersKeepSearch DEF FieldByte
  <2>8. CASE Decode  BY <2>8, OthersKeepSearch DEF Decode, Return
  <2>9. CASE DiscardByte  BY <2>9, OthersKeepSearch DEF DiscardByte
  <2>10. CASE Discarded  BY <2>10, OthersKeepSearch DEF Discarded, Return
  <2>11. CASE Verify  BY <2>11, OthersKeepSearch DEF Verify, Return
  <2>12. CASE Timeout  BY <2>12, OthersKeepSearch DEF Timeout, Return
  <2>13. CASE DrainBegin  BY <2>13, OthersKeepSearch DEF DrainBegin
  <2>14. CASE DrainStep
    BY <2>14, OthersKeepSearch DEF DrainStep, DrainByte, DrainEnd
  <2>15. CASE UNCHANGED vars  BY <2>15, OthersKeepSearch DEF vars
  <2>16. QED
    BY <2>1, <2>2, <2>3, <2>4, <2>5, <2>6, <2>7, <2>8, <2>9, <2>10, <2>11, <2>12, <2>13,
       <2>14, <2>15 DEF Next, ReadStep
<1>2. SearchInv => MatchIsLongest  BY DEF SearchInv
<1>3. QED  BY InitSearch, <1>1, <1>2, PTL DEF Spec

-----------------------------------------------------------------------------
(* The bytes of a frame *)

LEMMA ScopedPart ==
    ASSUME NEW fields, NEW s \in Seq(Byte)
    PROVE  InScope(fields, s) \in Seq(Byte)
BY DEF InScope

\* A frame's checksum tells its payload from one with one other byte.
LEMMA ChecksumTells ==
    ASSUME "PAYLOAD" \in Scope, NEW lb \in Seq(Byte), NEW p \in Seq(Byte), NEW q \in Seq(Byte),
           Len(q) = Len(p), NEW d \in 1..Len(p), p[d] # q[d],
           \A i \in 1..Len(p) : i # d => p[i] = q[i]
    PROVE  Checksum(lb, p) # Checksum(lb, q)
<1> DEFINE A == InScope("HEADER", StartMarker)
           B == InScope("LENGTH", lb)
           t == ChecksumType
<1>1. A \in Seq(Byte) /\ B \in Seq(Byte) /\ t \in ChecksumTypes /\ t # "NONE"
  BY ConstantsAssumption, ScopedPart DEF FrameConfigIsValid
<1>2. \A s : InScope("PAYLOAD", s) = s
  BY DEF InScope
<1>3. \A s : Checksum(lb, s) = ChecksumBytes(t, BigEndian, ValueOf(t, A \o B \o s))
  BY <1>2 DEF Checksum
<1> HIDE DEF A, B, t
<1> DEFINE C == A \o B
           o == Len(C)
<1>4. C \in Seq(Byte) /\ o \in Nat
  BY <1>1
<1> HIDE DEF C
<1>5. ASSUME NEW s \in Seq(Byte), Len(s) = Len(p)
      PROVE  /\ C \o s \in Seq(Byte) /\ Len(C \o s) = o + Len(p)
             /\ \A i \in 1..o : (C \o s)[i] = C[i]
             /\ \A i \in 1..Len(p) : (C \o s)[o + i] = s[i]
  <2> DEFINE z == C \o s
  <2>1. /\ z \in Seq(Byte) /\ Len(z) = Len(C) + Len(s)
        /\ \A i \in 1..Len(C) : z[i] = C[i]
        /\ \A i \in 1..Len(s) : z[Len(C) + i] = s[i]
    BY <1>4, Concatenation
  <2> HIDE DEF z
  <2>2. /\ z \in Seq(Byte) /\ Len(z) = o + Len(p)
        /\ \A i \in 1..o : z[i] = C[i]
        /\ \A i \in 1..Len(p) : z[o + i] = s[i]
    BY <1>5, <2>1
  <2>3. QED
    BY <2>2 DEF z
<1> HIDE DEF o
<1> DEFINE x == C \o p
           y == C \o q
<1>6. /\ x \in Seq(Byte) /\ Len(x) = o + Len(p)
      /\ \A i \in 1..o : x[i] = C[i]
      /\ \A i \in 1..Len(p) : x[o + i] = p[i]
  BY <1>5
<1>7. /\ y \in Seq(Byte) /\ Len(y) = o + Len(p)
      /\ \A i \in 1..o : y[i] = C[i]
      /\ \A i \in 1..Len(p) : y[o + i] = q[i]
  BY <1>5
<1> HIDE DEF x, y
<1>8. o + d \in 1..Len(x) /\ x[o + d] # y[o + d]
  <2>1. o + d \in 1..Len(x)
    BY <1>4, <1>6 DEF o
  <2>2. QED
    BY <1>6, <1>7, <2>1
<1>9. ASSUME NEW i \in 1..Len(x), i # o + d PROVE x[i] = y[i]
  <2>1. CASE i \in 1..o
    BY <1>6, <1>7, <2>1
  <2>2. CASE i \notin 1..o
    <3>1. i - o \in 1..Len(p) /\ o + (i - o) = i /\ i - o # d
      BY <1>4, <1>6, <1>9, <2>2 DEF o
    <3>2. x[o + (i - o)] = p[i - o] /\ y[o + (i - o)] = q[i - o]
      BY <1>6, <1>7, <3>1
    <3>3. QED
      BY <3>1, <3>2
  <2>3. QED
    BY <2>1, <2>2
<1>10. /\ ValueOf(t, x) \in Values(t) /\ ValueOf(t, y) \in Values(t)
       /\ ValueOf(t, x) # ValueOf(t, y)
  BY <1>1, <1>6, <1>7, <1>8, <1>9, OneByteChangesValue
<1>11. Checksum(lb, p) = ChecksumBytes(t, BigEndian, ValueOf(t, x))
       /\ Checksum(lb, q) = ChecksumBytes(t, BigEndian, ValueOf(t, y))
  BY <1>3 DEF x, y, C
<1>12. QED
  BY <1>1, <1>10, <1>11, ChecksumBytesInjective

LEMMA ByteTuples ==
    ASSUME NEW S, NEW a \in S, NEW b \in S
    PROVE  <<>> \in Seq(S) /\ <<a>> \in Seq(S) /\ <<a, b>> \in Seq(S)
OBVIOUS

LEMMA ValuesMakeBytes ==
    ASSUME NEW t \in ChecksumTypes, NEW big, NEW v \in Values(t)
    PROVE  ChecksumBytes(t, big, v) \in Seq(Byte)
<1> DEFINE low == Low(v)
           high == Low(ShiftRight8(v))
           c == ChecksumBytes(t, big, v)
<1>1. low \in Byte /\ high \in Byte
  BY LowType
<1>2. t = "SUM8" => v \in Byte
  BY DEF Values
<1>3. CASE t = "NONE"
  <2>1. c = <<>>
    BY <1>3 DEF ChecksumBytes
  <2> HIDE DEF c
  <2>2. QED
    BY <2>1, ByteTuples DEF c
<1>4. CASE t = "SUM8"
  <2>1. c = <<v>>
    BY <1>4 DEF ChecksumBytes
  <2>2. QED
    BY <1>2, <1>4, <2>1, ByteTuples
<1>5. CASE t = "XOR8"
  <2>1. c = <<low>>
    BY <1>5 DEF ChecksumBytes
  <2> HIDE DEF low, c
  <2>2. QED
    BY <1>1, <2>1, ByteTuples DEF c
<1>6. CASE t \in Crc16
  <2>1. t \notin {"NONE", "SUM8", "XOR8"}
    BY <1>6 DEF Crc16
  <2>2. c = IF big THEN <<high, low>> ELSE <<low, high>>
    BY <2>1, Zenon DEF ChecksumBytes
  <2> HIDE DEF low, high, c
  <2>3. c = <<high, low>> \/ c = <<low, high>>
    BY <2>2, Zenon
  <2>4. QED
    BY <1>1, <2>3, ByteTuples DEF c
<1>7. QED
  BY <1>3, <1>4, <1>5, <1>6 DEF ChecksumTypes, Crc16

LEMMA ChecksumIsBytes ==
    ASSUME NEW lb \in Seq(Byte), NEW p \in Seq(Byte)
    PROVE  Checksum(lb, p) \in Seq(Byte) /\ Len(Checksum(lb, p)) = ChecksumSize
<1> DEFINE m == InScope("HEADER", StartMarker) \o InScope("LENGTH", lb)
                \o InScope("PAYLOAD", p)
<1>1. ChecksumType \in ChecksumTypes /\ StartMarker \in Seq(Byte)
  BY ConstantsAssumption, Zenon DEF FrameConfigIsValid
<1>2. m \in Seq(Byte)
  <2>1. /\ InScope("HEADER", StartMarker) \in Seq(Byte)
        /\ InScope("LENGTH", lb) \in Seq(Byte) /\ InScope("PAYLOAD", p) \in Seq(Byte)
    BY <1>1, ScopedPart
  <2>2. QED
    BY <2>1
<1>3. Checksum(lb, p) = ChecksumBytes(ChecksumType, BigEndian, ValueOf(ChecksumType, m))
  BY DEF Checksum
<1> HIDE DEF m
<1>4. ValueOf(ChecksumType, m) \in Values(ChecksumType)
  <2>1. PICK v \in [0..Len(m) -> Values(ChecksumType)] :
           ValueOf(ChecksumType, m) = v[Len(m)]
    BY <1>1, <1>2, RunningValues
  <2>2. Len(m) \in 0..Len(m)
    BY <1>2
  <2>3. QED
    BY <2>1, <2>2
<1>5. Checksum(lb, p) \in Seq(Byte)
  BY <1>1, <1>3, <1>4, ValuesMakeBytes
<1>6. Len(Checksum(lb, p)) = ChecksumSize
  BY <1>3, ChecksumLength
<1>7. QED
  BY <1>5, <1>6

LEMMA Sizes ==
    /\ LengthSize \in {1, 2} /\ ChecksumSize \in 0..2
    /\ L \in Nat /\ Len(EndMarker) \in Nat /\ TrailerSize = ChecksumSize + Len(EndMarker)
    /\ StartMarker \in Seq(Byte) /\ EndMarker \in Seq(Byte) /\ L = Len(StartMarker)
BY ConstantsAssumption DEF LengthSize, ChecksumSize, TrailerSize, L

\* Where the fields of a frame are.
LEMMA WireLayout ==
    ASSUME NEW p \in Payloads, LengthFits(Len(p))
    PROVE  LET w == Wire(p)
               n == Len(p)
               lb == EncodeLength(n)
               c == Checksum(lb, p)
           IN /\ p \in Seq(Byte) /\ n \in Nat
              /\ w \in Seq(Byte) /\ Len(w) = L + LengthSize + n + TrailerSize
              /\ lb \in Seq(Byte) /\ Len(lb) = LengthSize
              /\ c \in Seq(Byte) /\ Len(c) = ChecksumSize
              /\ \A j \in 1..L : w[j] = StartMarker[j]
              /\ \A j \in 1..LengthSize : w[L + j] = lb[j]
              /\ \A j \in 1..n : w[L + LengthSize + j] = p[j]
              /\ \A j \in 1..ChecksumSize : w[L + LengthSize + n + j] = c[j]
              /\ \A j \in 1..Len(EndMarker) :
                    w[L + LengthSize + n + ChecksumSize + j] = EndMarker[j]
<1> DEFINE w == Wire(p)
           n == Len(p)
           lb == EncodeLength(n)
           c == Checksum(lb, p)
<1>1. p \in Seq(Byte) /\ n \in Nat
  BY ConstantsAssumption
<1>2. lb \in Seq(Byte) /\ Len(lb) = LengthSize
  BY <1>1, LengthRoundTrip
<1>3. c \in Seq(Byte) /\ Len(c) = ChecksumSize
  BY <1>1, <1>2, ChecksumIsBytes
<1>4. w = (((StartMarker \o lb) \o p) \o c) \o EndMarker
  BY DEF Wire
<1>5. n = Len(p)
  OBVIOUS
<1> HIDE DEF lb, c, n
<1>6. n \in Nat /\ L \in Nat /\ LengthSize \in Nat /\ ChecksumSize \in Nat /\ Len(EndMarker) \in Nat
  BY <1>1, <1>5, Sizes
<1> DEFINE a == StartMarker \o lb
           b == a \o p
           d == b \o c
           e == d \o EndMarker
<1>7. /\ a \in Seq(Byte) /\ Len(a) = L + LengthSize
      /\ \A j \in 1..L : a[j] = StartMarker[j]
      /\ \A j \in 1..LengthSize : a[L + j] = lb[j]
  BY <1>2, Sizes, Concatenation
<1> HIDE DEF a
<1>8. /\ b \in Seq(Byte) /\ Len(b) = L + LengthSize + n
      /\ \A j \in 1..L + LengthSize : b[j] = a[j]
      /\ \A j \in 1..n : b[L + LengthSize + j] = p[j]
  <2>1. /\ b \in Seq(Byte) /\ Len(b) = Len(a) + Len(p)
        /\ \A j \in 1..Len(a) : b[j] = a[j]
        /\ \A j \in 1..Len(p) : b[Len(a) + j] = p[j]
    <3>1. a \in Seq(Byte) /\ p \in Seq(Byte)
      BY <1>1, <1>7
    <3>2. QED
      BY <3>1, Concatenation
  <2> HIDE DEF b
  <2>2. QED
    BY <1>5, <1>7, <1>6, <2>1
<1> HIDE DEF b
<1>9. /\ d \in Seq(Byte) /\ Len(d) = L + LengthSize + n + ChecksumSize
      /\ \A j \in 1..L + LengthSize + n : d[j] = b[j]
      /\ \A j \in 1..ChecksumSize : d[L + LengthSize + n + j] = c[j]
  <2>1. /\ d \in Seq(Byte) /\ Len(d) = Len(b) + Len(c)
        /\ \A j \in 1..Len(b) : d[j] = b[j]
        /\ \A j \in 1..Len(c) : d[Len(b) + j] = c[j]
    <3>1. b \in Seq(Byte) /\ c \in Seq(Byte)
      BY <1>3, <1>8
    <3>2. QED
      BY <3>1, Concatenation
  <2> HIDE DEF d
  <2>2. QED
    BY <1>3, <1>8, <1>6, <2>1
<1> HIDE DEF d
<1>10. /\ e \in Seq(Byte)
       /\ Len(e) = L + LengthSize + n + ChecksumSize + Len(EndMarker)
       /\ \A j \in 1..L + LengthSize + n + ChecksumSize : e[j] = d[j]
       /\ \A j \in 1..Len(EndMarker) :
             e[L + LengthSize + n + ChecksumSize + j] = EndMarker[j]
  <2>1. /\ e \in Seq(Byte) /\ Len(e) = Len(d) + Len(EndMarker)
        /\ \A j \in 1..Len(d) : e[j] = d[j]
        /\ \A j \in 1..Len(EndMarker) : e[Len(d) + j] = EndMarker[j]
    <3>1. d \in Seq(Byte) /\ EndMarker \in Seq(Byte)
      BY <1>9, Sizes
    <3>2. QED
      BY <3>1, Concatenation
  <2> HIDE DEF e
  <2>2. QED
    BY <1>9, <1>6, <2>1
<1>11. w = e
  BY <1>4 DEF e, d, b, a
<1> HIDE DEF e, w
<1>12. \A j \in 1..L : w[j] = StartMarker[j]
  <2>1. ASSUME NEW j \in 1..L PROVE w[j] = StartMarker[j]
    <3>1. /\ j \in 1..L + LengthSize /\ j \in 1..L + LengthSize + n
          /\ j \in 1..L + LengthSize + n + ChecksumSize
      BY <1>6
    <3>2. QED
      BY <1>7, <1>8, <1>9, <1>10, <1>11, <3>1
  <2>2. QED
    BY <2>1
<1>13. \A j \in 1..LengthSize : w[L + j] = lb[j]
  <2>1. ASSUME NEW j \in 1..LengthSize PROVE w[L + j] = lb[j]
    <3>1. /\ L + j \in 1..L + LengthSize /\ L + j \in 1..L + LengthSize + n
          /\ L + j \in 1..L + LengthSize + n + ChecksumSize
      BY <1>6
    <3>2. QED
      BY <1>7, <1>8, <1>9, <1>10, <1>11, <3>1
  <2>2. QED
    BY <2>1
<1>14. \A j \in 1..n : w[L + LengthSize + j] = p[j]
  <2>1. ASSUME NEW j \in 1..n PROVE w[L + LengthSize + j] = p[j]
    <3>1. /\ L + LengthSize + j \in 1..L + LengthSize + n
          /\ L + LengthSize + j \in 1..L + LengthSize + n + ChecksumSize
      BY <1>6
    <3>2. QED
      BY <1>8, <1>9, <1>10, <1>11, <3>1
  <2>2. QED
    BY <2>1
<1>15. \A j \in 1..ChecksumSize : w[L + LengthSize + n + j] = c[j]
  <2>1. ASSUME NEW j \in 1..ChecksumSize PROVE w[L + LengthSize + n + j] = c[j]
    <3>1. L + LengthSize + n + j \in 1..L + LengthSize + n + ChecksumSize
      BY <1>6
    <3>2. QED
      BY <1>9, <1>10, <1>11, <3>1
  <2>2. QED
    BY <2>1
<1>16. Len(w) = L + LengthSize + n + TrailerSize
  BY <1>1, <1>5, <1>10, <1>11, <1>6 DEF TrailerSize
<1>17. QED
  BY <1>1, <1>2, <1>3, <1>10, <1>11, <1>12, <1>13, <1>14, <1>15, <1>16 DEF w, lb, c, n

-----------------------------------------------------------------------------
(* The stream of bytes and the invariant *)

Cell == [byte : Byte, start : BOOLEAN]

\* A call is reading.
Busy == pc \in {"marker", "length", "body", "discard"}

\* The frames whose bytes the stream holds.
Unread == IF Busy THEN current \o awaited ELSE awaited

\* The number of bytes of a frame, and what may be written for it.
Size(f) == EncodedSize(Len(f.payload))
Wires(f) == IF f.intact THEN {Wire(f.payload)} ELSE Damaged(Wire(f.payload))

\* The bytes w stand in W from a on; a start marker does.
At(W, a, w) ==
    a + Len(w) - 1 <= Len(W) /\ \A j \in 1..Len(w) : W[a + j - 1].byte = w[j]
MarkerAt(W, i) == \A j \in 1..L : W[i + j - 1].byte = StartMarker[j]

\* The elements of the queue.
Frames == [payload : Payloads, intact : BOOLEAN]

\* W carries the frames Q, the k-th from pos[k] on.
Carries(W, Q, pos) ==
    /\ pos \in [1..Len(Q) -> 1..Len(W)]
    /\ \A k \in 1..Len(Q) :
          /\ Q[k].payload \in Payloads /\ LengthFits(Len(Q[k].payload))
          /\ \E w \in Wires(Q[k]) : At(W, pos[k], w)
    /\ \A j, k \in 1..Len(Q) : j < k => pos[j] + Size(Q[j]) <= pos[k]
    /\ \A i \in 1..Len(W) : W[i].start <=> \E k \in 1..Len(Q) : pos[k] = i

\* No start marker stands in W but where a frame begins.
Marked(W) == \A i \in 1..Len(W) - L + 1 : MarkerAt(W, i) => W[i].start

\* From the first frame on, frames follow each other up to the end of W.
Contiguous(W, Q, pos) == \A k \in 1..Len(Q) :
    pos[k] + Size(Q[k]) = IF k < Len(Q) THEN pos[k + 1] ELSE Len(W) + 1

\* W begins with a frame.
Front(W) == W = <<>> \/ W[1].start

\* What the two histories say of the stream.
Orderly(W, Q, pos) ==
    /\ clean => Marked(W)
    /\ whole => Contiguous(W, Q, pos)
    /\ whole /\ pc \notin {"drain", "raw"} => Front(W)

\* What a step that takes from the stream, or adds to it, leaves of that.
Follows(W, Q, pos, V, R, p) ==
    /\ Marked(W) => Marked(V)
    /\ Contiguous(W, Q, pos) => Contiguous(V, R, p)

\* The bytes s end as W does, up to the length of a marker's beginning.
Remembered(s, W) ==
    /\ Len(s) <= L - 1
    /\ Len(s) = L - 1 \/ Len(s) >= Len(W)
    /\ \A i \in 0..L - 2 : i < Len(s) /\ i < Len(W) => s[Len(s) - i] = W[Len(W) - i].byte

\* W is made of n cells that were read, the FIFO and the line.
Joined(W, n) ==
    /\ W \in Seq(Cell) /\ n \in Nat
    /\ Len(W) = n + Len(fifo) + Len(line)
    /\ \A i \in 1..Len(fifo) : W[n + i] = fifo[i]
    /\ \A i \in 1..Len(line) : W[n + Len(fifo) + i] = line[i]
    /\ \A i \in 2..Len(line) : ~line[i].start

\* The bytes from the front of the frame in hand, or from where the FIFO
\* begins, to the end of the line: a stream W of which n cells were read.
Stream(W, n, pos) ==
    /\ Carries(W, Unread, pos) /\ Remembered(sent, W) /\ Joined(W, n)
    /\ Orderly(W, Unread, pos)
    /\ Len(current) <= 1
    /\ Busy => \A k \in 1..Len(Unread) : (pos[k] <= n) <=> (k <= Len(current))
    /\ ~Busy => n = 0
    /\ pc = "idle" => current = <<>>

\* How far the reader is.
MarkerRead(W, n) ==
    n = Len(recent) /\ n <= L /\ \A i \in 1..n : W[i].byte = recent[i]

FieldsRead(W, n) ==
    n = L + Len(got) /\ \A j \in 1..Len(got) : W[L + j].byte = got[j]

Reader(W, n, pos) ==
    /\ pc = "marker" => MarkerRead(W, n) /\ got = <<>>
    /\ pc \in {"length", "body", "discard"} => Len(current) = 1 /\ pos[1] = 1
    /\ pc \in {"length", "body"} => FieldsRead(W, n)
    /\ pc = "length" => Len(got) <= LengthSize
    /\ pc = "body" => Len(got) >= LengthSize /\ Len(got) <= Needed
    /\ pc = "discard" =>
          n + left = Size(current[1]) /\ size = Len(current[1].payload) /\ size > BufferLength
    /\ (status = "READING") <=> Busy
    /\ pc \in {"drain", "raw"} => status = "IDLE" /\ size = 0

\* What the step proofs need of types; no bound is among it.
Typed ==
    /\ sent \in Seq(Byte) /\ recent \in Seq(Byte) /\ got \in Seq(Byte) /\ left \in Nat
    /\ fifo \in Seq(Cell) /\ line \in Seq(Cell)
    /\ awaited \in Seq([payload : Payloads, intact : BOOLEAN])
    /\ current \in Seq([payload : Payloads, intact : BOOLEAN])
    /\ pc \in {"idle", "marker", "length", "body", "discard", "drain", "raw"}
    /\ clean \in BOOLEAN /\ whole \in BOOLEAN

\* The inductive invariant of the refinement.
ChannelInv ==
    /\ Typed /\ SearchInv
    /\ \E W, n, pos : Stream(W, n, pos) /\ Reader(W, n, pos)

-----------------------------------------------------------------------------
(* What was written for a frame *)

\* A damaged byte is another byte.
LEMMA NextByteRange ==
    ASSUME NEW b \in Int, b >= 0, b <= 255
    PROVE  /\ (b + 1) % 256 >= 0 /\ (b + 1) % 256 <= 255
           /\ (b + 1) % 256 # b /\ (b + 1) % 256 \in Int
OBVIOUS

LEMMA NextByte ==
    ASSUME NEW b \in Byte
    PROVE  (b + 1) % 256 \in Byte /\ (b + 1) % 256 # b
<1>1. b \in Int /\ b >= 0 /\ b <= 255
  BY DEF Byte
<1>2. QED
  BY <1>1, NextByteRange DEF Byte

\* The layout of what is written for a frame, damaged or not.
LEMMA FrameWires ==
    ASSUME LengthSafe, NEW f, f.payload \in Payloads, LengthFits(Len(f.payload)),
           NEW w \in Wires(f)
    PROVE  LET p == f.payload
               v == Wire(p)
           IN /\ w \in Seq(Byte) /\ Len(w) = Size(f) /\ Len(v) = Size(f)
              /\ Size(f) = L + LengthSize + Len(p) + TrailerSize
              /\ p \in Seq(Byte) /\ Len(p) \in Nat
              /\ \A j \in 1..L : w[j] = StartMarker[j]
              /\ \A j \in 1..LengthSize : w[L + j] = EncodeLength(Len(p))[j]
              /\ f.intact => w = v
              /\ ~f.intact => \E i \in L + LengthSize + 1..Len(w) :
                    w[i] # v[i] /\ \A j \in 1..Len(w) : j # i => w[j] = v[j]
<1> DEFINE p == f.payload
           v == Wire(p)
           n == Len(p)
<1>1. /\ p \in Seq(Byte) /\ n \in Nat
      /\ v \in Seq(Byte) /\ Len(v) = L + LengthSize + n + TrailerSize
      /\ \A j \in 1..L : v[j] = StartMarker[j]
      /\ \A j \in 1..LengthSize : v[L + j] = EncodeLength(n)[j]
  BY WireLayout
<1>2. Size(f) = L + LengthSize + n + TrailerSize
  <2>1. Size(f) = L + LengthSize + n + ChecksumSize + Len(EndMarker)
    BY DEF Size, EncodedSize
  <2> HIDE DEF n
  <2>2. /\ n \in Nat /\ L \in Nat /\ LengthSize \in Nat /\ ChecksumSize \in Nat
        /\ Len(EndMarker) \in Nat /\ TrailerSize = ChecksumSize + Len(EndMarker)
    BY <1>1, Sizes
  <2>3. QED
    BY <2>1, <2>2
<1>3. L \in Nat /\ LengthSize \in Nat /\ TrailerSize \in Nat
  BY Sizes
<1>4. CASE f.intact
  <2>1. w = v
    BY <1>4 DEF Wires
  <2>2. QED
    BY <1>1, <1>2, <1>4, <2>1
<1>5. CASE ~f.intact
  <2>1. \E i \in L + LengthSize + 1..Len(v) : w = [v EXCEPT ![i] = (@ + 1) % 256]
    BY <1>5 DEF Wires, Damaged
  <2> HIDE DEF v, n, p
  <2>2. PICK i \in L + LengthSize + 1..Len(v) : w = [v EXCEPT ![i] = (@ + 1) % 256]
    BY <2>1
  <2>3. i \in 1..Len(v) /\ v[i] \in Byte /\ Len(v) \in Nat
    BY <1>1, <1>3
  <2>4. (v[i] + 1) % 256 \in Byte /\ (v[i] + 1) % 256 # v[i]
    BY <2>3, NextByte
  <2> DEFINE b == (v[i] + 1) % 256
  <2>5. w = [v EXCEPT ![i] = b]
    BY <2>2
  <2> HIDE DEF b
  <2>6. /\ w \in Seq(Byte) /\ Len(w) = Len(v) /\ w[i] = b
        /\ \A j \in 1..Len(v) : j # i => w[j] = v[j]
    BY <1>1, <2>3, <2>4, <2>5 DEF b
  <2>7. \A j \in 1..L + LengthSize : j \in 1..Len(v) /\ j # i
    BY <1>1, <1>3, <2>2 DEF n
  <2>8. \A j \in 1..L : w[j] = StartMarker[j]
    BY <1>1, <1>3, <2>6, <2>7
  <2>9. \A j \in 1..LengthSize : w[L + j] = EncodeLength(n)[j]
    <3>1. \A j \in 1..LengthSize : L + j \in 1..L + LengthSize
      BY <1>3
    <3>2. QED
      BY <1>1, <2>6, <2>7, <3>1
  <2>10. \E k \in L + LengthSize + 1..Len(w) :
            w[k] # v[k] /\ \A j \in 1..Len(w) : j # k => w[j] = v[j]
    BY <2>2, <2>4, <2>6 DEF b
  <2>11. QED
    BY <1>1, <1>2, <1>5, <2>6, <2>8, <2>9, <2>10 DEF v, n, p
<1>6. QED
  BY <1>4, <1>5

PayloadOf(g, n) == SubSeq(g, LengthSize + 1, LengthSize + n)
TrailerOf(g, n) == SubSeq(g, LengthSize + n + 1, Len(g))
SumOf(g, n) == SubSeq(TrailerOf(g, n), 1, ChecksumSize)
EndOf(g, n) == SubSeq(TrailerOf(g, n), ChecksumSize + 1, TrailerSize)

\* Where they were on the wire.
LEMMA FieldsOf ==
    ASSUME NEW w \in Seq(Byte), NEW n \in Nat, NEW g \in Seq(Byte),
           Len(g) = LengthSize + n + TrailerSize,
           \A j \in 1..Len(g) : g[j] = w[L + j]
    PROVE  /\ PayloadOf(g, n) \in Seq(Byte) /\ Len(PayloadOf(g, n)) = n
           /\ \A j \in 1..n : PayloadOf(g, n)[j] = w[L + LengthSize + j]
           /\ SumOf(g, n) \in Seq(Byte) /\ Len(SumOf(g, n)) = ChecksumSize
           /\ \A j \in 1..ChecksumSize : SumOf(g, n)[j] = w[L + LengthSize + n + j]
           /\ EndOf(g, n) \in Seq(Byte) /\ Len(EndOf(g, n)) = Len(EndMarker)
           /\ \A j \in 1..Len(EndMarker) :
                 EndOf(g, n)[j] = w[L + LengthSize + n + ChecksumSize + j]
<1> DEFINE P == PayloadOf(g, n)
           T == TrailerOf(g, n)
           c == SumOf(g, n)
           e == EndOf(g, n)
<1>1. /\ L \in Nat /\ LengthSize \in Nat /\ ChecksumSize \in Nat /\ Len(EndMarker) \in Nat
      /\ TrailerSize \in Nat /\ TrailerSize = ChecksumSize + Len(EndMarker)
  BY Sizes
<1>2. P \in Seq(Byte) /\ Len(P) = n /\ \A j \in 1..n : P[j] = g[LengthSize + j]
  <2>1. LengthSize + n <= Len(g)
    BY <1>1
  <2>2. QED
    BY <1>1, <2>1, Part DEF PayloadOf
<1>3. T \in Seq(Byte) /\ Len(T) = TrailerSize
      /\ \A j \in 1..TrailerSize : T[j] = g[LengthSize + n + j]
  <2>1. LengthSize + n \in Nat /\ (LengthSize + n) + TrailerSize <= Len(g)
    BY <1>1
  <2>2. T = SubSeq(g, (LengthSize + n) + 1, (LengthSize + n) + TrailerSize)
    BY DEF TrailerOf
  <2> HIDE DEF T
  <2>3. QED
    BY <1>1, <2>1, <2>2, Part
<1>4. c \in Seq(Byte) /\ Len(c) = ChecksumSize /\ \A j \in 1..ChecksumSize : c[j] = T[j]
  <2>1. c = SubSeq(T, 0 + 1, 0 + ChecksumSize)
    BY <1>1 DEF SumOf
  <2>2. 0 \in Nat /\ 0 + ChecksumSize <= Len(T)
    BY <1>1, <1>3
  <2> HIDE DEF T, c
  <2>3. /\ c \in Seq(Byte) /\ Len(c) = ChecksumSize
        /\ \A j \in 1..ChecksumSize : c[j] = T[0 + j]
    BY <1>1, <1>3, <2>1, <2>2, Part
  <2>4. QED
    BY <1>1, <2>3
<1>5. e \in Seq(Byte) /\ Len(e) = Len(EndMarker)
      /\ \A j \in 1..Len(EndMarker) : e[j] = T[ChecksumSize + j]
  <2>1. e = SubSeq(T, ChecksumSize + 1, ChecksumSize + Len(EndMarker))
    BY <1>1 DEF EndOf
  <2>2. ChecksumSize + Len(EndMarker) <= Len(T)
    BY <1>1, <1>3
  <2> HIDE DEF T, e
  <2>3. QED
    BY <1>1, <1>3, <2>1, <2>2, Part
<1> HIDE DEF P, T, c, e
<1>6. ASSUME NEW j \in 1..n PROVE P[j] = w[L + LengthSize + j]
  <2>1. LengthSize + j \in 1..Len(g) /\ L + (LengthSize + j) = L + LengthSize + j
    BY <1>1
  <2>2. QED
    BY <1>2, <2>1
<1>7. ASSUME NEW j \in 1..ChecksumSize PROVE c[j] = w[L + LengthSize + n + j]
  <2>1. /\ LengthSize + n + j \in 1..Len(g) /\ j \in 1..TrailerSize
        /\ L + (LengthSize + n + j) = L + LengthSize + n + j
    BY <1>1
  <2>2. QED
    BY <1>3, <1>4, <2>1
<1>8. ASSUME NEW j \in 1..Len(EndMarker)
      PROVE  e[j] = w[L + LengthSize + n + ChecksumSize + j]
  <2>1. /\ LengthSize + n + (ChecksumSize + j) \in 1..Len(g)
        /\ ChecksumSize + j \in 1..TrailerSize
        /\ L + (LengthSize + n + (ChecksumSize + j)) = L + LengthSize + n + ChecksumSize + j
    BY <1>1
  <2>2. QED
    BY <1>3, <1>5, <2>1
<1>9. QED
  BY <1>2, <1>4, <1>5, <1>6, <1>7, <1>8 DEF P, c, e

\* Only a frame that was not damaged passes the checks, and it does.
LEMMA Verdict ==
    ASSUME LengthSafe, "PAYLOAD" \in Scope,
           NEW f, f.payload \in Payloads, LengthFits(Len(f.payload)), NEW w \in Wires(f),
           NEW g \in Seq(Byte), Len(g) = LengthSize + Len(f.payload) + TrailerSize,
           \A j \in 1..Len(g) : g[j] = w[L + j]
    PROVE  LET n == Len(f.payload)
               passes == /\ EndOf(g, n) = EndMarker
                         /\ SumOf(g, n) = Checksum(EncodeLength(n), PayloadOf(g, n))
           IN /\ f.intact => passes /\ PayloadOf(g, n) = f.payload
              /\ ~f.intact => ~passes
<1> DEFINE p == f.payload
           n == Len(p)
           v == Wire(p)
           lb == EncodeLength(n)
           C == Checksum(lb, p)
           P == PayloadOf(g, n)
           c == SumOf(g, n)
           e == EndOf(g, n)
<1>1. /\ w \in Seq(Byte) /\ Len(w) = L + LengthSize + n + TrailerSize
      /\ p \in Seq(Byte) /\ n \in Nat
      /\ f.intact => w = v
      /\ ~f.intact => \E i \in L + LengthSize + 1..Len(w) :
            w[i] # v[i] /\ \A j \in 1..Len(w) : j # i => w[j] = v[j]
  BY FrameWires
<1>2. /\ lb \in Seq(Byte) /\ C \in Seq(Byte) /\ Len(C) = ChecksumSize
      /\ \A j \in 1..n : v[L + LengthSize + j] = p[j]
      /\ \A j \in 1..ChecksumSize : v[L + LengthSize + n + j] = C[j]
      /\ \A j \in 1..Len(EndMarker) :
            v[L + LengthSize + n + ChecksumSize + j] = EndMarker[j]
  BY WireLayout
<1>3. /\ P \in Seq(Byte) /\ Len(P) = n
      /\ \A j \in 1..n : P[j] = w[L + LengthSize + j]
      /\ c \in Seq(Byte) /\ Len(c) = ChecksumSize
      /\ \A j \in 1..ChecksumSize : c[j] = w[L + LengthSize + n + j]
      /\ e \in Seq(Byte) /\ Len(e) = Len(EndMarker)
      /\ \A j \in 1..Len(EndMarker) : e[j] = w[L + LengthSize + n + ChecksumSize + j]
  BY <1>1, FieldsOf
<1>4. /\ L \in Nat /\ LengthSize \in Nat /\ ChecksumSize \in Nat /\ Len(EndMarker) \in Nat
      /\ TrailerSize = ChecksumSize + Len(EndMarker) /\ EndMarker \in Seq(Byte)
  BY Sizes
<1>5. n = Len(p)
  OBVIOUS
<1> HIDE DEF n, v, lb, C, P, c, e
<1>6. ASSUME f.intact PROVE e = EndMarker /\ c = C /\ P = p
  <2>1. w = v
    BY <1>1, <1>6
  <2>2. e = EndMarker
    <3>1. /\ e \in Seq(Byte) /\ EndMarker \in Seq(Byte) /\ Len(e) = Len(EndMarker)
          /\ \A j \in 1..Len(EndMarker) : e[j] = EndMarker[j]
      BY <1>2, <1>3, <1>4, <2>1, Zenon
    <3>2. QED
      BY ONLY <3>1, SameSeq
  <2>3. c = C
    <3>1. /\ c \in Seq(Byte) /\ C \in Seq(Byte) /\ Len(c) = ChecksumSize
          /\ Len(C) = ChecksumSize /\ \A j \in 1..ChecksumSize : c[j] = C[j]
      BY <1>2, <1>3, <2>1, Zenon
    <3>2. QED
      BY ONLY <3>1, SameSeq
  <2>4. P = p
    <3>1. /\ P \in Seq(Byte) /\ p \in Seq(Byte) /\ Len(P) = n /\ Len(p) = n
          /\ \A j \in 1..n : P[j] = p[j]
      BY <1>1, <1>2, <1>3, <1>5, <2>1, Zenon
    <3>2. QED
      BY ONLY <3>1, SameSeq
  <2>5. QED
    BY <2>2, <2>3, <2>4
<1>7. ASSUME ~f.intact, e = EndMarker, c = Checksum(lb, P) PROVE FALSE
  <2>1. PICK b, r, z : b = L + LengthSize /\ r = Len(EndMarker) /\ z = Len(w)
    OBVIOUS
  <2>2. /\ b \in Nat /\ n \in Nat /\ ChecksumSize \in Nat /\ r \in Nat
        /\ z = b + n + (ChecksumSize + r)
    <3>1. /\ L \in Nat /\ LengthSize \in Nat /\ ChecksumSize \in Nat /\ n \in Nat
          /\ r \in Nat /\ z = L + LengthSize + n + TrailerSize
          /\ TrailerSize = ChecksumSize + r
      BY <1>1, <1>4, <2>1, Zenon
    <3>2. QED
      BY ONLY <2>1, <3>1
  <2>3. PICK i : i \in b + 1..z /\ w[i] # v[i] /\ \A j \in 1..z : j # i => w[j] = v[j]
    BY <1>1, <1>7, <2>1, Zenon
  <2>4. i \in Int /\ b < i /\ i <= z
    BY ONLY <2>2, <2>3
  <2>5. /\ \A j \in 1..n : p[j] = v[b + j] /\ P[j] = w[b + j]
        /\ \A j \in 1..ChecksumSize : C[j] = v[b + n + j] /\ c[j] = w[b + n + j]
        /\ \A j \in 1..r : /\ EndMarker[j] = v[b + n + ChecksumSize + j]
                           /\ e[j] = w[b + n + ChecksumSize + j]
    BY <1>2, <1>3, <2>1, Zenon
  <2>6. CASE i <= b + n
    <3>1. i - b \in 1..n /\ b + (i - b) = i
      BY ONLY <2>2, <2>4, <2>6
    <3>2. p[i - b] # P[i - b]
      BY ONLY <2>3, <2>5, <3>1
    <3>3. \A j \in 1..n : j # i - b => p[j] = P[j]
      <4>1. ASSUME NEW j, j \in 1..n, j # i - b PROVE p[j] = P[j]
        <5>1. b + j \in 1..z /\ b + j # i
          BY ONLY <2>2, <2>4, <4>1
        <5>2. QED
          BY ONLY <2>3, <2>5, <4>1, <5>1
      <4>2. QED
        BY ONLY <4>1
    <3>4. \A j \in 1..ChecksumSize : c[j] = C[j]
      <4>1. ASSUME NEW j, j \in 1..ChecksumSize PROVE c[j] = C[j]
        <5>1. b + n + j \in 1..z /\ b + n + j # i
          BY ONLY <2>2, <2>4, <2>6, <4>1
        <5>2. QED
          BY ONLY <2>3, <2>5, <4>1, <5>1
      <4>2. QED
        BY ONLY <4>1
    <3>5. c = C
      <4>1. c \in Seq(Byte) /\ C \in Seq(Byte) /\ Len(c) = ChecksumSize /\ Len(C) = ChecksumSize
        BY <1>2, <1>3
      <4>2. QED
        BY ONLY <3>4, <4>1, SameSeq
    <3>6. Checksum(lb, p) # Checksum(lb, P)
      <4>1. lb \in Seq(Byte) /\ p \in Seq(Byte) /\ P \in Seq(Byte) /\ Len(P) = n /\ Len(p) = n
        BY <1>1, <1>2, <1>3, <1>5
      <4>2. PICK d : d = i - b
        OBVIOUS
      <4>3. /\ d \in 1..Len(p) /\ Len(P) = Len(p) /\ p[d] # P[d]
            /\ \A j \in 1..Len(p) : j # d => p[j] = P[j]
        BY <3>1, <3>2, <3>3, <4>1, <4>2, Zenon
      <4>4. QED
        BY <4>1, <4>3, ChecksumTells
    <3>7. QED
      BY <1>7, <3>5, <3>6 DEF C
  <2>7. CASE ~(i <= b + n)
    <3>1. \A j \in 1..n : P[j] = p[j]
      <4>1. ASSUME NEW j, j \in 1..n PROVE P[j] = p[j]
        <5>1. b + j \in 1..z /\ b + j # i
          BY ONLY <2>2, <2>4, <2>7, <4>1
        <5>2. QED
          BY ONLY <2>3, <2>5, <4>1, <5>1
      <4>2. QED
        BY ONLY <4>1
    <3>2. P = p
      <4>1. P \in Seq(Byte) /\ p \in Seq(Byte) /\ Len(P) = n /\ Len(p) = n
        BY <1>1, <1>3, <1>5
      <4>2. QED
        BY ONLY <3>1, <4>1, SameSeq
    <3>3. c = C
      BY <1>7, <3>2 DEF C
    <3>4. CASE i <= b + n + ChecksumSize
      <4>1. i - (b + n) \in 1..ChecksumSize /\ b + n + (i - (b + n)) = i
        BY ONLY <2>2, <2>4, <2>7, <3>4
      <4>2. QED
        BY ONLY <2>3, <2>5, <3>3, <4>1
    <3>5. CASE ~(i <= b + n + ChecksumSize)
      <4>1. /\ i - (b + n + ChecksumSize) \in 1..r
            /\ b + n + ChecksumSize + (i - (b + n + ChecksumSize)) = i
        BY ONLY <2>2, <2>4, <3>5
      <4>2. QED
        BY ONLY <1>7, <2>3, <2>5, <4>1
    <3>6. QED
      BY <3>4, <3>5
  <2>8. QED
    BY <2>6, <2>7
<1>8. QED
  BY <1>6, <1>7 DEF n, lb, C, P, c, e

\* A frame is longer than its marker.
LEMMA SizeType ==
    ASSUME NEW f, f.payload \in Payloads
    PROVE  Size(f) \in Nat /\ Size(f) >= L + 1 /\ L \in Nat
           /\ Size(f) = L + LengthSize + Len(f.payload) + TrailerSize
<1> DEFINE n == Len(f.payload)
<1>1. n \in Nat
  BY ConstantsAssumption
<1>2. Size(f) = L + LengthSize + n + ChecksumSize + Len(EndMarker)
  BY DEF Size, EncodedSize
<1> HIDE DEF n
<1>3. /\ L \in Nat /\ LengthSize \in {1, 2} /\ ChecksumSize \in Nat /\ Len(EndMarker) \in Nat
      /\ TrailerSize = ChecksumSize + Len(EndMarker)
  BY Sizes
<1>4. Size(f) = L + LengthSize + n + TrailerSize /\ Size(f) \in Nat /\ Size(f) >= L + 1
  BY <1>1, <1>2, <1>3
<1>5. QED
  BY <1>3, <1>4 DEF n

-----------------------------------------------------------------------------
(* A stream that loses its front *)

\* V is what is left of W after n cells.
After(W, n, V) ==
    V \in Seq(Cell) /\ Len(V) = Len(W) - n /\ \A i \in 1..Len(V) : V[i] = W[n + i]

\* R is what is left of Q after m frames.
AfterFrames(Q, m, R) ==
    R \in Seq(Frames) /\ Len(R) = Len(Q) - m /\ \A k \in 1..Len(R) : R[k] = Q[m + k]

\* Of the frames, the first m begin within the first n cells.
Passed(Q, pos, n, m) == \A k \in 1..Len(Q) : (pos[k] <= n) <=> (k <= m)

\* What is left of a stream when its first n cells are gone, and with them the
\* first m frames.
LEMMA DropPrefix ==
    ASSUME KeepsStep,
           NEW W \in Seq(Cell), NEW Q \in Seq(Frames), NEW pos, Carries(W, Q, pos),
           NEW n \in 0..Len(W), NEW m \in 0..Len(Q), Passed(Q, pos, n, m),
           NEW V, After(W, n, V), NEW R, AfterFrames(Q, m, R)
    PROVE  \E p : /\ Carries(V, R, p) /\ Follows(W, Q, pos, V, R, p)
                  /\ \A k \in 1..Len(R) : p[k] = pos[m + k] - n
<1>1. /\ V \in Seq(Cell) /\ Len(V) = Len(W) - n /\ \A i \in 1..Len(V) : V[i] = W[n + i]
      /\ R \in Seq(Frames) /\ Len(R) = Len(Q) - m /\ \A k \in 1..Len(R) : R[k] = Q[m + k]
      /\ \A k \in 1..Len(Q) : (pos[k] <= n) <=> (k <= m)
  BY DEF After, AfterFrames, Passed
<1> DEFINE p == [k \in 1..Len(R) |-> pos[m + k] - n]
<1>2. /\ Len(W) \in Nat /\ Len(Q) \in Nat /\ Len(V) \in Nat /\ Len(R) \in Nat
      /\ n \in Nat /\ m \in Nat /\ L \in Nat
  BY <1>1, Sizes
<1>3. /\ pos \in [1..Len(Q) -> 1..Len(W)]
      /\ \A k \in 1..Len(Q) :
            /\ Q[k].payload \in Payloads /\ LengthFits(Len(Q[k].payload))
            /\ \E w \in Wires(Q[k]) : At(W, pos[k], w)
      /\ \A j, k \in 1..Len(Q) : j < k => pos[j] + Size(Q[j]) <= pos[k]
      /\ \A i \in 1..Len(W) : W[i].start <=> \E k \in 1..Len(Q) : pos[k] = i
  BY DEF Carries
<1> DEFINE h(k) == m + k
<1>4. ASSUME NEW k \in 1..Len(R)
      PROVE  /\ h(k) \in 1..Len(Q) /\ pos[h(k)] \in 1..Len(W) /\ pos[h(k)] > n
             /\ p[k] = pos[h(k)] - n /\ p[k] \in 1..Len(V) /\ R[k] = Q[h(k)]
  <2>1. h(k) \in 1..Len(Q) /\ ~(h(k) <= m)
    BY <1>2, <1>1
  <2>2. p[k] = pos[h(k)] - n /\ R[k] = Q[h(k)]
    BY <1>1
  <2> HIDE DEF p, h
  <2>3. pos[h(k)] \in 1..Len(W) /\ ~(pos[h(k)] <= n)
    BY <1>3, <1>1, <2>1
  <2>4. pos[h(k)] > n /\ p[k] \in 1..Len(V)
    <3>1. PICK a, u : a = pos[h(k)] /\ u = Len(W)
      OBVIOUS
    <3>2. a \in 1..u /\ ~(a <= n) /\ u \in Nat /\ n \in Nat /\ Len(V) = u - n
      BY <1>2, <1>1, <2>3, <3>1
    <3>3. a > n /\ a - n \in 1..Len(V)
      BY ONLY <3>2
    <3>4. QED
      BY ONLY <2>2, <3>1, <3>3
  <2>5. QED
    BY <2>1, <2>2, <2>3, <2>4
<1>5. \A j, k \in 1..Len(R) : j < k => h(j) < h(k)
  BY <1>2
<1>6. \A i \in 1..Len(Q) : i > m => \E k \in 1..Len(R) : h(k) = i
  <2> SUFFICES ASSUME NEW i \in 1..Len(Q), i > m PROVE \E k \in 1..Len(R) : h(k) = i
    OBVIOUS
  <2>1. i - m \in 1..Len(R) /\ h(i - m) = i
    BY <1>2, <1>1
  <2>2. QED
    BY <2>1
<1>7. p \in [1..Len(R) -> 1..Len(V)]
  BY <1>4
<1>8. \A k \in 1..Len(R) : p[k] = pos[m + k] - n
  OBVIOUS
<1> HIDE DEF p, h
<1>9. ASSUME NEW k \in 1..Len(R)
      PROVE  /\ R[k].payload \in Payloads /\ LengthFits(Len(R[k].payload))
             /\ \E w \in Wires(R[k]) : At(V, p[k], w)
  <2> DEFINE a == pos[h(k)]
  <2>1. PICK w \in Wires(Q[h(k)]) : At(W, a, w)
    BY <1>3, <1>4
  <2>2. a + Len(w) - 1 <= Len(W) /\ \A j \in 1..Len(w) : W[a + j - 1].byte = w[j]
    BY <2>1 DEF At
  <2>3. w \in Seq(Byte)
    <3>1. LengthSafe /\ Q[h(k)].payload \in Payloads /\ LengthFits(Len(Q[h(k)].payload))
      BY <1>3, <1>4 DEF KeepsStep
    <3>2. QED
      BY <2>1, <3>1, FrameWires
  <2>4. Len(w) \in Nat /\ a \in 1..Len(W) /\ a > n /\ p[k] = a - n
    BY <1>4, <2>3
  <2> HIDE DEF a
  <2>5. p[k] + Len(w) - 1 <= Len(V)
    BY <1>2, <1>1, <2>2, <2>4
  <2>6. ASSUME NEW j \in 1..Len(w) PROVE V[p[k] + j - 1].byte = w[j]
    <3>1. p[k] + j - 1 \in 1..Len(V) /\ n + (p[k] + j - 1) = a + j - 1
      BY <1>2, <1>1, <2>2, <2>4
    <3>2. QED
      BY <1>1, <2>2, <3>1
  <2>7. At(V, p[k], w)
    BY <2>5, <2>6 DEF At
  <2>8. QED
    BY <1>3, <1>4, <2>1, <2>7
<1>10. ASSUME NEW j \in 1..Len(R), NEW k \in 1..Len(R), j < k
       PROVE  p[j] + Size(R[j]) <= p[k]
  <2>1. pos[h(j)] + Size(Q[h(j)]) <= pos[h(k)]
    BY <1>3, <1>4, <1>10, <1>5
  <2>2. Size(Q[h(j)]) \in Nat
    BY <1>3, <1>4, SizeType
  <2>3. /\ pos[h(j)] \in Int /\ pos[h(k)] \in Int /\ R[j] = Q[h(j)]
        /\ p[j] = pos[h(j)] - n /\ p[k] = pos[h(k)] - n
    <3>1. /\ pos[h(j)] \in 1..Len(W) /\ R[j] = Q[h(j)] /\ p[j] = pos[h(j)] - n
      BY <1>4
    <3>2. /\ pos[h(k)] \in 1..Len(W) /\ p[k] = pos[h(k)] - n
      BY <1>4
    <3>3. QED
      BY ONLY <3>1, <3>2
  <2>4. PICK a, b, s : a = pos[h(j)] /\ b = pos[h(k)] /\ s = Size(Q[h(j)])
    OBVIOUS
  <2>5. a - n + s <= b - n
    <3>1. a \in Int /\ b \in Int /\ s \in Int /\ n \in Int /\ a + s <= b
      BY <1>2, <2>1, <2>2, <2>3, <2>4
    <3>2. QED
      BY ONLY <3>1
  <2>6. QED
    BY ONLY <2>3, <2>4, <2>5
<1>11. ASSUME NEW i \in 1..Len(V)
       PROVE  V[i].start <=> \E k \in 1..Len(R) : p[k] = i
  <2>1. n + i \in 1..Len(W) /\ V[i] = W[n + i]
    BY <1>2, <1>1
  <2>2. ASSUME NEW k \in 1..Len(Q), pos[k] = n + i PROVE \E g \in 1..Len(R) : p[g] = i
    <3>1. ~(pos[k] <= n)
      <4>1. n \in Nat /\ i \in Nat /\ i >= 1
        BY <1>2
      <4>2. QED
        BY ONLY <2>2, <4>1
    <3>2. k > m
      <4>1. ~(k <= m)
        BY <1>1, <3>1
      <4>2. k \in Nat /\ m \in Nat
        BY <1>2
      <4>3. QED
        BY ONLY <4>1, <4>2
    <3>3. PICK g \in 1..Len(R) : h(g) = k
      BY <1>6, <3>2
    <3>4. p[g] = i
      <4>1. p[g] = pos[h(g)] - n
        BY <1>4
      <4>2. p[g] = pos[k] - n
        BY <3>3, <4>1
      <4>3. QED
        BY <1>2, <2>2, <4>2
    <3>5. QED
      BY <3>4
  <2>3. ASSUME NEW k \in 1..Len(R), p[k] = i PROVE \E g \in 1..Len(Q) : pos[g] = n + i
    <3>1. h(k) \in 1..Len(Q) /\ pos[h(k)] = n + i
      <4>1. h(k) \in 1..Len(Q) /\ pos[h(k)] \in 1..Len(W) /\ p[k] = pos[h(k)] - n
        BY <1>4
      <4>2. PICK a : a = pos[h(k)]
        OBVIOUS
      <4>3. a \in Int /\ a - n = i /\ n \in Int /\ i \in Int
        BY <1>2, <2>3, <4>1, <4>2
      <4>4. a = n + i
        BY ONLY <4>3
      <4>5. QED
        BY ONLY <4>1, <4>2, <4>4
    <3>2. QED
      BY <3>1
  <2>4. W[n + i].start <=> \E k \in 1..Len(Q) : pos[k] = n + i
    BY <1>3, <2>1
  <2>5. QED
    BY <2>1, <2>2, <2>3, <2>4
<1>12. ASSUME Marked(W), NEW i \in 1..Len(V) - L + 1, MarkerAt(V, i) PROVE V[i].start
  <2>1. n + i \in 1..Len(W) - L + 1
    BY <1>2, <1>1
  <2>2. ASSUME NEW j \in 1..L PROVE W[n + i + j - 1].byte = StartMarker[j]
    <3>1. i + j - 1 \in 1..Len(V) /\ n + (i + j - 1) = n + i + j - 1
      BY <1>2
    <3>2. QED
      BY <1>12, <1>1, <3>1 DEF MarkerAt
  <2>3. W[n + i].start
    BY <1>12, <2>1, <2>2 DEF MarkerAt, Marked
  <2>4. i \in 1..Len(V)
    BY <1>2 DEF KeepsStep
  <2>5. QED
    BY <1>1, <2>3, <2>4
<1>13. ASSUME Contiguous(W, Q, pos), NEW k \in 1..Len(R)
       PROVE  p[k] + Size(R[k]) = IF k < Len(R) THEN p[k + 1] ELSE Len(V) + 1
  <2>1. PICK g, z : g = m + k /\ z = Size(R[k])
    OBVIOUS
  <2>2. /\ g \in 1..Len(Q) /\ p[k] = pos[g] - n /\ z = Size(Q[g]) /\ g \in Int
        /\ pos[g] \in Int
    <3>1. h(k) = g
      BY <2>1 DEF h
    <3>2. QED
      BY <1>2, <1>4, <2>1, <3>1
  <2>3. z \in Nat
    BY <1>3, <2>2, SizeType
  <2>4. pos[g] + z = IF g < Len(Q) THEN pos[g + 1] ELSE Len(W) + 1
    BY <1>13, <2>2 DEF Contiguous
  <2>5. CASE k < Len(R)
    <3>1. k + 1 \in 1..Len(R) /\ m + (k + 1) = g + 1 /\ g < Len(Q)
      BY <1>2, <1>1, <2>1, <2>5
    <3>2. h(k + 1) = g + 1
      BY <3>1 DEF h
    <3>3. p[k + 1] = pos[g + 1] - n
      BY <1>4, <3>1, <3>2
    <3>4. pos[g] + z = pos[g + 1]
      BY <2>4, <3>1
    <3>5. pos[g] - n + z = pos[g + 1] - n
      BY ONLY <1>2, <2>2, <2>3, <3>4
    <3>6. QED
      BY <2>1, <2>2, <2>5, <3>3, <3>5
  <2>6. CASE ~(k < Len(R))
    <3>1. ~(g < Len(Q))
      BY <1>2, <1>1, <2>1, <2>6
    <3>2. pos[g] + z = Len(W) + 1
      BY <2>4, <3>1
    <3>3. pos[g] - n + z = Len(V) + 1
      <4>1. PICK a, u : a = pos[g] /\ u = Len(W)
        OBVIOUS
      <4>2. a \in Int /\ u \in Nat /\ n \in Nat /\ a + z = u + 1 /\ Len(V) = u - n
        BY <1>1, <1>2, <2>2, <3>2, <4>1
      <4>3. a - n + z = Len(V) + 1
        BY ONLY <2>3, <4>2
      <4>4. QED
        BY <4>1, <4>3
    <3>4. QED
      BY <2>1, <2>2, <2>6, <3>3
  <2>7. QED
    BY <2>5, <2>6
<1>14. Carries(V, R, p)
  BY <1>7, <1>9, <1>10, <1>11 DEF Carries
<1>15. Follows(W, Q, pos, V, R, p)
  <2>1. Marked(W) => Marked(V)
    BY <1>12 DEF Marked
  <2>2. Contiguous(W, Q, pos) => Contiguous(V, R, p)
    BY <1>13 DEF Contiguous
  <2>3. QED
    BY <2>1, <2>2 DEF Follows
<1>16. QED
  BY <1>14, <1>15, <1>8

-----------------------------------------------------------------------------
(* A stream that grows *)

\* LastBytes keeps the end.
LEMMA LastBytesIs ==
    ASSUME NEW S, NEW s \in Seq(S), NEW n \in Nat
    PROVE  LET z == LastBytes(n, s)
           IN /\ z \in Seq(S) /\ Len(z) = (IF Len(s) <= n THEN Len(s) ELSE n)
              /\ \A i \in 1..Len(z) : z[i] = s[Len(s) - Len(z) + i]
<1> DEFINE z == LastBytes(n, s)
<1>1. Len(s) \in Nat
  OBVIOUS
<1>2. CASE Len(s) <= n
  <2>1. z = s
    BY <1>2 DEF LastBytes
  <2>2. \A i \in 1..Len(s) : Len(s) - Len(s) + i = i
    BY <1>1
  <2>3. QED
    BY <1>2, <2>1, <2>2
<1>3. CASE ~(Len(s) <= n)
  <2> DEFINE m == Len(s) - n
  <2>1. m \in Nat /\ m + n = Len(s) /\ m + n <= Len(s) /\ Len(s) - n + 1 = m + 1
    BY <1>1, <1>3
  <2>2. z = SubSeq(s, Len(s) - n + 1, Len(s))
    BY <1>3 DEF LastBytes
  <2> HIDE DEF z, m
  <2>3. z = SubSeq(s, m + 1, m + n)
    BY <2>1, <2>2
  <2>4. z \in Seq(S) /\ Len(z) = n /\ \A j \in 1..n : z[j] = s[m + j]
    BY <2>1, <2>3, Part
  <2>5. QED
    BY <1>3, <2>4 DEF m, z
<1>4. QED
  BY <1>2, <1>3

\* A marker that ends in what is written begins in what the peer remembers.
LEMMA InWindow ==
    ASSUME NEW n \in Nat, NEW m \in Nat, NEW o \in Nat, NEW k \in Nat,
           NEW i \in 1..(n + m) - k + 1, i + k - 1 > n, o <= k - 1, o = k - 1 \/ o >= n
    PROVE  o + i - n \in 1..(o + m) - k + 1
OBVIOUS

LEMMA Interval ==
    ASSUME NEW n \in Nat, NEW k \in Nat, NEW a \in 1..n - k + 1
    PROVE  a - 1 \in Nat /\ a - 1 + k <= n /\ a = a - 1 + 1 /\ a + k - 1 = a - 1 + k
OBVIOUS

\* V is W and the bytes w; a frame begins in w at F.
AddedCells(W, w, F, V) ==
    /\ V \in Seq(Cell) /\ Len(V) = Len(W) + Len(w)
    /\ \A i \in 1..Len(W) : V[i] = W[i]
    /\ \A i \in 1..Len(w) :
          V[Len(W) + i].byte = w[i] /\ (V[Len(W) + i].start <=> i \in F)

\* R is Q and the frame f if one was added, w being one of f's encodings.
AddedFrame(Q, w, F, f, R) ==
    /\ R \in Seq(Frames)
    /\ 1 \notin F => R = Q
    /\ 1 \in F => /\ f \in Frames /\ LengthFits(Len(f.payload)) /\ w \in Wires(f)
                  /\ R = Append(Q, f)

\* The frames that were there stay in place, the new one begins after W.
Continues(W, Q, pos, V, R, p) ==
    /\ Carries(V, R, p)
    /\ \A k \in 1..Len(Q) : p[k] = pos[k]
    /\ \A k \in 1..Len(R) : ~(k <= Len(Q)) => p[k] = Len(W) + 1

\* What is written goes to the end of the stream: if it is clean, a marker in
\* it begins where a frame does, also one that began in what was there.
LEMMA Written ==
    ASSUME KeepsStep,
           NEW W \in Seq(Cell), NEW Q \in Seq(Frames), NEW pos, Carries(W, Q, pos),
           Remembered(sent, W), sent \in Seq(Byte),
           NEW w \in Seq(Byte), w # <<>>, NEW F \in SUBSET {1},
           NEW V, AddedCells(W, w, F, V),
           NEW f, NEW R, AddedFrame(Q, w, F, f, R)
    PROVE  \E p : /\ Continues(W, Q, pos, V, R, p)
                  /\ Clean(w, 1 \in F) /\ Marked(W) => Marked(V)
                  /\ 1 \in F /\ Contiguous(W, Q, pos) => Contiguous(V, R, p)
<1>1. /\ V \in Seq(Cell) /\ Len(V) = Len(W) + Len(w)
      /\ \A i \in 1..Len(W) : V[i] = W[i]
      /\ \A i \in 1..Len(w) :
            V[Len(W) + i].byte = w[i] /\ (V[Len(W) + i].start <=> i \in F)
  BY DEF AddedCells
<1>2. /\ R \in Seq(Frames)
      /\ 1 \notin F => R = Q
      /\ 1 \in F => /\ f \in Frames /\ LengthFits(Len(f.payload)) /\ w \in Wires(f)
                    /\ R = Append(Q, f)
  BY DEF AddedFrame
<1> DEFINE N == Len(W)
           M == Len(w)
           K == Len(Q)
<1>3. /\ N \in Nat /\ M \in Nat /\ K \in Nat /\ M >= 1 /\ L \in Nat /\ L > 0
      /\ Len(V) = N + M /\ Len(R) \in Nat
  BY <1>1, <1>2, Sizes DEF KeepsStep
<1>4. /\ pos \in [1..K -> 1..N]
      /\ \A k \in 1..K :
            /\ Q[k].payload \in Payloads /\ LengthFits(Len(Q[k].payload))
            /\ \E u \in Wires(Q[k]) : At(W, pos[k], u)
      /\ \A j, k \in 1..K : j < k => pos[j] + Size(Q[j]) <= pos[k]
      /\ \A i \in 1..N : W[i].start <=> \E k \in 1..K : pos[k] = i
  BY DEF Carries
<1>5. \A i \in 1..N : V[i] = W[i]
  BY <1>1
<1>6. \A i \in 1..M : V[N + i].byte = w[i] /\ (V[N + i].start <=> i \in F)
  BY <1>1
<1> HIDE DEF N, M, K
<1>7. ASSUME Clean(w, 1 \in F), NEW i \in 1..Len(V) - L + 1, i + L - 1 > N, MarkerAt(V, i)
      PROVE  i = N + 1 /\ 1 \in F
  <2> DEFINE s == sent \o w
             o == Len(sent)
             a == o + i - N
  <2>1. /\ s \in Seq(Byte) /\ Len(s) = o + M /\ o \in Nat
        /\ \A j \in 1..o : s[j] = sent[j]
        /\ \A j \in 1..M : s[o + j] = w[j]
    BY Concatenation DEF M
  <2>2. /\ o <= L - 1 /\ (o = L - 1 \/ o >= N)
        /\ \A j \in 0..L - 2 : j < o /\ j < N => sent[o - j] = W[N - j].byte
    BY DEF Remembered, N
  <2>3. \A k \in 1..Len(s) - L + 1 :
           SubSeq(s, k, k + L - 1) = StartMarker => 1 \in F /\ k = o + 1
    BY <1>7 DEF Clean
  <2> HIDE DEF s, o
  <2>4. a \in 1..Len(s) - L + 1
    <3>1. Len(V) - L + 1 = (N + M) - L + 1 /\ Len(s) - L + 1 = (o + M) - L + 1
      <4> HIDE DEF a
      <4>1. Len(V) = N + M
        BY <1>3
      <4>2. Len(s) = o + M
        BY <2>1
      <4>3. Len(V) - L + 1 = (N + M) - L + 1
        BY ONLY <4>1
      <4>4. Len(s) - L + 1 = (o + M) - L + 1
        BY ONLY <4>2
      <4>5. QED
        BY <4>3, <4>4
    <3>2. i \in 1..(N + M) - L + 1
      BY <3>1
    <3>3. o + i - N \in 1..(o + M) - L + 1
      BY <1>3, <1>7, <2>1, <2>2, <3>2, InWindow
    <3>4. QED
      BY <3>1, <3>3
  <2>5. ASSUME NEW j \in 1..L PROVE s[a + j - 1] = StartMarker[j]
    <3>1. V[i + j - 1].byte = StartMarker[j]
      BY <1>7 DEF MarkerAt
    <3>2. CASE i + j - 1 <= N
      <4> DEFINE d == N - (i + j - 1)
      <4>1. i \in Int /\ j \in Int /\ i >= 1 /\ j >= 1 /\ i + L - 1 > N
        BY <1>3, <1>7
      <4>2. /\ d \in 0..L - 2 /\ d < o /\ d < N
            /\ a + j - 1 = o - d /\ i + j - 1 = N - d /\ o - d \in 1..o /\ N - d \in 1..N
        <5>1. /\ N \in Nat /\ M \in Nat /\ L \in Nat /\ o \in Nat
              /\ o <= L - 1 /\ (o = L - 1 \/ o >= N)
          BY <1>3, <2>1, <2>2
        <5>2. QED
          BY ONLY <3>2, <4>1, <5>1
      <4> HIDE DEF d, a
      <4>3. s[o - d] = W[N - d].byte
        BY <2>1, <2>2, <4>2
      <4>4. QED
        BY <1>5, <3>1, <4>2, <4>3
    <3>3. CASE ~(i + j - 1 <= N)
      <4> DEFINE d == (i + j - 1) - N
      <4>1. d \in 1..M /\ a + j - 1 = o + d /\ i + j - 1 = N + d
        <5>1. /\ N \in Nat /\ M \in Nat /\ L \in Nat /\ o \in Nat
              /\ i \in 1..(N + M) - L + 1
          BY <1>3, <2>1
        <5>2. QED
          BY ONLY <3>3, <5>1, j \in 1..L
      <4> HIDE DEF d, a
      <4>2. V[N + d].byte = w[d] /\ s[o + d] = w[d]
        BY <1>6, <2>1, <4>1
      <4>3. QED
        BY ONLY <3>1, <4>1, <4>2
    <3>4. QED
      BY <3>2, <3>3
  <2>6. SubSeq(s, a, a + L - 1) = StartMarker
    <3> DEFINE m == a - 1
               t == SubSeq(s, m + 1, m + L)
    <3>1. m \in Nat /\ m + L <= Len(s) /\ a = m + 1 /\ a + L - 1 = m + L
      <4>1. Len(s) \in Nat /\ L \in Nat
        BY <1>3, <2>1
      <4> HIDE DEF a
      <4>2. QED
        BY <2>4, <4>1, Interval
    <3> HIDE DEF m, a
    <3>2. t \in Seq(Byte) /\ Len(t) = L /\ \A j \in 1..L : t[j] = s[m + j]
      BY <1>3, <2>1, <3>1, Part
    <3>3. \A j \in 1..L : a + j - 1 = m + j
      BY <1>3, <3>1
    <3>4. \A j \in 1..L : t[j] = StartMarker[j]
      BY ONLY <2>5, <3>2, <3>3
    <3>5. t = StartMarker
      <4> HIDE DEF t
      <4> QED  BY <3>2, <3>4, Sizes, SameSeq
    <3>6. QED
      BY <3>1, <3>5
  <2>7. 1 \in F /\ a = o + 1
    BY <2>3, <2>4, <2>6
  <2>8. i = N + 1
    BY <1>3, <2>1, <2>7
  <2>9. QED
    BY <2>7, <2>8
<1> DEFINE p == [k \in 1..Len(R) |-> IF k <= K THEN pos[k] ELSE N + 1]
<1>8. /\ 1 \in F => LengthFits(Len(f.payload)) /\ w \in Wires(f) /\ f.payload \in Payloads
      /\ Len(R) = IF 1 \in F THEN K + 1 ELSE K
      /\ \A k \in 1..K : R[k] = Q[k]
      /\ 1 \in F => R[K + 1] = f
  <2>1. Len(R) \in Nat /\ Len(Q) \in Nat
    BY <1>3
  <2>2. Q \in Seq(Frames)
    OBVIOUS
  <2>3. CASE 1 \in F
    <3>1. R = Append(Q, f) /\ f \in Frames
      BY <1>2, <2>3
    <3>2. f.payload \in Payloads
      BY <3>1 DEF Frames
    <3>3. /\ Len(R) = Len(Q) + 1 /\ R[Len(Q) + 1] = f
          /\ \A k \in 1..Len(Q) : R[k] = Q[k]
      BY ONLY <2>1, <2>2, <3>1
    <3>4. QED
      BY <1>2, <2>1, <2>3, <3>3, <3>2 DEF K
  <2>4. CASE 1 \notin F
    BY <1>2, <2>1, <2>4 DEF K
  <2>5. QED
    BY <2>3, <2>4
<1>9. ASSUME NEW k \in 1..Len(R)
      PROVE  /\ k \in Int
             /\ \/ k \in 1..K /\ R[k] = Q[k] /\ p[k] = pos[k] /\ pos[k] \in 1..N
                \/ 1 \in F /\ k = K + 1 /\ R[k] = f /\ p[k] = N + 1
  BY <1>3, <1>4, <1>8
<1>10. \A k \in 1..K : k \in 1..Len(R) /\ p[k] = pos[k] /\ k # K + 1
  BY <1>3, <1>8
<1>11. 1 \in F => K + 1 \in 1..Len(R) /\ p[K + 1] = N + 1
  BY <1>3, <1>8
<1>12. p \in [1..Len(R) -> 1..Len(V)]
  BY <1>3, <1>9
<1> HIDE DEF p
<1>13. ASSUME NEW k \in 1..Len(R)
       PROVE  /\ R[k].payload \in Payloads /\ LengthFits(Len(R[k].payload))
              /\ \E u \in Wires(R[k]) : At(V, p[k], u)
  <2>1. CASE k \in 1..K /\ R[k] = Q[k] /\ p[k] = pos[k] /\ pos[k] \in 1..N
    <3> DEFINE a == pos[k]
    <3>1. PICK u \in Wires(Q[k]) : At(W, a, u)
      BY <1>4, <2>1
    <3>2. u \in Seq(Byte)
      <4>1. LengthSafe /\ Q[k].payload \in Payloads /\ LengthFits(Len(Q[k].payload))
        BY <1>4, <2>1 DEF KeepsStep
      <4>2. QED
        BY <3>1, <4>1, FrameWires
    <3>3. Len(u) \in Nat /\ a \in 1..N
      BY <2>1, <3>2
    <3> HIDE DEF a
    <3>4. a + Len(u) - 1 <= N /\ \A j \in 1..Len(u) : W[a + j - 1].byte = u[j]
      BY <3>1 DEF At, N
    <3> DEFINE h(j) == a + j - 1
    <3>5. \A j \in 1..Len(u) : h(j) \in 1..N
      <4>1. a \in Int /\ a >= 1 /\ Len(u) \in Nat /\ a + Len(u) - 1 <= N
        BY <1>3, <3>3, <3>4
      <4>2. QED
        BY <1>3, <4>1
    <3>6. \A j \in 1..Len(u) : W[h(j)].byte = u[j]
      BY <3>4
    <3>7. \A j \in 1..Len(u) : h(j) \in 1..N /\ W[h(j)].byte = u[j]
      BY <3>5, <3>6
    <3>8. a + Len(u) - 1 <= Len(V)
      BY <1>3, <3>3, <3>4
    <3>9. \A j \in 1..Len(u) : V[h(j)].byte = u[j]
      <4> HIDE DEF h
      <4> QED  BY <1>5, <3>7
    <3>10. At(V, a, u)
      BY <3>8, <3>9 DEF At
    <3>11. QED
      BY <1>4, <2>1, <3>1, <3>10 DEF a
  <2>2. CASE 1 \in F /\ k = K + 1 /\ R[k] = f /\ p[k] = N + 1
    <3>1. \A j \in 1..M : (N + 1) + j - 1 = N + j
      BY <1>3
    <3>2. (N + 1) + M - 1 <= Len(V)
      BY <1>3
    <3>3. At(V, N + 1, w)
      BY <1>6, <3>1, <3>2 DEF At, M
    <3>4. QED
      BY <1>8, <2>2, <3>3
  <2>3. QED
    BY <1>9, <2>1, <2>2
<1>14. ASSUME NEW j \in 1..Len(R), NEW k \in 1..Len(R), j < k
       PROVE  p[j] + Size(R[j]) <= p[k]
  <2>1. j \in 1..K /\ R[j] = Q[j] /\ p[j] = pos[j] /\ pos[j] \in 1..N
    BY <1>3, <1>8, <1>9, <1>14
  <2>2. CASE k \in 1..K /\ R[k] = Q[k] /\ p[k] = pos[k] /\ pos[k] \in 1..N
    BY <1>4, <1>14, <2>1, <2>2
  <2>3. CASE 1 \in F /\ k = K + 1 /\ R[k] = f /\ p[k] = N + 1
    <3>1. PICK u \in Wires(Q[j]) : At(W, pos[j], u)
      BY <1>4, <2>1
    <3>2. Len(u) = Size(Q[j])
      <4>1. LengthSafe /\ Q[j].payload \in Payloads /\ LengthFits(Len(Q[j].payload))
        BY <1>4, <2>1 DEF KeepsStep
      <4>2. QED
        BY <3>1, <4>1, FrameWires
    <3>3. pos[j] + Size(Q[j]) - 1 <= N
      BY <3>1, <3>2 DEF At, N
    <3>4. Size(Q[j]) \in Nat
      BY <1>4, <2>1, SizeType
    <3>5. PICK a, s : a = pos[j] /\ s = Size(Q[j])
      OBVIOUS
    <3>6. a + s <= N + 1
      <4>1. a \in Int /\ s \in Int /\ N \in Int /\ a + s - 1 <= N
        BY <1>3, <2>1, <3>3, <3>4, <3>5
      <4>2. QED
        BY ONLY <4>1
    <3>7. p[j] + Size(R[j]) = a + s /\ p[k] = N + 1
      BY <2>1, <2>3, <3>5
    <3>8. QED
      BY ONLY <3>6, <3>7
  <2>4. QED
    BY <1>9, <2>2, <2>3
<1>15. ASSUME NEW i \in 1..Len(V)
       PROVE  V[i].start <=> \E k \in 1..Len(R) : p[k] = i
  <2>1. CASE i <= N
    <3>1. i \in 1..N /\ i # N + 1
      BY <1>3, <2>1
    <3>2. V[i].start <=> \E k \in 1..K : pos[k] = i
      BY <1>4, <1>5, <3>1
    <3>3. (\E k \in 1..K : pos[k] = i) <=> (\E k \in 1..Len(R) : p[k] = i)
      BY <1>9, <1>10, <3>1
    <3>4. QED
      BY <3>2, <3>3
  <2>2. CASE ~(i <= N)
    <3> DEFINE d == i - N
    <3>1. d \in 1..M /\ i = N + d /\ i \notin 1..N
      BY <1>3, <2>2
    <3> HIDE DEF d
    <3>2. V[i].start <=> 1 \in F /\ d = 1
      BY <1>6, <3>1
    <3>3. (\E k \in 1..Len(R) : p[k] = i) <=> 1 \in F /\ i = N + 1
      <4>1. ASSUME NEW k \in 1..Len(R), p[k] = i PROVE 1 \in F /\ i = N + 1
        BY <1>9, <3>1, <4>1
      <4>2. QED
        BY <1>11, <4>1
    <3>4. i = N + 1 <=> d = 1
      BY <1>3, <3>1
    <3>5. QED
      BY <3>2, <3>3, <3>4
  <2>3. QED
    BY <2>1, <2>2
<1>16. ASSUME Clean(w, 1 \in F), Marked(W), NEW i \in 1..Len(V) - L + 1, MarkerAt(V, i)
       PROVE  V[i].start
  <2>1. CASE i + L - 1 <= N
    <3>1. i \in 1..N /\ i \in 1..N - L + 1
      BY <1>3, <2>1
    <3>2. \A j \in 1..L : i + j - 1 \in 1..N
      BY <1>3, <2>1
    <3>3. MarkerAt(W, i)
      BY <1>5, <1>16, <3>2 DEF MarkerAt
    <3>4. QED
      BY <1>16, <1>5, <3>1, <3>3 DEF Marked, N
  <2>2. CASE ~(i + L - 1 <= N)
    <3>1. i = N + 1 /\ 1 \in F
      BY <1>3, <1>7, <1>16, <2>2
    <3>2. 1 \in 1..M
      BY <1>3
    <3>3. QED
      BY <1>6, <3>1, <3>2
  <2>3. QED
    BY <2>1, <2>2
<1>17. ASSUME 1 \in F, Contiguous(W, Q, pos), NEW k \in 1..Len(R)
       PROVE  p[k] + Size(R[k]) = IF k < Len(R) THEN p[k + 1] ELSE Len(V) + 1
  <2>1. Len(R) = K + 1 /\ R[K + 1] = f /\ p[K + 1] = N + 1
    BY <1>8, <1>11, <1>17
  <2>2. CASE k = K + 1
    <3>1. LengthSafe /\ f.payload \in Payloads /\ LengthFits(Len(f.payload)) /\ w \in Wires(f)
      BY <1>8, <1>17 DEF KeepsStep
    <3>2. M = Size(f)
      BY <3>1, FrameWires DEF M
    <3>3. ~(k < Len(R)) /\ N + 1 + M = Len(V) + 1
      BY <1>3, <2>1, <2>2
    <3>4. QED
      BY <2>1, <2>2, <3>2, <3>3
  <2>3. CASE k # K + 1
    <3>1. k \in 1..K /\ R[k] = Q[k] /\ p[k] = pos[k]
      BY <1>9, <2>3
    <3>2. pos[k] + Size(Q[k]) = IF k < K THEN pos[k + 1] ELSE N + 1
      BY <1>17, <3>1 DEF Contiguous, K, N
    <3>3. k < Len(R) /\ p[k + 1] = IF k < K THEN pos[k + 1] ELSE N + 1
      <4>1. k < Len(R)
        BY <1>3, <2>1, <3>1
      <4>2. CASE k < K
        <5>1. k + 1 \in 1..K
          BY <1>3, <3>1, <4>2
        <5>2. QED
          BY <1>10, <4>1, <4>2, <5>1
      <4>3. CASE ~(k < K)
        <5>1. k + 1 = K + 1
          BY <1>3, <3>1, <4>3
        <5>2. QED
          BY <2>1, <4>1, <4>3, <5>1
      <4>4. QED
        BY <4>2, <4>3
    <3>4. QED
      BY <3>1, <3>2, <3>3
  <2>4. QED
    BY <2>2, <2>3
<1>18. Carries(V, R, p)
  BY <1>12, <1>13, <1>14, <1>15 DEF Carries
<1>19. \A k \in 1..K : p[k] = pos[k]
  BY <1>10
<1>20. ASSUME NEW k \in 1..Len(R), ~(k <= K) PROVE p[k] = N + 1
  <2>1. k \notin 1..K
    BY <1>3, <1>20
  <2>2. QED
    BY <1>9, <2>1
<1>21. Continues(W, Q, pos, V, R, p)
  BY <1>18, <1>19, <1>20 DEF K, N, Continues
<1>22. Clean(w, 1 \in F) /\ Marked(W) => Marked(V)
  BY <1>16 DEF Marked
<1>23. 1 \in F /\ Contiguous(W, Q, pos) => Contiguous(V, R, p)
  BY <1>17 DEF Contiguous
<1>24. QED
  BY <1>21, <1>22, <1>23

\* What is remembered of a stream is remembered of its end.
LEMMA RememberedEnd ==
    ASSUME NEW s \in Seq(Byte), NEW W \in Seq(Cell), Remembered(s, W), NEW n \in 0..Len(W),
           NEW V \in Seq(Cell), Len(V) = Len(W) - n, \A i \in 1..Len(V) : V[i] = W[n + i]
    PROVE  Remembered(s, V)
<1>1. Len(s) \in Nat /\ Len(W) \in Nat /\ Len(V) \in Nat /\ n \in Nat /\ L \in Nat
  BY Sizes
<1>2. ASSUME NEW i \in 0..L - 2, i < Len(s), i < Len(V)
      PROVE  s[Len(s) - i] = V[Len(V) - i].byte
  <2> DEFINE j == Len(V) - i
  <2>1. j \in 1..Len(V) /\ n + j = Len(W) - i /\ i < Len(W)
    BY <1>1, <1>2
  <2> HIDE DEF j
  <2>2. V[j] = W[n + j]
    BY <2>1
  <2>3. s[Len(s) - i] = W[Len(W) - i].byte
    BY <1>2, <2>1 DEF Remembered
  <2>4. QED
    BY <2>1, <2>2, <2>3 DEF j
<1>3. Len(s) <= L - 1
  BY DEF Remembered
<1>4. Len(s) = L - 1 \/ Len(s) >= Len(V)
  <2>1. Len(s) = L - 1 \/ Len(s) >= Len(W)
    BY DEF Remembered
  <2>2. QED
    BY ONLY <1>1, <2>1, Len(V) = Len(W) - n
<1>5. QED
  BY <1>2, <1>3, <1>4 DEF Remembered

\* What is written is remembered.
LEMMA RememberedWritten ==
    ASSUME L > 0, NEW s \in Seq(Byte), NEW W \in Seq(Cell), Remembered(s, W),
           NEW w \in Seq(Byte), NEW V \in Seq(Cell), Len(V) = Len(W) + Len(w),
           \A i \in 1..Len(W) : V[i] = W[i],
           \A i \in 1..Len(w) : V[Len(W) + i].byte = w[i]
    PROVE  /\ LastBytes(L - 1, s \o w) \in Seq(Byte)
           /\ Remembered(LastBytes(L - 1, s \o w), V)
<1> DEFINE t == s \o w
           z == LastBytes(L - 1, t)
           N == Len(W)
           M == Len(w)
           o == Len(s)
<1>1. /\ t \in Seq(Byte) /\ Len(t) = o + M
      /\ \A j \in 1..o : t[j] = s[j]
      /\ \A j \in 1..M : t[o + j] = w[j]
  BY Concatenation
<1>2. N \in Nat /\ M \in Nat /\ o \in Nat /\ L \in Nat /\ L - 1 \in Nat
  BY Sizes
<1>3. /\ o <= L - 1 /\ (o = L - 1 \/ o >= N)
      /\ \A i \in 0..L - 2 : i < o /\ i < N => s[o - i] = W[N - i].byte
  BY DEF Remembered
<1>4. /\ \A i \in 1..N : V[i] = W[i]
      /\ \A i \in 1..M : V[N + i].byte = w[i]
      /\ Len(V) = N + M
  OBVIOUS
<1> HIDE DEF t, N, M, o
<1>5. /\ z \in Seq(Byte) /\ Len(z) = (IF o + M <= L - 1 THEN o + M ELSE L - 1)
      /\ \A i \in 1..Len(z) : z[i] = t[(o + M) - Len(z) + i]
  <2>1. /\ z \in Seq(Byte) /\ Len(z) = (IF Len(t) <= L - 1 THEN Len(t) ELSE L - 1)
        /\ \A i \in 1..Len(z) : z[i] = t[Len(t) - Len(z) + i]
    <3>1. t \in Seq(Byte) /\ L - 1 \in Nat
      BY <1>1, <1>2
    <3>2. QED
      BY <3>1, LastBytesIs
  <2> HIDE DEF z
  <2>2. QED
    BY <1>1, <2>1
<1> HIDE DEF z
<1>6. Len(z) \in Nat /\ Len(z) <= L - 1 /\ (Len(z) = L - 1 \/ Len(z) >= Len(V))
  BY <1>2, <1>3, <1>4, <1>5
<1>7. ASSUME NEW i \in 0..L - 2, i < Len(z), i < N + M
      PROVE  z[Len(z) - i] = V[(N + M) - i].byte
  <2> DEFINE a == Len(z) - i
             d == (o + M) - i
             e == (N + M) - i
  <2>1. a \in 1..Len(z) /\ (o + M) - Len(z) + a = d
    BY <1>2, <1>6, <1>7
  <2> HIDE DEF a, d, e
  <2>2. z[a] = t[d]
    BY <1>5, <2>1
  <2>3. CASE i < M
    <3>1. M - i \in 1..M /\ o + (M - i) = d /\ N + (M - i) = e
      BY <1>2, <2>3 DEF d, e
    <3>2. QED
      BY <1>1, <1>4, <2>2, <3>1 DEF a, e
  <2>4. CASE ~(i < M)
    <3> DEFINE k == i - M
               g == o - k
               h == N - k
    <3>1. /\ k \in 0..L - 2 /\ k < N /\ k < o /\ d = g /\ e = h /\ g \in 1..o /\ h \in 1..N
      BY <1>2, <1>5, <1>6, <1>7, <2>4 DEF d, e
    <3>2. s[g] = W[h].byte
      BY <1>3, <3>1
    <3> HIDE DEF k, g, h
    <3>3. QED
      BY <1>1, <1>4, <2>2, <3>1, <3>2 DEF a, e
  <2>5. QED
    BY <2>3, <2>4
<1>8. Remembered(z, V)
  BY <1>4, <1>6, <1>7 DEF Remembered
<1>9. QED
  BY <1>5, <1>8 DEF z, t

-----------------------------------------------------------------------------
(* The peer and the line keep the invariant *)

\* The parts of the invariant.
LEMMA InvParts ==
    ASSUME ChannelInv
    PROVE  /\ Typed /\ SearchInv
           /\ \E W, n, pos : Stream(W, n, pos) /\ Reader(W, n, pos)
BY DEF ChannelInv

\* The lengths of the parts of the stream.
LEMMA StreamTypes ==
    ASSUME Typed, NEW W, NEW n, NEW pos, Stream(W, n, pos)
    PROVE  /\ W \in Seq(Cell) /\ n \in Nat /\ Len(W) \in Nat /\ n <= Len(W)
           /\ Len(fifo) \in Nat /\ Len(line) \in Nat
           /\ Len(W) = n + Len(fifo) + Len(line)
           /\ Unread \in Seq(Frames) /\ Len(Unread) \in Nat
           /\ current \in Seq(Frames) /\ awaited \in Seq(Frames)
           /\ Len(current) \in {0, 1} /\ Len(awaited) \in Nat
           /\ Len(Unread) = (IF Busy THEN Len(current) + Len(awaited) ELSE Len(awaited))
           /\ Busy => \A k \in 1..Len(current) : Unread[k] = current[k]
           /\ Busy => \A k \in 1..Len(awaited) : Unread[Len(current) + k] = awaited[k]
           /\ L \in Nat
<1>1. /\ W \in Seq(Cell) /\ n \in Nat /\ Len(W) = n + Len(fifo) + Len(line)
  BY DEF Stream, Joined
<1>2. /\ fifo \in Seq(Cell) /\ line \in Seq(Cell) /\ current \in Seq(Frames)
      /\ awaited \in Seq(Frames) /\ Len(current) <= 1 /\ L \in Nat
  BY Sizes DEF Typed, Stream, Frames
<1>3. /\ Len(fifo) \in Nat /\ Len(line) \in Nat /\ Len(W) \in Nat
      /\ Len(awaited) \in Nat /\ Len(current) \in Nat
  <2>1. Len(fifo) \in Nat /\ Len(line) \in Nat
    BY <1>2
  <2>2. Len(W) \in Nat
    BY <1>1
  <2>3. Len(awaited) \in Nat /\ Len(current) \in Nat
    BY <1>2
  <2>4. QED
    BY <2>1, <2>2, <2>3
<1>4. n <= Len(W) /\ Len(current) \in {0, 1}
  <2>1. n \in Nat /\ Len(W) = n + Len(fifo) + Len(line)
    BY <1>1
  <2>2. n <= Len(W)
    BY ONLY <1>3, <2>1
  <2>3. Len(current) <= 1 /\ Len(current) \in Nat
    BY <1>2, <1>3
  <2>4. Len(current) \in {0, 1}
    BY ONLY <2>3
  <2>5. QED
    BY <2>2, <2>4
<1>5. CASE Busy
  <2>1. Unread = current \o awaited
    BY <1>5 DEF Unread
  <2>2. /\ Unread \in Seq(Frames) /\ Len(Unread) = Len(current) + Len(awaited)
        /\ \A k \in 1..Len(current) : Unread[k] = current[k]
        /\ \A k \in 1..Len(awaited) : Unread[Len(current) + k] = awaited[k]
    BY <1>2, <2>1, Concatenation
  <2>3. QED
    BY <1>1, <1>2, <1>3, <1>4, <1>5, <2>2
<1>6. CASE ~Busy
  <2>1. Unread = awaited
    BY <1>6 DEF Unread
  <2>2. QED
    BY <1>1, <1>2, <1>3, <1>4, <1>6, <2>1
<1>7. QED
  BY <1>5, <1>6

\* The peer writes: the stream grows at its end.
LEMMA PutKeeps ==
    ASSUME KeepsStep, ChannelInv, NEW w \in Seq(Byte), w # <<>>, NEW F \in SUBSET {1},
           Put(w, 1 \in F), NEW f, AddedFrame(awaited, w, F, f, awaited'),
           whole' \in BOOLEAN, whole' => whole /\ 1 \in F
    PROVE  ChannelInv'
<1>1. PICK W, n, pos : Stream(W, n, pos) /\ Reader(W, n, pos)
  BY InvParts
<1>2. Typed /\ SearchInv
  BY InvParts
<1>3. /\ line = <<>> /\ clean' = (clean /\ Clean(w, 1 \in F))
      /\ line' = [i \in DOMAIN w |-> [byte |-> w[i], start |-> 1 \in F /\ i = 1]]
      /\ sent' = LastBytes(L - 1, sent \o w)
      /\ UNCHANGED <<fifo, pc, matched, got, left, recent, status, size, current>>
  BY DEF Put, call, result
<1>4. /\ W \in Seq(Cell) /\ n \in Nat /\ Len(W) \in Nat /\ n <= Len(W)
      /\ Len(fifo) \in Nat /\ Len(W) = n + Len(fifo)
      /\ Unread \in Seq(Frames) /\ Len(Unread) \in Nat
      /\ current \in Seq(Frames) /\ awaited \in Seq(Frames) /\ Len(current) \in Nat
      /\ Busy => Len(Unread) = Len(current) + Len(awaited) /\ L \in Nat
  BY <1>1, <1>2, <1>3, StreamTypes
<1>5. /\ line' \in Seq(Cell) /\ Len(line') = Len(w) /\ Len(w) \in Nat
      /\ \A i \in 1..Len(w) : line'[i].byte = w[i] /\ (line'[i].start <=> i \in F)
  <2>1. DOMAIN w = 1..Len(w) /\ Len(w) \in Nat /\ \A i \in 1..Len(w) : w[i] \in Byte
    BY SeqFacts
  <2>2. line' = [i \in 1..Len(w) |-> [byte |-> w[i], start |-> 1 \in F /\ i = 1]]
    BY <1>3, <2>1
  <2>3. ASSUME NEW i \in 1..Len(w)
        PROVE  /\ [byte |-> w[i], start |-> 1 \in F /\ i = 1] \in Cell
               /\ line'[i].byte = w[i] /\ (line'[i].start <=> i \in F)
    <3> DEFINE b == 1 \in F /\ i = 1
    <3>1. line'[i] = [byte |-> w[i], start |-> b] /\ w[i] \in Byte
      BY <2>1, <2>2
    <3>2. b \in BOOLEAN
      OBVIOUS
    <3>3. b <=> i \in F
      OBVIOUS
    <3> HIDE DEF b
    <3>4. [byte |-> w[i], start |-> b] \in Cell
      BY ONLY <3>1, <3>2 DEF Cell
    <3>5. line'[i].byte = w[i] /\ line'[i].start = b
      BY ONLY <3>1
    <3>6. QED
      BY <3>3, <3>4, <3>5 DEF b
  <2>4. line' \in Seq(Cell) /\ Len(line') = Len(w)
    BY <2>1, <2>2, <2>3
  <2>5. QED
    BY <2>1, <2>3, <2>4
<1>6. PICK V : V = W \o line'
  OBVIOUS
<1>7. /\ V \in Seq(Cell) /\ Len(V) = Len(W) + Len(w)
      /\ \A i \in 1..Len(W) : V[i] = W[i]
      /\ \A i \in 1..Len(w) : V[Len(W) + i] = line'[i]
  <2>1. W \in Seq(Cell) /\ line' \in Seq(Cell)
    BY <1>4, <1>5
  <2>2. /\ V \in Seq(Cell) /\ Len(V) = Len(W) + Len(line')
        /\ \A i \in 1..Len(W) : V[i] = W[i]
        /\ \A i \in 1..Len(line') : V[Len(W) + i] = line'[i]
    BY ONLY <1>6, <2>1, Concatenation
  <2>3. QED
    BY <1>5, <2>2
<1>8. /\ Carries(W, Unread, pos) /\ Remembered(sent, W) /\ sent \in Seq(Byte)
  BY <1>1, <1>2 DEF Stream, Typed
<1>9. \A i \in 1..Len(w) :
         V[Len(W) + i].byte = w[i] /\ (V[Len(W) + i].start <=> i \in F)
  BY <1>5, <1>7
<1>10. /\ awaited' \in Seq(Frames)
       /\ 1 \notin F => Unread' = Unread
       /\ 1 \in F => Unread' = Append(Unread, f)
  <2>1. CASE 1 \notin F
    BY <1>3, <1>4, <2>1 DEF Unread, Busy, AddedFrame
  <2>2. CASE 1 \in F
    <3>1. awaited' = Append(awaited, f) /\ awaited' \in Seq(Frames) /\ f \in Frames
      BY <2>2 DEF AddedFrame
    <3>2. current \o Append(awaited, f) = Append(current \o awaited, f)
      BY <1>4, <3>1, AppendLast
    <3>3. QED
      BY <1>3, <2>2, <3>1, <3>2 DEF Unread, Busy
  <2>3. QED
    BY <2>1, <2>2
<1>11. Unread' \in Seq(Frames)
  <2>1. 1 \in F => Append(Unread, f) \in Seq(Frames)
    BY <1>4, AppendFacts DEF AddedFrame
  <2>2. QED
    BY <1>4, <1>10, <2>1
<1>12. PICK p : /\ Carries(V, Unread', p)
                /\ \A k \in 1..Len(Unread) : p[k] = pos[k]
                /\ \A k \in 1..Len(Unread') : ~(k <= Len(Unread)) => p[k] = Len(W) + 1
                /\ Clean(w, 1 \in F) /\ Marked(W) => Marked(V)
                /\ 1 \in F /\ Contiguous(W, Unread, pos) => Contiguous(V, Unread', p)
  <2>1. AddedFrame(Unread, w, F, f, Unread')
    BY <1>10, <1>11 DEF AddedFrame
  <2>2. AddedCells(W, w, F, V)
    BY <1>7, <1>9 DEF AddedCells
  <2> DEFINE R == Unread'
  <2>3. AddedFrame(Unread, w, F, f, R)
    BY <2>1
  <2> HIDE DEF R
  <2>4. \E p : /\ Continues(W, Unread, pos, V, R, p)
               /\ Clean(w, 1 \in F) /\ Marked(W) => Marked(V)
               /\ 1 \in F /\ Contiguous(W, Unread, pos) => Contiguous(V, R, p)
    <3>1. W \in Seq(Cell) /\ Unread \in Seq(Frames)
      BY <1>4
    <3>2. QED
      BY <1>8, <2>2, <2>3, <3>1, Written
  <2>5. QED
    BY <2>4 DEF R, Continues
<1>13. Remembered(sent', V) /\ sent' \in Seq(Byte)
  <2>1. \A i \in 1..Len(w) : V[Len(W) + i].byte = w[i]
    BY <1>9
  <2>2. L > 0
    BY DEF KeepsStep
  <2>3. /\ LastBytes(L - 1, sent \o w) \in Seq(Byte)
        /\ Remembered(LastBytes(L - 1, sent \o w), V)
    BY <1>4, <1>7, <1>8, <2>1, <2>2, RememberedWritten
  <2>4. QED
    BY <1>3, <2>3
<1>14. Joined(V, n)'
  <2>1. \A i \in 1..Len(fifo) : V[n + i] = fifo[i]
    <3>1. \A i \in 1..Len(fifo) : W[n + i] = fifo[i]
      BY <1>1 DEF Stream, Joined
    <3>2. \A i \in 1..Len(fifo) : n + i \in 1..Len(W)
      <4>1. n \in Nat /\ Len(fifo) \in Nat /\ Len(W) = n + Len(fifo)
        BY <1>4
      <4>2. QED
        BY ONLY <4>1
    <3>3. QED
      BY <1>7, <3>1, <3>2
  <2>2. \A i \in 1..Len(line') : V[n + Len(fifo) + i] = line'[i]
    BY <1>4, <1>5, <1>7
  <2>3. \A i \in 2..Len(line') : ~line'[i].start
    BY <1>5
  <2>4. Len(V) = n + Len(fifo) + Len(line')
    BY <1>4, <1>5, <1>7
  <2>5. QED
    BY <1>3, <1>4, <1>7, <2>1, <2>2, <2>3, <2>4 DEF Joined
<1>15. Busy' = Busy
  BY <1>3 DEF Busy
<1>16. /\ Len(current) <= 1 /\ (~Busy => n = 0) /\ (pc = "idle" => current = <<>>)
       /\ Busy => \A k \in 1..Len(Unread) : (pos[k] <= n) <=> (k <= Len(current))
  BY <1>1 DEF Stream
<1>17. ASSUME Busy, NEW k \in 1..Len(Unread')
       PROVE  (p[k] <= n) <=> (k <= Len(current))
  <2>1. Len(Unread) = Len(current) + Len(awaited) /\ Len(awaited) \in Nat
    BY <1>4, <1>17
  <2>2. CASE k <= Len(Unread)
    <3>1. k \in 1..Len(Unread)
      BY <1>4, <2>2
    <3>2. QED
      BY <1>12, <1>16, <1>17, <3>1
  <2>3. CASE ~(k <= Len(Unread))
    <3>1. p[k] = Len(W) + 1
      BY <1>12, <2>3
    <3>2. k \in Int
      BY <1>11
    <3>3. QED
      BY <1>4, <2>1, <2>3, <3>1, <3>2
  <2>4. QED
    BY <2>2, <2>3
<1>18. Stream(V, n, p)'
  <2>1. /\ clean => Marked(W)
        /\ whole => Contiguous(W, Unread, pos)
        /\ whole /\ pc \notin {"drain", "raw"} => Front(W)
    BY <1>1 DEF Stream, Orderly
  <2>2. clean' => Marked(V)
    BY <1>3, <1>12, <2>1
  <2>3. whole' => Contiguous(V, Unread', p)
    BY <1>12, <2>1
  <2>4. Front(W) /\ 1 \in F => Front(V)
    <3>1. CASE W = <<>>
      <4>1. 1 \in 1..Len(w) /\ Len(W) + 1 = 1
        BY <1>5, <3>1
      <4>2. QED
        BY <1>9, <4>1 DEF Front
    <3>2. CASE W # <<>>
      <4>1. 1 \in 1..Len(W)
        BY <1>4, <3>2
      <4>2. QED
        BY <1>7, <3>2, <4>1 DEF Front
    <3>3. QED
      BY <3>1, <3>2
  <2>5. whole' /\ pc' \notin {"drain", "raw"} => Front(V)
    BY <1>3, <2>1, <2>4
  <2>6. Orderly(V, Unread, p)'
    BY <2>2, <2>3, <2>5 DEF Orderly
  <2>7. QED
    BY <1>3, <1>12, <1>13, <1>14, <1>15, <1>16, <1>17, <2>6 DEF Stream
<1>19. Reader(V, n, p)'
  <2>1. pc = "marker" => MarkerRead(V, n)
    <3>1. pc = "marker" => MarkerRead(W, n)
      BY <1>1 DEF Reader
    <3>2. \A i \in 1..n : i \in 1..Len(W)
      BY <1>4
    <3>3. QED
      BY <1>7, <3>1, <3>2 DEF MarkerRead
  <2>2. pc \in {"length", "body"} => FieldsRead(V, n)
    <3>1. pc \in {"length", "body"} => FieldsRead(W, n)
      BY <1>1 DEF Reader
    <3>2. ASSUME n = L + Len(got) PROVE \A j \in 1..Len(got) : L + j \in 1..Len(W)
      <4>1. Len(got) \in Nat /\ L \in Nat
        BY <1>2, Sizes DEF Typed
      <4>2. QED
        BY <1>4, <3>2, <4>1
    <3>3. QED
      BY <1>7, <3>1, <3>2 DEF FieldsRead
  <2>3. pc \in {"length", "body", "discard"} => Len(current) = 1 /\ p[1] = 1
    <3>1. pc \in {"length", "body", "discard"} => Len(current) = 1 /\ pos[1] = 1 /\ Busy
      BY <1>1 DEF Reader, Busy
    <3>2. Busy /\ Len(current) = 1 => 1 \in 1..Len(Unread)
      BY <1>4
    <3>3. QED
      BY <1>12, <3>1, <3>2
  <2>4. UNCHANGED <<pc, recent, got, left, current, status, size, Needed>>
    BY <1>3 DEF Needed, PayloadLength, LengthBytes
  <2>5. QED
    BY <1>1, <1>15, <2>1, <2>2, <2>3, <2>4 DEF Reader, MarkerRead, FieldsRead
<1>20. Typed'
  <2>1. clean' \in BOOLEAN
    BY <1>2, <1>3 DEF Typed
  <2>2. QED
    BY <1>2, <1>3, <1>5, <1>10, <1>13, <2>1 DEF Typed, Frames
<1>21. SearchInv'
  BY <1>2, <1>3, OthersKeepSearch
<1>22. QED
  BY <1>18, <1>19, <1>20, <1>21 DEF ChannelInv

LEMMA WriteFrameKeeps == ASSUME KeepsStep, ChannelInv, WriteFrame PROVE ChannelInv'
<1>1. PICK p \in Payloads :
         /\ LengthFits(Len(p)) /\ Put(Wire(p), TRUE)
         /\ awaited' = Append(awaited, [payload |-> p, intact |-> TRUE])
         /\ whole' = whole
  BY DEF WriteFrame
<1> DEFINE w == Wire(p)
           f == [payload |-> p, intact |-> TRUE]
<1>2. w \in Seq(Byte) /\ w # <<>>
  <2>1. w \in Seq(Byte) /\ Len(w) = L + LengthSize + Len(p) + TrailerSize /\ Len(p) \in Nat
    BY <1>1, WireLayout
  <2>2. Len(w) > 0
    BY <2>1, Sizes DEF KeepsStep
  <2>3. QED
    BY <2>1, <2>2
<1>3. f \in Frames /\ f.payload = p /\ w \in Wires(f)
  BY DEF Frames, Wires
<1>4. Put(w, 1 \in {1})
  BY <1>1 DEF Put
<1>5. awaited \in Seq(Frames)
  BY DEF ChannelInv, Typed, Frames
<1> HIDE DEF w, f
<1>6. AddedFrame(awaited, w, {1}, f, awaited')
  BY <1>1, <1>3, <1>5, AppendFacts DEF AddedFrame, f
<1>7. whole' \in BOOLEAN /\ (whole' => whole /\ 1 \in {1})
  BY <1>1 DEF ChannelInv, Typed
<1>8. QED
  BY <1>2, <1>4, <1>6, <1>7, PutKeeps

LEMMA WriteDamagedKeeps == ASSUME KeepsStep, ChannelInv, WriteDamaged PROVE ChannelInv'
<1>1. PICK p \in Payloads : \E w \in Damaged(Wire(p)) :
         /\ LengthFits(Len(p)) /\ Put(w, TRUE)
         /\ awaited' = Append(awaited, [payload |-> p, intact |-> FALSE])
         /\ whole' = whole
  BY DEF WriteDamaged
<1>2. PICK w \in Damaged(Wire(p)) :
         /\ LengthFits(Len(p)) /\ Put(w, TRUE)
         /\ awaited' = Append(awaited, [payload |-> p, intact |-> FALSE])
         /\ whole' = whole
  BY <1>1
<1> DEFINE f == [payload |-> p, intact |-> FALSE]
<1>3. f \in Frames /\ f.payload = p /\ w \in Wires(f)
  BY DEF Frames, Wires
<1>4. awaited \in Seq(Frames) /\ awaited' = Append(awaited, f)
  BY <1>2 DEF ChannelInv, Typed, Frames
<1> HIDE DEF f
<1>5. w \in Seq(Byte) /\ w # <<>>
  <2>1. w \in Seq(Byte) /\ Len(w) = Size(f)
    BY <1>2, <1>3, FrameWires DEF KeepsStep
  <2>2. Size(f) \in Nat /\ Size(f) >= L + 1 /\ L \in Nat
    BY <1>3, SizeType
  <2>3. QED
    BY <2>1, <2>2
<1>6. Put(w, 1 \in {1})
  BY <1>2 DEF Put
<1>7. AddedFrame(awaited, w, {1}, f, awaited')
  BY <1>2, <1>3, <1>4, AppendFacts DEF AddedFrame
<1>8. whole' \in BOOLEAN /\ (whole' => whole /\ 1 \in {1})
  BY <1>2 DEF ChannelInv, Typed
<1>9. QED
  BY <1>5, <1>6, <1>7, <1>8, PutKeeps

LEMMA MakeNoiseKeeps == ASSUME KeepsStep, ChannelInv, MakeNoise PROVE ChannelInv'
<1>1. PICK b \in Noise : Put(<<b>>, FALSE) /\ awaited' = awaited /\ whole' = FALSE
  BY DEF MakeNoise
<1> DEFINE w == <<b>>
<1>2. b \in Byte
  BY ConstantsAssumption
<1>3. w \in Seq(Byte) /\ w # <<>>
  BY <1>2
<1>4. Put(w, 1 \in {})
  <2> DEFINE e == 1 \in {}
  <2>1. e = FALSE
    OBVIOUS
  <2> HIDE DEF e
  <2>2. Put(w, e)
    BY <1>1, <2>1 DEF Put, Clean
  <2>3. QED
    BY <2>2 DEF e
<1>5. awaited \in Seq(Frames)
  BY DEF ChannelInv, Typed, Frames
<1> HIDE DEF w
<1>6. AddedFrame(awaited, w, {}, b, awaited')
  BY <1>1, <1>5 DEF AddedFrame
<1>7. whole' \in BOOLEAN /\ (whole' => whole /\ 1 \in {})
  BY <1>1
<1>8. QED
  BY <1>3, <1>4, <1>6, <1>7, PutKeeps

LEMMA ArriveKeeps == ASSUME ChannelInv, Arrive PROVE ChannelInv'
<1>1. PICK W, n, pos : Stream(W, n, pos) /\ Reader(W, n, pos)
  BY InvParts
<1>2. Typed /\ SearchInv
  BY InvParts
<1>3. /\ line # <<>> /\ fifo' = Append(fifo, Head(line)) /\ line' = Tail(line)
      /\ UNCHANGED <<sent, clean, whole, pc, matched, got, left, recent, status, size, awaited,
                     current>>
  BY DEF Arrive, call, result, frames
<1>4. fifo \in Seq(Cell) /\ line \in Seq(Cell)
  BY <1>2 DEF Typed
<1> DEFINE F == Len(fifo)
           M == Len(line)
<1>5. /\ F \in Nat /\ M \in Nat /\ M >= 1
      /\ fifo' \in Seq(Cell) /\ line' \in Seq(Cell)
      /\ Len(fifo') = F + 1 /\ Len(line') = M - 1
      /\ \A i \in 1..F : fifo'[i] = fifo[i]
      /\ fifo'[F + 1] = line[1]
      /\ \A i \in 1..M - 1 : line'[i] = line[i + 1]
  <2>1. F \in Nat /\ M \in Nat /\ M >= 1 /\ Head(line) = line[1] /\ Head(line) \in Cell
    BY <1>3, <1>4
  <2>2. fifo' \in Seq(Cell) /\ Len(fifo') = F + 1 /\ fifo'[F + 1] = line[1]
        /\ \A i \in 1..F : fifo'[i] = fifo[i]
    BY <1>3, <1>4, <2>1, AppendFacts
  <2>3. line' \in Seq(Cell) /\ Len(line') = M - 1 /\ \A i \in 1..M - 1 : line'[i] = line[i + 1]
    BY <1>3, <1>4
  <2>4. QED
    BY <2>1, <2>2, <2>3
<1>6. /\ W \in Seq(Cell) /\ n \in Nat /\ Len(W) = n + F + M
      /\ \A i \in 1..F : W[n + i] = fifo[i]
      /\ \A i \in 1..M : W[n + F + i] = line[i]
      /\ \A i \in 2..M : ~line[i].start
  BY <1>1 DEF Stream, Joined
<1> HIDE DEF F, M
<1>7. Joined(W, n)'
  <2>1. Len(W) = n + Len(fifo') + Len(line')
    BY <1>5, <1>6
  <2>2. ASSUME NEW i \in 1..Len(fifo') PROVE W[n + i] = fifo'[i]
    <3>1. CASE i \in 1..F
      BY <1>5, <1>6, <3>1
    <3>2. CASE i = F + 1
      <4>1. 1 \in 1..M /\ n + F + 1 = n + i
        BY <1>5, <1>6, <3>2
      <4>2. W[n + F + 1] = line[1]
        BY <1>6, <4>1
      <4>3. QED
        BY <1>5, <3>2, <4>1, <4>2
    <3>3. QED
      BY <1>5, <3>1, <3>2
  <2>3. ASSUME NEW i \in 1..Len(line') PROVE W[n + Len(fifo') + i] = line'[i]
    <3>1. i \in 1..M - 1 /\ i + 1 \in 1..M /\ n + F + (i + 1) = n + Len(fifo') + i
      BY <1>5, <1>6
    <3>2. W[n + F + (i + 1)] = line[i + 1]
      BY <1>6, <3>1
    <3>3. QED
      BY <1>5, <3>1, <3>2
  <2>4. ASSUME NEW i \in 2..Len(line') PROVE ~line'[i].start
    <3>1. i \in 1..M - 1 /\ i + 1 \in 2..M
      BY <1>5
    <3>2. QED
      BY <1>5, <1>6, <3>1
  <2>5. QED
    BY <1>6, <2>1, <2>2, <2>3, <2>4 DEF Joined
<1>8. Unread' = Unread /\ Busy' = Busy /\ Needed' = Needed
  BY <1>3 DEF Unread, Busy, Needed, PayloadLength, LengthBytes
<1>9. Stream(W, n, pos)'
  BY <1>1, <1>3, <1>7, <1>8 DEF Stream, Orderly
<1>10. Reader(W, n, pos)'
  BY <1>1, <1>3, <1>8 DEF Reader, MarkerRead, FieldsRead
<1>11. Typed'
  BY <1>2, <1>3, <1>5 DEF Typed
<1>12. SearchInv'
  BY <1>2, <1>3, OthersKeepSearch
<1>13. QED
  BY <1>9, <1>10, <1>11, <1>12 DEF ChannelInv

-----------------------------------------------------------------------------
(* The front of the stream *)

\* What is left after n cells carries the frames that are left.
LEMMA AfterExists ==
    ASSUME NEW W \in Seq(Cell), NEW n \in Nat, n <= Len(W)
    PROVE  \E V : After(W, n, V)
<1> DEFINE k == Len(W) - n
<1>1. k \in Nat /\ n + k = Len(W) /\ n + k <= Len(W)
  BY SeqFacts
<1> HIDE DEF k
<1>2. LET V == SubSeq(W, n + 1, n + k)
      IN V \in Seq(Cell) /\ Len(V) = k /\ \A j \in 1..k : V[j] = W[n + j]
  BY <1>1, Part
<1>3. After(W, n, SubSeq(W, n + 1, n + k))
  BY <1>2 DEF After, k
<1>4. QED
  BY <1>3

LEMMA Dropped ==
    ASSUME KeepsStep,
           NEW W \in Seq(Cell), NEW Q \in Seq(Frames), NEW pos, Carries(W, Q, pos),
           NEW s \in Seq(Byte), Remembered(s, W),
           NEW n \in Nat, n <= Len(W), NEW m \in Nat, m <= Len(Q), Passed(Q, pos, n, m),
           NEW R, AfterFrames(Q, m, R)
    PROVE  \E V, p : /\ After(W, n, V) /\ Carries(V, R, p) /\ Remembered(s, V)
                     /\ Follows(W, Q, pos, V, R, p)
                     /\ \A k \in 1..Len(R) : p[k] = pos[m + k] - n
<1>1. PICK V : After(W, n, V)
  BY AfterExists
<1>2. n \in 0..Len(W) /\ m \in 0..Len(Q)
  BY SeqFacts
<1>3. PICK p : /\ Carries(V, R, p) /\ Follows(W, Q, pos, V, R, p)
               /\ \A k \in 1..Len(R) : p[k] = pos[m + k] - n
  BY <1>1, <1>2, DropPrefix
<1>4. Remembered(s, V)
  BY <1>1, <1>2, RememberedEnd DEF After
<1>5. QED
  BY <1>1, <1>3, <1>4

\* What is left begins with a frame if the next byte to be read does.
LEMMA AtFront ==
    ASSUME NEW V \in Seq(Cell), NEW f \in Seq(Cell), NEW ln \in Seq(Cell),
           Len(V) = Len(f) + Len(ln), \A i \in 1..Len(f) : V[i] = f[i],
           \A i \in 1..Len(ln) : V[Len(f) + i] = ln[i],
           LET rest == f \o ln IN rest = <<>> \/ Head(rest).start
    PROVE  Front(V)
<1> DEFINE rest == f \o ln
<1>1. /\ rest \in Seq(Cell) /\ Len(rest) = Len(f) + Len(ln)
      /\ \A i \in 1..Len(f) : rest[i] = f[i]
      /\ \A i \in 1..Len(ln) : rest[Len(f) + i] = ln[i]
  BY Concatenation
<1>2. rest = <<>> \/ Head(rest).start
  OBVIOUS
<1> HIDE DEF rest
<1>3. Len(f) \in Nat /\ Len(ln) \in Nat
  OBVIOUS
<1>4. \A i \in 1..Len(V) : V[i] = rest[i]
  <2>1. ASSUME NEW i \in 1..Len(V) PROVE V[i] = rest[i]
    <3>1. CASE i <= Len(f)
      <4>1. i \in 1..Len(f)
        BY <1>3, <3>1
      <4>2. QED
        BY <1>1, <4>1
    <3>2. CASE ~(i <= Len(f))
      <4>1. PICK k : k = i - Len(f)
        OBVIOUS
      <4>2. k \in 1..Len(ln) /\ Len(f) + k = i
        BY <1>3, <3>2, <4>1
      <4>3. QED
        BY <1>1, <4>2
    <3>3. QED
      BY <3>1, <3>2
  <2>2. QED
    BY <2>1
<1>5. CASE rest = <<>>
  <2>1. Len(V) = 0
    BY <1>1, <1>5
  <2>2. QED
    BY <2>1 DEF Front
<1>6. CASE rest # <<>> /\ Head(rest).start
  <2>1. 1 \in 1..Len(V) /\ Head(rest) = rest[1]
    BY <1>1, <1>3, <1>6, HeadTail
  <2>2. QED
    BY <1>4, <1>6, <2>1 DEF Front
<1>7. QED
  BY <1>2, <1>5, <1>6

\* Reading one more cell reaches at most one more frame, the next one.
LEMMA TakeCell ==
    ASSUME KeepsStep,
           NEW W \in Seq(Cell), NEW Q \in Seq(Frames), NEW pos, Carries(W, Q, pos),
           NEW n \in Nat, n + 1 <= Len(W), NEW m \in Nat, m <= Len(Q), Passed(Q, pos, n, m)
    PROVE  /\ W[n + 1].start => m + 1 \in 1..Len(Q) /\ pos[m + 1] = n + 1
           /\ Passed(Q, pos, n + 1, IF W[n + 1].start THEN m + 1 ELSE m)
<1>1. Len(W) \in Nat /\ Len(Q) \in Nat /\ n + 1 \in 1..Len(W)
  BY SeqFacts
<1>2. /\ pos \in [1..Len(Q) -> 1..Len(W)]
      /\ \A j, k \in 1..Len(Q) : j < k => pos[j] + Size(Q[j]) <= pos[k]
      /\ \A i \in 1..Len(W) : W[i].start <=> \E k \in 1..Len(Q) : pos[k] = i
      /\ \A k \in 1..Len(Q) : Q[k].payload \in Payloads
  BY DEF Carries
<1>3. \A k \in 1..Len(Q) : pos[k] \in Nat /\ (pos[k] <= n <=> k <= m)
  <2>1. ASSUME NEW k \in 1..Len(Q) PROVE pos[k] \in Nat
    <3>1. pos[k] \in 1..Len(W)
      BY <1>2
    <3>2. QED
      BY ONLY <3>1
  <2>2. \A k \in 1..Len(Q) : pos[k] <= n <=> k <= m
    BY DEF Passed
  <2>3. QED
    BY ONLY <2>1, <2>2
<1>4. ASSUME NEW j \in 1..Len(Q), NEW k \in 1..Len(Q), j < k PROVE pos[j] < pos[k]
  <2>1. pos[j] + Size(Q[j]) <= pos[k]
    BY <1>2, <1>4
  <2>2. Size(Q[j]) \in Nat /\ Size(Q[j]) >= 1
    BY <1>2, SizeType
  <2>3. pos[j] \in Nat /\ pos[k] \in Nat
    BY <1>3
  <2>4. QED
    BY ONLY <2>1, <2>2, <2>3
<1>5. CASE W[n + 1].start
  <2>1. PICK h \in 1..Len(Q) : pos[h] = n + 1
    BY <1>1, <1>2, <1>5
  <2>2. h > m
    BY <1>3, <2>1
  <2>3. m + 1 \in 1..Len(Q) /\ h \in Int
    BY <1>1, <2>2
  <2>4. ~(m + 1 < h)
    <3>1. SUFFICES ASSUME m + 1 < h PROVE FALSE
      OBVIOUS
    <3>2. pos[m + 1] < n + 1 /\ pos[m + 1] \in Nat
      BY <1>3, <1>4, <2>1, <2>3, <3>1
    <3>3. pos[m + 1] <= n /\ ~(m + 1 <= m)
      BY <3>2
    <3>4. QED
      BY <1>3, <2>3, <3>3
  <2>5. h = m + 1
    BY <2>2, <2>3, <2>4
  <2>6. ASSUME NEW k \in 1..Len(Q) PROVE (pos[k] <= n + 1) <=> (k <= m + 1)
    <3>1. CASE k <= m
      <4>1. pos[k] <= n /\ pos[k] \in Nat
        BY <1>3, <3>1
      <4>2. k \in Int
        BY <1>1
      <4>3. QED
        BY <3>1, <4>1, <4>2
    <3>2. CASE k = m + 1
      BY <2>1, <2>5, <3>2
    <3>3. CASE k > m + 1
      <4>1. pos[k] > n + 1 /\ pos[k] \in Nat
        BY <1>3, <1>4, <2>1, <2>5, <3>3
      <4>2. k \in Int
        BY <1>1
      <4>3. QED
        BY <3>3, <4>1, <4>2
    <3>4. k \in Int
      BY <1>1
    <3>5. QED
      BY <3>1, <3>2, <3>3, <3>4
  <2>7. QED
    BY <1>5, <2>1, <2>3, <2>5, <2>6 DEF Passed
<1>6. CASE ~W[n + 1].start
  <2>1. ASSUME NEW k \in 1..Len(Q) PROVE (pos[k] <= n + 1) <=> (k <= m)
    <3>1. pos[k] # n + 1
      BY <1>1, <1>2, <1>6
    <3>2. pos[k] \in Nat /\ (pos[k] <= n <=> k <= m)
      BY <1>3
    <3>3. (pos[k] <= n + 1) <=> (pos[k] <= n)
      BY ONLY <3>1, <3>2, n \in Nat
    <3>4. QED
      BY ONLY <3>2, <3>3
  <2>2. QED
    BY <1>6, <2>1 DEF Passed
<1>7. QED
  BY <1>5, <1>6

\* The cell at the head of the FIFO is the next of the stream.
LEMMA NextCell ==
    ASSUME Typed, fifo # <<>>, NEW W, NEW n, Joined(W, n)
    PROVE  /\ n + 1 <= Len(W) /\ W[n + 1] = Head(fifo)
           /\ Tail(fifo) \in Seq(Cell)
           /\ Len(W) = n + 1 + Len(Tail(fifo)) + Len(line)
           /\ \A i \in 1..Len(Tail(fifo)) : W[n + 1 + i] = Tail(fifo)[i]
           /\ \A i \in 1..Len(line) : W[n + 1 + Len(Tail(fifo)) + i] = line[i]
<1> DEFINE F == Len(fifo)
           t == Tail(fifo)
<1>1. fifo \in Seq(Cell) /\ line \in Seq(Cell)
  BY DEF Typed
<1>2. /\ F \in Nat /\ F >= 1 /\ Head(fifo) = fifo[1] /\ t \in Seq(Cell) /\ Len(t) = F - 1
      /\ \A i \in 1..F - 1 : t[i] = fifo[i + 1]
  BY <1>1, HeadTail
<1>3. /\ W \in Seq(Cell) /\ n \in Nat /\ Len(W) = n + F + Len(line)
      /\ \A i \in 1..F : W[n + i] = fifo[i]
      /\ \A i \in 1..Len(line) : W[n + F + i] = line[i]
  BY DEF Joined
<1>4. Len(line) \in Nat
  BY <1>1
<1> HIDE DEF F, t
<1>5. n + 1 <= Len(W) /\ Len(W) = n + 1 + Len(t) + Len(line)
  BY ONLY <1>2, <1>3, <1>4
<1>6. W[n + 1] = Head(fifo)
  BY <1>2, <1>3
<1>7. ASSUME NEW i \in 1..Len(t) PROVE W[n + 1 + i] = t[i]
  <2>1. i \in 1..F - 1 /\ i + 1 \in 1..F /\ n + (i + 1) = n + 1 + i
    BY ONLY <1>2, <1>3, i \in 1..Len(t)
  <2>2. QED
    BY <1>2, <1>3, <2>1
<1>8. ASSUME NEW i \in 1..Len(line) PROVE W[n + 1 + Len(t) + i] = line[i]
  <2>1. n + 1 + Len(t) + i = n + F + i
    BY ONLY <1>2, <1>3, <1>4, i \in 1..Len(line)
  <2>2. QED
    BY <1>3, <2>1
<1>9. QED
  BY <1>2, <1>5, <1>6, <1>7, <1>8 DEF t

\* A byte that is read during a call belongs to the frame in hand, or begins
\* the next one when there is none.
LEMMA ByteTaken ==
    ASSUME KeepsStep, Typed, GetChar, NEW W, NEW n, NEW pos, Stream(W, n, pos),
           Busy, Busy', pc' # "idle", Head(fifo).start => current = <<>>
    PROVE  /\ Stream(W, n + 1, pos)' /\ Unread' = Unread
           /\ fifo' \in Seq(Cell) /\ UNCHANGED <<line, sent, clean, whole>>
           /\ awaited' \in Seq(Frames) /\ current' \in Seq(Frames)
           /\ W[n + 1] = Head(fifo) /\ n + 1 <= Len(W)
           /\ Len(current') = (IF Head(fifo).start THEN 1 ELSE Len(current))
           /\ ~Head(fifo).start => current' = current
<1>1. /\ fifo # <<>> /\ fifo' = Tail(fifo) /\ UNCHANGED <<line, sent, clean, whole>>
      /\ Head(fifo).start => current' = <<Head(awaited)>> /\ awaited' = Tail(awaited)
      /\ ~Head(fifo).start => current' = current /\ awaited' = awaited
  BY DEF GetChar, frames
<1>2. /\ Carries(W, Unread, pos) /\ Remembered(sent, W) /\ Joined(W, n)
      /\ Len(current) <= 1
      /\ \A k \in 1..Len(Unread) : (pos[k] <= n) <=> (k <= Len(current))
  BY DEF Stream
<1>3. /\ W \in Seq(Cell) /\ n \in Nat /\ Unread \in Seq(Frames)
      /\ current \in Seq(Frames) /\ awaited \in Seq(Frames)
      /\ Len(current) \in Nat /\ Len(awaited) \in Nat
      /\ Len(Unread) = Len(current) + Len(awaited)
  BY StreamTypes
<1>4. /\ n + 1 <= Len(W) /\ W[n + 1] = Head(fifo) /\ fifo' \in Seq(Cell)
      /\ Len(W) = n + 1 + Len(fifo') + Len(line)
      /\ \A i \in 1..Len(fifo') : W[n + 1 + i] = fifo'[i]
      /\ \A i \in 1..Len(line) : W[n + 1 + Len(fifo') + i] = line[i]
  BY <1>1, <1>2, NextCell
<1>5. Joined(W, n + 1)'
  BY <1>1, <1>2, <1>3, <1>4 DEF Joined
<1>6. Len(current) <= Len(Unread) /\ Passed(Unread, pos, n, Len(current))
  BY <1>2, <1>3 DEF Passed
<1>7. /\ Head(fifo).start => Len(current) + 1 \in 1..Len(Unread)
      /\ Passed(Unread, pos, n + 1, IF Head(fifo).start THEN Len(current) + 1 ELSE Len(current))
  <2> DEFINE m == Len(current)
  <2>1. m \in Nat /\ m <= Len(Unread) /\ Passed(Unread, pos, n, m)
    BY <1>3, <1>6
  <2> HIDE DEF m
  <2>2. /\ W[n + 1].start => m + 1 \in 1..Len(Unread) /\ pos[m + 1] = n + 1
        /\ Passed(Unread, pos, n + 1, IF W[n + 1].start THEN m + 1 ELSE m)
    BY <1>2, <1>3, <1>4, <2>1, TakeCell
  <2>3. QED
    BY <1>4, <2>2 DEF m
<1>8. /\ Unread' = Unread /\ awaited' \in Seq(Frames) /\ current' \in Seq(Frames)
      /\ Len(current') = (IF Head(fifo).start THEN Len(current) + 1 ELSE Len(current))
      /\ Len(current') <= 1
  <2>1. Unread = current \o awaited /\ Unread' = current' \o awaited'
    BY DEF Unread
  <2>2. CASE Head(fifo).start
    <3>1. Len(current) = 0 /\ current = <<>> /\ Len(awaited) >= 1
      BY <1>3, <1>7, <2>2
    <3>2. awaited # <<>> /\ Unread = awaited
      BY <1>3, <2>1, <3>1
    <3>3. current' = <<Head(awaited)>> /\ awaited' = Tail(awaited)
      BY <1>1, <2>2
    <3>4. /\ <<Head(awaited)>> \in Seq(Frames) /\ Len(<<Head(awaited)>>) = 1
          /\ <<Head(awaited)>> \o Tail(awaited) = awaited
      BY <1>3, <3>2, HeadRest
    <3>5. Tail(awaited) \in Seq(Frames)
      BY <1>3, <3>2, HeadTail
    <3>6. Unread' = awaited
      BY ONLY <2>1, <3>3, <3>4
    <3>7. Len(current') = 1 /\ current' \in Seq(Frames) /\ awaited' \in Seq(Frames)
      BY ONLY <3>3, <3>4, <3>5
    <3>8. QED
      BY <2>2, <3>1, <3>2, <3>6, <3>7
  <2>3. CASE ~Head(fifo).start
    BY <1>1, <1>2, <1>3, <2>1, <2>3
  <2>4. QED
    BY <2>2, <2>3
<1>9. \A k \in 1..Len(Unread') : (pos[k] <= n + 1) <=> (k <= Len(current'))
  BY <1>7, <1>8 DEF Passed
<1>10. Stream(W, n + 1, pos)'
  <2>1. Orderly(W, Unread, pos)'
    <3>1. Orderly(W, Unread, pos) /\ pc \notin {"drain", "raw"}
      BY DEF Stream, Busy
    <3>2. QED
      BY <1>1, <1>8, <3>1 DEF Orderly
  <2>2. QED
    BY <1>1, <1>2, <1>5, <1>8, <1>9, <2>1 DEF Stream
<1>11. QED
  BY <1>1, <1>4, <1>8, <1>10, Len(<<>>) = 0

-----------------------------------------------------------------------------
(* The calls keep the invariant *)

\* The frame in hand has been read to its end.
ReadWhole == \E W, n, pos :
    Stream(W, n, pos) /\ Len(current) = 1 /\ pos[1] = 1 /\ n = Size(current[1])

\* A call that ends has taken its frame off the stream.  Unless its time was
\* up, the next frame begins where it ends.
LEMMA ReturnKeeps ==
    ASSUME KeepsStep, ChannelInv, Busy, NEW s, s # "READING", Return(s),
           s # "TIMEOUT" => ReadWhole
    PROVE  ChannelInv'
<1>1. PICK W, n, pos :
         /\ Stream(W, n, pos)
         /\ s # "TIMEOUT" => Len(current) = 1 /\ pos[1] = 1 /\ n = Size(current[1])
  BY InvParts DEF ReadWhole
<1>2. Typed /\ SearchInv
  BY InvParts
<1>3. /\ pc' = "idle" /\ status' = s /\ current' = <<>>
      /\ whole' = (whole /\ (s = "TIMEOUT" => AtBoundary(fifo)))
      /\ UNCHANGED <<line, fifo, sent, clean, matched, got, left, recent, awaited>>
  BY DEF Return, wire
<1>4. /\ Carries(W, Unread, pos) /\ Remembered(sent, W) /\ Joined(W, n)
      /\ \A k \in 1..Len(Unread) : (pos[k] <= n) <=> (k <= Len(current))
  BY <1>1 DEF Stream
<1>5. /\ W \in Seq(Cell) /\ n \in Nat /\ n <= Len(W) /\ Unread \in Seq(Frames)
      /\ current \in Seq(Frames) /\ awaited \in Seq(Frames)
      /\ Len(current) \in Nat /\ Len(awaited) \in Nat
      /\ Len(Unread) = Len(current) + Len(awaited)
      /\ \A k \in 1..Len(awaited) : Unread[Len(current) + k] = awaited[k]
      /\ Len(fifo) \in Nat /\ Len(line) \in Nat /\ Len(W) \in Nat
  BY <1>1, <1>2, StreamTypes
<1>6. AfterFrames(Unread, Len(current), awaited)
  BY <1>5 DEF AfterFrames
<1>7. PICK V, p : /\ After(W, n, V) /\ Carries(V, awaited, p) /\ Remembered(sent, V)
                  /\ Follows(W, Unread, pos, V, awaited, p)
                  /\ \A k \in 1..Len(awaited) : p[k] = pos[Len(current) + k] - n
  <2>1. Passed(Unread, pos, n, Len(current)) /\ Len(current) <= Len(Unread)
    BY <1>4, <1>5 DEF Passed
  <2>2. sent \in Seq(Byte)
    BY <1>2 DEF Typed
  <2>3. PICK m : m = Len(current)
    OBVIOUS
  <2>4. /\ m \in Nat /\ m <= Len(Unread) /\ Passed(Unread, pos, n, m)
        /\ AfterFrames(Unread, m, awaited)
    <3>1. m \in Nat
      BY ONLY <1>5, <2>3
    <3>2. m <= Len(Unread)
      BY ONLY <2>1, <2>3
    <3>3. Passed(Unread, pos, n, m)
      BY ONLY <2>1, <2>3
    <3>4. AfterFrames(Unread, m, awaited)
      BY ONLY <1>6, <2>3
    <3>5. QED
      BY ONLY <3>1, <3>2, <3>3, <3>4
  <2>5. \E V, p : /\ After(W, n, V) /\ Carries(V, awaited, p) /\ Remembered(sent, V)
                  /\ Follows(W, Unread, pos, V, awaited, p)
                  /\ \A k \in 1..Len(awaited) : p[k] = pos[m + k] - n
    <3>1. /\ KeepsStep /\ W \in Seq(Cell) /\ Unread \in Seq(Frames) /\ Carries(W, Unread, pos)
          /\ Remembered(sent, W) /\ n \in Nat /\ n <= Len(W)
      BY <1>4, <1>5
    <3>2. QED
      BY ONLY <2>2, <2>4, <3>1, Dropped
  <2>6. QED
    BY <2>3, <2>5
<1>8. Joined(V, 0)'
  <2>1. /\ V \in Seq(Cell) /\ Len(V) = Len(W) - n /\ \A i \in 1..Len(V) : V[i] = W[n + i]
    BY <1>7 DEF After
  <2>2. /\ Len(W) = n + Len(fifo) + Len(line)
        /\ \A i \in 1..Len(fifo) : W[n + i] = fifo[i]
        /\ \A i \in 1..Len(line) : W[n + Len(fifo) + i] = line[i]
        /\ \A i \in 2..Len(line) : ~line[i].start
    BY <1>4 DEF Joined
  <2>3. Len(V) = Len(fifo) + Len(line) /\ Len(V) = 0 + Len(fifo) + Len(line)
    BY ONLY <1>5, <2>1, <2>2
  <2>4. ASSUME NEW i \in 1..Len(fifo) PROVE V[0 + i] = fifo[i]
    <3>1. i \in 1..Len(V) /\ 0 + i = i
      BY ONLY <1>5, <2>3, i \in 1..Len(fifo)
    <3>2. QED
      BY <2>1, <2>2, <3>1
  <2>5. ASSUME NEW i \in 1..Len(line) PROVE V[0 + Len(fifo) + i] = line[i]
    <3> DEFINE j == Len(fifo) + i
    <3>1. j \in 1..Len(V) /\ 0 + Len(fifo) + i = j /\ n + j = n + Len(fifo) + i
      BY ONLY <1>5, <2>3, i \in 1..Len(line)
    <3> HIDE DEF j
    <3>2. QED
      BY <2>1, <2>2, <3>1
  <2>6. QED
    BY <1>3, <2>1, <2>2, <2>3, <2>4, <2>5 DEF Joined
<1>9. ~Busy' /\ Unread' = awaited
  BY <1>3 DEF Busy, Unread
<1>10. Orderly(V, awaited, p)'
  <2>1. Orderly(W, Unread, pos) /\ V \in Seq(Cell) /\ Len(V) = Len(W) - n
    BY <1>1, <1>7 DEF Stream, After
  <2>2. ASSUME whole' PROVE Front(V)
    <3>1. CASE s = "TIMEOUT"
      <4>1. /\ fifo \in Seq(Cell) /\ line \in Seq(Cell)
            /\ LET rest == fifo \o line IN rest = <<>> \/ Head(rest).start
        BY <1>2, <1>3, <2>2, <3>1 DEF Typed, AtBoundary
      <4>2. /\ Len(V) = Len(fifo) + Len(line)
            /\ \A i \in 1..Len(fifo) : V[i] = fifo[i]
            /\ \A i \in 1..Len(line) : V[Len(fifo) + i] = line[i]
        <5>1. /\ Len(V) = 0 + Len(fifo) + Len(line)
              /\ \A i \in 1..Len(fifo) : V[0 + i] = fifo[i]
              /\ \A i \in 1..Len(line) : V[0 + Len(fifo) + i] = line[i]
          BY <1>3, <1>8 DEF Joined
        <5>2. 0 + Len(fifo) = Len(fifo) /\ \A i \in 1..Len(fifo) : 0 + i = i
          BY <1>5
        <5>3. QED
          BY <5>1, <5>2
      <4>3. QED
        BY ONLY <2>1, <4>1, <4>2, AtFront
    <3>2. CASE s # "TIMEOUT"
      <4>1. Len(current) = 1 /\ pos[1] = 1 /\ n = Size(current[1]) /\ Contiguous(W, Unread, pos)
        BY <1>1, <1>3, <2>1, <2>2, <3>2 DEF Orderly
      <4>2. 1 \in 1..Len(Unread) /\ Unread[1] = current[1] /\ Len(Unread) = 1 + Len(awaited)
        BY <1>1, <1>2, <1>5, <4>1, StreamTypes
      <4>3. 1 + n = IF 1 < Len(Unread) THEN pos[2] ELSE Len(W) + 1
        BY <4>1, <4>2 DEF Contiguous
      <4>4. CASE Len(awaited) = 0
        <5>1. ~(1 < Len(Unread))
          BY <4>2, <4>4
        <5>2. 1 + n = Len(W) + 1
          BY <4>3, <5>1
        <5>3. Len(V) = 0
          BY ONLY <1>5, <2>1, <5>2
        <5>4. QED
          BY <2>1, <5>3 DEF Front
      <4>5. CASE Len(awaited) # 0
        <5>1. 1 \in 1..Len(awaited) /\ 1 < Len(Unread) /\ Len(current) + 1 = 2
          BY <1>5, <4>1, <4>2, <4>5
        <5>2. p[1] = 1
          BY <1>5, <1>7, <4>3, <5>1
        <5>3. 1 \in 1..Len(V)
          BY <1>7, <5>1, <5>2 DEF Carries
        <5>4. V[1].start
          BY <1>7, <5>1, <5>2, <5>3 DEF Carries
        <5>5. QED
          BY <5>4 DEF Front
      <4>6. QED
        BY <4>4, <4>5
    <3>3. QED
      BY <3>1, <3>2
  <2>3. QED
    BY <1>3, <1>7, <2>1, <2>2 DEF Orderly, Follows
<1>11. Stream(V, 0, p)'
  BY <1>3, <1>7, <1>8, <1>9, <1>10, Len(<<>>) = 0 DEF Stream, Orderly
<1>12. Reader(V, 0, p)'
  BY <1>3, <1>9 DEF Reader
<1>13. Typed'
  BY <1>2, <1>3 DEF Typed
<1>14. SearchInv'
  BY <1>2, <1>3, OthersKeepSearch
<1>15. QED
  BY <1>11, <1>12, <1>13, <1>14 DEF ChannelInv

\* The frame in hand is at the front of the stream.
LEMMA InHand ==
    ASSUME KeepsStep, Typed, NEW W, NEW n, NEW pos, Stream(W, n, pos), Busy,
           Len(current) = 1, pos[1] = 1
    PROVE  /\ current[1] \in Frames /\ Unread[1] = current[1]
           /\ LengthFits(Len(current[1].payload))
           /\ \E w \in Wires(current[1]) : At(W, 1, w)
           /\ Len(awaited) > 0 => pos[2] >= 1 + Size(current[1]) /\ Len(Unread) >= 2
<1>1. /\ current \in Seq(Frames) /\ Len(awaited) \in Nat
      /\ Len(Unread) = 1 + Len(awaited) /\ Unread[1] = current[1]
  <2>1. /\ current \in Seq(Frames) /\ Len(awaited) \in Nat
        /\ Len(Unread) = Len(current) + Len(awaited)
        /\ \A k \in 1..Len(current) : Unread[k] = current[k]
    BY StreamTypes
  <2>2. QED
    BY <2>1
<1>2. /\ \A k \in 1..Len(Unread) :
            /\ Unread[k].payload \in Payloads /\ LengthFits(Len(Unread[k].payload))
            /\ \E w \in Wires(Unread[k]) : At(W, pos[k], w)
      /\ \A j, k \in 1..Len(Unread) : j < k => pos[j] + Size(Unread[j]) <= pos[k]
      /\ pos \in [1..Len(Unread) -> 1..Len(W)]
  BY DEF Stream, Carries
<1>3. 1 \in 1..Len(Unread)
  BY <1>1
<1>4. current[1] \in Frames
  <2>1. PICK q : q = current
    OBVIOUS
  <2>2. q \in Seq(Frames) /\ Len(q) = 1
    BY <1>1, <2>1
  <2>3. q[1] \in Frames
    BY ONLY <2>2
  <2>4. QED
    BY <2>1, <2>3
<1>5. LengthFits(Len(current[1].payload)) /\ \E w \in Wires(current[1]) : At(W, 1, w)
  BY <1>1, <1>2, <1>3
<1>6. ASSUME Len(awaited) > 0 PROVE pos[2] >= 1 + Size(current[1]) /\ Len(Unread) >= 2
  <2>1. 2 \in 1..Len(Unread) /\ 1 < 2 /\ Len(Unread) >= 2
    BY <1>1, <1>6
  <2>2. 1 + Size(current[1]) <= pos[2]
    BY <1>1, <1>2, <1>3, <2>1
  <2>3. Size(current[1]) \in Nat /\ pos[2] \in Int
    <3>1. current[1].payload \in Payloads
      BY <1>4 DEF Frames
    <3>2. Size(current[1]) \in Nat
      BY <3>1, SizeType
    <3>3. pos[2] \in 1..Len(W) /\ Len(W) \in Nat
      BY <1>2, <2>1, StreamTypes
    <3>4. QED
      BY <3>2, <3>3
  <2>4. QED
    BY ONLY <2>1, <2>2, <2>3
<1>7. QED
  BY <1>1, <1>4, <1>5, <1>6

\* No other frame begins before the frame in hand has been read.
LEMMA NoStart ==
    ASSUME KeepsStep, Typed, NEW W, NEW n, NEW pos, Stream(W, n, pos), Busy, fifo # <<>>,
           Len(current) = 1, n + 1 < pos[1] + Size(current[1])
    PROVE  ~Head(fifo).start
<1>1. SUFFICES ASSUME Head(fifo).start PROVE FALSE
  OBVIOUS
<1>2. /\ Carries(W, Unread, pos) /\ Joined(W, n)
      /\ \A k \in 1..Len(Unread) : (pos[k] <= n) <=> (k <= Len(current))
  BY DEF Stream
<1>3. /\ W \in Seq(Cell) /\ n \in Nat /\ Unread \in Seq(Frames)
      /\ current \in Seq(Frames) /\ Len(awaited) \in Nat
      /\ Len(Unread) = Len(current) + Len(awaited)
      /\ \A k \in 1..Len(current) : Unread[k] = current[k]
  BY StreamTypes
<1>4. n + 1 <= Len(W) /\ W[n + 1] = Head(fifo)
  BY <1>2, NextCell
<1>5. 1 <= Len(Unread) /\ Passed(Unread, pos, n, 1) /\ 1 \in Nat /\ Unread[1] = current[1]
  BY <1>2, <1>3 DEF Passed
<1>6. 1 + 1 \in 1..Len(Unread) /\ pos[1 + 1] = n + 1
  BY <1>1, <1>2, <1>3, <1>4, <1>5, TakeCell
<1>7. pos[1] + Size(Unread[1]) <= pos[2] /\ pos[2] = n + 1
  <2>1. 2 \in 1..Len(Unread) /\ pos[2] = n + 1 /\ 1 \in 1..Len(Unread) /\ 1 < 2
    BY <1>6
  <2>2. \A j, k \in 1..Len(Unread) : j < k => pos[j] + Size(Unread[j]) <= pos[k]
    BY <1>2 DEF Carries
  <2>3. QED
    BY <2>1, <2>2
<1>8. pos[1] \in Int /\ Size(current[1]) \in Nat
  <2>1. current[1].payload \in Payloads /\ 1 \in 1..Len(Unread)
    <3>1. current[1] \in Frames
      BY <1>3
    <3>2. 1 \in 1..Len(Unread)
      BY <1>6
    <3>3. QED
      BY <3>1, <3>2 DEF Frames
  <2>2. pos[1] \in 1..Len(W)
    BY <1>2, <2>1 DEF Carries
  <2>3. QED
    BY <1>3, <2>1, <2>2, SizeType
<1>9. QED
  BY <1>3, <1>5, <1>7, <1>8

\* The length field that was read is that of the frame in hand.
LEMMA LengthKnown ==
    ASSUME KeepsStep, Typed, NEW W, NEW n, NEW pos, Stream(W, n, pos), Reader(W, n, pos),
           pc \in {"length", "body"}, Len(got) >= LengthSize
    PROVE  /\ LengthBytes = EncodeLength(Len(current[1].payload))
           /\ PayloadLength = Len(current[1].payload)
           /\ PayloadLength \in Nat
<1>1. Busy /\ Len(current) = 1 /\ pos[1] = 1 /\ FieldsRead(W, n)
  BY DEF Reader, Busy
<1>2. PICK w \in Wires(current[1]) : At(W, 1, w)
  BY <1>1, InHand
<1>3. current[1].payload \in Payloads /\ LengthFits(Len(current[1].payload))
  BY <1>1, InHand DEF Frames
<1> DEFINE f == current[1]
           k == Len(f.payload)
           lb == EncodeLength(k)
<1>4. /\ w \in Seq(Byte) /\ Len(w) = L + LengthSize + k + TrailerSize /\ k \in Nat
      /\ \A j \in 1..LengthSize : w[L + j] = lb[j]
  <2>1. LengthSafe /\ f.payload \in Payloads /\ LengthFits(Len(f.payload)) /\ w \in Wires(f)
    BY <1>2, <1>3 DEF KeepsStep
  <2> HIDE DEF f
  <2>2. QED
    BY <2>1, FrameWires
<1>5. lb \in Seq(Byte) /\ Len(lb) = LengthSize /\ DecodeLength(lb) = k
  BY <1>3, <1>4, LengthRoundTrip
<1>6. /\ L \in Nat /\ LengthSize \in Nat /\ TrailerSize \in Nat
      /\ got \in Seq(Byte) /\ Len(got) \in Nat
  BY Sizes DEF Typed
<1> HIDE DEF f, k, lb
<1>7. LengthBytes = lb
  <2>1. /\ LengthBytes \in Seq(Byte) /\ Len(LengthBytes) = LengthSize
        /\ \A j \in 1..LengthSize : LengthBytes[j] = got[j]
    <3> DEFINE t == SubSeq(got, 0 + 1, 0 + LengthSize)
    <3>1. 0 \in Nat /\ 0 + LengthSize <= Len(got) /\ \A j \in 1..LengthSize : 0 + j = j
      BY <1>6
    <3>2. t \in Seq(Byte) /\ Len(t) = LengthSize /\ \A j \in 1..LengthSize : t[j] = got[0 + j]
      BY <1>6, <3>1, Part
    <3>3. LengthBytes = t
      BY <1>6 DEF LengthBytes
    <3> HIDE DEF t
    <3>4. QED
      BY <3>1, <3>2, <3>3
  <2>2. ASSUME NEW j \in 1..LengthSize PROVE got[j] = lb[j]
    <3> DEFINE h == L + j
    <3>1. j \in 1..Len(got) /\ h \in 1..Len(w)
      BY <1>4, <1>6
    <3>2. W[L + j].byte = got[j]
      BY <1>1, <3>1 DEF FieldsRead
    <3>3. W[1 + h - 1].byte = w[h]
      <4> HIDE DEF h
      <4>1. QED
        BY <1>2, <3>1 DEF At
    <3>4. 1 + h - 1 = L + j
      BY <1>6
    <3>5. QED
      BY <1>4, <3>2, <3>3, <3>4
  <2>3. QED
    BY <1>5, <2>1, <2>2, SameSeq
<1>8. QED
  BY <1>4, <1>5, <1>7 DEF PayloadLength, lb, k, f

LEMMA MoreOfFrame ==
    ASSUME NEW l \in Nat, NEW g \in Nat, NEW h \in Nat, NEW p \in Nat, NEW t \in Nat,
           NEW r \in Nat, g < r, r <= h + p + t
    PROVE  (l + g) + 1 < 1 + (l + h + p + t)
OBVIOUS

LEMMA SumOfFour ==
    ASSUME NEW a \in Nat, NEW b \in Nat, NEW c \in Nat, NEW d \in Nat
    PROVE  c + d \in Nat /\ (a + b) + (c + d) = a + b + c + d
OBVIOUS

\* The reader's steps.
LEMMA CallKeeps == ASSUME ChannelInv, Call PROVE ChannelInv'
<1>1. PICK W, n, pos : Stream(W, n, pos) /\ Reader(W, n, pos)
  BY InvParts
<1>2. Typed /\ SearchInv
  BY InvParts
<1>3. /\ pc = "idle"
      /\ \/ pc' = "marker" /\ status' = "READING"
         \/ pc' = pc /\ status' = "INVALID_ARGUMENT"
      /\ size' = 0 /\ got' = <<>> /\ left' = 0 /\ recent' = <<>>
      /\ UNCHANGED <<line, fifo, sent, clean, whole, awaited, current>>
  BY DEF Call, wire
<1>4. /\ Carries(W, Unread, pos) /\ Remembered(sent, W) /\ Joined(W, n)
      /\ n = 0 /\ current = <<>>
  BY <1>1, <1>3 DEF Stream, Busy
<1>5. Unread' = Unread
  <2>1. current \o awaited = awaited
    BY <1>2, <1>4 DEF Typed
  <2>2. QED
    BY <1>3, <2>1 DEF Unread, Busy
<1>6. Len(current) = 0
  BY <1>4
<1>7. ASSUME NEW k \in 1..Len(Unread) PROVE (pos[k] <= n) <=> (k <= Len(current))
  <2>1. pos[k] \in 1..Len(W) /\ Len(W) \in Nat /\ Len(Unread) \in Nat
    BY <1>1, <1>2, <1>4, StreamTypes DEF Carries
  <2>2. QED
    BY <1>4, <1>6, <2>1
<1>8. Joined(W, n)'
  BY <1>3, <1>4 DEF Joined
<1>9. Stream(W, n, pos)'
  <2>1. Orderly(W, Unread, pos)'
    BY <1>1, <1>3, <1>5 DEF Stream, Orderly
  <2>2. QED
    BY <1>3, <1>4, <1>5, <1>6, <1>7, <1>8, <2>1 DEF Stream
<1>10. Reader(W, n, pos)'
  <2>1. MarkerRead(W, n)'
    <3>1. Len(<<>>) = 0 /\ L \in Nat
      BY Sizes
    <3>2. n = Len(recent') /\ n <= L /\ \A i \in 1..n : W[i].byte = recent'[i]
      BY <1>3, <1>4, <3>1
    <3>3. QED
      BY <3>2 DEF MarkerRead
  <2>2. (status' = "READING") <=> Busy'
    BY <1>3 DEF Busy
  <2>3. QED
    BY <1>3, <2>1, <2>2 DEF Reader
<1>11. Typed'
  BY <1>2, <1>3 DEF Typed
<1>12. SearchInv'
  BY <1>2, CallKeepsSearch
<1>13. QED
  BY <1>9, <1>10, <1>11, <1>12 DEF ChannelInv

LEMMA FieldByteKeeps ==
    ASSUME KeepsStep, ChannelInv, FieldByte PROVE ChannelInv' /\ Unread' = Unread
<1>1. PICK W, n, pos : Stream(W, n, pos) /\ Reader(W, n, pos)
  BY InvParts
<1>2. Typed /\ SearchInv
  BY InvParts
<1>3. /\ pc \in {"length", "body"} /\ Len(got) < Needed /\ GetChar
      /\ got' = Append(got, Head(fifo).byte)
      /\ UNCHANGED <<pc, matched, left, recent, status, size>>
  BY DEF FieldByte, result
<1>4. /\ Busy /\ Busy' /\ pc' # "idle" /\ fifo # <<>>
      /\ Len(current) = 1 /\ pos[1] = 1 /\ FieldsRead(W, n)
      /\ pc = "length" => Len(got) <= LengthSize
      /\ pc = "body" => Len(got) >= LengthSize /\ Len(got) <= Needed
      /\ (status = "READING") <=> Busy
  BY <1>1, <1>3 DEF Reader, Busy, GetChar
<1>5. current[1] \in Frames /\ current[1].payload \in Payloads
  BY <1>1, <1>2, <1>4, InHand DEF Frames
<1>6. /\ L \in Nat /\ LengthSize \in Nat /\ TrailerSize \in Nat
      /\ Len(got) \in Nat /\ got \in Seq(Byte)
      /\ n = L + Len(got) /\ \A j \in 1..Len(got) : W[L + j].byte = got[j]
  <2>1. got \in Seq(Byte) /\ Len(got) \in Nat
    BY <1>2 DEF Typed
  <2>2. L \in Nat /\ LengthSize \in Nat /\ TrailerSize \in Nat
    BY Sizes
  <2>3. QED
    BY <1>4, <2>1, <2>2 DEF FieldsRead
<1>7. /\ Size(current[1]) = L + LengthSize + Len(current[1].payload) + TrailerSize
      /\ Len(current[1].payload) \in Nat
  <2>1. Size(current[1]) = L + LengthSize + Len(current[1].payload) + TrailerSize
    BY <1>5, SizeType
  <2>2. current[1].payload \in Seq(Byte)
    BY <1>5, ConstantsAssumption
  <2>3. QED
    BY <2>1, <2>2, SeqFacts
<1>8. Needed \in Nat /\ Needed <= LengthSize + Len(current[1].payload) + TrailerSize
  <2>1. CASE pc = "length"
    BY <1>6, <1>7, <2>1 DEF Needed
  <2>2. CASE pc = "body"
    <3>1. PayloadLength = Len(current[1].payload)
      BY <1>1, <1>2, <1>3, <1>4, <2>2, LengthKnown
    <3>2. QED
      BY <1>6, <1>7, <2>2, <3>1 DEF Needed
  <2>3. QED
    BY <1>3, <2>1, <2>2
<1>9. n + 1 < pos[1] + Size(current[1])
  <2>1. /\ L \in Nat /\ Len(got) \in Nat /\ LengthSize \in Nat /\ TrailerSize \in Nat
        /\ Len(current[1].payload) \in Nat /\ Needed \in Nat /\ Len(got) < Needed
        /\ Needed <= LengthSize + Len(current[1].payload) + TrailerSize
    BY <1>3, <1>6, <1>7, <1>8
  <2>2. (L + Len(got)) + 1
           < 1 + (L + LengthSize + Len(current[1].payload) + TrailerSize)
    BY ONLY <2>1, MoreOfFrame
  <2>3. QED
    BY ONLY <1>4, <1>6, <1>7, <2>2
<1>10. ~Head(fifo).start
  BY <1>1, <1>2, <1>4, <1>9, NoStart
<1>11. /\ Stream(W, n + 1, pos)' /\ fifo' \in Seq(Cell) /\ UNCHANGED <<line, sent, clean, whole>>
       /\ awaited' \in Seq(Frames) /\ current' \in Seq(Frames)
       /\ W[n + 1] = Head(fifo) /\ n + 1 <= Len(W) /\ current' = current
       /\ Unread' = Unread
  BY <1>1, <1>2, <1>3, <1>4, <1>10, ByteTaken
<1>12. Head(fifo).byte \in Byte
  <2>1. fifo \in Seq(Cell)
    BY <1>2 DEF Typed
  <2>2. Head(fifo) \in Cell
    BY <1>4, <2>1, HeadTail
  <2>3. QED
    BY <2>2 DEF Cell
<1> DEFINE b == Head(fifo).byte
<1>13. /\ got' \in Seq(Byte) /\ Len(got') = Len(got) + 1
       /\ \A j \in 1..Len(got) : got'[j] = got[j]
       /\ got'[Len(got) + 1] = b
  <2>1. got' = Append(got, b) /\ got \in Seq(Byte) /\ b \in Byte
    BY <1>3, <1>6, <1>12
  <2> HIDE DEF b
  <2>2. QED
    BY <2>1, AppendFacts
<1>14. FieldsRead(W, n + 1)'
  <2>1. n + 1 = L + Len(got')
    BY <1>6, <1>13
  <2>2. ASSUME NEW j \in 1..Len(got') PROVE W[L + j].byte = got'[j]
    <3>1. CASE j \in 1..Len(got)
      BY <1>6, <1>13, <3>1
    <3>2. CASE j = Len(got) + 1
      <4>1. L + j = n + 1
        BY <1>6, <3>2
      <4>2. QED
        BY <1>11, <1>13, <3>2, <4>1
    <3>3. QED
      BY <1>6, <1>13, <3>1, <3>2
  <2>3. QED
    BY <2>1, <2>2 DEF FieldsRead
<1>15. /\ pc' = "length" => Len(got') <= LengthSize
       /\ pc' = "body" => Len(got') >= LengthSize /\ Len(got') <= Needed'
  <2>1. pc = "length" => Needed = LengthSize
    BY DEF Needed
  <2>2. pc = "body" => Needed' = Needed
    <3>1. SUFFICES ASSUME pc = "body" PROVE Needed' = Needed
      OBVIOUS
    <3>2. LengthBytes' = LengthBytes
      <4>1. \A j \in 1..LengthSize : got'[j] = got[j]
        <5>1. LengthSize <= Len(got) /\ LengthSize \in Nat /\ Len(got) \in Nat
          BY <1>4, <1>6, <3>1
        <5>2. \A j \in 1..LengthSize : j \in 1..Len(got)
          BY ONLY <5>1
        <5>3. QED
          BY ONLY <1>13, <5>2
      <4>2. LengthSize <= Len(got) /\ LengthSize <= Len(got')
        BY <1>4, <1>6, <1>13, <3>1
      <4>3. SubSeq(got', 1, LengthSize) = SubSeq(got, 1, LengthSize)
        BY <1>6, <1>13, <4>1, <4>2
      <4>4. QED
        BY <4>3 DEF LengthBytes
    <3>3. QED
      BY <1>3, <3>2 DEF Needed, PayloadLength
  <2>3. Len(got) + 1 <= Needed
    BY <1>3, <1>6, <1>8
  <2>4. QED
    BY <1>3, <1>4, <1>6, <1>13, <2>1, <2>2, <2>3
<1>16. Reader(W, n + 1, pos)'
  BY <1>3, <1>4, <1>11, <1>14, <1>15 DEF Reader, Busy
<1>17. Typed'
  BY <1>2, <1>3, <1>11, <1>13 DEF Typed, Frames
<1>18. SearchInv'
  BY <1>2, <1>3, OthersKeepSearch
<1>19. QED
  BY <1>11, <1>16, <1>17, <1>18 DEF ChannelInv

LEMMA DiscardByteKeeps ==
    ASSUME KeepsStep, ChannelInv, DiscardByte PROVE ChannelInv' /\ Unread' = Unread
<1>1. PICK W, n, pos : Stream(W, n, pos) /\ Reader(W, n, pos)
  BY InvParts
<1>2. Typed /\ SearchInv
  BY InvParts
<1>3. /\ pc = "discard" /\ left > 0 /\ GetChar /\ left' = left - 1
      /\ UNCHANGED <<pc, matched, got, recent, status, size>>
  BY DEF DiscardByte, result
<1>4. /\ Busy /\ Busy' /\ pc' # "idle" /\ fifo # <<>>
      /\ Len(current) = 1 /\ pos[1] = 1
      /\ n + left = Size(current[1]) /\ size = Len(current[1].payload) /\ size > BufferLength
      /\ (status = "READING") <=> Busy
  BY <1>1, <1>3 DEF Reader, Busy, GetChar
<1>5. n \in Nat /\ left \in Nat
  BY <1>1, <1>2, StreamTypes DEF Typed
<1>6. n + 1 < pos[1] + Size(current[1])
  BY ONLY <1>3, <1>4, <1>5
<1>7. ~Head(fifo).start
  BY <1>1, <1>2, <1>4, <1>6, NoStart
<1>8. /\ Stream(W, n + 1, pos)' /\ fifo' \in Seq(Cell) /\ UNCHANGED <<line, sent, clean, whole>>
      /\ awaited' \in Seq(Frames) /\ current' \in Seq(Frames) /\ current' = current
      /\ Unread' = Unread
  BY <1>1, <1>2, <1>3, <1>4, <1>7, ByteTaken
<1>9. left' \in Nat /\ n + 1 + left' = n + left
  BY ONLY <1>3, <1>5
<1>10. Reader(W, n + 1, pos)'
  BY <1>3, <1>4, <1>8, <1>9 DEF Reader, Busy
<1>11. Typed'
  BY <1>2, <1>3, <1>8, <1>9 DEF Typed, Frames
<1>12. SearchInv'
  BY <1>2, <1>3, OthersKeepSearch
<1>13. QED
  BY <1>8, <1>10, <1>11, <1>12 DEF ChannelInv

\* A step that only moves the reader on.
LEMMA StreamStays ==
    ASSUME NEW W, NEW n, NEW pos, Stream(W, n, pos), Busy, Busy',
           UNCHANGED <<line, fifo, sent, clean, whole, awaited, current>>, pc' # "idle"
    PROVE  Stream(W, n, pos)'
<1>1. Unread' = Unread
  BY DEF Unread
<1>2. QED
  BY <1>1 DEF Stream, Joined, Orderly, Busy

LEMMA DecodeKeeps == ASSUME KeepsStep, ChannelInv, Decode PROVE ChannelInv'
<1>1. PICK W, n, pos : Stream(W, n, pos) /\ Reader(W, n, pos)
  BY InvParts
<1>2. Typed /\ SearchInv
  BY InvParts
<1>3. pc = "length" /\ Len(got) = LengthSize
  BY DEF Decode
<1>4. /\ Busy /\ Len(current) = 1 /\ pos[1] = 1 /\ FieldsRead(W, n)
      /\ (status = "READING") <=> Busy
  BY <1>1, <1>3 DEF Reader, Busy
<1>5. current[1].payload \in Payloads
  BY <1>1, <1>2, <1>4, InHand DEF Frames
<1>6. L \in Nat /\ LengthSize \in Nat /\ TrailerSize \in Nat
  BY Sizes
<1>7. PayloadLength = Len(current[1].payload) /\ PayloadLength \in Nat
  BY <1>1, <1>2, <1>3, <1>6, LengthKnown
<1>8. n = L + LengthSize
  BY <1>3, <1>4 DEF FieldsRead
<1>9. Size(current[1]) = L + LengthSize + PayloadLength + TrailerSize
  BY <1>5, <1>7, SizeType
<1>10. CASE PayloadLength < 0
  BY <1>7, <1>10
<1>11. CASE /\ PayloadLength > BufferLength
            /\ pc' = "discard" /\ left' = PayloadLength + TrailerSize /\ size' = PayloadLength
            /\ UNCHANGED <<wire, ready, matched, got, recent, status, frames, faults>>
  <2>1. UNCHANGED <<line, fifo, sent, clean, whole, awaited, current>>
    BY <1>11 DEF wire, frames
  <2>2. Busy' /\ pc' # "idle"
    BY <1>11 DEF Busy
  <2>3. Stream(W, n, pos)'
    BY <1>1, <1>4, <2>1, <2>2, StreamStays
  <2>4. left' \in Nat /\ n + left' = Size(current[1])
    <3>1. left' = PayloadLength + TrailerSize
      BY <1>11
    <3>2. QED
      <4>1. L \in Nat /\ LengthSize \in Nat /\ PayloadLength \in Nat /\ TrailerSize \in Nat
        BY <1>6, <1>7
      <4>2. /\ PayloadLength + TrailerSize \in Nat
            /\ (L + LengthSize) + (PayloadLength + TrailerSize)
                  = L + LengthSize + PayloadLength + TrailerSize
        <5> HIDE DEF L, LengthSize, PayloadLength, TrailerSize
        <5>1. QED
          BY ONLY <4>1, SumOfFour
      <4>3. QED
        <5>1. left' \in Nat
          BY <3>1, <4>2
        <5>2. n + left' = (L + LengthSize) + (PayloadLength + TrailerSize)
          BY <1>8, <3>1
        <5>3. QED
          BY <1>9, <4>2, <5>1, <5>2
  <2>5. Reader(W, n, pos)'
    BY <1>4, <1>7, <1>11, <2>1, <2>2, <2>4 DEF Reader
  <2>6. Typed'
    BY <1>2, <1>11, <2>1, <2>4 DEF Typed
  <2>7. SearchInv'
    BY <1>2, <1>11, OthersKeepSearch
  <2>8. QED
    BY <2>3, <2>5, <2>6, <2>7 DEF ChannelInv
<1>12. CASE /\ PayloadLength \in 0..BufferLength /\ pc' = "body"
            /\ UNCHANGED <<wire, ready, matched, got, left, recent, result, frames, faults>>
  <2>1. UNCHANGED <<line, fifo, sent, clean, whole, awaited, current, status, size>>
    BY <1>12 DEF wire, frames, result
  <2>2. Busy' /\ pc' # "idle"
    BY <1>12 DEF Busy
  <2>3. Stream(W, n, pos)'
    BY <1>1, <1>4, <2>1, <2>2, StreamStays
  <2>4. Needed' = LengthSize + PayloadLength + TrailerSize
    BY <1>12 DEF Needed, PayloadLength, LengthBytes
  <2>5. Len(got') >= LengthSize /\ Len(got') <= Needed'
    BY <1>3, <1>6, <1>7, <1>12, <2>4
  <2>6. Reader(W, n, pos)'
    BY <1>4, <1>12, <2>1, <2>2, <2>5 DEF Reader, FieldsRead
  <2>7. Typed'
    BY <1>2, <1>12, <2>1 DEF Typed
  <2>8. SearchInv'
    BY <1>2, <1>12, OthersKeepSearch
  <2>9. QED
    BY <2>3, <2>6, <2>7, <2>8 DEF ChannelInv
<1>13. QED
  BY <1>10, <1>11, <1>12 DEF Decode

\* A frame that is discarded or verified has been read to its end.
LEMMA DiscardedWhole == ASSUME KeepsStep, ChannelInv, Discarded PROVE ReadWhole
<1>1. PICK W, n, pos : Stream(W, n, pos) /\ Reader(W, n, pos)
  BY InvParts
<1>2. n \in Nat /\ pc = "discard" /\ left = 0
  BY <1>1, InvParts, StreamTypes DEF Discarded
<1>3. Len(current) = 1 /\ pos[1] = 1 /\ n + left = Size(current[1])
  BY <1>1, <1>2 DEF Reader
<1>4. n = Size(current[1])
  BY <1>2, <1>3
<1>5. QED
  BY <1>1, <1>3, <1>4 DEF ReadWhole

LEMMA VerifiedWhole == ASSUME KeepsStep, ChannelInv, Verify PROVE ReadWhole
<1>1. PICK W, n, pos : Stream(W, n, pos) /\ Reader(W, n, pos)
  BY InvParts
<1>2. pc = "body" /\ Len(got) = Needed /\ Typed
  BY InvParts DEF Verify
<1>3. /\ Busy /\ Len(current) = 1 /\ pos[1] = 1 /\ n = L + Len(got) /\ Len(got) >= LengthSize
  BY <1>1, <1>2 DEF Reader, FieldsRead, Busy
<1>4. current[1].payload \in Payloads
  BY <1>1, <1>2, <1>3, InHand DEF Frames
<1>5. PayloadLength = Len(current[1].payload) /\ PayloadLength \in Nat
  BY <1>1, <1>2, <1>3, LengthKnown
<1>6. Size(current[1]) = L + LengthSize + PayloadLength + TrailerSize
  BY <1>4, <1>5, SizeType
<1>7. Len(got) = LengthSize + PayloadLength + TrailerSize
  BY <1>2 DEF Needed
<1>8. L \in Nat /\ LengthSize \in Nat /\ TrailerSize \in Nat
  BY Sizes
<1> HIDE DEF L, LengthSize, PayloadLength, TrailerSize
<1>9. PICK a, b, c, d : a = L /\ b = LengthSize /\ c = PayloadLength /\ d = TrailerSize
  OBVIOUS
<1>10. /\ n = a + Len(got) /\ Len(got) = b + c + d /\ Size(current[1]) = a + b + c + d
       /\ a \in Nat /\ b \in Nat /\ c \in Nat /\ d \in Nat
  BY ONLY <1>3, <1>5, <1>6, <1>7, <1>8, <1>9
<1>11. n = Size(current[1])
  <2>1. a + (b + c + d) = a + b + c + d
    BY ONLY <1>10
  <2>2. QED
    BY ONLY <1>10, <2>1
<1>12. QED
  BY <1>1, <1>3, <1>11 DEF ReadWhole

\* The calls that return.
LEMMA ReturnsKeep ==
    ASSUME KeepsStep, ChannelInv, Discarded \/ Verify \/ Timeout PROVE ChannelInv'
<1>1. CASE Discarded
  <2>1. Busy /\ Return("BUFFER_TOO_SMALL")
    BY <1>1 DEF Discarded, Busy
  <2>2. QED
    BY <1>1, <2>1, DiscardedWhole, ReturnKeeps
<1>2. CASE Verify
  <2>1. Busy /\ \E s \in {"END_MARKER_MISMATCH", "CHECKSUM_MISMATCH", "OK"} : Return(s)
    BY <1>2 DEF Verify, Busy
  <2>2. QED
    BY <1>2, <2>1, VerifiedWhole, ReturnKeeps
<1>3. CASE Timeout
  <2>1. Busy /\ Return("TIMEOUT")
    BY <1>3 DEF Timeout, Waiting, Busy
  <2>2. QED
    BY <2>1, ReturnKeeps
<1>4. QED
  BY <1>1, <1>2, <1>3

LEMMA OnlyOne ==
    ASSUME NEW k \in Nat, NEW m \in Nat, k <= m, m <= 1, k >= 1
    PROVE  k = 1 /\ m = 1
OBVIOUS

\* A byte after which the marker is complete: it is the marker of a frame.
LEMMA MarkerHere ==
    ASSUME KeepsStep, Typed, NEW W, NEW n, NEW pos, Stream(W, n, pos), Busy, n = L, Tame,
           \A i \in 1..L : W[i].byte = StartMarker[i]
    PROVE  Len(current) = 1 /\ pos[1] = 1
<1>1. /\ Carries(W, Unread, pos) /\ Len(current) <= 1
      /\ \A k \in 1..Len(Unread) : (pos[k] <= n) <=> (k <= Len(current))
  BY DEF Stream
<1>2. W \in Seq(Cell) /\ Len(W) \in Nat /\ n <= Len(W) /\ L \in Nat /\ L > 0
      /\ Unread \in Seq(Frames) /\ Len(Unread) \in Nat /\ Len(current) \in Nat
  <2>1. /\ W \in Seq(Cell) /\ Len(W) \in Nat /\ n <= Len(W) /\ L \in Nat
        /\ Unread \in Seq(Frames) /\ Len(Unread) \in Nat /\ Len(current) \in {0, 1}
    BY StreamTypes
  <2>2. L > 0
    BY DEF KeepsStep
  <2>3. QED
    BY <2>1, <2>2
<1>3. MarkerAt(W, 1)
  <2>1. \A j \in 1..L : 1 + j - 1 = j
    BY <1>2
  <2>2. QED
    BY <2>1 DEF MarkerAt
<1>4. 1 \in 1..Len(W) - L + 1 /\ 1 \in 1..Len(W)
  BY <1>2
<1>5. W[1].start
  <2>1. CASE clean
    BY <1>3, <1>4, <2>1 DEF Stream, Orderly, Marked
  <2>2. CASE whole
    <3>1. W # <<>> /\ pc \notin {"drain", "raw"}
      BY <1>2 DEF Busy
    <3>2. QED
      BY <2>2, <3>1 DEF Stream, Orderly, Front
  <2>3. QED
    BY <2>1, <2>2 DEF Tame
<1>6. PICK k \in 1..Len(Unread) : pos[k] = 1
  BY <1>1, <1>4, <1>5 DEF Carries
<1>7. k <= Len(current)
  <2>1. pos[k] <= n
    BY <1>2, <1>6
  <2>2. QED
    BY <1>1, <2>1
<1>8. k = 1 /\ Len(current) = 1
  <2>1. Len(current) \in Nat /\ Len(current) <= 1
    BY <1>1, <1>2
  <2>2. k \in Nat /\ k >= 1
    BY <1>2
  <2>3. QED
    BY <1>7, <2>1, <2>2, OnlyOne
<1>9. QED
  BY <1>6, <1>8

LEMMA MarkerFoundKeeps == ASSUME KeepsStep, ChannelInv, Tame, MarkerFound PROVE ChannelInv'
<1>1. PICK W, n, pos : Stream(W, n, pos) /\ Reader(W, n, pos)
  BY InvParts
<1>2. Typed /\ SearchInv
  BY InvParts
<1>3. /\ pc = "marker" /\ matched = L /\ pc' = "length"
      /\ UNCHANGED <<line, fifo, sent, clean, whole, matched, got, left, recent, status, size,
                     awaited, current>>
  BY DEF MarkerFound, wire, result, frames
<1>4. /\ Busy /\ Busy' /\ pc' # "idle" /\ MarkerRead(W, n) /\ got = <<>>
      /\ (status = "READING") <=> Busy
  BY <1>1, <1>3 DEF Reader, Busy
<1>5. MarkerEnds(L, recent)
  BY <1>2, <1>3 DEF SearchInv, MatchIsLongest
<1>6. n = L /\ \A i \in 1..L : W[i].byte = StartMarker[i]
  <2>1. /\ n = Len(recent) /\ n <= L /\ \A i \in 1..n : W[i].byte = recent[i]
    BY <1>4 DEF MarkerRead
  <2>2. L <= Len(recent) /\ \A i \in 1..L : StartMarker[i] = recent[Len(recent) - L + i]
    BY <1>5 DEF MarkerEnds
  <2>3. L \in Nat /\ Len(recent) \in Nat
    BY <1>2, Sizes DEF Typed
  <2>4. n = L
    BY ONLY <2>1, <2>2, <2>3
  <2>5. \A i \in 1..L : Len(recent) - L + i = i
    BY ONLY <2>1, <2>3, <2>4
  <2>6. QED
    BY <2>1, <2>2, <2>4, <2>5
<1>7. Len(current) = 1 /\ pos[1] = 1
  BY <1>1, <1>2, <1>4, <1>6, MarkerHere
<1>8. Stream(W, n, pos)'
  BY <1>1, <1>3, <1>4, StreamStays
<1>9. FieldsRead(W, n)' /\ Len(got') <= LengthSize
  <2>1. Len(<<>>) = 0 /\ L \in Nat /\ LengthSize \in Nat
    BY Sizes
  <2>2. QED
    BY <1>3, <1>4, <1>6, <2>1 DEF FieldsRead
<1>10. Reader(W, n, pos)'
  BY <1>3, <1>4, <1>7, <1>9 DEF Reader
<1>11. Typed'
  BY <1>2, <1>3 DEF Typed
<1>12. SearchInv'
  BY <1>2, <1>3, OthersKeepSearch
<1>13. QED
  BY <1>8, <1>10, <1>11, <1>12 DEF ChannelInv

\* The last k bytes after one more.
LEMMA LastOfAppend ==
    ASSUME NEW S, NEW s \in Seq(S), NEW e \in S, NEW k \in Nat, k > 0, Len(s) <= k
    PROVE  LET z == LastBytes(k, Append(s, e))
           IN /\ z \in Seq(S) /\ Len(z) \in Nat
              /\ Len(s) < k => /\ Len(z) = Len(s) + 1 /\ z[Len(s) + 1] = e
                               /\ \A i \in 1..Len(s) : z[i] = s[i]
              /\ Len(s) = k => /\ Len(z) = k /\ z[k] = e
                               /\ \A i \in 1..k - 1 : z[i] = s[i + 1]
<1> DEFINE t == Append(s, e)
           z == LastBytes(k, t)
<1>1. /\ t \in Seq(S) /\ Len(t) = Len(s) + 1
      /\ \A i \in 1..Len(s) : t[i] = s[i]
      /\ t[Len(s) + 1] = e
  BY AppendFacts
<1>2. Len(s) \in Nat
  OBVIOUS
<1> HIDE DEF t
<1>3. /\ z \in Seq(S) /\ Len(z) = (IF Len(t) <= k THEN Len(t) ELSE k)
      /\ \A i \in 1..Len(z) : z[i] = t[Len(t) - Len(z) + i]
  BY <1>1, LastBytesIs
<1> HIDE DEF z
<1>4. ASSUME Len(s) < k
      PROVE  /\ Len(z) = Len(s) + 1 /\ z[Len(s) + 1] = e
             /\ \A i \in 1..Len(s) : z[i] = s[i]
  <2>1. Len(z) = Len(s) + 1 /\ Len(t) - Len(z) = 0
    BY <1>1, <1>2, <1>3, <1>4
  <2>2. ASSUME NEW i \in 1..Len(z) PROVE z[i] = t[i]
    <3>1. Len(t) - Len(z) + i = i
      BY <1>2, <2>1
    <3>2. QED
      BY <1>3, <3>1
  <2>3. Len(s) + 1 \in 1..Len(z) /\ \A i \in 1..Len(s) : i \in 1..Len(z)
    BY ONLY <1>2, <2>1
  <2>4. z[Len(s) + 1] = e
    BY <1>1, <2>2, <2>3
  <2>5. \A i \in 1..Len(s) : z[i] = s[i]
    BY <1>1, <2>2, <2>3
  <2>6. QED
    BY <2>1, <2>4, <2>5
<1>5. ASSUME Len(s) = k
      PROVE  Len(z) = k /\ z[k] = e /\ \A i \in 1..k - 1 : z[i] = s[i + 1]
  <2>1. Len(z) = k /\ Len(t) - Len(z) = 1
    BY <1>1, <1>2, <1>3, <1>5
  <2>2. \A i \in 1..k : z[i] = t[1 + i]
    BY <1>3, <2>1
  <2>3. z[k] = e
    BY <1>1, <1>5, <2>2
  <2>4. \A i \in 1..k - 1 : z[i] = s[i + 1]
    BY <1>1, <1>5, <2>2
  <2>5. QED
    BY <2>1, <2>3, <2>4
<1>6. QED
  BY <1>2, <1>3, <1>4, <1>5 DEF t, z

\* A frame in hand during the search is one whose marker is being read.
LEMMA NoStartInMarker ==
    ASSUME KeepsStep, Typed, NEW W, NEW n, NEW pos, Stream(W, n, pos), Busy, fifo # <<>>,
           n <= L, current # <<>>
    PROVE  ~Head(fifo).start
<1>1. /\ Carries(W, Unread, pos)
      /\ \A k \in 1..Len(Unread) : (pos[k] <= n) <=> (k <= Len(current))
  BY DEF Stream
<1>2. /\ W \in Seq(Cell) /\ n \in Nat /\ L \in Nat /\ Len(W) \in Nat
      /\ current \in Seq(Frames) /\ Len(current) \in {0, 1} /\ Len(awaited) \in Nat
      /\ Len(Unread) = Len(current) + Len(awaited)
  BY StreamTypes
<1>3. Len(current) = 1
  BY <1>2
<1>4. current[1] \in Frames
  BY <1>2, <1>3
<1>5. Size(current[1]) \in Nat /\ Size(current[1]) >= L + 1
  <2>1. current[1].payload \in Payloads
    BY <1>4 DEF Frames
  <2>2. QED
    BY <2>1, SizeType
<1>6. 1 \in 1..Len(Unread)
  BY <1>2, <1>3
<1>7. pos[1] \in 1..Len(W)
  BY <1>1, <1>6 DEF Carries
<1>8. n + 1 < pos[1] + Size(current[1])
  BY <1>2, <1>5, <1>7
<1>9. QED
  BY <1>3, <1>8, NoStart

\* Before its marker is complete the reader can forget the oldest of L bytes:
\* no frame begins there.
LEMMA Slid ==
    ASSUME KeepsStep, Typed, SearchInv, NEW W, NEW n, NEW pos, Stream(W, n, pos), Busy,
           pc = "marker", matched < L, MarkerRead(W, n), n = L
    PROVE  \E V, p : /\ Stream(V, n - 1, p) /\ n - 1 \in Nat
                     /\ \A i \in 1..n - 1 : V[i].byte = recent[i + 1]
<1>1. /\ Carries(W, Unread, pos) /\ Remembered(sent, W) /\ Joined(W, n) /\ Len(current) <= 1
      /\ \A k \in 1..Len(Unread) : (pos[k] <= n) <=> (k <= Len(current))
      /\ Orderly(W, Unread, pos)
  BY DEF Stream
<1>2. /\ W \in Seq(Cell) /\ n \in Nat /\ n <= Len(W) /\ Unread \in Seq(Frames)
      /\ Len(Unread) \in Nat /\ Len(fifo) \in Nat /\ Len(line) \in Nat /\ Len(W) \in Nat
      /\ Len(current) \in Nat
  BY StreamTypes
<1>3. L \in Nat /\ L > 0 /\ n >= 1
  BY Sizes DEF KeepsStep
<1>4. ~W[1].start
  <2>1. SUFFICES ASSUME W[1].start PROVE FALSE
    OBVIOUS
  <2>2. 1 \in 1..Len(W)
    BY <1>2, <1>3
  <2>3. PICK k \in 1..Len(Unread) : pos[k] = 1
    BY <1>1, <2>1, <2>2 DEF Carries
  <2> DEFINE f == Unread[k]
  <2>4. f.payload \in Payloads /\ LengthFits(Len(f.payload)) /\ \E w \in Wires(f) : At(W, 1, w)
    BY <1>1, <2>3 DEF Carries
  <2> HIDE DEF f
  <2>5. PICK w \in Wires(f) : At(W, 1, w)
    BY <2>4
  <2>6. LET v == Wire(f.payload)
        IN /\ w \in Seq(Byte) /\ Len(w) = Size(f)
           /\ Size(f) = L + LengthSize + Len(f.payload) + TrailerSize
           /\ \A j \in 1..L : w[j] = StartMarker[j]
    BY <2>4, FrameWires DEF KeepsStep
  <2>7. Size(f) \in Nat /\ Size(f) >= L + 1
    BY <2>4, SizeType
  <2>8. ASSUME NEW j \in 1..L PROVE recent[j] = StartMarker[j]
    <3>1. j \in 1..Len(w) /\ 1 + j - 1 = j /\ j \in 1..n
      BY <1>3, <2>6, <2>7
    <3>2. W[1 + j - 1].byte = w[j]
      BY <2>5, <3>1 DEF At
    <3>3. W[j].byte = recent[j]
      BY <3>1 DEF MarkerRead
    <3>4. QED
      BY <2>6, <3>1, <3>2, <3>3
  <2>9. MarkerEnds(L, recent)
    <3>1. Len(recent) = L
      BY DEF MarkerRead
    <3>2. \A i \in 1..L : L - L + i = i
      BY <1>3
    <3>3. QED
      BY <1>3, <2>8, <3>1, <3>2 DEF MarkerEnds
  <2>10. L \in matched + 1..L
    BY <1>3 DEF SearchInv
  <2>11. QED
    BY <2>9, <2>10 DEF SearchInv, MatchIsLongest
<1>5. Passed(Unread, pos, 1, 0)
  <2>1. ASSUME NEW k \in 1..Len(Unread) PROVE (pos[k] <= 1) <=> (k <= 0)
    <3>1. pos[k] \in 1..Len(W)
      BY <1>1 DEF Carries
    <3>2. pos[k] # 1
      <4>1. 1 \in 1..Len(W)
        BY <1>2, <1>3
      <4>2. QED
        BY <1>1, <1>4, <4>1 DEF Carries
    <3>3. QED
      BY <1>2, <3>1, <3>2
  <2>2. QED
    BY <2>1 DEF Passed
<1>6. AfterFrames(Unread, 0, Unread)
  <2>1. Len(Unread) = Len(Unread) - 0 /\ \A k \in 1..Len(Unread) : 0 + k = k
    BY <1>2
  <2>2. QED
    BY <1>2, <2>1 DEF AfterFrames
<1>7. PICK V, p : /\ After(W, 1, V) /\ Carries(V, Unread, p) /\ Remembered(sent, V)
                  /\ Follows(W, Unread, pos, V, Unread, p)
                  /\ \A k \in 1..Len(Unread) : p[k] = pos[0 + k] - 1
  <2>1. /\ KeepsStep /\ W \in Seq(Cell) /\ Unread \in Seq(Frames) /\ Carries(W, Unread, pos)
        /\ sent \in Seq(Byte) /\ Remembered(sent, W) /\ 1 \in Nat /\ 1 <= Len(W)
        /\ 0 \in Nat /\ 0 <= Len(Unread) /\ Passed(Unread, pos, 1, 0)
        /\ AfterFrames(Unread, 0, Unread)
    BY <1>1, <1>2, <1>3, <1>5, <1>6 DEF Typed
  <2>2. QED
    BY ONLY <2>1, Dropped
<1>8. /\ V \in Seq(Cell) /\ Len(V) = Len(W) - 1 /\ \A i \in 1..Len(V) : V[i] = W[1 + i]
  BY <1>7 DEF After
<1>9. Joined(V, n - 1)
  <2>1. /\ Len(W) = n + Len(fifo) + Len(line)
        /\ \A i \in 1..Len(fifo) : W[n + i] = fifo[i]
        /\ \A i \in 1..Len(line) : W[n + Len(fifo) + i] = line[i]
        /\ \A i \in 2..Len(line) : ~line[i].start
    BY <1>1 DEF Joined
  <2>2. Len(V) = n - 1 + Len(fifo) + Len(line) /\ n - 1 \in Nat
    BY ONLY <1>2, <1>3, <1>8, <2>1
  <2>3. ASSUME NEW i \in 1..Len(fifo) PROVE V[n - 1 + i] = fifo[i]
    <3>1. n - 1 + i \in 1..Len(V) /\ 1 + (n - 1 + i) = n + i
      BY ONLY <1>2, <1>3, <2>2, i \in 1..Len(fifo)
    <3>2. QED
      BY <1>8, <2>1, <3>1
  <2>4. ASSUME NEW i \in 1..Len(line) PROVE V[n - 1 + Len(fifo) + i] = line[i]
    <3>1. n - 1 + Len(fifo) + i \in 1..Len(V)
          /\ 1 + (n - 1 + Len(fifo) + i) = n + Len(fifo) + i
      BY ONLY <1>2, <1>3, <2>2, i \in 1..Len(line)
    <3>2. QED
      BY <1>8, <2>1, <3>1
  <2>5. QED
    BY <1>8, <2>1, <2>2, <2>3, <2>4 DEF Joined
<1>10. ASSUME NEW k \in 1..Len(Unread) PROVE (p[k] <= n - 1) <=> (k <= Len(current))
  <2>1. p[k] = pos[k] - 1 /\ pos[k] \in 1..Len(W)
    <3>1. 0 + k = k
      OBVIOUS
    <3>2. p[k] = pos[0 + k] - 1
      BY ONLY <1>7, k \in 1..Len(Unread)
    <3>3. pos[k] \in 1..Len(W)
      BY ONLY <1>1, k \in 1..Len(Unread) DEF Carries
    <3>4. QED
      BY ONLY <3>1, <3>2, <3>3
  <2>2. (p[k] <= n - 1) <=> (pos[k] <= n)
    BY <1>2, <2>1
  <2>3. QED
    BY <1>1, <2>2
<1>11. Stream(V, n - 1, p)
  <2>1. ~whole
    <3>1. W # <<>> /\ pc \notin {"drain", "raw"}
      BY <1>2, <1>3
    <3>2. QED
      BY <1>1, <1>4, <3>1 DEF Orderly, Front
  <2>2. Orderly(V, Unread, p)
    BY <1>1, <1>7, <2>1 DEF Orderly, Follows
  <2>3. QED
    BY <1>1, <1>7, <1>9, <1>10, <2>2 DEF Stream
<1>12. n - 1 \in Nat /\ \A i \in 1..n - 1 : V[i].byte = recent[i + 1]
  <2>1. n - 1 \in Nat
    BY <1>2, <1>3
  <2>2. ASSUME NEW i \in 1..n - 1 PROVE V[i].byte = recent[i + 1]
    <3>1. i \in 1..Len(V) /\ 1 + i \in 1..n /\ 1 + i = i + 1
      BY ONLY <1>2, <1>3, <1>8, i \in 1..n - 1
    <3>2. QED
      BY <1>8, <3>1 DEF MarkerRead
  <2>3. QED
    BY <2>1, <2>2
<1>13. QED
  BY <1>11, <1>12

LEMMA MarkerByteKeeps ==
    ASSUME KeepsStep, ChannelInv, MarkerByte PROVE ChannelInv' /\ Unread' = Unread
<1>1. PICK W, n, pos : Stream(W, n, pos) /\ Reader(W, n, pos)
  BY InvParts
<1>2. Typed /\ SearchInv
  BY InvParts
<1> DEFINE b == Head(fifo).byte
<1>3. /\ pc = "marker" /\ matched < L /\ GetChar /\ fifo # <<>>
      /\ recent' = LastBytes(L, Append(recent, b))
      /\ UNCHANGED <<pc, got, left, status, size>>
  BY DEF MarkerByte, result, GetChar
<1>4. /\ Busy /\ Busy' /\ pc' # "idle" /\ MarkerRead(W, n) /\ got = <<>>
      /\ (status = "READING") <=> Busy
  BY <1>1, <1>3 DEF Reader, Busy
<1>5. L \in Nat /\ L > 0 /\ n = Len(recent) /\ n <= L /\ n \in Nat /\ recent \in Seq(Byte)
  BY <1>2, <1>4, Sizes DEF KeepsStep, MarkerRead, Typed
<1>6. b \in Byte
  <2>1. fifo \in Seq(Cell)
    BY <1>2 DEF Typed
  <2>2. Head(fifo) \in Cell
    BY <1>3, <2>1, HeadTail
  <2>3. QED
    BY <2>2 DEF Cell
<1>7. Head(fifo).start => current = <<>>
  BY <1>1, <1>2, <1>3, <1>4, <1>5, NoStartInMarker
<1>8. /\ recent' \in Seq(Byte) /\ Len(recent') \in Nat
      /\ n < L => /\ Len(recent') = n + 1 /\ recent'[n + 1] = b
                  /\ \A i \in 1..n : recent'[i] = recent[i]
      /\ n = L => /\ Len(recent') = L /\ recent'[L] = b
                  /\ \A i \in 1..L - 1 : recent'[i] = recent[i + 1]
  <2> HIDE DEF b
  <2>1. /\ L \in Nat /\ L > 0 /\ recent \in Seq(Byte) /\ b \in Byte /\ Len(recent) <= L
    BY <1>5, <1>6
  <2>2. LET z == LastBytes(L, Append(recent, b))
        IN /\ z \in Seq(Byte) /\ Len(z) \in Nat
           /\ Len(recent) < L => /\ Len(z) = Len(recent) + 1 /\ z[Len(recent) + 1] = b
                                 /\ \A i \in 1..Len(recent) : z[i] = recent[i]
           /\ Len(recent) = L => /\ Len(z) = L /\ z[L] = b
                                 /\ \A i \in 1..L - 1 : z[i] = recent[i + 1]
    BY ONLY <2>1, LastOfAppend
  <2>3. QED
    BY <1>3, <1>5, <2>2
<1>9. ASSUME NEW V, NEW m, NEW p, Stream(V, m, p), m \in Nat, m + 1 = Len(recent'),
             Len(recent') <= L, \A i \in 1..m : V[i].byte = recent'[i], recent'[m + 1] = b
      PROVE  ChannelInv' /\ Unread' = Unread
  <2>1. /\ Stream(V, m + 1, p)' /\ fifo' \in Seq(Cell) /\ UNCHANGED <<line, sent, clean, whole>>
        /\ awaited' \in Seq(Frames) /\ current' \in Seq(Frames)
        /\ V[m + 1] = Head(fifo) /\ Unread' = Unread
    BY <1>2, <1>3, <1>4, <1>7, <1>9, ByteTaken
  <2>2. MarkerRead(V, m + 1)'
    <3>1. \A i \in 1..m + 1 : i \in 1..m \/ i = m + 1
      BY <1>9
    <3>2. QED
      BY <1>9, <2>1, <3>1 DEF MarkerRead
  <2>3. Reader(V, m + 1, p)'
    BY <1>3, <1>4, <2>2 DEF Reader
  <2>4. Typed'
    BY <1>2, <1>3, <1>8, <2>1 DEF Typed, Frames
  <2>5. SearchInv'
    BY <1>2, MarkerByteKeepsSearch
  <2>6. QED
    BY <2>1, <2>3, <2>4, <2>5 DEF ChannelInv
<1> HIDE DEF b
<1>10. CASE n < L
  <2>1. \A i \in 1..n : W[i].byte = recent'[i]
    BY <1>4, <1>8, <1>10 DEF MarkerRead
  <2>2. n + 1 <= L
    BY <1>5, <1>10
  <2>3. QED
    BY <1>1, <1>5, <1>8, <1>9, <1>10, <2>1, <2>2
<1>11. CASE n = L
  <2>1. PICK V, p : /\ Stream(V, n - 1, p) /\ n - 1 \in Nat
                    /\ \A i \in 1..n - 1 : V[i].byte = recent[i + 1]
    BY <1>1, <1>2, <1>3, <1>4, <1>11, Slid
  <2>2. PICK m : m = n - 1
    OBVIOUS
  <2>3. Stream(V, m, p) /\ m \in Nat /\ m + 1 = L
    <3>1. m + 1 = L
      BY <1>5, <1>11, <2>2
    <3>2. QED
      BY <2>1, <2>2, <3>1
  <2>4. \A i \in 1..m : V[i].byte = recent'[i]
    BY <1>8, <1>11, <2>1, <2>2
  <2>5. m + 1 = Len(recent') /\ Len(recent') <= L /\ recent'[m + 1] = b
    BY <1>5, <1>8, <1>11, <2>3
  <2>6. QED
    BY <1>9, <2>3, <2>4, <2>5
<1>12. QED
  BY <1>5, <1>10, <1>11

-----------------------------------------------------------------------------
(* Setting up and draining keep the invariant *)

\* Outside a call the stream begins with the FIFO.
LEMMA IdleTypes ==
    ASSUME Typed, NEW W, NEW n, NEW pos, Stream(W, n, pos), ~Busy
    PROVE  /\ W \in Seq(Cell) /\ Len(W) \in Nat /\ n = 0 /\ Unread = awaited
           /\ Carries(W, awaited, pos) /\ Remembered(sent, W) /\ Joined(W, 0)
           /\ awaited \in Seq(Frames) /\ Len(awaited) \in Nat
           /\ Len(fifo) \in Nat /\ Len(line) \in Nat /\ Len(W) = Len(fifo) + Len(line)
           /\ Len(current) <= 1 /\ current \in Seq(Frames)
<1>1. n = 0 /\ Unread = awaited
  BY DEF Stream, Unread
<1>2. /\ W \in Seq(Cell) /\ Len(W) \in Nat
      /\ awaited \in Seq(Frames) /\ Len(awaited) \in Nat
      /\ Len(fifo) \in Nat /\ Len(line) \in Nat /\ Len(W) = n + Len(fifo) + Len(line)
      /\ current \in Seq(Frames)
  BY StreamTypes
<1>3. /\ Carries(W, awaited, pos) /\ Remembered(sent, W) /\ Joined(W, 0) /\ Len(current) <= 1
  BY <1>1 DEF Stream
<1>4. Len(W) = Len(fifo) + Len(line)
  BY <1>1, <1>2
<1>5. QED
  BY <1>1, <1>2, <1>3, <1>4

\* Outside a call the stream begins with the FIFO; d bytes and the m frames
\* that begin in them are dropped.
LEMMA IdleDrop ==
    ASSUME KeepsStep, Typed, NEW W, NEW n, NEW pos, Stream(W, n, pos), ~Busy, ~Busy',
           NEW d \in Nat, d <= Len(W), NEW m \in Nat, m <= Len(awaited),
           Passed(awaited, pos, d, m), AfterFrames(awaited, m, awaited'),
           UNCHANGED <<line, sent>>, fifo' \in Seq(Cell),
           Len(W) = d + Len(fifo') + Len(line),
           \A i \in 1..Len(fifo') : W[d + i] = fifo'[i],
           \A i \in 1..Len(line) : W[d + Len(fifo') + i] = line[i],
           Len(current') <= 1, pc' = "idle" => current' = <<>>,
           UNCHANGED clean, whole' => whole,
           \A V : Joined(V, 0)' /\ whole' /\ pc' \notin {"drain", "raw"} => Front(V)
    PROVE  \E V, p : Stream(V, 0, p)'
<1>1. /\ W \in Seq(Cell) /\ Len(W) \in Nat
      /\ Carries(W, awaited, pos) /\ Remembered(sent, W) /\ Joined(W, 0)
      /\ awaited \in Seq(Frames) /\ Len(line) \in Nat
  BY IdleTypes
<1>2. Len(fifo') \in Nat
  BY SeqFacts
<1>3. PICK V, p : /\ After(W, d, V) /\ Carries(V, awaited', p) /\ Remembered(sent, V)
                  /\ Follows(W, awaited, pos, V, awaited', p)
  <2>1. /\ KeepsStep /\ W \in Seq(Cell) /\ awaited \in Seq(Frames) /\ Carries(W, awaited, pos)
        /\ sent \in Seq(Byte) /\ Remembered(sent, W) /\ d \in Nat /\ d <= Len(W)
        /\ m \in Nat /\ m <= Len(awaited) /\ Passed(awaited, pos, d, m)
        /\ AfterFrames(awaited, m, awaited')
    BY <1>1 DEF Typed
  <2>2. PICK Q : Q = awaited'
    OBVIOUS
  <2>3. AfterFrames(awaited, m, Q)
    BY <2>1, <2>2
  <2>4. \E V, p : /\ After(W, d, V) /\ Carries(V, Q, p) /\ Remembered(sent, V)
                  /\ Follows(W, awaited, pos, V, Q, p)
                  /\ \A k \in 1..Len(Q) : p[k] = pos[m + k] - d
    BY ONLY <2>1, <2>3, Dropped
  <2>5. QED
    BY <2>2, <2>4
<1>4. /\ V \in Seq(Cell) /\ Len(V) = Len(W) - d /\ \A i \in 1..Len(V) : V[i] = W[d + i]
  BY <1>3 DEF After
<1>5. Joined(V, 0)'
  <2>1. Len(V) = 0 + Len(fifo') + Len(line)
    BY ONLY <1>1, <1>2, <1>4, d \in Nat, Len(W) = d + Len(fifo') + Len(line)
  <2>2. ASSUME NEW i \in 1..Len(fifo') PROVE V[0 + i] = fifo'[i]
    <3>1. i \in 1..Len(V) /\ 0 + i = i
      BY ONLY <1>1, <1>2, <2>1, i \in 1..Len(fifo')
    <3>2. QED
      BY <1>4, <3>1
  <2>3. ASSUME NEW i \in 1..Len(line) PROVE V[0 + Len(fifo') + i] = line[i]
    <3> DEFINE j == Len(fifo') + i
    <3>1. j \in 1..Len(V) /\ 0 + Len(fifo') + i = j /\ d + j = d + Len(fifo') + i
      BY ONLY <1>1, <1>2, <2>1, i \in 1..Len(line), d \in Nat
    <3> HIDE DEF j
    <3>2. QED
      BY <1>4, <3>1
  <2>4. \A i \in 2..Len(line) : ~line[i].start
    BY <1>1 DEF Joined
  <2>5. QED
    BY <1>4, <2>1, <2>2, <2>3, <2>4 DEF Joined
<1>6. Unread' = awaited'
  BY DEF Unread
<1>7. Orderly(V, Unread, p)'
  <2>1. Orderly(W, awaited, pos)
    BY IdleTypes DEF Stream
  <2>2. clean' => Marked(V)
    BY <1>3, <2>1 DEF Orderly, Follows
  <2>3. whole' => Contiguous(V, awaited', p)
    BY <1>3, <2>1 DEF Orderly, Follows
  <2>4. QED
    BY <1>5, <1>6, <2>2, <2>3 DEF Orderly
<1>8. QED
  BY <1>3, <1>5, <1>6, <1>7 DEF Stream

LEMMA HeadFrames ==
    ASSUME NEW Q \in Seq(Frames), NEW m \in {0, 1}, m <= Len(Q)
    PROVE  AfterFrames(Q, m, IF m = 1 THEN Tail(Q) ELSE Q)
<1>1. CASE m = 0
  <2>1. Len(Q) \in Nat /\ \A k \in 1..Len(Q) : 0 + k = k
    OBVIOUS
  <2>2. QED
    BY <1>1, <2>1 DEF AfterFrames
<1>2. CASE m = 1
  <2>1. Len(Q) \in Nat /\ Q # <<>>
    BY <1>2
  <2>2. /\ Tail(Q) \in Seq(Frames) /\ Len(Tail(Q)) = Len(Q) - 1
        /\ \A i \in 1..Len(Q) - 1 : Tail(Q)[i] = Q[i + 1]
    BY <2>1, HeadTail
  <2>3. \A i \in 1..Len(Tail(Q)) : Tail(Q)[i] = Q[1 + i]
    BY <2>1, <2>2
  <2>4. QED
    BY <1>2, <2>2, <2>3 DEF AfterFrames
<1>3. QED
  BY <1>1, <1>2

LEMMA DrainByteKeeps ==
    ASSUME KeepsStep, ChannelInv, DrainByte
    PROVE  ChannelInv' /\ (Head(fifo).start => awaited # <<>>)
<1>1. PICK W, n, pos : Stream(W, n, pos) /\ Reader(W, n, pos)
  BY InvParts
<1>2. Typed /\ SearchInv
  BY InvParts
<1>3. /\ pc \in {"drain", "raw"} /\ fifo # <<>> /\ fifo' = Tail(fifo)
      /\ Head(fifo).start => current' = <<Head(awaited)>> /\ awaited' = Tail(awaited)
      /\ ~Head(fifo).start => current' = current /\ awaited' = awaited
      /\ UNCHANGED <<line, sent, clean, whole, pc, matched, got, left, recent, status, size>>
  BY DEF DrainByte, GetChar, call, result, frames
<1>4. ~Busy /\ ~Busy' /\ pc' # "idle"
  BY <1>3 DEF Busy
<1>5. /\ W \in Seq(Cell) /\ Len(W) \in Nat /\ Carries(W, awaited, pos) /\ Joined(W, 0)
      /\ awaited \in Seq(Frames) /\ Len(awaited) \in Nat /\ Len(current) <= 1
      /\ current \in Seq(Frames)
  BY <1>1, <1>2, <1>4, IdleTypes
<1>6. /\ 1 <= Len(W) /\ W[1] = Head(fifo) /\ fifo' \in Seq(Cell)
      /\ Len(W) = 1 + Len(fifo') + Len(line)
      /\ \A i \in 1..Len(fifo') : W[1 + i] = fifo'[i]
      /\ \A i \in 1..Len(line) : W[1 + Len(fifo') + i] = line[i]
  <2>1. PICK z : z = 0
    OBVIOUS
  <2>2. Joined(W, z)
    BY <1>5, <2>1
  <2>3. /\ z + 1 <= Len(W) /\ W[z + 1] = Head(fifo)
        /\ Tail(fifo) \in Seq(Cell)
        /\ Len(W) = z + 1 + Len(Tail(fifo)) + Len(line)
        /\ \A i \in 1..Len(Tail(fifo)) : W[z + 1 + i] = Tail(fifo)[i]
        /\ \A i \in 1..Len(line) : W[z + 1 + Len(Tail(fifo)) + i] = line[i]
    BY <1>2, <1>3, <2>2, NextCell
  <2>4. z + 1 = 1
    BY <2>1
  <2>5. QED
    BY ONLY <1>3, <2>3, <2>4
<1>7. PICK m : m = IF Head(fifo).start THEN 1 ELSE 0
  OBVIOUS
<1>8. m <= Len(awaited) /\ Passed(awaited, pos, 1, m)
  <2>1. Passed(awaited, pos, 0, 0)
    <3>1. \A k \in 1..Len(awaited) : pos[k] \in 1..Len(W)
      BY <1>5 DEF Carries
    <3>2. \A k \in 1..Len(awaited) : ~(pos[k] <= 0) /\ ~(k <= 0)
      BY <1>5, <3>1
    <3>3. QED
      BY <3>2 DEF Passed
  <2>2. PICK z : z = 0
    OBVIOUS
  <2>3. /\ KeepsStep /\ W \in Seq(Cell) /\ awaited \in Seq(Frames) /\ Carries(W, awaited, pos)
        /\ z \in Nat /\ z + 1 <= Len(W) /\ z <= Len(awaited) /\ Passed(awaited, pos, z, z)
    BY <1>5, <1>6, <2>1, <2>2
  <2>4. /\ W[z + 1].start => z + 1 \in 1..Len(awaited) /\ pos[z + 1] = z + 1
        /\ Passed(awaited, pos, z + 1, IF W[z + 1].start THEN z + 1 ELSE z)
    BY ONLY <2>3, TakeCell
  <2>5. /\ Head(fifo).start => 1 \in 1..Len(awaited)
        /\ Passed(awaited, pos, 1, IF Head(fifo).start THEN 1 ELSE 0)
    <3>1. z + 1 = 1
      BY <2>2
    <3>2. QED
      BY ONLY <1>6, <2>2, <2>4, <3>1
  <2>6. QED
    BY <1>5, <1>7, <2>5
<1>9. AfterFrames(awaited, m, awaited')
  <2>1. awaited' = IF m = 1 THEN Tail(awaited) ELSE awaited
    BY <1>3, <1>7
  <2>2. m \in {0, 1}
    BY <1>7
  <2>3. QED
    BY <1>5, <1>8, <2>1, <2>2, HeadFrames
<1>10. awaited' \in Seq(Frames) /\ current' \in Seq(Frames) /\ Len(current') <= 1
  <2>1. awaited' \in Seq(Frames)
    BY <1>9 DEF AfterFrames
  <2>2. CASE Head(fifo).start
    <3>1. awaited # <<>>
      BY <1>5, <1>7, <1>8, <2>2
    <3>2. <<Head(awaited)>> \in Seq(Frames) /\ Len(<<Head(awaited)>>) = 1
      BY <1>5, <3>1, HeadRest
    <3>3. current' = <<Head(awaited)>>
      BY <1>3, <2>2, Zenon
    <3>4. QED
      BY ONLY <2>1, <3>2, <3>3
  <2>3. CASE ~Head(fifo).start
    <3>1. current' = current
      BY <1>3, <2>3, Zenon
    <3>2. QED
      BY ONLY <1>5, <2>1, <3>1
  <2>4. QED
    BY <2>2, <2>3
<1>11. PICK V, p : Stream(V, 0, p)'
  <2>1. m \in Nat
    BY <1>7
  <2>2. PICK d : d = 1
    OBVIOUS
  <2>3. /\ KeepsStep /\ Typed /\ Stream(W, n, pos) /\ ~Busy /\ ~Busy'
        /\ d \in Nat /\ d <= Len(W) /\ m \in Nat /\ m <= Len(awaited)
        /\ Passed(awaited, pos, d, m) /\ AfterFrames(awaited, m, awaited')
        /\ UNCHANGED <<line, sent>> /\ fifo' \in Seq(Cell)
        /\ Len(W) = d + Len(fifo') + Len(line)
        /\ \A i \in 1..Len(fifo') : W[d + i] = fifo'[i]
        /\ \A i \in 1..Len(line) : W[d + Len(fifo') + i] = line[i]
        /\ Len(current') <= 1 /\ (pc' = "idle" => current' = <<>>)
        /\ UNCHANGED clean /\ (whole' => whole)
        /\ \A U : Joined(U, 0)' /\ whole' /\ pc' \notin {"drain", "raw"} => Front(U)
    BY <1>1, <1>2, <1>3, <1>4, <1>6, <1>8, <1>9, <1>10, <2>1, <2>2
  <2>4. QED
    BY ONLY <2>3, IdleDrop
<1>12. Reader(V, 0, p)'
  BY <1>1, <1>3, <1>4 DEF Reader, Busy
<1>13. Typed'
  BY <1>2, <1>3, <1>6, <1>10 DEF Typed, Frames
<1>14. SearchInv'
  BY <1>2, <1>3, OthersKeepSearch
<1>15. Head(fifo).start => awaited # <<>>
  BY <1>5, <1>7, <1>8
<1>16. QED
  BY <1>11, <1>12, <1>13, <1>14, <1>15 DEF ChannelInv

\* Steps that leave the stream alone, outside of calls.
LEMMA DrainEdgesKeep == ASSUME ChannelInv, DrainBegin \/ DrainEnd PROVE ChannelInv'
<1>1. PICK W, n, pos : Stream(W, n, pos) /\ Reader(W, n, pos)
  BY InvParts
<1>2. Typed /\ SearchInv
  BY InvParts
<1>3. /\ pc \in {"idle", "drain", "raw"} /\ pc' \in {"idle", "drain", "raw"}
      /\ pc' = "idle" => current' = <<>>
      /\ current' = current \/ current' = <<>>
      /\ status' = "IDLE" /\ size' = 0
      /\ UNCHANGED <<line, fifo, sent, clean, matched, got, left, recent, awaited>>
      /\ whole' \in BOOLEAN /\ (whole' => whole)
      /\ whole' /\ pc' \notin {"drain", "raw"} => AtBoundary(fifo)
  <2>1. CASE DrainBegin
    BY <1>2, <2>1 DEF DrainBegin, wire, frames, Typed
  <2>2. CASE DrainEnd
    BY <1>1, <2>2 DEF DrainEnd, wire, result, Reader
  <2>3. QED
    BY <2>1, <2>2
<1>4. ~Busy /\ ~Busy'
  BY <1>3 DEF Busy
<1>5. Len(current') <= 1 /\ current' \in Seq(Frames)
  <2>1. Len(current) <= 1 /\ current \in Seq(Frames)
    BY <1>1, <1>2 DEF Stream, Typed, Frames
  <2>2. Len(<<>>) = 0 /\ <<>> \in Seq(Frames)
    OBVIOUS
  <2>3. CASE current' = current
    BY <2>1, <2>3
  <2>4. CASE current' = <<>>
    BY <2>2, <2>4
  <2>5. QED
    BY <1>3, <2>3, <2>4
<1>6. Stream(W, n, pos)'
  <2>1. Unread' = Unread
    BY <1>3, <1>4 DEF Unread
  <2>2. Joined(W, n)'
    BY <1>1, <1>3 DEF Stream, Joined
  <2>3. AtBoundary(fifo) => Front(W)
    <3>1. /\ W \in Seq(Cell) /\ Joined(W, 0) /\ fifo \in Seq(Cell) /\ line \in Seq(Cell)
          /\ Len(fifo) \in Nat /\ Len(W) = Len(fifo) + Len(line)
      <4>1. ~Busy
        BY <1>4
      <4>2. QED
        BY <1>1, <1>2, <4>1, IdleTypes DEF Typed
    <3>2. 0 + Len(fifo) = Len(fifo) /\ \A i \in 1..Len(fifo) : 0 + i = i
      BY <3>1
    <3>3. /\ \A i \in 1..Len(fifo) : W[i] = fifo[i]
          /\ \A i \in 1..Len(line) : W[Len(fifo) + i] = line[i]
      BY <3>1, <3>2 DEF Joined
    <3>4. ASSUME AtBoundary(fifo) PROVE Front(W)
      <4>1. LET rest == fifo \o line IN rest = <<>> \/ Head(rest).start
        BY <3>4 DEF AtBoundary
      <4>2. QED
        BY ONLY <3>1, <3>3, <4>1, AtFront
    <3>5. QED
      BY <3>4
  <2>4. Orderly(W, Unread, pos)'
    BY <1>1, <1>3, <2>1, <2>3 DEF Stream, Orderly
  <2>5. QED
    BY <1>1, <1>3, <1>4, <1>5, <2>1, <2>2, <2>4 DEF Stream
<1>7. Reader(W, n, pos)'
  BY <1>3, <1>4 DEF Reader, Busy
<1>8. Typed'
  BY <1>2, <1>3, <1>5 DEF Typed, Frames
<1>9. SearchInv'
  BY <1>2, <1>3, OthersKeepSearch
<1>10. QED
  BY <1>6, <1>7, <1>8, <1>9 DEF ChannelInv

\* What is still on the line when the FIFO is reset: at most one beginning of
\* a frame, its first cell, and that frame is the last.
LEMMA FlushedFrames ==
    ASSUME KeepsStep, NEW W \in Seq(Cell), NEW Q \in Seq(Frames), NEW pos, Carries(W, Q, pos),
           NEW F \in Nat, NEW ln \in Seq(Cell), Len(W) = F + Len(ln),
           \A i \in 1..Len(ln) : W[F + i] = ln[i],
           \A i \in 2..Len(ln) : ~ln[i].start,
           NEW c, c = IF \E i \in DOMAIN ln : ln[i].start THEN 1 ELSE 0
    PROVE  /\ c \in Nat /\ c <= Len(Q) /\ Len(Q) - c \in Nat
           /\ Passed(Q, pos, F, Len(Q) - c)
           /\ AfterFrames(Q, Len(Q) - c, LastBytes(c, Q))
<1>1. /\ Len(Q) \in Nat /\ Len(ln) \in Nat /\ Len(W) \in Nat /\ DOMAIN ln = 1..Len(ln)
      /\ c \in Nat
  BY SeqFacts
<1>2. /\ pos \in [1..Len(Q) -> 1..Len(W)]
      /\ \A k \in 1..Len(Q) : Q[k].payload \in Payloads
      /\ \A j, k \in 1..Len(Q) : j < k => pos[j] + Size(Q[j]) <= pos[k]
      /\ \A i \in 1..Len(W) : W[i].start <=> \E k \in 1..Len(Q) : pos[k] = i
  BY DEF Carries
<1>3. \A k \in 1..Len(Q) : Size(Q[k]) \in Nat /\ Size(Q[k]) >= 1
  <2>1. ASSUME NEW k \in 1..Len(Q) PROVE Size(Q[k]) \in Nat /\ Size(Q[k]) >= 1
    <3>1. PICK f : f = Q[k]
      OBVIOUS
    <3>2. Size(f) \in Nat /\ Size(f) >= L + 1 /\ L \in Nat
      BY <1>2, <3>1, SizeType
    <3>3. QED
      BY <3>1, <3>2
  <2>2. QED
    BY <2>1
<1>4. \A k \in 1..Len(Q) : pos[k] \in Nat /\ pos[k] >= 1 /\ pos[k] <= Len(W)
  BY <1>1, <1>2
<1>5. \A k \in 1..Len(Q) : pos[k] <= F \/ (pos[k] = F + 1 /\ 1 \in 1..Len(ln) /\ ln[1].start)
  <2>1. ASSUME NEW k \in 1..Len(Q), ~(pos[k] <= F)
        PROVE  pos[k] = F + 1 /\ 1 \in 1..Len(ln) /\ ln[1].start
    <3>1. PICK i : i = pos[k] - F
      OBVIOUS
    <3>2. i \in 1..Len(ln) /\ F + i = pos[k]
      BY <1>1, <1>4, <2>1, <3>1
    <3>3. W[pos[k]].start /\ W[F + i] = ln[i]
      <4>1. pos[k] \in 1..Len(W)
        BY <1>2
      <4>2. W[pos[k]].start
        BY <1>2, <4>1
      <4>3. QED
        BY <3>2, <4>2
    <3>4. ln[i].start
      BY <3>2, <3>3
    <3>5. i = 1
      BY <1>1, <3>2, <3>4
    <3>6. QED
      BY <3>2, <3>4, <3>5
  <2>2. QED
    BY <2>1
<1>6. \A j, k \in 1..Len(Q) : j < k => pos[j] < pos[k]
  BY <1>1, <1>2, <1>3, <1>4
<1>7. c <= Len(Q) /\ Passed(Q, pos, F, Len(Q) - c)
  <2>1. CASE \E i \in DOMAIN ln : ln[i].start
    <3>1. c = 1
      BY <2>1
    <3>2. 1 \in 1..Len(ln) /\ ln[1].start
      BY <1>1, <2>1
    <3>3. F + 1 \in 1..Len(W) /\ W[F + 1].start
      <4>1. F + 1 \in 1..Len(W)
        BY <1>1, <3>2
      <4>2. W[F + 1] = ln[1]
        BY <3>2
      <4>3. QED
        BY <3>2, <4>1, <4>2
    <3>4. PICK k \in 1..Len(Q) : pos[k] = F + 1
      BY <1>2, <3>3
    <3>5. k = Len(Q)
      <4>1. SUFFICES ASSUME k < Len(Q) PROVE FALSE
        BY <1>1
      <4>2. Len(Q) \in 1..Len(Q)
        BY <1>1
      <4>3. pos[k] < pos[Len(Q)]
        BY <1>6, <4>1, <4>2
      <4>4. PICK a : a = pos[Len(Q)]
        OBVIOUS
      <4>5. a \in Nat /\ (a <= F \/ a = F + 1) /\ F + 1 < a
        <5>1. a \in Nat
          BY <1>4, <4>2, <4>4
        <5>2. a <= F \/ a = F + 1
          BY <1>5, <4>2, <4>4
        <5>3. QED
          BY <3>4, <4>3, <4>4, <5>1, <5>2
      <4>6. F \in Nat
        OBVIOUS
      <4>7. QED
        BY ONLY <4>5, <4>6
    <3>6. ASSUME NEW j \in 1..Len(Q) PROVE (pos[j] <= F) <=> (j <= Len(Q) - 1)
      <4>1. CASE j = k
        BY <1>1, <3>4, <3>5, <4>1
      <4>2. CASE j # k
        <5>1. j < k /\ j <= Len(Q) - 1
          BY <1>1, <3>5, <4>2
        <5>2. pos[j] < pos[k]
          BY <1>6, <5>1
        <5>3. QED
          BY <1>4, <3>4, <5>1, <5>2
      <4>3. QED
        BY <4>1, <4>2
    <3>7. QED
      BY <1>1, <3>1, <3>4, <3>6 DEF Passed
  <2>2. CASE ~\E i \in DOMAIN ln : ln[i].start
    <3>1. c = 0 /\ Len(Q) - c = Len(Q)
      BY <1>1, <2>2
    <3>2. ASSUME NEW j \in 1..Len(Q) PROVE (pos[j] <= F) <=> (j <= Len(Q))
      BY <1>1, <1>5, <2>2
    <3>3. QED
      BY <1>1, <3>1, <3>2 DEF Passed
  <2>3. QED
    BY <2>1, <2>2
<1>8. Len(Q) - c \in Nat
  BY <1>1, <1>7
<1>9. AfterFrames(Q, Len(Q) - c, LastBytes(c, Q))
  <2>1. PICK z : z = LastBytes(c, Q)
    OBVIOUS
  <2>2. /\ z \in Seq(Frames) /\ Len(z) = (IF Len(Q) <= c THEN Len(Q) ELSE c)
        /\ \A i \in 1..Len(z) : z[i] = Q[Len(Q) - Len(z) + i]
    <3>1. Q \in Seq(Frames) /\ c \in Nat
      BY <1>1
    <3>2. QED
      BY ONLY <2>1, <3>1, LastBytesIs
  <2>3. Len(z) = c
    BY ONLY <1>1, <1>7, <2>2
  <2>4. Len(z) = Len(Q) - (Len(Q) - c)
    BY <1>1, <2>3
  <2>5. QED
    BY <2>1, <2>2, <2>3, <2>4 DEF AfterFrames
<1>10. QED
  BY <1>1, <1>7, <1>8, <1>9

LEMMA UartInitKeeps == ASSUME KeepsStep, ChannelInv, UartInit PROVE ChannelInv'
<1>1. PICK W, n, pos : Stream(W, n, pos) /\ Reader(W, n, pos)
  BY InvParts
<1>2. Typed /\ SearchInv
  BY InvParts
<1> DEFINE c == IF \E i \in DOMAIN line : line[i].start THEN 1 ELSE 0
<1>3. /\ pc = "idle" /\ pc' = "idle" /\ status' = "IDLE" /\ size' = 0
      /\ UNCHANGED <<line, sent, clean, matched, got, left, recent, current>>
      /\ \/ /\ fifo' = <<>> /\ awaited' = LastBytes(c, awaited)
            /\ whole' = (whole /\ AtBoundary(<<>>))
         \/ UNCHANGED <<fifo, awaited, whole>>
  BY DEF UartInit, call
<1>4. ~Busy /\ ~Busy'
  BY <1>3 DEF Busy
<1>5. /\ W \in Seq(Cell) /\ Len(W) \in Nat /\ Carries(W, awaited, pos) /\ Joined(W, 0)
      /\ awaited \in Seq(Frames) /\ Len(awaited) \in Nat /\ current \in Seq(Frames)
      /\ Len(fifo) \in Nat /\ Len(line) \in Nat /\ Len(W) = Len(fifo) + Len(line)
  BY <1>1, <1>2, <1>4, IdleTypes
<1>6. current' = <<>> /\ Len(current') <= 1
  <2>1. Len(<<>>) = 0
    OBVIOUS
  <2>2. QED
    BY <1>1, <1>3, <2>1 DEF Stream
<1>7. ASSUME NEW V, NEW p, Stream(V, 0, p)', fifo' \in Seq(Cell), awaited' \in Seq(Frames),
             whole' \in BOOLEAN
      PROVE  ChannelInv'
  <2>1. Reader(V, 0, p)'
    BY <1>3, <1>4 DEF Reader, Busy
  <2>2. Typed'
    BY <1>2, <1>3, <1>7 DEF Typed, Frames
  <2>3. SearchInv'
    BY <1>2, <1>3, OthersKeepSearch
  <2>4. QED
    BY <1>7, <2>1, <2>2, <2>3 DEF ChannelInv
<1>8. CASE /\ fifo' = <<>> /\ awaited' = LastBytes(c, awaited)
           /\ whole' = (whole /\ AtBoundary(<<>>))
  <2>1. PICK F, m : F = Len(fifo) /\ m = Len(awaited) - c
    OBVIOUS
  <2>2. /\ line \in Seq(Cell) /\ Len(W) = F + Len(line)
        /\ \A i \in 1..Len(line) : W[F + i] = line[i]
        /\ \A i \in 2..Len(line) : ~line[i].start
    <3>1. \A i \in 1..Len(line) : 0 + Len(fifo) + i = F + i
      BY <1>5, <2>1
    <3>2. QED
      BY <1>2, <1>5, <2>1, <3>1 DEF Joined, Typed
  <2>3. PICK q, ln, e : q = awaited /\ ln = line /\ e = c
    OBVIOUS
  <2>4. /\ KeepsStep /\ W \in Seq(Cell) /\ q \in Seq(Frames) /\ Carries(W, q, pos)
        /\ F \in Nat /\ ln \in Seq(Cell) /\ Len(W) = F + Len(ln)
        /\ \A i \in 1..Len(ln) : W[F + i] = ln[i]
        /\ \A i \in 2..Len(ln) : ~ln[i].start
        /\ e = IF \E i \in DOMAIN ln : ln[i].start THEN 1 ELSE 0
    BY <1>5, <2>1, <2>2, <2>3
  <2>5. /\ e \in Nat /\ e <= Len(q) /\ Len(q) - e \in Nat
        /\ Passed(q, pos, F, Len(q) - e)
        /\ AfterFrames(q, Len(q) - e, LastBytes(e, q))
    BY ONLY <2>4, FlushedFrames, Zenon
  <2> HIDE DEF c
  <2>6. /\ m \in Nat /\ m <= Len(awaited) /\ Passed(awaited, pos, F, m)
        /\ AfterFrames(awaited, m, awaited')
    <3>1. m = Len(q) - e /\ awaited' = LastBytes(e, q)
      BY <1>8, <2>1, <2>3
    <3>2. m \in Nat /\ m <= Len(awaited)
      BY <1>5, <2>3, <2>5, <3>1
    <3>3. QED
      BY <2>3, <2>5, <3>1, <3>2
  <2>7. fifo' \in Seq(Cell) /\ Len(fifo') = 0
    BY <1>8
  <2>8. /\ F \in Nat /\ F <= Len(W) /\ Len(W) = F + Len(fifo') + Len(line)
        /\ \A i \in 1..Len(fifo') : W[F + i] = fifo'[i]
        /\ \A i \in 1..Len(line) : W[F + Len(fifo') + i] = line[i]
    <3>1. F \in Nat /\ F <= Len(W) /\ Len(W) = F + Len(fifo') + Len(line)
      BY <1>5, <2>1, <2>2, <2>7
    <3>2. \A i \in 1..Len(line) : F + Len(fifo') + i = F + i
      BY <1>5, <2>7, <3>1
    <3>3. QED
      BY <2>2, <2>7, <3>1, <3>2
  <2>9. /\ KeepsStep /\ Typed /\ Stream(W, n, pos) /\ ~Busy /\ ~Busy'
        /\ F \in Nat /\ F <= Len(W) /\ m \in Nat /\ m <= Len(awaited)
        /\ Passed(awaited, pos, F, m) /\ AfterFrames(awaited, m, awaited')
        /\ UNCHANGED <<line, sent>> /\ fifo' \in Seq(Cell)
        /\ Len(W) = F + Len(fifo') + Len(line)
        /\ \A i \in 1..Len(fifo') : W[F + i] = fifo'[i]
        /\ \A i \in 1..Len(line) : W[F + Len(fifo') + i] = line[i]
        /\ Len(current') <= 1 /\ (pc' = "idle" => current' = <<>>)
        /\ UNCHANGED clean /\ (whole' => whole)
        /\ \A V : Joined(V, 0)' /\ whole' /\ pc' \notin {"drain", "raw"} => Front(V)
    <3>1. ASSUME NEW V, Joined(V, 0)', whole' PROVE Front(V)
      <4>1. /\ <<>> \in Seq(Cell) /\ line \in Seq(Cell) /\ V \in Seq(Cell)
            /\ LET rest == <<>> \o line IN rest = <<>> \/ Head(rest).start
        <5>1. <<>> \in Seq(Cell) /\ line \in Seq(Cell)
          BY <2>2
        <5>2. V \in Seq(Cell)
          BY ONLY <3>1 DEF Joined
        <5>3. AtBoundary(<<>>)
          <6>1. whole' = (whole /\ AtBoundary(<<>>))
            BY ONLY <1>8
          <6>2. QED
            BY ONLY <3>1, <6>1, Zenon
        <5>4. LET rest == <<>> \o line IN rest = <<>> \/ Head(rest).start
          BY ONLY <5>3 DEF AtBoundary
        <5>5. QED
          BY ONLY <5>1, <5>2, <5>4
      <4>2. /\ Len(V) = Len(<<>>) + Len(line)
            /\ \A i \in 1..Len(<<>>) : V[i] = <<>>[i]
            /\ \A i \in 1..Len(line) : V[Len(<<>>) + i] = line[i]
        <5>1. /\ Len(V) = 0 + Len(fifo') + Len(line)
              /\ \A i \in 1..Len(line) : V[0 + Len(fifo') + i] = line[i]
          BY <1>3, <3>1 DEF Joined
        <5>2. Len(fifo') = 0 /\ Len(<<>>) = 0
          BY <2>7
        <5>3. QED
          BY <5>1, <5>2
      <4>3. QED
        BY ONLY <4>1, <4>2, AtFront
    <3>2. whole' => whole
      BY <1>8
    <3>3. QED
      BY <1>1, <1>2, <1>3, <1>4, <1>6, <2>6, <2>7, <2>8, <3>1, <3>2
  <2>10. \E V, p : Stream(V, 0, p)'
    BY ONLY <2>9, IdleDrop
  <2>11. awaited' \in Seq(Frames)
    BY <2>6 DEF AfterFrames
  <2>12. whole' \in BOOLEAN
    BY <1>8
  <2>13. QED
    BY <1>7, <2>7, <2>10, <2>11, <2>12
<1>9. CASE UNCHANGED <<fifo, awaited, whole>>
  <2>1. n = 0
    BY <1>1, <1>4 DEF Stream
  <2>2. Stream(W, n, pos)'
    <3>1. Unread' = Unread
      BY <1>3, <1>4, <1>9 DEF Unread
    <3>2. Joined(W, n)'
      BY <1>1, <1>3, <1>9 DEF Stream, Joined
    <3>3. Orderly(W, Unread, pos)'
      BY <1>1, <1>3, <1>9, <3>1 DEF Stream, Orderly
    <3>4. QED
      BY <1>1, <1>3, <1>4, <1>6, <3>1, <3>2, <3>3 DEF Stream
  <2>3. Stream(W, 0, pos)'
    BY <2>1, <2>2
  <2>4. fifo' \in Seq(Cell) /\ awaited' \in Seq(Frames) /\ whole' \in BOOLEAN
    BY <1>2, <1>5, <1>9 DEF Typed
  <2>5. QED
    BY <1>7, <2>3, <2>4
<1>10. QED
  BY <1>3, <1>8, <1>9

\* The whole of Next.
LEMMA StutterKeeps == ASSUME ChannelInv, UNCHANGED vars PROVE ChannelInv'
<1>1. UNCHANGED <<line, fifo, sent, clean, whole, pc, matched, got, left, recent, status, size,
                  awaited, current>>
  BY DEF vars, wire, call, result, frames
<1>2. Typed'
  BY <1>1, InvParts DEF Typed
<1>3. SearchInv'
  BY <1>1, InvParts, OthersKeepSearch
<1>4. PICK W, n, pos : Stream(W, n, pos) /\ Reader(W, n, pos)
  BY InvParts
<1>5. Unread' = Unread /\ Busy' = Busy /\ Needed' = Needed
  BY <1>1 DEF Unread, Busy, Needed, PayloadLength, LengthBytes
<1>6. Stream(W, n, pos)'
  BY <1>1, <1>4, <1>5 DEF Stream, Joined, Orderly
<1>7. Reader(W, n, pos)'
  BY <1>1, <1>4, <1>5 DEF Reader, MarkerRead, FieldsRead
<1>8. QED
  BY <1>2, <1>3, <1>6, <1>7 DEF ChannelInv

LEMMA ChannelInit == ASSUME KeepsStep, Init PROVE ChannelInv
<1>1. /\ line = <<>> /\ fifo = <<>> /\ sent = <<>> /\ pc = "idle" /\ got = <<>> /\ left = 0
      /\ recent = <<>> /\ status = "IDLE" /\ size = 0 /\ awaited = <<>> /\ current = <<>>
      /\ clean = TRUE /\ whole = TRUE
  BY DEF Init
<1>2. Typed
  BY <1>1 DEF Typed
<1>3. SearchInv
  BY InitSearch
<1> DEFINE W == <<>>
<1>4. L \in Nat /\ L > 0 /\ Len(W) = 0 /\ W \in Seq(Cell)
  BY Sizes DEF KeepsStep
<1>5. Unread = <<>> /\ ~Busy
  BY <1>1 DEF Unread, Busy
<1>6. PICK pos : pos = [k \in 1..Len(<<>>) |-> 1]
  OBVIOUS
<1>7. Carries(W, Unread, pos)
  <2>1. Len(Unread) = 0 /\ 1..Len(Unread) = {} /\ 1..Len(W) = {} /\ 1..Len(W) - L + 1 = {}
    BY <1>4, <1>5
  <2>2. pos \in [1..Len(Unread) -> 1..Len(W)]
    BY <1>6, <2>1
  <2>3. QED
    BY <2>1, <2>2 DEF Carries
<1>8. Remembered(sent, W)
  BY <1>1, <1>4 DEF Remembered
<1>9. Joined(W, 0)
  BY <1>1, <1>4 DEF Joined
<1>10. Stream(W, 0, pos)
  <2>1. Len(Unread) = 0 /\ 1..Len(Unread) = {} /\ 1..Len(W) - L + 1 = {}
    BY <1>4, <1>5
  <2>2. Orderly(W, Unread, pos)
    BY <2>1 DEF Orderly, Marked, Contiguous, Front
  <2>3. QED
    BY <1>1, <1>4, <1>5, <1>7, <1>8, <1>9, <2>2 DEF Stream
<1>11. Reader(W, 0, pos)
  BY <1>1, <1>5 DEF Reader
<1>12. QED
  BY <1>2, <1>3, <1>10, <1>11 DEF ChannelInv

LEMMA NextKeeps == ASSUME KeepsStep, ChannelInv, Tame, Next PROVE ChannelInv'
BY WriteFrameKeeps, WriteDamagedKeeps, MakeNoiseKeeps, ArriveKeeps, UartInitKeeps,
     CallKeeps,
   MarkerByteKeeps, MarkerFoundKeeps, FieldByteKeeps, DecodeKeeps, DiscardByteKeeps,
   ReturnsKeep, DrainEdgesKeep, DrainByteKeeps DEF Next, ReadStep, DrainStep

-----------------------------------------------------------------------------
(* Every step is one of the channel, or none *)

\* What the abstract channel sees while the part is "frames".
Queue == current \o awaited
Given == IF status = "OK" THEN Payload ELSE <<>>
Shown == IF status # "READING" THEN size ELSE 0

\* Steps of the first part.
Here == part = "frames" /\ part' = "frames"
Stays == Queue' = Queue /\ status' = status /\ Given' = Given /\ Shown' = Shown
Maps == Channel!Next \/ UNCHANGED Channel!vars

\* Each action of the channel, in these terms.
LEMMA StaysMaps == ASSUME Here, Stays PROVE Maps
BY DEF Here, Stays, Maps, Channel!vars, Queue, Given, Shown

LEMMA SendMaps ==
    ASSUME Here, NEW f \in Frames, Queue' = Append(Queue, f),
           status' = status, Given' = Given, Shown' = Shown
    PROVE  Maps
<1>1. Channel!Send
  BY DEF Here, Channel!Send, Channel!Frame, Frames, Queue, Given, Shown
<1>2. QED
  BY <1>1 DEF Maps, Channel!Next

LEMMA CallMaps ==
    ASSUME Here, status # "READING", status' \in {"READING", "INVALID_ARGUMENT"},
           Given' = <<>>, Shown' = 0, Queue' = Queue
    PROVE  Maps
<1>1. Channel!Call \/ Channel!Reject
  BY DEF Here, Channel!Call, Channel!Reject, Queue, Given, Shown
<1>2. QED
  BY <1>1 DEF Maps, Channel!Next

LEMMA FlushMaps ==
    ASSUME Here, status # "READING", status' = "IDLE", Given' = <<>>, Shown' = 0,
           NEW n \in 0..Len(Queue), Queue' = SubSeq(Queue, n + 1, Len(Queue))
    PROVE  Maps
<1>1. Channel!Flush
  BY DEF Here, Channel!Flush, Queue, Given, Shown
<1>2. QED
  BY <1>1 DEF Maps, Channel!Next

LEMMA OkMaps ==
    ASSUME Here, status = "READING", status' = "OK", Queue # <<>>, Queue' = Tail(Queue),
           Head(Queue).intact, Given' = Head(Queue).payload, Shown' = Len(Given')
    PROVE  Maps
<1>1. Channel!Ok
  BY DEF Here, Channel!Ok, Channel!Take, Queue, Given, Shown
<1>2. QED
  BY <1>1 DEF Maps, Channel!Next

LEMMA TooSmallMaps ==
    ASSUME Here, status = "READING", status' = "BUFFER_TOO_SMALL", Queue # <<>>,
           Queue' = Tail(Queue), Len(Head(Queue).payload) > BufferLength,
           Given' = <<>>, Shown' = Len(Head(Queue).payload)
    PROVE  Maps
<1>1. Channel!TooSmall
  BY DEF Here, Channel!TooSmall, Channel!Take, Queue, Given, Shown
<1>2. QED
  BY <1>1 DEF Maps, Channel!Next

LEMMA RefuseMaps ==
    ASSUME Here, status = "READING", NEW s \in {"END_MARKER_MISMATCH", "CHECKSUM_MISMATCH"},
           status' = s, Queue # <<>>, Queue' = Tail(Queue), ~Head(Queue).intact,
           Given' = <<>>, Shown' = 0
    PROVE  Maps
<1>1. Channel!Refuse
  BY DEF Here, Channel!Refuse, Channel!Take, Queue, Given, Shown
<1>2. QED
  BY <1>1 DEF Maps, Channel!Next

LEMMA TimeoutMaps ==
    ASSUME Here, status = "READING", status' = "TIMEOUT", Given' = <<>>,
           (Queue # <<>> /\ Queue' = Tail(Queue)) \/ Queue' = Queue
    PROVE  Maps
<1>1. Channel!Timeout
  BY DEF Here, Channel!Timeout, Channel!Take, Queue, Given
<1>2. QED
  BY <1>1 DEF Maps, Channel!Next

\* What follows from the invariant outside and during a call.
LEMMA QueueTypes ==
    ASSUME ChannelInv
    PROVE  /\ current \in Seq(Frames) /\ awaited \in Seq(Frames) /\ Queue \in Seq(Frames)
           /\ Len(current) \in {0, 1} /\ Len(awaited) \in Nat /\ Len(Queue) \in Nat
           /\ Len(Queue) = Len(current) + Len(awaited)
           /\ pc = "idle" => current = <<>>
           /\ Busy => Queue = Unread
           /\ (status = "READING") <=> Busy
           /\ pc \in {"drain", "raw"} => status = "IDLE" /\ size = 0
<1>1. PICK W, n, pos : Stream(W, n, pos) /\ Reader(W, n, pos)
  BY InvParts
<1>2. current \in Seq(Frames) /\ awaited \in Seq(Frames) /\ Len(current) \in {0, 1}
  BY <1>1, InvParts, StreamTypes
<1>3. pc = "idle" => current = <<>>
  BY <1>1 DEF Stream
<1>4. /\ (status = "READING") <=> Busy
      /\ pc \in {"drain", "raw"} => status = "IDLE" /\ size = 0
  BY <1>1 DEF Reader
<1>5. Busy => Queue = Unread
  BY DEF Queue, Unread
<1>6. Queue \in Seq(Frames) /\ Len(Queue) = Len(current) + Len(awaited)
      /\ Len(awaited) \in Nat /\ Len(Queue) \in Nat
  BY <1>2 DEF Queue
<1>7. QED
  BY <1>2, <1>3, <1>4, <1>5, <1>6

LEMMA AfterIsSuffix ==
    ASSUME NEW Q \in Seq(Frames), NEW m \in Nat, m <= Len(Q), NEW R, AfterFrames(Q, m, R)
    PROVE  m \in 0..Len(Q) /\ R = SubSeq(Q, m + 1, Len(Q))
<1>1. R \in Seq(Frames) /\ Len(R) = Len(Q) - m /\ \A k \in 1..Len(R) : R[k] = Q[m + k]
  BY DEF AfterFrames
<1>2. QED
  BY <1>1, SuffixIs

\* Steps that the channel does not see.
LEMMA QuietStays ==
    ASSUME UNCHANGED <<current, awaited, status, size, got>> PROVE Stays
BY DEF Stays, Queue, Given, Shown, Payload, PayloadLength, LengthBytes

LEMMA BusyStays ==
    ASSUME ChannelInv, Busy, Busy', Unread' = Unread, status' = status PROVE Stays
<1>1. status = "READING"
  BY QueueTypes
<1>2. QED
  BY <1>1 DEF Stays, Queue, Unread, Given, Shown

\* Each step of the driver is a step of the channel or none.
LEMMA LineMaps ==
    ASSUME KeepsStep, Here, ChannelInv, WriteFrame \/ WriteDamaged \/ MakeNoise \/ Arrive
    PROVE  Maps
<1>1. CASE MakeNoise \/ Arrive
  <2>1. UNCHANGED <<current, awaited, status, size, got>>
    BY <1>1 DEF MakeNoise, Arrive, Put, call, result, frames
  <2>2. QED
    BY <2>1, QuietStays, StaysMaps
<1>2. CASE WriteFrame \/ WriteDamaged
  <2>1. UNCHANGED <<current, status, size, got>>
    BY <1>2 DEF WriteFrame, WriteDamaged, Put, call, result
  <2>2. PICK f \in Frames : awaited' = Append(awaited, f)
    BY <1>2 DEF WriteFrame, WriteDamaged, Frames
  <2>3. current \in Seq(Frames) /\ awaited \in Seq(Frames)
    BY QueueTypes
  <2>4. Queue' = Append(Queue, f)
    BY <2>1, <2>2, <2>3, AppendLast DEF Queue
  <2>5. status' = status /\ Given' = Given /\ Shown' = Shown
    BY <2>1 DEF Given, Shown, Payload, PayloadLength, LengthBytes
  <2>6. QED
    BY <2>4, <2>5, SendMaps
<1>3. QED
  BY <1>1, <1>2

LEMMA ReadMaps ==
    ASSUME KeepsStep, Here, ChannelInv,
           MarkerByte \/ FieldByte \/ DiscardByte \/ MarkerFound
    PROVE  Maps
<1>1. Busy /\ Busy' /\ status' = status
  BY DEF MarkerByte, FieldByte, DiscardByte, MarkerFound, Busy, result
<1>2. Unread' = Unread
  <2>1. MarkerFound => Unread' = Unread
    BY <1>1 DEF MarkerFound, Unread, frames
  <2>2. QED
    BY <2>1, MarkerByteKeeps, FieldByteKeeps, DiscardByteKeeps
<1>3. QED
  BY <1>1, <1>2, BusyStays, StaysMaps

LEMMA DecodeMaps == ASSUME KeepsStep, Here, ChannelInv, Decode PROVE Maps
<1>1. PICK W, n, pos : Stream(W, n, pos) /\ Reader(W, n, pos)
  BY InvParts
<1>2. pc = "length" /\ Len(got) = LengthSize /\ LengthSize \in Nat
  BY Sizes DEF Decode
<1>3. PayloadLength \in Nat
  <2>1. Len(got) >= LengthSize
    BY <1>2
  <2>2. QED
    BY <1>1, <1>2, <2>1, InvParts, LengthKnown
<1>4. /\ pc' \in {"discard", "body"} /\ UNCHANGED <<status, current, awaited>>
  BY <1>3 DEF Decode, result, frames
<1>5. Busy /\ Busy'
  BY <1>2, <1>4 DEF Busy
<1>6. Unread' = Unread
  BY <1>4, <1>5 DEF Unread
<1>7. QED
  BY <1>4, <1>5, <1>6, BusyStays, StaysMaps

LEMMA ChannelCallMaps == ASSUME Here, ChannelInv, Call PROVE Maps
<1>1. /\ pc = "idle" /\ status' \in {"READING", "INVALID_ARGUMENT"} /\ size' = 0
      /\ UNCHANGED <<awaited, current>>
  BY DEF Call
<1>2. status # "READING"
  BY <1>1, QueueTypes DEF Busy
<1>3. Given' = <<>> /\ Shown' = 0 /\ Queue' = Queue
  BY <1>1 DEF Given, Shown, Queue
<1>4. QED
  BY <1>1, <1>2, <1>3, CallMaps

\* Setting up and draining, outside of calls.
LEMMA IdleMaps ==
    ASSUME Here, ChannelInv, status # "READING", status' = "IDLE", size' = 0,
           NEW m \in Nat, m <= Len(Queue), AfterFrames(Queue, m, Queue')
    PROVE  Maps
<1>1. Given' = <<>> /\ Shown' = 0
  BY DEF Given, Shown
<1>2. m \in 0..Len(Queue) /\ Queue' = SubSeq(Queue, m + 1, Len(Queue))
  <2>1. Queue \in Seq(Frames)
    BY QueueTypes
  <2>2. PICK R : R = Queue'
    OBVIOUS
  <2>3. m \in 0..Len(Queue) /\ R = SubSeq(Queue, m + 1, Len(Queue))
    <3>1. /\ Queue \in Seq(Frames) /\ m \in Nat /\ m <= Len(Queue)
          /\ AfterFrames(Queue, m, R)
      BY <2>1, <2>2
    <3>2. QED
      BY ONLY <3>1, AfterIsSuffix
  <2>4. QED
    BY <2>2, <2>3
<1>3. QED
  BY <1>1, <1>2, FlushMaps

LEMMA NoneAfter ==
    ASSUME NEW Q \in Seq(Frames) PROVE AfterFrames(Q, 0, Q) /\ 0 <= Len(Q)
<1>1. Len(Q) \in Nat /\ \A k \in 1..Len(Q) : 0 + k = k
  OBVIOUS
<1>2. QED
  BY <1>1 DEF AfterFrames

\* The frames after the one in hand.
LEMMA RestIs ==
    ASSUME ChannelInv
    PROVE  AfterFrames(Queue, Len(current), awaited) /\ Len(current) <= Len(Queue)
<1>1. /\ current \in Seq(Frames) /\ awaited \in Seq(Frames)
      /\ Len(current) \in Nat /\ Len(awaited) \in Nat
      /\ Len(Queue) = Len(current) + Len(awaited)
  BY QueueTypes
<1>2. \A k \in 1..Len(awaited) : Queue[Len(current) + k] = awaited[k]
  BY <1>1 DEF Queue
<1>3. QED
  BY <1>1, <1>2 DEF AfterFrames

LEMMA UartInitMaps == ASSUME KeepsStep, Here, ChannelInv, UartInit PROVE Maps
<1> DEFINE c == IF \E i \in DOMAIN line : line[i].start THEN 1 ELSE 0
<1>1. /\ pc = "idle" /\ status' = "IDLE" /\ size' = 0 /\ current' = current
      /\ \/ awaited' = LastBytes(c, awaited)
         \/ awaited' = awaited
  BY DEF UartInit, call
<1>2. /\ current = <<>> /\ Queue = awaited /\ awaited \in Seq(Frames) /\ Len(awaited) \in Nat
      /\ status # "READING"
  <2>1. current = <<>> /\ awaited \in Seq(Frames) /\ status # "READING"
    BY <1>1, QueueTypes DEF Busy
  <2>2. QED
    BY <2>1 DEF Queue
<1>3. Queue' = awaited'
  <2>1. awaited' \in Seq(Frames)
    BY UartInitKeeps, KeepsStep, InvParts DEF ChannelInv, Typed, Frames
  <2>2. QED
    BY <1>1, <1>2, <2>1 DEF Queue
<1>4. CASE awaited' = awaited
  <2>1. AfterFrames(Queue, 0, Queue) /\ 0 <= Len(Queue) /\ Queue' = Queue
    BY <1>2, <1>3, <1>4, NoneAfter
  <2>2. QED
    BY <1>1, <1>2, <2>1, IdleMaps
<1>5. CASE awaited' = LastBytes(c, awaited)
  <2>1. PICK m : m = IF Len(awaited) <= c THEN 0 ELSE Len(awaited) - c
    OBVIOUS
  <2>2. c \in Nat
    OBVIOUS
  <2> HIDE DEF c
  <2>3. m \in Nat /\ m <= Len(awaited)
    BY <1>2, <2>1, <2>2
  <2>4. PICK z : z = LastBytes(c, awaited)
    OBVIOUS
  <2>5. /\ z \in Seq(Frames) /\ Len(z) = (IF Len(awaited) <= c THEN Len(awaited) ELSE c)
        /\ \A i \in 1..Len(z) : z[i] = awaited[Len(awaited) - Len(z) + i]
    BY <1>2, <2>2, <2>4, LastBytesIs
  <2>6. Len(z) = Len(awaited) - m /\ Len(awaited) - Len(z) = m
    BY ONLY <1>2, <2>1, <2>2, <2>5
  <2>7. AfterFrames(awaited, m, z)
    BY <2>5, <2>6 DEF AfterFrames
  <2>8. AfterFrames(Queue, m, Queue') /\ m <= Len(Queue)
    BY <1>2, <1>3, <1>5, <2>3, <2>4, <2>7
  <2>9. QED
    BY <1>1, <1>2, <2>3, <2>8, IdleMaps
<1>6. QED
  BY <1>1, <1>4, <1>5

LEMMA DrainMaps ==
    ASSUME KeepsStep, Here, ChannelInv, DrainBegin \/ DrainByte \/ DrainEnd
    PROVE  Maps
<1>1. /\ current \in Seq(Frames) /\ awaited \in Seq(Frames) /\ Queue \in Seq(Frames)
      /\ Len(current) \in Nat /\ pc = "idle" => current = <<>>
      /\ (status = "READING") <=> Busy
      /\ pc \in {"drain", "raw"} => status = "IDLE" /\ size = 0
  BY QueueTypes
<1>2. CASE DrainBegin
  <2>1. pc = "idle" /\ status' = "IDLE" /\ size' = 0 /\ UNCHANGED <<current, awaited>>
    BY <1>2 DEF DrainBegin, frames
  <2>2. Queue' = Queue /\ status # "READING"
    BY <1>1, <2>1 DEF Queue, Busy
  <2>3. AfterFrames(Queue, 0, Queue') /\ 0 <= Len(Queue)
    BY <1>1, <2>2, NoneAfter
  <2>4. QED
    BY <2>1, <2>2, <2>3, IdleMaps
<1>3. ASSUME pc \in {"drain", "raw"}, status' = status, size' = size, Queue' = awaited
      PROVE  Maps
  <2>1. status # "READING" /\ status' = "IDLE" /\ size' = 0
    BY <1>1, <1>3
  <2>2. PICK m : m = Len(current)
    OBVIOUS
  <2>3. m \in Nat /\ m <= Len(Queue) /\ AfterFrames(Queue, m, Queue')
    BY <1>1, <1>3, <2>2, RestIs
  <2>4. QED
    BY <2>1, <2>3, IdleMaps
<1>4. CASE DrainEnd
  <2>1. /\ pc \in {"drain", "raw"} /\ status' = status /\ size' = size
        /\ current' = <<>> /\ awaited' = awaited
    BY <1>4 DEF DrainEnd, result
  <2>2. Queue' = awaited
    BY <1>1, <2>1 DEF Queue
  <2>3. QED
    BY <1>3, <2>1, <2>2
<1>5. CASE DrainByte
  <2>1. /\ pc \in {"drain", "raw"} /\ UNCHANGED <<status, size, got>>
        /\ Head(fifo).start => current' = <<Head(awaited)>> /\ awaited' = Tail(awaited)
        /\ ~Head(fifo).start => UNCHANGED <<current, awaited>>
    BY <1>5 DEF DrainByte, GetChar, call, result, frames
  <2>2. CASE ~Head(fifo).start
    BY <2>1, <2>2, QuietStays, StaysMaps
  <2>3. CASE Head(fifo).start
    <3>1. awaited # <<>>
      BY <1>5, <2>3, DrainByteKeeps
    <3>2. <<Head(awaited)>> \o Tail(awaited) = awaited
      BY <1>1, <3>1, HeadRest
    <3>3. Queue' = current' \o awaited'
      BY DEF Queue
    <3>4. current' = <<Head(awaited)>> /\ awaited' = Tail(awaited)
      BY <2>1, <2>3
    <3>5. Queue' = awaited
      BY ONLY <3>2, <3>3, <3>4
    <3>6. QED
      BY <1>3, <2>1, <3>5
  <2>4. QED
    BY <2>2, <2>3
<1>6. QED
  BY <1>2, <1>4, <1>5

\* A call that returns with a frame in hand takes it off the queue.
LEMMA ReturnTakes ==
    ASSUME ChannelInv, Busy, NEW s, Return(s)
    PROVE  /\ status = "READING" /\ status' = s /\ got' = got
           /\ Payload' = Payload
           /\ current # <<>> =>
                 Queue # <<>> /\ Queue' = Tail(Queue) /\ Head(Queue) = current[1]
           /\ current = <<>> => Queue' = Queue
<1>1. /\ status' = s /\ current' = <<>> /\ UNCHANGED <<got, awaited>>
  BY DEF Return
<1>2. /\ current \in Seq(Frames) /\ awaited \in Seq(Frames) /\ Len(current) \in {0, 1}
      /\ status = "READING"
  BY QueueTypes
<1>3. Queue' = awaited
  BY <1>1, <1>2 DEF Queue
<1>4. ASSUME current # <<>>
      PROVE  Queue # <<>> /\ Queue' = Tail(Queue) /\ Head(Queue) = current[1]
  <2>1. Len(current) = 1
    BY <1>2, <1>4
  <2>2. /\ Queue \in Seq(Frames) /\ Len(Queue) = 1 + Len(awaited) /\ Queue[1] = current[1]
        /\ \A i \in 1..Len(awaited) : Queue[1 + i] = awaited[i]
    <3>1. /\ current \o awaited \in Seq(Frames)
          /\ Len(current \o awaited) = Len(current) + Len(awaited)
          /\ \A i \in 1..Len(current) : (current \o awaited)[i] = current[i]
          /\ \A i \in 1..Len(awaited) : (current \o awaited)[Len(current) + i] = awaited[i]
      BY <1>2, Concatenation
    <3>2. QED
      BY <2>1, <3>1 DEF Queue
  <2>3. Len(awaited) \in Nat /\ Queue # <<>>
    BY <1>2, <2>2
  <2>4. /\ Head(Queue) = Queue[1] /\ Tail(Queue) \in Seq(Frames)
        /\ Len(Tail(Queue)) = Len(Queue) - 1
        /\ \A i \in 1..Len(Queue) - 1 : Tail(Queue)[i] = Queue[i + 1]
    BY <2>2, <2>3, HeadTail
  <2>5. PICK t : t = Tail(Queue)
    OBVIOUS
  <2>6. /\ t \in Seq(Frames) /\ Len(t) = Len(awaited)
        /\ \A i \in 1..Len(t) : t[i] = awaited[i]
    BY <2>2, <2>3, <2>4, <2>5
  <2>7. t = awaited
    BY <1>2, <2>6, SameSeq
  <2>8. QED
    BY <1>3, <2>2, <2>3, <2>4, <2>5, <2>7
<1>5. ASSUME current = <<>> PROVE Queue' = Queue
  BY <1>2, <1>3, <1>5 DEF Queue
<1>6. Payload' = Payload
  BY <1>1 DEF Payload, PayloadLength, LengthBytes
<1>7. QED
  BY <1>1, <1>2, <1>4, <1>5, <1>6

LEMMA TimeoutStepMaps == ASSUME Here, ChannelInv, Timeout PROVE Maps
<1>1. Busy /\ Return("TIMEOUT")
  BY DEF Timeout, Waiting, Busy
<1>2. /\ status = "READING" /\ status' = "TIMEOUT"
      /\ (Queue # <<>> /\ Queue' = Tail(Queue)) \/ Queue' = Queue
  BY <1>1, ReturnTakes
<1>3. Given' = <<>>
  BY <1>2 DEF Given
<1>4. QED
  BY <1>2, <1>3, TimeoutMaps

LEMMA DiscardedMaps == ASSUME KeepsStep, Here, ChannelInv, Discarded PROVE Maps
<1>1. PICK W, n, pos : Stream(W, n, pos) /\ Reader(W, n, pos)
  BY InvParts
<1>2. pc = "discard" /\ Busy /\ Return("BUFFER_TOO_SMALL") /\ size' = size
  BY DEF Discarded, Busy
<1>3. /\ Len(current) = 1 /\ size = Len(current[1].payload) /\ size > BufferLength
  BY <1>1, <1>2 DEF Reader
<1>4. current # <<>>
  BY <1>3, Len(<<>>) = 0
<1>5. /\ status = "READING" /\ status' = "BUFFER_TOO_SMALL"
      /\ Queue # <<>> /\ Queue' = Tail(Queue) /\ Head(Queue) = current[1]
  BY <1>2, <1>4, ReturnTakes
<1>6. Given' = <<>> /\ Shown' = size
  BY <1>2, <1>5 DEF Given, Shown
<1>7. QED
  BY <1>3, <1>5, <1>6, TooSmallMaps

LEMMA Offset ==
    ASSUME NEW l \in Nat, NEW h \in Nat, NEW p \in Nat, NEW t \in Nat, NEW j \in Nat,
           j >= 1, j <= h + p + t
    PROVE  l + j \in 1..l + h + p + t /\ 1 + (l + j) - 1 = l + j
OBVIOUS

LEMMA VerifyMaps == ASSUME KeepsStep, Here, ChannelInv, Verify PROVE Maps
<1>1. PICK W, n, pos : Stream(W, n, pos) /\ Reader(W, n, pos)
  BY InvParts
<1>2. Typed
  BY InvParts
<1>3. pc = "body" /\ Busy /\ Len(got) = Needed
  BY DEF Verify, Busy
<1>4. Len(current) = 1 /\ pos[1] = 1 /\ FieldsRead(W, n) /\ Len(got) >= LengthSize
  BY <1>1, <1>3 DEF Reader
<1>5. PICK f : f = current[1]
  OBVIOUS
<1>6. PICK w \in Wires(f) : At(W, 1, w)
  BY <1>1, <1>2, <1>3, <1>4, <1>5, InHand
<1>7. f \in Frames /\ f.payload \in Payloads /\ LengthFits(Len(f.payload))
  BY <1>1, <1>2, <1>3, <1>4, <1>5, InHand DEF Frames
<1>8. /\ LengthBytes = EncodeLength(Len(f.payload))
      /\ PayloadLength = Len(f.payload) /\ PayloadLength \in Nat
  BY <1>1, <1>2, <1>3, <1>4, <1>5, LengthKnown
<1>9. Needed = LengthSize + Len(f.payload) + TrailerSize
  BY <1>3, <1>8 DEF Needed
<1>10. got \in Seq(Byte) /\ Len(got) = LengthSize + Len(f.payload) + TrailerSize
  BY <1>2, <1>3, <1>9 DEF Typed
<1>11. \A j \in 1..Len(got) : got[j] = w[L + j]
  <2>1. /\ w \in Seq(Byte) /\ Len(w) = Size(f)
        /\ Size(f) = L + LengthSize + Len(f.payload) + TrailerSize /\ Len(f.payload) \in Nat
    BY <1>6, <1>7, FrameWires DEF KeepsStep
  <2>2. L \in Nat /\ LengthSize \in Nat /\ TrailerSize \in Nat
    BY Sizes
  <2>3. ASSUME NEW j \in 1..Len(got) PROVE got[j] = w[L + j]
    <3>1. PICK i : i = L + j
      OBVIOUS
    <3>2. PICK l, h, p, t : l = L /\ h = LengthSize /\ p = Len(f.payload) /\ t = TrailerSize
      OBVIOUS
    <3>3. /\ l \in Nat /\ h \in Nat /\ p \in Nat /\ t \in Nat
          /\ Len(got) = h + p + t /\ Len(w) = l + h + p + t
      BY ONLY <1>10, <2>1, <2>2, <3>2
    <3>4. j \in Nat /\ j >= 1 /\ j <= h + p + t
      BY ONLY <3>3, j \in 1..Len(got)
    <3>5. i \in 1..Len(w) /\ 1 + i - 1 = i
      <4>1. l + j \in 1..l + h + p + t /\ 1 + (l + j) - 1 = l + j
        BY ONLY <3>3, <3>4, Offset
      <4>2. QED
        BY ONLY <3>1, <3>2, <3>3, <4>1
    <3>6. W[1 + i - 1].byte = w[i]
      BY <1>6, <3>5 DEF At
    <3>7. W[i].byte = got[j]
      BY <1>4, <3>1 DEF FieldsRead
    <3>8. QED
      BY <3>1, <3>5, <3>6, <3>7
  <2>4. QED
    BY <2>3
<1> DEFINE passes == /\ EndOf(got, Len(f.payload)) = EndMarker
                     /\ SumOf(got, Len(f.payload))
                           = Checksum(EncodeLength(Len(f.payload)),
                                      PayloadOf(got, Len(f.payload)))
<1>12. /\ f.intact => passes /\ PayloadOf(got, Len(f.payload)) = f.payload
       /\ ~f.intact => ~passes
  <2>1. /\ LengthSafe /\ "PAYLOAD" \in Scope /\ f.payload \in Payloads
        /\ LengthFits(Len(f.payload)) /\ w \in Wires(f) /\ got \in Seq(Byte)
        /\ Len(got) = LengthSize + Len(f.payload) + TrailerSize
        /\ \A j \in 1..Len(got) : got[j] = w[L + j]
    BY <1>6, <1>7, <1>10, <1>11 DEF KeepsStep
  <2>2. PICK g : g = got
    OBVIOUS
  <2>3. /\ LengthSafe /\ "PAYLOAD" \in Scope /\ f.payload \in Payloads
        /\ LengthFits(Len(f.payload)) /\ w \in Wires(f) /\ g \in Seq(Byte)
        /\ Len(g) = LengthSize + Len(f.payload) + TrailerSize
        /\ \A j \in 1..Len(g) : g[j] = w[L + j]
    BY ONLY <2>1, <2>2
  <2>4. LET n0 == Len(f.payload)
            ok == /\ EndOf(g, n0) = EndMarker
                  /\ SumOf(g, n0) = Checksum(EncodeLength(n0), PayloadOf(g, n0))
        IN /\ f.intact => ok /\ PayloadOf(g, n0) = f.payload
           /\ ~f.intact => ~ok
    BY ONLY <2>3, Verdict
  <2>5. QED
    BY <2>2, <2>4
<1>13. /\ EndOf(got, Len(f.payload)) = SubSeq(Trailer, ChecksumSize + 1, TrailerSize)
       /\ SumOf(got, Len(f.payload)) = SubSeq(Trailer, 1, ChecksumSize)
       /\ PayloadOf(got, Len(f.payload)) = Payload
  BY <1>8 DEF EndOf, SumOf, TrailerOf, PayloadOf, Trailer, Payload
<1>14. passes <=> /\ SubSeq(Trailer, ChecksumSize + 1, TrailerSize) = EndMarker
                  /\ SubSeq(Trailer, 1, ChecksumSize) = Checksum(LengthBytes, Payload)
  BY <1>8, <1>13
<1> HIDE DEF passes
<1>15. \/ /\ ~passes /\ size' = 0
          /\ \E s \in {"END_MARKER_MISMATCH", "CHECKSUM_MISMATCH"} : Return(s)
       \/ passes /\ Return("OK") /\ size' = PayloadLength
  BY <1>14 DEF Verify
<1>16. current # <<>>
  BY <1>4, Len(<<>>) = 0
<1>17. CASE passes /\ Return("OK") /\ size' = PayloadLength
  <2>1. /\ status = "READING" /\ status' = "OK" /\ Payload' = Payload
        /\ Queue # <<>> /\ Queue' = Tail(Queue) /\ Head(Queue) = f
    BY <1>3, <1>5, <1>16, <1>17, ReturnTakes
  <2>2. f.intact /\ Payload = f.payload
    <3>1. f.intact
      BY <1>12, <1>17
    <3>2. QED
      BY <1>12, <1>13, <3>1
  <2>3. Given' = f.payload /\ Shown' = Len(f.payload)
    BY <1>8, <1>17, <2>1, <2>2 DEF Given, Shown
  <2>4. QED
    BY <2>1, <2>2, <2>3, OkMaps
<1>18. ASSUME ~passes, size' = 0,
              NEW s \in {"END_MARKER_MISMATCH", "CHECKSUM_MISMATCH"}, Return(s)
       PROVE  Maps
  <2>1. /\ status = "READING" /\ status' = s
        /\ Queue # <<>> /\ Queue' = Tail(Queue) /\ Head(Queue) = f
    BY <1>3, <1>5, <1>16, <1>18, ReturnTakes
  <2>2. ~f.intact
    BY <1>12, <1>18
  <2>3. Given' = <<>> /\ Shown' = 0
    BY <1>18, <2>1 DEF Given, Shown
  <2>4. QED
    BY <2>1, <2>2, <2>3, RefuseMaps
<1>19. QED
  BY <1>15, <1>17, <1>18

\* Every step of the driver and its peer is one of the channel, or none.
LEMMA NextMaps == ASSUME KeepsStep, Here, ChannelInv, Next PROVE Maps
BY LineMaps, UartInitMaps, ChannelCallMaps, ReadMaps, DecodeMaps, DiscardedMaps,
     VerifyMaps,
   TimeoutStepMaps, DrainMaps DEF Next, ReadStep, DrainStep

\* The histories that say what may be relied on only ever end.
Histories == clean \in BOOLEAN /\ whole \in BOOLEAN
Ends(h) == (h' => h) /\ (h \in BOOLEAN => h' \in BOOLEAN)

LEMMA PutEnds ==
    ASSUME NEW w, NEW isFrame, Put(w, isFrame), whole' = whole \/ whole' = FALSE
    PROVE  Ends(clean) /\ Ends(whole)
<1>1. clean' = (clean /\ Clean(w, isFrame))
  BY DEF Put
<1>2. Ends(clean)
  <2>1. clean' => clean
    BY <1>1
  <2>2. clean \in BOOLEAN => clean' \in BOOLEAN
    BY <1>1
  <2>3. QED
    BY <2>1, <2>2, Zenon DEF Ends
<1>3. Ends(whole)
  <2>1. CASE whole' = whole
    BY <2>1, Zenon DEF Ends
  <2>2. CASE whole' = FALSE
    BY <2>2 DEF Ends
  <2>3. QED
    BY <2>1, <2>2
<1>4. QED
  BY <1>2, <1>3

LEMMA NextEnds == ASSUME Next \/ UNCHANGED vars PROVE Ends(clean) /\ Ends(whole)
<1>1. CASE WriteFrame \/ WriteDamaged \/ MakeNoise
  <2>1. PICK w, isFrame : Put(w, isFrame) /\ (whole' = whole \/ whole' = FALSE)
    BY <1>1, Zenon DEF WriteFrame, WriteDamaged, MakeNoise
  <2>2. QED
    BY <2>1, PutEnds
<1>2. CASE \E s : Return(s)
  <2>1. PICK s : Return(s)
    BY <1>2
  <2>2. clean' = clean /\ whole' = (whole /\ (s = "TIMEOUT" => AtBoundary(fifo)))
    BY <2>1 DEF Return, wire
  <2>3. whole \in BOOLEAN => whole' \in BOOLEAN
    BY <2>2
  <2>4. QED
    BY <2>2, <2>3, Zenon DEF Ends
<1>3. CASE UartInit
  <2>1. CASE clean' = clean /\ whole' = whole
    BY <2>1, Zenon DEF Ends
  <2>2. CASE clean' = clean /\ whole' = (whole /\ AtBoundary(<<>>))
    BY <2>2, Zenon DEF Ends
  <2>3. QED
    BY <1>3, <2>1, <2>2 DEF UartInit
<1>4. CASE DrainEnd
  <2>1. clean' = clean /\ whole' = (whole /\ AtBoundary(fifo))
    BY <1>4 DEF DrainEnd, wire
  <2>2. QED
    BY <2>1, Zenon DEF Ends
<1>5. CASE UNCHANGED <<clean, whole>>
  <2>1. clean' = clean /\ whole' = whole
    BY <1>5
  <2>2. QED
    BY <2>1, Zenon DEF Ends
<1>6. \/ WriteFrame \/ WriteDamaged \/ MakeNoise \/ \E s : Return(s) \/ UartInit \/ DrainEnd
      \/ UNCHANGED <<clean, whole>>
  <2>1. CASE Arrive \/ Call \/ MarkerFound \/ DrainBegin \/ UNCHANGED vars
    BY <2>1 DEF Arrive, Call, MarkerFound, DrainBegin, vars, wire, frames
  <2>2. CASE MarkerByte \/ FieldByte \/ DiscardByte \/ DrainByte
    <3>1. GetChar
      BY <2>2 DEF MarkerByte, FieldByte, DiscardByte, DrainByte
    <3>2. QED
      BY <3>1 DEF GetChar, frames
  <2>3. CASE Decode
    BY <2>3 DEF Decode, wire, frames
  <2>4. CASE Discarded \/ Verify \/ Timeout
    BY <2>4 DEF Discarded, Verify, Timeout
  <2>5. QED
    BY <2>1, <2>2, <2>3, <2>4 DEF Next, ReadStep, DrainStep
<1>7. QED
  BY <1>1, <1>2, <1>3, <1>4, <1>5, <1>6

LEMMA TameEnds == ASSUME Next \/ UNCHANGED vars, Tame' PROVE Tame
BY NextEnds, Zenon DEF Ends, Tame

\* The invariant of the instance of which one part is about frames: it holds for as long
\* as their order is promised.
FramesInv == part = "frames" /\ Tame => ChannelInv

LEMMA OtherPartsMap ==
    ASSUME part # "frames", part' = part PROVE UNCHANGED Channel!vars
BY DEF Channel!vars

LEMMA StutterMaps == ASSUME UNCHANGED mcVars PROVE Maps
<1>1. UNCHANGED <<current, awaited, status, size, got, part>>
  BY DEF mcVars, vars, call, result, frames
<1>2. CASE part = "frames"
  BY <1>1, <1>2, QuietStays, StaysMaps DEF Here
<1>3. CASE part # "frames"
  BY <1>1, <1>3, OtherPartsMap DEF Maps
<1>4. QED
  BY <1>2, <1>3

\* The byte-level driver implements the channel of frames, for every marker,
\* length layout, checksum that covers payloads, buffer and FIFO, whichever
\* bytes behind a length field are damaged, for as long as the behaviour is
\* tame.  That is either while nothing on the line looks like a start marker
\* except where a frame begins, whatever other noise there is and wherever
\* reads time out; or, whatever is in the payloads, while there is no noise
\* and no read, drain or set-up ends inside a frame.  Then each call of
\* bbai64_uart_read_frame takes the oldest frame or none, hands over its
\* payload unharmed, skips it whole when it is too large, and refuses it
\* exactly if it was damaged.  Of what comes after nothing is said: once a
\* read has ended inside a payload that holds a marker there is no order.
THEOREM FramesArriveInOrder == ASSUME KeepsStep PROVE MCSpec => FramesInOrder
<1>1. MCInit => FramesInv /\ Channel!Init
  <2>1. SUFFICES ASSUME MCInit PROVE FramesInv /\ Channel!Init
    OBVIOUS
  <2>2. Init
    BY <2>1 DEF MCInit
  <2>3. ChannelInv
    BY <2>2, ChannelInit
  <2>4. current = <<>> /\ awaited = <<>> /\ status = "IDLE" /\ size = 0
    BY <2>2 DEF Init
  <2>5. <<>> \o <<>> = <<>>
    OBVIOUS
  <2>6. Channel!Init
    BY <2>4, <2>5 DEF Channel!Init
  <2>7. QED
    BY <2>3, <2>6 DEF FramesInv
<1>2. FramesInv /\ [MCNext]_mcVars
          => FramesInv' /\ (Tame => [Channel!Next]_(Channel!vars))
  <2>1. SUFFICES ASSUME FramesInv, [MCNext]_mcVars PROVE FramesInv' /\ (Tame => Maps)
    BY DEF Maps
  <2>2. CASE InFrames(Next)
    <3>1. part = "frames" /\ part' = "frames" /\ Next
      BY <2>2 DEF InFrames
    <3>2. CASE Tame
      <4>1. ChannelInv /\ Here
        BY <2>1, <3>1, <3>2 DEF FramesInv, Here
      <4>2. ChannelInv'
        BY <3>1, <3>2, <4>1, NextKeeps
      <4>3. Maps
        BY <3>1, <4>1, NextMaps
      <4>4. QED
        BY <4>2, <4>3 DEF FramesInv
    <3>3. CASE ~Tame
      <4>1. ~Tame'
        BY <3>1, <3>3, TameEnds
      <4>2. QED
        BY <3>3, <4>1 DEF FramesInv
    <3>4. QED
      BY <3>2, <3>3
  <2>3. CASE part # "frames" /\ part' = part
    BY <2>3, OtherPartsMap DEF FramesInv, Maps
  <2>4. CASE InLossy(Lossy!Next) \/ InChecksum(PairNext)
    <3>1. part # "frames" /\ part' = part
      <4>1. CASE InLossy(Lossy!Next)
        <5>1. part = "lossy" /\ part' = part
          BY <4>1 DEF InLossy
        <5>2. QED
          BY <5>1
      <4>2. CASE InChecksum(PairNext)
        <5>1. part = "checksum" /\ part' = part
          BY <4>2 DEF InChecksum, frameVars
        <5>2. QED
          BY <5>1
      <4>3. QED
        BY <2>4, <4>1, <4>2
    <3>2. QED
      BY <2>3, <3>1
  <2>5. CASE UNCHANGED mcVars
    <3>1. UNCHANGED vars /\ part' = part
      BY <2>5 DEF mcVars
    <3>2. FramesInv'
      <4>1. SUFFICES ASSUME part = "frames", Tame' PROVE ChannelInv'
        BY <3>1 DEF FramesInv
      <4>2. Tame
        BY <3>1, <4>1, TameEnds
      <4>3. ChannelInv
        BY <2>1, <4>1, <4>2 DEF FramesInv
      <4>4. QED
        BY <3>1, <4>3, StutterKeeps
    <3>3. QED
      BY <2>5, <3>2, StutterMaps
  <2>6. QED
    BY <2>1, <2>2, <2>4, <2>5 DEF MCNext
<1>3. QED
  BY <1>1, <1>2, PTL DEF MCSpec, FramesInOrder, Channel!Spec

-----------------------------------------------------------------------------
(* Types *)

\* They need no assumption about the configuration, as the frames' order does: bytes may
\* be lost, and what is not a frame taken for one.  What has to be shown is that a frame
\* whose first byte is read has been written, and that a length that is waited for is a
\* number.

FramesOf(P) == [payload : P, intact : BOOLEAN]

\* Whether a line has a frame's first byte.
Begun(l) == IF \E i \in DOMAIN l : l[i].start THEN 1 ELSE 0

\* n[i] frames have their first byte beyond the first i of f: one less from any byte that
\* is a frame's first, and on the line b more.
Counts(n, f, b) ==
    /\ b <= n[Len(f)]
    /\ \A i, j \in 0..Len(f) : i <= j => n[j] <= n[i]
    /\ \A i \in 1..Len(f) : f[i].start => n[i] < n[i - 1]

\* The peer, the line and the FIFO, for frames with payloads in P and a FIFO of F bytes.
Queues(P, F) ==
    /\ line \in Seq(Cell) /\ fifo \in Seq(Cell) /\ Len(fifo) <= F
    /\ \A i \in 2..Len(line) : ~line[i].start
    /\ sent \in Seq(Byte)
    /\ awaited \in Seq(FramesOf(P)) /\ current \in Seq(FramesOf(P))
    /\ \E n \in [0..Len(fifo) -> 0..Len(awaited)] : Counts(n, fifo, Begun(line))

\* The reader.
ReaderTypes ==
    /\ SearchInv
    /\ ready \in BOOLEAN /\ lost \in BOOLEAN
    /\ pc \in {"idle", "marker", "length", "body", "discard", "drain", "raw"}
    /\ got \in Seq(Byte) /\ recent \in Seq(Byte) /\ left \in Nat
    /\ status \in Statuses /\ size \in Nat /\ faults \in 0..MaxFaults

\* The length of the body that is read is known, and a number.
KnownAs(length) == pc = "body" => Len(got) >= LengthSize /\ length \in Nat

\* No first byte at all is one less than a first byte at the head.
LEMMA BegunIs ==
    ASSUME NEW l \in Seq(Cell), \A i \in 2..Len(l) : ~l[i].start
    PROVE  /\ Begun(l) \in {0, 1}
           /\ l = <<>> => Begun(l) = 0
           /\ l # <<>> => Begun(l) = IF l[1].start THEN 1 ELSE 0
<1>1. Len(l) \in Nat /\ DOMAIN l = 1..Len(l)
  BY SeqFacts
<1>2. l = <<>> => DOMAIN l = {}
  OBVIOUS
<1>3. l # <<>> => 1 \in DOMAIN l
  BY <1>1, HeadTail
<1>4. \A i \in DOMAIN l : l[i].start => i = 1
  BY <1>1
<1>5. QED
  BY <1>2, <1>3, <1>4 DEF Begun

\* A frame's first byte can be read only while the peer waits for it to be.
LEMMA TakeCounted ==
    ASSUME NEW f \in Seq(Cell), f # <<>>, NEW m \in Nat, NEW b \in {0, 1},
           NEW n \in [0..Len(f) -> 0..m], Counts(n, f, b)
    PROVE  /\ f[1].start => m >= 1
           /\ \E q \in [0..Len(Tail(f)) -> 0..(IF f[1].start THEN m - 1 ELSE m)] :
                 Counts(q, Tail(f), b)
<1> DEFINE r == IF f[1].start THEN m - 1 ELSE m
           k == Len(f)
           t == Tail(f)
           q == [i \in 0..k - 1 |-> n[i + 1]]
<1>1. /\ k \in Nat /\ k >= 1 /\ f[1].start \in BOOLEAN
      /\ Len(t) = k - 1 /\ \A i \in 1..k - 1 : t[i] = f[i + 1]
  BY HeadTail DEF Cell
<1>2. /\ b <= n[k] /\ \A i, j \in 0..k : i <= j => n[j] <= n[i]
      /\ \A i \in 1..k : f[i].start => n[i] < n[i - 1]
      /\ \A i \in 0..k : n[i] \in 0..m
  BY DEF Counts
<1> HIDE DEF k, t
<1>3. n[1] <= r /\ (f[1].start => m >= 1) /\ r \in Int
  <2>1. 0 \in 0..k /\ 1 \in 0..k /\ 1 \in 1..k
    BY <1>1
  <2>2. f[1].start => n[1] < n[1 - 1]
    BY <1>2, <2>1
  <2>3. n[0] \in 0..m /\ n[1] \in 0..m /\ n[1] <= n[0]
    BY <1>2, <2>1
  <2>4. f[1].start => n[1] < n[0]
    BY <2>2
  <2>5. QED
    BY <1>1, <2>3, <2>4
<1>4. q \in [0..k - 1 -> 0..r]
  <2>1. ASSUME NEW i \in 0..k - 1 PROVE n[i + 1] \in 0..r
    <3>1. 1 \in 0..k /\ i + 1 \in 0..k /\ 1 <= i + 1
      BY <1>1
    <3>2. n[i + 1] \in 0..m /\ n[i + 1] <= n[1] /\ n[1] \in 0..m
      BY <1>2, <3>1
    <3>3. QED
      BY <1>3, <3>2
  <2>2. QED
    BY <2>1
<1>5. \A i \in 0..k - 1 : q[i] = n[i + 1]
  OBVIOUS
<1> HIDE DEF q, r
<1>6. b <= q[k - 1]
  <2>1. k - 1 \in 0..k - 1 /\ (k - 1) + 1 = k
    BY <1>1
  <2>2. q[k - 1] = n[k]
    BY <1>5, <2>1
  <2>3. QED
    BY <1>2, <2>2
<1>7. ASSUME NEW i \in 0..k - 1, NEW j \in 0..k - 1, i <= j PROVE q[j] <= q[i]
  <2>1. i + 1 \in 0..k /\ j + 1 \in 0..k /\ i + 1 <= j + 1
    BY <1>1, <1>7
  <2>2. n[j + 1] <= n[i + 1]
    BY <1>2, <2>1
  <2>3. QED
    BY <1>5, <2>2
<1>8. ASSUME NEW i \in 1..k - 1, t[i].start PROVE q[i] < q[i - 1]
  <2>1. i + 1 \in 1..k /\ i \in 0..k - 1 /\ i - 1 \in 0..k - 1 /\ (i - 1) + 1 = i /\ (i + 1) - 1 = i
    BY <1>1
  <2>2. f[i + 1].start
    BY <1>1, <1>8
  <2>3. n[i + 1] < n[i]
    BY <1>2, <2>1, <2>2
  <2>4. QED
    BY <1>5, <2>1, <2>3
<1>9. Counts(q, t, b)
  BY <1>1, <1>6, <1>7, <1>8 DEF Counts
<1>10. QED
  BY <1>1, <1>3, <1>4, <1>9 DEF r, t

\* A byte that arrives leaves one first byte less on the line.
LEMMA ArrivalCounted ==
    ASSUME NEW f \in Seq(Cell), NEW e \in Cell, NEW m \in Nat,
           NEW n \in [0..Len(f) -> 0..m], Counts(n, f, IF e.start THEN 1 ELSE 0)
    PROVE  \E q \in [0..Len(Append(f, e)) -> 0..m] : Counts(q, Append(f, e), 0)
<1> DEFINE b == IF e.start THEN 1 ELSE 0
           k == Len(f)
           g == Append(f, e)
           q == [i \in 0..k + 1 |-> IF i <= k THEN n[i] ELSE n[k] - b]
<1>1. /\ k \in Nat /\ Len(g) = k + 1 /\ g[k + 1] = e
      /\ \A i \in 1..k : g[i] = f[i]
  BY SeqFacts, AppendFacts
<1>2. /\ b <= n[k] /\ \A i, j \in 0..k : i <= j => n[j] <= n[i]
      /\ \A i \in 1..k : f[i].start => n[i] < n[i - 1]
      /\ \A i \in 0..k : n[i] \in 0..m
  BY DEF Counts
<1>3. b \in {0, 1} /\ (e.start => b = 1) /\ k \in 0..k
  BY <1>1
<1>4. \A i \in 0..k : q[i] = n[i]
  BY <1>1
<1>5. q[k + 1] = n[k] - b
  BY <1>1
<1>6. q \in [0..k + 1 -> 0..m]
  <2>1. ASSUME NEW i \in 0..k + 1 PROVE (IF i <= k THEN n[i] ELSE n[k] - b) \in 0..m
    <3>1. CASE i <= k
      BY <1>1, <1>2, <3>1
    <3>2. CASE ~(i <= k)
      <4>1. n[k] \in 0..m /\ b <= n[k]
        BY <1>2, <1>3
      <4> HIDE DEF b
      <4>2. n[k] - b \in 0..m
        BY <1>3, <4>1
      <4>3. QED
        BY <3>2, <4>2
    <3>3. QED
      BY <3>1, <3>2
  <2>2. QED
    BY <2>1
<1> HIDE DEF q, b, k, g
<1>7. \A i \in 0..k : n[i] \in Int /\ n[k] <= n[i]
  BY <1>1, <1>2
<1>8. q[k + 1] <= n[k] /\ 0 <= q[k + 1] /\ (e.start => q[k + 1] < n[k]) /\ n[k] \in Int
  <2>1. n[k] \in Int
    BY <1>3, <1>7
  <2>2. QED
    BY <1>2, <1>3, <1>5, <2>1
<1>9. ASSUME NEW i \in 0..k + 1, NEW j \in 0..k + 1, i <= j PROVE q[j] <= q[i]
  <2>1. CASE j \in 0..k
    <3>1. i \in 0..k
      BY <1>1, <1>9, <2>1
    <3>2. QED
      BY <1>2, <1>4, <1>9, <2>1, <3>1
  <2>2. CASE j = k + 1 /\ i \in 0..k
    <3>1. q[i] = n[i] /\ n[k] <= n[i] /\ n[i] \in Int
      BY <1>4, <1>7, <2>2
    <3>2. q[k + 1] \in Int
      BY <1>3, <1>5, <1>8
    <3>3. QED
      BY <1>8, <2>2, <3>1, <3>2
  <2>3. CASE j = k + 1 /\ i = k + 1
    <3>1. q[k + 1] \in Int
      BY <1>3, <1>5, <1>8
    <3>2. QED
      BY <2>3, <3>1
  <2>4. QED
    BY <1>1, <2>1, <2>2, <2>3
<1>10. ASSUME NEW i \in 1..k + 1, g[i].start PROVE q[i] < q[i - 1]
  <2>1. CASE i \in 1..k
    <3>1. i \in 0..k /\ i - 1 \in 0..k /\ f[i].start
      BY <1>1, <1>10, <2>1
    <3>2. QED
      BY <1>2, <1>4, <2>1, <3>1
  <2>2. CASE i = k + 1
    <3>1. e.start /\ q[k] = n[k] /\ i - 1 = k
      BY <1>1, <1>3, <1>4, <1>10, <2>2
    <3>2. QED
      BY <1>8, <2>2, <3>1
  <2>3. QED
    BY <1>1, <2>1, <2>2
<1>11. Counts(q, g, 0)
  BY <1>1, <1>8, <1>9, <1>10 DEF Counts
<1>12. QED
  BY <1>1, <1>6, <1>11 DEF g

\* A frame that is written is one more.
LEMMA WriteCounted ==
    ASSUME NEW f \in Seq(Cell), NEW m \in Nat, NEW d \in {0, 1}, NEW b, b \in 0..d,
           NEW n \in [0..Len(f) -> 0..m], Counts(n, f, 0)
    PROVE  \E q \in [0..Len(f) -> 0..m + d] : Counts(q, f, b)
<1> DEFINE k == Len(f)
           q == [i \in 0..k |-> n[i] + d]
<1>1. k \in Nat /\ k \in 0..k
  BY SeqFacts
<1>2. /\ 0 <= n[k] /\ \A i, j \in 0..k : i <= j => n[j] <= n[i]
      /\ \A i \in 1..k : f[i].start => n[i] < n[i - 1]
      /\ \A i \in 0..k : n[i] \in 0..m
  BY DEF Counts
<1> HIDE DEF k
<1>3. \A i \in 0..k : q[i] = n[i] + d /\ n[i] \in 0..m
  BY <1>2
<1>4. q \in [0..k -> 0..m + d]
  <2>1. \A i \in 0..k : n[i] + d \in 0..m + d
    BY <1>2
  <2>2. QED
    BY <2>1
<1> HIDE DEF q
<1>5. b <= q[k]
  BY <1>1, <1>2, <1>3
<1>6. \A i, j \in 0..k : i <= j => q[j] <= q[i]
  BY <1>2, <1>3
<1>7. ASSUME NEW i \in 1..k, f[i].start PROVE q[i] < q[i - 1]
  <2>1. i \in 0..k /\ i - 1 \in 0..k /\ n[i] < n[i - 1]
    BY <1>1, <1>2, <1>7
  <2>2. QED
    BY <1>3, <2>1
<1>8. QED
  BY <1>4, <1>5, <1>6, <1>7 DEF Counts, k

\* The frames whose first bytes are in the FIFO or on the line are no more than the peer
\* waits for.
LEMMA AllCounted ==
    ASSUME NEW f \in Seq(Cell), NEW m \in Nat, NEW b \in {0, 1},
           NEW n \in [0..Len(f) -> 0..m], Counts(n, f, b)
    PROVE  b <= m /\ \E q \in [0..0 -> 0..b] : Counts(q, <<>>, b)
<1>1. Len(f) \in Nat /\ Len(f) \in 0..Len(f)
  BY SeqFacts
<1>2. b <= m
  BY <1>1 DEF Counts
<1> DEFINE q == [i \in 0..0 |-> b]
<1>3. q \in [0..0 -> 0..b] /\ q[0] = b
  OBVIOUS
<1>4. Len(<<>>) = 0 /\ 1..0 = {}
  OBVIOUS
<1> HIDE DEF q
<1>5. \A i, j \in 0..0 : q[j] <= q[i]
  BY <1>3
<1>6. Counts(q, <<>>, b)
  BY <1>3, <1>4, <1>5 DEF Counts
<1>7. QED
  BY <1>2, <1>3, <1>6

\* The steps of the peer, the line and the FIFO.
LEMMA NoPart ==
    ASSUME NEW S, NEW s \in Seq(S), NEW m \in Int, m > Len(s)
    PROVE  SubSeq(s, m, Len(s)) = <<>>
<1>1. Len(s) \in Nat
  BY SeqFacts
<1>2. SubSeq(s, m, Len(s)) = [i \in 1..(Len(s) - m) + 1 |-> s[(m + i) - 1]]
  BY <1>1
<1>3. 1..(Len(s) - m) + 1 = {}
  BY <1>1
<1>4. QED
  BY <1>2, <1>3

LEMMA LastBytesOf ==
    ASSUME NEW S, NEW s \in Seq(S), NEW n \in Int, n >= 0 - 1
    PROVE  LastBytes(n, s) \in Seq(S) /\ (n \in Nat /\ n <= Len(s) => Len(LastBytes(n, s)) = n)
<1>1. Len(s) \in Nat
  BY SeqFacts
<1>2. CASE Len(s) <= n
  BY <1>1, <1>2 DEF LastBytes
<1>3. CASE ~(Len(s) <= n)
  <2> DEFINE m == Len(s) - n
             t == SubSeq(s, m + 1, Len(s))
  <2>1. LastBytes(n, s) = t
    BY <1>3 DEF LastBytes
  <2>2. CASE n \in Nat
    <3>1. m \in Nat /\ m + n = Len(s)
      BY <1>1, <1>3, <2>2
    <3> HIDE DEF m
    <3>2. t \in Seq(S) /\ Len(t) = n
      BY <2>2, <3>1, Part
    <3>3. QED
      BY <2>1, <3>2
  <2>3. CASE n \notin Nat
    <3>1. m + 1 > Len(s) /\ m + 1 \in Int
      BY <1>1, <2>3
    <3> HIDE DEF m
    <3>2. t = <<>>
      BY <3>1, NoPart
    <3> HIDE DEF t
    <3>3. LastBytes(n, s) \in Seq(S)
      BY <2>1, <3>2
    <3>4. QED
      BY <2>3, <3>3
  <2>4. QED
    BY <2>2, <2>3
<1>4. QED
  BY <1>2, <1>3

LEMMA NotFirst ==
    ASSUME NEW b, NEW first, NEW i, i # 1
    PROVE  ~[byte |-> b, start |-> first /\ i = 1].start
<1>1. (first /\ i = 1) = FALSE
  OBVIOUS
<1>2. QED
  BY <1>1

LEMMA PutQueues ==
    ASSUME NEW P, NEW F \in Nat, Queues(P, F), NEW w \in Seq(Byte), NEW first \in BOOLEAN,
           Put(w, first),
           IF first THEN \E e \in FramesOf(P) : awaited' = Append(awaited, e)
                    ELSE awaited' = awaited
    PROVE  Queues(P, F)'
<1> DEFINE d == IF first THEN 1 ELSE 0
           cell(i) == [byte |-> w[i], start |-> first /\ i = 1]
<1>1. /\ line = <<>> /\ line' = [i \in DOMAIN w |-> cell(i)]
      /\ fifo' = fifo /\ current' = current
      /\ sent' = LastBytes(L - 1, sent \o w)
  BY DEF Put
<1>2. Len(w) \in Nat /\ DOMAIN w = 1..Len(w) /\ \A i \in 1..Len(w) : w[i] \in Byte
  BY SeqFacts
<1>3. line' \in Seq(Cell) /\ Len(line') = Len(w) /\ \A i \in 1..Len(w) : line'[i] = cell(i)
  <2>1. \A i \in 1..Len(w) : cell(i) \in Cell
    BY <1>2 DEF Cell
  <2> DEFINE k == Len(w)
  <2>2. k \in Nat /\ line' = [i \in 1..k |-> cell(i)] /\ \A i \in 1..k : cell(i) \in Cell
    BY <1>1, <1>2, <2>1
  <2> HIDE DEF cell, k
  <2>3. line' \in Seq(Cell) /\ Len(line') = k /\ \A i \in 1..k : line'[i] = cell(i)
    BY <2>2
  <2>4. QED
    BY <2>3 DEF k
<1>4. \A i \in 2..Len(line') : ~line'[i].start
  <2>1. ASSUME NEW i \in 2..Len(line') PROVE ~line'[i].start
    <3>1. i \in 1..Len(w) /\ i # 1
      BY <1>2, <1>3
    <3>2. line'[i] = [byte |-> w[i], start |-> first /\ i = 1]
      BY <1>3, <3>1, Zenon
    <3>3. QED
      BY <3>1, <3>2, NotFirst, Zenon
  <2>2. QED
    BY <2>1
<1>5. Begun(line') \in 0..d
  <2>1. CASE line' = <<>>
    <3>1. Begun(line') = 0
      BY <1>3, <1>4, <2>1, BegunIs
    <3>2. QED
      BY <3>1
  <2>2. CASE line' # <<>>
    <3>1. Begun(line') = IF line'[1].start THEN 1 ELSE 0
      BY <1>3, <1>4, <2>2, BegunIs
    <3>2. 1 \in 1..Len(w)
      BY <1>2, <1>3, <2>2, HeadTail
    <3>3. line'[1] = [byte |-> w[1], start |-> first /\ 1 = 1]
      BY <1>3, <3>2, Zenon
    <3>4. Begun(line') = d
      BY <3>1, <3>3
    <3>5. QED
      BY <3>4
  <2>3. QED
    BY <2>1, <2>2
<1>6. sent' \in Seq(Byte)
  <2>1. sent \o w \in Seq(Byte)
    BY Concatenation DEF Queues
  <2>2. L \in Nat
    BY MarkerLength
  <2>3. L - 1 \in Int /\ L - 1 >= 0 - 1
    BY <2>2
  <2>4. QED
    BY <1>1, <2>1, <2>3, LastBytesOf
<1>7. awaited' \in Seq(FramesOf(P)) /\ Len(awaited') = Len(awaited) + d /\ Len(awaited) \in Nat
  <2>1. awaited \in Seq(FramesOf(P)) /\ Len(awaited) \in Nat
    BY SeqFacts DEF Queues
  <2>2. CASE first
    <3>1. PICK e \in FramesOf(P) : awaited' = Append(awaited, e)
      BY <2>2
    <3>2. QED
      BY <2>1, <2>2, <3>1, AppendFacts
  <2>3. CASE ~first
    BY <2>1, <2>3
  <2>4. QED
    BY <2>2, <2>3
<1>8. \E n \in [0..Len(fifo') -> 0..Len(awaited')] : Counts(n, fifo', Begun(line'))
  <2>1. PICK n \in [0..Len(fifo) -> 0..Len(awaited)] : Counts(n, fifo, Begun(line))
    BY DEF Queues
  <2>2. Begun(line) = 0
    BY <1>1, BegunIs DEF Queues
  <2>3. d \in {0, 1}
    OBVIOUS
  <2> HIDE DEF d
  <2>4. \E q \in [0..Len(fifo) -> 0..Len(awaited) + d] : Counts(q, fifo, Begun(line'))
    BY <1>5, <1>7, <2>1, <2>2, <2>3, WriteCounted DEF Queues
  <2>5. QED
    BY <1>1, <1>7, <2>4
<1> HIDE DEF d, cell
<1>9. QED
  BY <1>1, <1>3, <1>4, <1>6, <1>7, <1>8 DEF Queues

LEMMA ArriveQueues ==
    ASSUME NEW P, NEW F \in Nat, Queues(P, F), line # <<>>, Len(fifo) < F,
           fifo' = Append(fifo, Head(line)), line' = Tail(line),
           UNCHANGED <<sent, awaited, current>>
    PROVE  Queues(P, F)'
<1> DEFINE e == Head(line)
<1>1. /\ line \in Seq(Cell) /\ fifo \in Seq(Cell) /\ \A i \in 2..Len(line) : ~line[i].start
  BY DEF Queues
<1>2. /\ Len(line) \in Nat /\ Len(line) >= 1 /\ e = line[1] /\ e \in Cell
      /\ line' \in Seq(Cell) /\ Len(line') = Len(line) - 1
      /\ \A i \in 1..Len(line) - 1 : line'[i] = line[i + 1]
  BY <1>1, HeadTail
<1> HIDE DEF e
<1>3. fifo' \in Seq(Cell) /\ Len(fifo') = Len(fifo) + 1 /\ Len(fifo) \in Nat
  BY <1>1, <1>2, AppendFacts, SeqFacts DEF e
<1>4. Len(fifo') <= F
  BY <1>3
<1>5. \A i \in 1..Len(line') : ~line'[i].start
  <2>1. \A i \in 1..Len(line) - 1 : i + 1 \in 2..Len(line)
    BY <1>2
  <2>2. QED
    BY <1>1, <1>2, <2>1
<1>6. \A i \in 2..Len(line') : ~line'[i].start
  BY <1>2, <1>5
<1>7. Begun(line) = IF e.start THEN 1 ELSE 0
  BY <1>1, <1>2, BegunIs
<1>8. Begun(line') = 0
  <2>1. DOMAIN line' = 1..Len(line')
    BY <1>2, SeqFacts
  <2>2. QED
    BY <1>5, <2>1 DEF Begun
<1>9. PICK n \in [0..Len(fifo) -> 0..Len(awaited)] : Counts(n, fifo, Begun(line))
  BY DEF Queues
<1>10. Len(awaited) \in Nat
  BY SeqFacts DEF Queues
<1>11. \E q \in [0..Len(Append(fifo, e)) -> 0..Len(awaited)] : Counts(q, Append(fifo, e), 0)
  BY <1>1, <1>2, <1>7, <1>9, <1>10, ArrivalCounted
<1>12. \E q \in [0..Len(fifo') -> 0..Len(awaited')] : Counts(q, fifo', Begun(line'))
  BY <1>8, <1>11 DEF e
<1>13. QED
  BY <1>2, <1>3, <1>4, <1>6, <1>12 DEF Queues

LEMMA GetCharQueues ==
    ASSUME NEW P, NEW F \in Nat, Queues(P, F), GetChar
    PROVE  Queues(P, F)' /\ Head(fifo).byte \in Byte
<1>1. /\ fifo \in Seq(Cell) /\ fifo # <<>> /\ fifo' = Tail(fifo)
      /\ line' = line /\ sent' = sent
  BY DEF Queues, GetChar
<1>2. /\ Len(fifo) \in Nat /\ Head(fifo) = fifo[1] /\ fifo[1] \in Cell
      /\ fifo' \in Seq(Cell) /\ Len(fifo') = Len(fifo) - 1
  BY <1>1, HeadTail
<1>3. Head(fifo).byte \in Byte /\ fifo[1].start \in BOOLEAN
  BY <1>2 DEF Cell
<1>4. Len(fifo') <= F
  BY <1>2 DEF Queues
<1>5. awaited \in Seq(FramesOf(P)) /\ Len(awaited) \in Nat /\ current \in Seq(FramesOf(P))
  BY SeqFacts DEF Queues
<1>6. PICK n \in [0..Len(fifo) -> 0..Len(awaited)] : Counts(n, fifo, Begun(line))
  BY DEF Queues
<1>7. Begun(line) \in {0, 1}
  BY BegunIs DEF Queues
<1> DEFINE r == IF fifo[1].start THEN Len(awaited) - 1 ELSE Len(awaited)
<1>8. /\ fifo[1].start => Len(awaited) >= 1
      /\ \E q \in [0..Len(fifo') -> 0..r] : Counts(q, fifo', Begun(line))
  BY <1>1, <1>5, <1>6, <1>7, TakeCounted
<1>9. /\ awaited' \in Seq(FramesOf(P)) /\ current' \in Seq(FramesOf(P))
      /\ Len(awaited') = r
  <2>1. CASE fifo[1].start
    <3>1. awaited' = Tail(awaited) /\ current' = <<Head(awaited)>>
      BY <1>2, <2>1 DEF GetChar
    <3>2. awaited # <<>>
      <4>1. Len(<<>>) = 0
        OBVIOUS
      <4>2. QED
        BY <1>8, <2>1, <4>1
    <3>3. /\ Tail(awaited) \in Seq(FramesOf(P)) /\ Len(Tail(awaited)) = Len(awaited) - 1
          /\ <<Head(awaited)>> \in Seq(FramesOf(P))
      BY <1>5, <3>2, HeadTail, HeadRest
    <3>4. QED
      BY <2>1, <3>1, <3>3
  <2>2. CASE ~fifo[1].start
    <3>1. awaited' = awaited /\ current' = current
      BY <1>2, <2>2 DEF GetChar, frames
    <3>2. QED
      BY <1>5, <2>2, <3>1
  <2>3. QED
    BY <2>1, <2>2
<1> HIDE DEF r
<1>10. \E q \in [0..Len(fifo') -> 0..Len(awaited')] : Counts(q, fifo', Begun(line'))
  BY <1>1, <1>8, <1>9
<1>11. QED
  BY <1>1, <1>2, <1>3, <1>4, <1>9, <1>10 DEF Queues

LEMMA UartInitQueues ==
    ASSUME NEW P, NEW F \in Nat, Queues(P, F), UartInit
    PROVE  Queues(P, F)'
<1>1. UNCHANGED <<line, sent, current>>
  BY DEF UartInit
<1>2. CASE UNCHANGED <<fifo, awaited>>
  BY <1>1, <1>2 DEF Queues
<1>3. CASE fifo' = <<>> /\ awaited' = LastBytes(Begun(line), awaited)
  <2>1. awaited \in Seq(FramesOf(P)) /\ Len(awaited) \in Nat
    BY SeqFacts DEF Queues
  <2>2. Begun(line) \in {0, 1}
    BY BegunIs DEF Queues
  <2>3. PICK n \in [0..Len(fifo) -> 0..Len(awaited)] : Counts(n, fifo, Begun(line))
    BY DEF Queues
  <2>4. Begun(line) <= Len(awaited)
        /\ \E q \in [0..0 -> 0..Begun(line)] : Counts(q, <<>>, Begun(line))
    BY <2>1, <2>2, <2>3, AllCounted DEF Queues
  <2>5. Begun(line) \in Int /\ Begun(line) >= 0 - 1 /\ Begun(line) \in Nat
    BY <2>2
  <2>6. awaited' \in Seq(FramesOf(P)) /\ Len(awaited') = Begun(line)
    BY <1>3, <2>1, <2>4, <2>5, LastBytesOf
  <2>7. fifo' \in Seq(Cell) /\ Len(fifo') = 0 /\ Len(fifo') <= F
    BY <1>3
  <2>8. \E q \in [0..Len(fifo') -> 0..Len(awaited')] : Counts(q, fifo', Begun(line'))
    BY <1>1, <1>3, <2>4, <2>6, <2>7
  <2>9. QED
    BY <1>1, <2>6, <2>7, <2>8 DEF Queues
<1>4. QED
  BY <1>2, <1>3 DEF UartInit, Begun

LEMMA OthersQueues ==
    ASSUME NEW P, NEW F \in Nat, Queues(P, F), UNCHANGED <<line, fifo, sent, awaited>>,
           current' = current \/ current' = <<>>
    PROVE  Queues(P, F)'
<1>1. current \in Seq(FramesOf(P))
  BY DEF Queues
<1>2. <<>> \in Seq(FramesOf(P))
  OBVIOUS
<1>3. current' \in Seq(FramesOf(P))
  BY <1>1, <1>2
<1>4. QED
  BY <1>3 DEF Queues

\* The steps of the reader.
Faults == faults' = faults \/ (faults < MaxFaults /\ faults' = faults + 1)

LEMMA FaultsBound == ASSUME faults \in 0..MaxFaults, Faults PROVE faults' \in 0..MaxFaults
<1>1. MaxFaults \in Nat
  BY ConstantsAssumption
<1>2. QED
  BY <1>1 DEF Faults

LEMMA LineReader ==
    ASSUME ReaderTypes, UNCHANGED <<ready, call, result, lost>>, Faults
    PROVE  ReaderTypes'
<1>1. faults' \in 0..MaxFaults
  BY FaultsBound DEF ReaderTypes
<1>2. UNCHANGED <<pc, matched, got, left, recent, status, size, ready, lost>>
  BY DEF call, result
<1>3. SearchInv'
  BY <1>2, OthersKeepSearch DEF ReaderTypes
<1>4. QED
  BY <1>1, <1>2, <1>3 DEF ReaderTypes

LEMMA UartInitReader == ASSUME ReaderTypes, UartInit PROVE ReaderTypes'
<1>1. /\ UNCHANGED <<pc, matched, got, left, recent, faults, lost>>
      /\ ready' \in BOOLEAN /\ status' = "IDLE" /\ size' = 0
  BY DEF UartInit, call
<1>2. SearchInv'
  BY <1>1, OthersKeepSearch DEF ReaderTypes
<1>3. "IDLE" \in Statuses /\ 0 \in Nat
  BY DEF Statuses
<1>4. QED
  BY <1>1, <1>2, <1>3 DEF ReaderTypes

LEMMA CallReader == ASSUME ReaderTypes, Call PROVE ReaderTypes'
<1>1. /\ pc' \in {pc, "marker"} /\ status' \in {"READING", "INVALID_ARGUMENT"}
      /\ size' = 0 /\ got' = <<>> /\ left' = 0 /\ recent' = <<>> /\ lost' = FALSE
      /\ ready' = ready /\ faults' = faults
  BY DEF Call
<1>2. SearchInv'
  BY CallKeepsSearch DEF ReaderTypes
<1>3. <<>> \in Seq(Byte) /\ 0 \in Nat /\ {"READING", "INVALID_ARGUMENT"} \subseteq Statuses
  BY DEF Statuses
<1>4. QED
  BY <1>1, <1>2, <1>3 DEF ReaderTypes

LEMMA MarkerByteReader ==
    ASSUME ReaderTypes, MarkerByte, Head(fifo).byte \in Byte
    PROVE  ReaderTypes'
<1>1. /\ UNCHANGED <<pc, got, left, status, size, ready, faults>>
      /\ recent' = LastBytes(L, Append(recent, Head(fifo).byte)) /\ lost' \in BOOLEAN
  BY DEF MarkerByte, GetChar, result, frames, ReaderTypes
<1>2. SearchInv'
  BY MarkerByteKeepsSearch DEF ReaderTypes
<1>3. recent' \in Seq(Byte)
  BY <1>1, LastBytesType DEF ReaderTypes
<1>4. QED
  BY <1>1, <1>2, <1>3 DEF ReaderTypes

LEMMA MarkerFoundReader == ASSUME ReaderTypes, MarkerFound PROVE ReaderTypes'
<1>1. /\ UNCHANGED <<matched, got, left, recent, status, size, ready, faults, lost>>
      /\ pc' = "length"
  BY DEF MarkerFound, result, frames
<1>2. SearchInv'
  BY <1>1, OthersKeepSearch DEF ReaderTypes
<1>3. QED
  BY <1>1, <1>2 DEF ReaderTypes

LEMMA FieldReader ==
    ASSUME ReaderTypes, GetChar, Head(fifo).byte \in Byte,
           got' = Append(got, Head(fifo).byte),
           UNCHANGED <<pc, matched, left, recent, result>>
    PROVE  ReaderTypes'
<1>1. UNCHANGED <<pc, matched, left, recent, status, size, ready, faults>> /\ lost' \in BOOLEAN
  BY DEF GetChar, result, frames, ReaderTypes
<1>2. SearchInv'
  BY <1>1, OthersKeepSearch DEF ReaderTypes
<1>3. got' \in Seq(Byte)
  BY AppendFacts DEF ReaderTypes
<1>4. QED
  BY <1>1, <1>2, <1>3 DEF ReaderTypes

LEMMA DiscardByteReader == ASSUME ReaderTypes, DiscardByte PROVE ReaderTypes'
<1>1. /\ UNCHANGED <<pc, matched, got, recent, status, size, ready, faults>>
      /\ lost' \in BOOLEAN /\ left > 0 /\ left' = left - 1
  BY DEF DiscardByte, GetChar, result, frames, ReaderTypes
<1>2. SearchInv'
  BY <1>1, OthersKeepSearch DEF ReaderTypes
<1>3. left' \in Nat
  BY <1>1 DEF ReaderTypes
<1>4. QED
  BY <1>1, <1>2, <1>3 DEF ReaderTypes

LEMMA DrainReader == ASSUME ReaderTypes, DrainBegin \/ DrainByte \/ DrainEnd PROVE ReaderTypes'
<1>1. /\ UNCHANGED <<matched, got, left, recent, ready, faults>> /\ lost' \in BOOLEAN
      /\ pc' \in {pc, "drain", "raw", "idle"}
      /\ status' \in {status, "IDLE"} /\ size' \in {size, 0}
  BY DEF DrainBegin, DrainByte, DrainEnd, GetChar, call, result, frames, ReaderTypes
<1>2. SearchInv'
  BY <1>1, OthersKeepSearch DEF ReaderTypes
<1>3. "IDLE" \in Statuses /\ 0 \in Nat
  BY DEF Statuses
<1>4. QED
  BY <1>1, <1>2, <1>3 DEF ReaderTypes

\* A call returns, whatever it reports of the frame in hand.
Returned(s) ==
    /\ pc' = "idle" /\ status' = s /\ current' = <<>> /\ lost' \in BOOLEAN
    /\ whole' = (whole /\ (s = "TIMEOUT" => AtBoundary(fifo)))
    /\ UNCHANGED <<wire, ready, matched, got, left, recent, awaited>>

LEMMA ReturnReturns ==
    ASSUME lost \in BOOLEAN, NEW s, Return(s) \/ Lossy!Return(s) PROVE Returned(s)
BY DEF Return, Lossy!Return, Returned, Lossy!wire, wire, Lossy!AtBoundary, AtBoundary

LEMMA ReturnReader ==
    ASSUME ReaderTypes, NEW s \in Statuses, Returned(s), size' \in Nat, Faults
    PROVE  ReaderTypes'
<1>1. /\ UNCHANGED <<matched, got, left, recent, ready>> /\ lost' \in BOOLEAN
      /\ pc' = "idle" /\ status' = s
  BY DEF Returned
<1>2. SearchInv'
  BY <1>1, OthersKeepSearch DEF ReaderTypes
<1>3. faults' \in 0..MaxFaults
  BY FaultsBound DEF ReaderTypes
<1>4. QED
  BY <1>1, <1>2, <1>3 DEF ReaderTypes

\* What is done with a length, of a frame with so many bytes after its payload.
Decodes(length, trailer) ==
    \/ Returned("LENGTH_OUT_OF_RANGE") /\ UNCHANGED <<size, faults>>
    \/ /\ length > BufferLength
       /\ pc' = "discard" /\ left' = length + trailer /\ size' = length
       /\ UNCHANGED <<wire, ready, matched, got, recent, status, frames, faults>>
    \/ /\ length \in 0..BufferLength
       /\ pc' = "body"
       /\ UNCHANGED <<wire, ready, matched, got, left, recent, result, frames, faults>>

LEMMA DecodesReader ==
    ASSUME ReaderTypes, NEW length \in Int, NEW trailer \in Nat, Decodes(length, trailer)
    PROVE  ReaderTypes'
<1>1. CASE Returned("LENGTH_OUT_OF_RANGE") /\ UNCHANGED <<size, faults>>
  <2>1. "LENGTH_OUT_OF_RANGE" \in Statuses
    BY DEF Statuses
  <2>2. size' \in Nat /\ Faults
    BY <1>1 DEF ReaderTypes, Faults
  <2>3. QED
    BY <1>1, <2>1, <2>2, ReturnReader
<1>2. CASE /\ length > BufferLength
           /\ pc' = "discard" /\ left' = length + trailer /\ size' = length
           /\ UNCHANGED <<wire, ready, matched, got, recent, status, frames, faults>>
  <2>1. BufferLength \in Nat
    BY ConstantsAssumption
  <2>2. length \in Nat /\ length + trailer \in Nat
    BY <1>2, <2>1
  <2>3. UNCHANGED <<ready, matched, got, recent, status, faults, lost>>
    BY <1>2 DEF frames
  <2>4. SearchInv'
    BY <1>2, <2>3, OthersKeepSearch DEF ReaderTypes
  <2>5. QED
    BY <1>2, <2>2, <2>3, <2>4 DEF ReaderTypes
<1>3. CASE /\ length \in 0..BufferLength /\ pc' = "body"
           /\ UNCHANGED <<wire, ready, matched, got, left, recent, result, frames, faults>>
  <2>1. UNCHANGED <<ready, matched, got, left, recent, status, size, faults, lost>>
    BY <1>3 DEF frames, result
  <2>2. SearchInv'
    BY <1>3, <2>1, OthersKeepSearch DEF ReaderTypes
  <2>3. QED
    BY <1>3, <2>1, <2>2 DEF ReaderTypes
<1>4. QED
  BY <1>1, <1>2, <1>3 DEF Decodes

LEMMA DecodesQueues ==
    ASSUME NEW P, NEW F \in Nat, Queues(P, F), NEW length, NEW trailer, Decodes(length, trailer)
    PROVE  Queues(P, F)'
BY OthersQueues DEF Decodes, Returned, wire, frames

\* The fields that a length is decoded of stay what they are once they have been read.
LEMMA LengthBytesStay ==
    ASSUME ReaderTypes, Len(got) >= LengthSize,
           got' = got \/ \E b \in Byte : got' = Append(got, b)
    PROVE  Len(got') >= LengthSize /\ LengthBytes' = LengthBytes
<1>1. got \in Seq(Byte) /\ Len(got) \in Nat /\ LengthSize \in Nat
  BY SeqFacts, Sizes DEF ReaderTypes
<1>2. CASE got' = got
  BY <1>2 DEF LengthBytes, LengthSize
<1>3. ASSUME NEW b \in Byte, got' = Append(got, b)
      PROVE  Len(got') >= LengthSize /\ LengthBytes' = LengthBytes
  <2>1. got' \in Seq(Byte) /\ Len(got') = Len(got) + 1 /\ \A i \in 1..Len(got) : got'[i] = got[i]
    BY <1>1, <1>3, AppendFacts
  <2>2. PICK g : g = got'
    OBVIOUS
  <2>3. SubSeq(g, 1, LengthSize) = SubSeq(got, 1, LengthSize)
    <3> DEFINE s == SubSeq(g, 0 + 1, 0 + LengthSize)
               t == SubSeq(got, 0 + 1, 0 + LengthSize)
    <3>1. s \in Seq(Byte) /\ Len(s) = LengthSize /\ \A i \in 1..LengthSize : s[i] = g[0 + i]
      BY <1>1, <2>1, <2>2, Part
    <3>2. t \in Seq(Byte) /\ Len(t) = LengthSize /\ \A i \in 1..LengthSize : t[i] = got[0 + i]
      BY <1>1, Part
    <3>3. \A i \in 1..LengthSize : 0 + i \in 1..Len(got) /\ g[0 + i] = got[0 + i]
      BY <1>1, <2>1, <2>2
    <3> HIDE DEF s, t
    <3>4. s = t
      BY <3>1, <3>2, <3>3, SameSeq
    <3>5. 0 + 1 = 1 /\ 0 + LengthSize = LengthSize
      BY <1>1
    <3>6. QED
      BY <3>4, <3>5 DEF s, t
  <2>4. LengthBytes' = SubSeq(got', 1, LengthSize)
    BY DEF LengthBytes, LengthSize
  <2>5. QED
    BY <1>1, <2>1, <2>2, <2>3, <2>4 DEF LengthBytes
<1>4. QED
  BY <1>2, <1>3

\* A length is an integer, whatever is subtracted from it.
Decoded(b) == IF LengthType = "U8" THEN b[1]
              ELSE IF LengthType = "U16_LE" THEN b[1] + 256 * b[2] ELSE 256 * b[1] + b[2]

LEMMA DecodedType ==
    ASSUME ReaderTypes, Len(got) >= LengthSize
    PROVE  Decoded(LengthBytes) \in Int
<1>1. got \in Seq(Byte) /\ Len(got) \in Nat /\ LengthSize \in {1, 2} /\ LengthSize \in Nat
  BY SeqFacts, Sizes DEF ReaderTypes
<1> DEFINE t == SubSeq(got, 0 + 1, 0 + LengthSize)
<1>2. t \in Seq(Byte) /\ Len(t) = LengthSize
  BY <1>1, Part
<1>3. LengthBytes = t
  <2>1. 0 + 1 = 1 /\ 0 + LengthSize = LengthSize
    BY <1>1
  <2>2. QED
    BY <2>1 DEF LengthBytes
<1> HIDE DEF t
<1>4. \A i \in 1..LengthSize : t[i] \in Int
  <2>1. \A i \in 1..LengthSize : t[i] \in Byte
    BY <1>2
  <2>2. \A v \in Byte : v \in Int
    BY DEF Byte
  <2>3. QED
    BY <2>1, <2>2
<1>5. 1 \in 1..LengthSize /\ (LengthType # "U8" => 2 \in 1..LengthSize)
  BY <1>1 DEF LengthSize
<1>6. t[1] \in Int /\ (LengthType # "U8" => t[2] \in Int)
  BY <1>4, <1>5
<1>7. QED
  BY <1>3, <1>6 DEF Decoded

\* The length field of the second configuration of MCUart is one byte.
LossyKnown == pc = "body" => Len(got) >= 1 /\ Lossy!PayloadLength \in Nat

\* Every step of the driver keeps its types.
TypeInv == Queues(Payloads, FifoSize) /\ ReaderTypes /\ KnownAs(PayloadLength)

LEMMA NotKnownYet ==
    ASSUME pc' # "body"
    PROVE  KnownAs(PayloadLength)' /\ LossyKnown'
BY DEF KnownAs, LossyKnown

LEMMA StaysKnown ==
    ASSUME ReaderTypes, KnownAs(PayloadLength), pc' = pc,
           got' = got \/ \E b \in Byte : got' = Append(got, b)
    PROVE  KnownAs(PayloadLength)'
<1>1. CASE pc = "body"
  <2>1. Len(got) >= LengthSize /\ PayloadLength \in Nat
    BY <1>1 DEF KnownAs
  <2>2. Len(got') >= LengthSize /\ LengthBytes' = LengthBytes
    BY <2>1, LengthBytesStay
  <2>3. PayloadLength = DecodeLength(LengthBytes) /\ PayloadLength' = DecodeLength(LengthBytes)
    <3>1. PayloadLength' = DecodeLength(LengthBytes')
      BY DEF PayloadLength, DecodeLength
    <3>2. QED
      BY <2>2, <3>1, Zenon DEF PayloadLength
  <2>4. QED
    BY <2>1, <2>2, <2>3 DEF KnownAs, LengthSize
<1>2. CASE pc # "body"
  BY <1>2 DEF KnownAs
<1>3. QED
  BY <1>1, <1>2

LEMMA LengthIsInt ==
    ASSUME ReaderTypes, Len(got) >= LengthSize
    PROVE  PayloadLength \in Int
<1>1. PayloadLength = Decoded(LengthBytes) - Adjustment
  BY DEF PayloadLength, DecodeLength, Decoded
<1>2. QED
  BY <1>1, DecodedType, ConstantsAssumption

\* One byte of a frame is changed or lost.
LEMMA ByteDamaged ==
    ASSUME NEW w \in Seq(Byte), NEW i \in 1..Len(w)
    PROVE  /\ [w EXCEPT ![i] = (@ + 1) % 256] \in Seq(Byte)
           /\ SubSeq(w, 1, i - 1) \o SubSeq(w, i + 1, Len(w)) \in Seq(Byte)
<1>1. Len(w) \in Nat /\ w[i] \in Byte
  BY SeqFacts
<1>2. (w[i] + 1) % 256 \in Byte
  BY <1>1, NextByte
<1> DEFINE b == (w[i] + 1) % 256
<1>3. [w EXCEPT ![i] = b] \in Seq(Byte)
  <2>1. b \in Byte
    BY <1>2
  <2> HIDE DEF b
  <2>2. QED
    BY <1>1, <2>1
<1>4. SubSeq(w, 1, i - 1) \in Seq(Byte) /\ SubSeq(w, i + 1, Len(w)) \in Seq(Byte)
  <2> DEFINE m == i - 1
             k == Len(w) - i
  <2>1. m \in Nat /\ k \in Nat /\ 0 + m <= Len(w) /\ i + k <= Len(w) /\ i \in Nat
    BY <1>1
  <2>2. i + k = Len(w) /\ 0 + m = i - 1 /\ 0 + 1 = 1
    BY <1>1
  <2> HIDE DEF m, k
  <2>3. SubSeq(w, 0 + 1, 0 + m) \in Seq(Byte) /\ SubSeq(w, i + 1, i + k) \in Seq(Byte)
    BY <2>1, Part
  <2>4. QED
    BY <2>2, <2>3
<1>5. QED
  BY <1>3, <1>4, Concatenation

LEMMA DamagedType ==
    ASSUME NEW v \in Seq(Byte), NEW w \in Damaged(v)
    PROVE  w \in Seq(Byte)
<1>1. L \in Nat /\ LengthSize \in Nat /\ Len(v) \in Nat
  BY Sizes, SeqFacts
<1> DEFINE changeable == IF LengthSafe THEN L + LengthSize + 1..Len(v) ELSE 1..Len(v)
           change == {[v EXCEPT ![i] = (@ + 1) % 256] : i \in changeable}
           loss == {SubSeq(v, 1, i - 1) \o SubSeq(v, i + 1, Len(v)) : i \in 1..Len(v)}
<1>2. \A i \in changeable : i \in 1..Len(v)
  BY <1>1
<1> HIDE DEF changeable
<1>3. w \in change \/ w \in loss
  BY Zenon DEF Damaged, changeable
<1>4. CASE w \in change
  BY <1>2, <1>4, ByteDamaged
<1>5. CASE w \in loss
  BY <1>5, ByteDamaged
<1>6. QED
  BY <1>3, <1>4, <1>5

LEMMA PutReader ==
    ASSUME ReaderTypes, KnownAs(PayloadLength), NEW w, NEW first, Put(w, first), Faults
    PROVE  ReaderTypes' /\ KnownAs(PayloadLength)'
<1>1. UNCHANGED <<ready, call, result, lost>>
  BY DEF Put
<1>2. ReaderTypes'
  BY <1>1, LineReader
<1>3. QED
  BY <1>1, <1>2, StaysKnown DEF call

LEMMA WritesKeepTypes ==
    ASSUME TypeInv, WriteFrame \/ WriteDamaged \/ MakeNoise
    PROVE  TypeInv'
<1>1. FifoSize \in Nat
  BY ConstantsAssumption
<1>2. ASSUME NEW p \in Payloads, LengthFits(Len(p)), NEW w, NEW intact \in BOOLEAN,
             w = Wire(p) \/ w \in Damaged(Wire(p)),
             Put(w, TRUE), awaited' = Append(awaited, [payload |-> p, intact |-> intact]), Faults
      PROVE  TypeInv'
  <2>1. Wire(p) \in Seq(Byte)
    BY <1>2, WireLayout
  <2>2. w \in Seq(Byte)
    BY <1>2, <2>1, DamagedType
  <2>3. [payload |-> p, intact |-> intact] \in FramesOf(Payloads)
    BY DEF FramesOf
  <2>4. Queues(Payloads, FifoSize)'
    BY <1>1, <1>2, <2>2, <2>3, PutQueues DEF TypeInv
  <2>5. QED
    BY <1>2, <2>4, PutReader DEF TypeInv
<1>3. CASE WriteFrame
  <2>1. PICK p \in Payloads : /\ LengthFits(Len(p)) /\ Put(Wire(p), TRUE)
                              /\ awaited' = Append(awaited, [payload |-> p, intact |-> TRUE])
                              /\ Faults
    BY <1>3 DEF WriteFrame, Faults
  <2>2. QED
    BY <1>2, <2>1
<1>4. CASE WriteDamaged
  <2>1. PICK p \in Payloads : \E w \in Damaged(Wire(p)) :
           /\ LengthFits(Len(p)) /\ Put(w, TRUE)
           /\ awaited' = Append(awaited, [payload |-> p, intact |-> FALSE])
           /\ Faults
    BY <1>4 DEF WriteDamaged, Faults
  <2>2. QED
    BY <1>2, <2>1
<1>5. CASE MakeNoise
  <2>1. PICK b \in Noise : Put(<<b>>, FALSE) /\ awaited' = awaited /\ Faults
    BY <1>5 DEF MakeNoise, Faults
  <2>2. <<b>> \in Seq(Byte)
    BY ConstantsAssumption, ByteTuples
  <2>3. Queues(Payloads, FifoSize)'
    BY <1>1, <2>1, <2>2, PutQueues DEF TypeInv
  <2>4. QED
    BY <2>1, <2>3, PutReader DEF TypeInv
<1>6. QED
  BY <1>3, <1>4, <1>5

LEMMA LineKeepsTypes ==
    ASSUME TypeInv, Arrive \/ UartInit \/ Call PROVE TypeInv'
<1>1. FifoSize \in Nat
  BY ConstantsAssumption
<1>2. CASE Arrive
  <2>1. UNCHANGED <<sent, ready, call, result, frames, faults>>
    BY <1>2 DEF Arrive
  <2>2. Queues(Payloads, FifoSize)'
    BY <1>1, <1>2, <2>1, ArriveQueues DEF TypeInv, Arrive, frames
  <2>3. ReaderTypes'
    BY <2>1, LineReader DEF TypeInv, frames, Faults
  <2>4. KnownAs(PayloadLength)'
    BY <2>1, StaysKnown DEF TypeInv, call
  <2>5. QED
    BY <2>2, <2>3, <2>4 DEF TypeInv
<1>3. CASE UartInit
  <2>1. Queues(Payloads, FifoSize)' /\ ReaderTypes'
    BY <1>1, <1>3, UartInitQueues, UartInitReader DEF TypeInv
  <2>2. KnownAs(PayloadLength)'
    BY <1>3, StaysKnown DEF TypeInv, UartInit, call
  <2>3. QED
    BY <2>1, <2>2 DEF TypeInv
<1>4. CASE Call
  <2>1. UNCHANGED <<line, fifo, sent, awaited, current>>
    BY <1>4 DEF Call, wire
  <2>2. Queues(Payloads, FifoSize)' /\ ReaderTypes'
    BY <1>1, <1>4, <2>1, OthersQueues, CallReader DEF TypeInv
  <2>3. pc' # "body"
    BY <1>4 DEF Call
  <2>4. QED
    BY <2>2, <2>3, NotKnownYet DEF TypeInv
<1>5. QED
  BY <1>2, <1>3, <1>4

LEMMA BytesKeepTypes ==
    ASSUME TypeInv, MarkerByte \/ FieldByte \/ DiscardByte \/ DrainByte PROVE TypeInv'
<1>1. GetChar
  BY DEF MarkerByte, FieldByte, DiscardByte, DrainByte
<1>2. FifoSize \in Nat
  BY ConstantsAssumption
<1>3. Queues(Payloads, FifoSize)' /\ Head(fifo).byte \in Byte
  BY <1>1, <1>2, GetCharQueues DEF TypeInv
<1>4. ReaderTypes'
  BY <1>1, <1>3, MarkerByteReader, FieldReader, DiscardByteReader, DrainReader
     DEF TypeInv, FieldByte
<1>5. pc' = pc /\ (got' = got \/ \E b \in Byte : got' = Append(got, b))
  BY <1>3 DEF MarkerByte, FieldByte, DiscardByte, DrainByte, call
<1>6. KnownAs(PayloadLength)'
  BY <1>5, StaysKnown DEF TypeInv
<1>7. QED
  BY <1>3, <1>4, <1>6 DEF TypeInv

LEMMA TurnsKeepTypes ==
    ASSUME TypeInv, MarkerFound \/ DrainBegin \/ DrainEnd \/ Decode PROVE TypeInv'
<1>1. FifoSize \in Nat
  BY ConstantsAssumption
<1>2. CASE MarkerFound \/ DrainBegin \/ DrainEnd
  <2>1. UNCHANGED <<line, fifo, sent, awaited>> /\ (current' = current \/ current' = <<>>)
    BY <1>2 DEF MarkerFound, DrainBegin, DrainEnd, wire, frames
  <2>2. Queues(Payloads, FifoSize)' /\ ReaderTypes'
    BY <1>1, <1>2, <2>1, OthersQueues, MarkerFoundReader, DrainReader DEF TypeInv
  <2>3. pc' # "body"
    BY <1>2 DEF MarkerFound, DrainBegin, DrainEnd
  <2>4. QED
    BY <2>2, <2>3, NotKnownYet DEF TypeInv
<1>3. CASE Decode
  <2>1. pc = "length" /\ Len(got) >= LengthSize /\ got \in Seq(Byte)
    BY <1>3, Sizes DEF Decode, TypeInv, ReaderTypes
  <2>2. PayloadLength \in Int /\ TrailerSize \in Nat
    BY <2>1, LengthIsInt, Sizes DEF TypeInv
  <2>3. Decodes(PayloadLength, TrailerSize)
    <3>1. Return("LENGTH_OUT_OF_RANGE") => Returned("LENGTH_OUT_OF_RANGE")
      BY ReturnReturns DEF TypeInv, ReaderTypes
    <3>2. QED
      BY <1>3, <3>1, Zenon DEF Decode, Decodes
  <2>4. Queues(Payloads, FifoSize)' /\ ReaderTypes'
    BY <1>1, <2>2, <2>3, DecodesQueues, DecodesReader DEF TypeInv
  <2>5. KnownAs(PayloadLength)'
    <3>1. CASE pc' # "body"
      BY <3>1, NotKnownYet
    <3>2. CASE pc' = "body"
      <4>1. PayloadLength \in 0..BufferLength /\ got' = got
        BY <2>3, <3>2 DEF Decodes, Returned
      <4>2. PayloadLength' = PayloadLength /\ BufferLength \in Nat
        BY <4>1, ConstantsAssumption DEF PayloadLength, DecodeLength, LengthBytes, LengthSize
      <4>3. QED
        BY <2>1, <4>1, <4>2 DEF KnownAs, LengthSize
    <3>3. QED
      BY <3>1, <3>2
  <2>6. QED
    BY <2>4, <2>5 DEF TypeInv
<1>4. QED
  BY <1>2, <1>3

LEMMA ReturnsKeepTypes ==
    ASSUME TypeInv, Discarded \/ Verify \/ Timeout PROVE TypeInv'
<1>1. FifoSize \in Nat
  BY ConstantsAssumption
<1>2. PICK s \in Statuses : Returned(s)
  <2>1. PICK s \in Statuses : Return(s)
    BY DEF Discarded, Verify, Timeout, Statuses
  <2>2. Returned(s)
    BY <2>1, ReturnReturns DEF TypeInv, ReaderTypes
  <2>3. QED
    BY <2>2
<1>3. size' \in Nat
  <2>1. CASE Verify
    <3>1. PayloadLength \in Nat
      BY <2>1 DEF Verify, TypeInv, KnownAs
    <3>2. QED
      BY <2>1, <3>1 DEF Verify
  <2>2. CASE Discarded \/ Timeout
    BY <2>2 DEF Discarded, Timeout, TypeInv, ReaderTypes
  <2>3. QED
    BY <2>1, <2>2
<1>4. Faults
  <2>1. CASE Timeout
    <3>1. faults \in Nat /\ MaxFaults \in Nat /\ faults' <= MaxFaults
      BY <2>1, ConstantsAssumption DEF Timeout, TypeInv, ReaderTypes
    <3>2. faults' = faults \/ faults' = faults + 1
      BY <2>1 DEF Timeout
    <3>3. QED
      BY <3>1, <3>2 DEF Faults
  <2>2. CASE Discarded \/ Verify
    BY <2>2 DEF Discarded, Verify, Faults
  <2>3. QED
    BY <2>1, <2>2
<1>5. UNCHANGED <<line, fifo, sent, awaited>> /\ current' = <<>> /\ pc' # "body"
  BY <1>2 DEF Returned, wire
<1>6. QED
  BY <1>1, <1>2, <1>3, <1>4, <1>5, OthersQueues, ReturnReader, NotKnownYet DEF TypeInv

LEMMA TypesStep == TypeInv /\ [Next]_vars => TypeInv'
<1>1. SUFFICES ASSUME TypeInv, [Next]_vars PROVE TypeInv'
  OBVIOUS
<1>2. CASE UNCHANGED vars
  <2>1. /\ UNCHANGED <<line, fifo, sent>> /\ UNCHANGED <<awaited, current, lost>>
        /\ UNCHANGED <<ready, call, result, faults>> /\ UNCHANGED <<pc, got>>
    BY <1>2 DEF vars, wire, frames, call
  <2>2. FifoSize \in Nat
    BY ConstantsAssumption
  <2>3. Queues(Payloads, FifoSize)'
    BY <1>1, <2>1, <2>2, OthersQueues DEF TypeInv
  <2>4. ReaderTypes'
    BY <1>1, <2>1, LineReader DEF TypeInv, Faults
  <2>5. KnownAs(PayloadLength)'
    BY <1>1, <2>1, StaysKnown DEF TypeInv
  <2>6. QED
    BY <2>3, <2>4, <2>5 DEF TypeInv
<1>3. QED
  BY <1>1, <1>2, WritesKeepTypes, LineKeepsTypes, BytesKeepTypes, TurnsKeepTypes, ReturnsKeepTypes
     DEF Next, ReadStep, DrainStep

LEMMA TypeInvTypes == TypeInv /\ Histories => TypeOK
<1>1. SUFFICES ASSUME TypeInv, Histories PROVE TypeOK
  OBVIOUS
<1>2. /\ Queues(Payloads, FifoSize) /\ ReaderTypes /\ matched \in 0..L
      /\ clean \in BOOLEAN /\ whole \in BOOLEAN
  BY <1>1 DEF TypeInv, ReaderTypes, SearchInv, Histories
<1>3. QED
  BY <1>2 DEF TypeOK, Queues, ReaderTypes, FramesOf, Cell

LEMMA TypesAtFirst ==
    ASSUME Init, NEW P, NEW F \in Nat PROVE Queues(P, F) /\ ReaderTypes /\ pc # "body"
<1>1. /\ line = <<>> /\ fifo = <<>> /\ sent = <<>> /\ awaited = <<>> /\ current = <<>>
      /\ ready = FALSE /\ pc = "idle" /\ got = <<>> /\ left = 0 /\ recent = <<>>
      /\ status = "IDLE" /\ size = 0 /\ lost = FALSE /\ faults = 0
  BY DEF Init
<1>2. <<>> \in Seq(Cell) /\ <<>> \in Seq(Byte) /\ <<>> \in Seq(FramesOf(P)) /\ Len(<<>>) = 0
  OBVIOUS
<1>3. 2..0 = {}
  OBVIOUS
<1>4. Begun(line) = 0
  BY <1>1, <1>2, <1>3, BegunIs
<1>5. \E n \in [0..Len(fifo) -> 0..Len(awaited)] : Counts(n, fifo, Begun(line))
  <2> DEFINE n == [i \in 0..0 |-> 0]
  <2>1. n \in [0..0 -> 0..0] /\ n[0] = 0 /\ 1..0 = {} /\ \A i \in 0..0 : n[i] = 0
    OBVIOUS
  <2> HIDE DEF n
  <2>2. Counts(n, <<>>, 0)
    BY <1>2, <2>1 DEF Counts
  <2>3. QED
    BY <1>1, <1>2, <1>4, <2>1, <2>2
<1>6. Queues(P, F)
  BY <1>1, <1>2, <1>3, <1>5 DEF Queues
<1>7. 0 \in 0..MaxFaults
  BY ConstantsAssumption
<1>8. ReaderTypes
  BY <1>1, <1>2, <1>7, InitSearch DEF ReaderTypes, Statuses
<1>9. QED
  BY <1>1, <1>6, <1>8

\* The driver's counters stay in their ranges, and the peer's queues hold frames:
\* no length is negative, no discard goes below zero, no more frames begin than
\* were written.
THEOREM FrameTypesCorrect == Spec => []TypeOK
<1>1. Init => TypeInv /\ Histories
  <2>1. Init => TypeInv
    BY TypesAtFirst, ConstantsAssumption DEF TypeInv, KnownAs
  <2>2. Init => Histories
    BY DEF Init, Histories
  <2>3. QED
    BY <2>1, <2>2
<1>2. Histories /\ [Next]_vars => Histories'
  BY NextEnds, Zenon DEF Ends, Histories
<1>3. QED
  BY <1>1, <1>2, TypeInvTypes, TypesStep, PTL DEF Spec

-----------------------------------------------------------------------------
(* The types of the second configuration of MCUart *)

\* It differs in what is sent, in the FIFO and in what follows a payload; the steps in
\* which these do not occur are the same.
LossyInv == Queues(LossyPayloads, 1) /\ ReaderTypes /\ LossyKnown

LEMMA SameGetChar == ASSUME Lossy!GetChar PROVE GetChar
BY DEF Lossy!GetChar, GetChar, Lossy!frames, frames

LEMMA SamePut == ASSUME NEW w, NEW isFrame, Lossy!Put(w, isFrame) PROVE Put(w, isFrame)
<1>1. Lossy!Clean(w, isFrame) = Clean(w, isFrame)
  BY DEF Lossy!Clean, Clean, Lossy!L, L
<1>2. QED
  BY <1>1 DEF Lossy!Put, Put, Lossy!L, L, Lossy!LastBytes, LastBytes,
       Lossy!call, call, Lossy!result, result

LEMMA SameSizes ==
    /\ Lossy!L = L /\ Lossy!LengthSize = 1
    /\ Lossy!TrailerSize = 0 /\ Lossy!Statuses = Statuses
BY DEF Lossy!L, L, Lossy!LengthSize,
       Lossy!TrailerSize, Lossy!ChecksumSize, Lossy!Statuses, Statuses, Lossy!Crc16

LEMMA SameSteps ==
    /\ Lossy!UartInit => UartInit
    /\ Lossy!Call => Call
    /\ Lossy!MarkerByte => MarkerByte
    /\ Lossy!MarkerFound => MarkerFound
    /\ Lossy!DiscardByte => DiscardByte
    /\ Lossy!DrainBegin => DrainBegin
    /\ Lossy!DrainByte => DrainByte
    /\ Lossy!DrainEnd => DrainEnd
<1> USE DEF Lossy!wire, Lossy!call, Lossy!result, Lossy!frames, wire, call, result, frames
<1>1. Lossy!UartInit => UartInit
  BY DEF Lossy!UartInit, UartInit, Lossy!LastBytes, LastBytes, Lossy!AtBoundary, AtBoundary
<1>2. Lossy!Call => Call
  BY DEF Lossy!Call, Call
<1>3. Lossy!MarkerByte => MarkerByte
  BY SameGetChar DEF Lossy!MarkerByte, MarkerByte, Lossy!L, L, Lossy!LastBytes, LastBytes,
       Lossy!NextMatch, NextMatch, Lossy!Largest, Largest, Lossy!MarkerEnds, MarkerEnds
<1>4. Lossy!MarkerFound => MarkerFound
  BY DEF Lossy!MarkerFound, MarkerFound, Lossy!L, L
<1>5. Lossy!DiscardByte => DiscardByte
  BY SameGetChar DEF Lossy!DiscardByte, DiscardByte
<1>6. Lossy!DrainBegin => DrainBegin
  BY DEF Lossy!DrainBegin, DrainBegin
<1>7. Lossy!DrainByte => DrainByte
  BY SameGetChar DEF Lossy!DrainByte, DrainByte
<1>8. Lossy!DrainEnd => DrainEnd
  BY DEF Lossy!DrainEnd, DrainEnd, Lossy!AtBoundary, AtBoundary
<1>9. QED
  BY <1>1, <1>2, <1>3, <1>4, <1>5, <1>6, <1>7, <1>8

\* Its length is that byte less 168.
LEMMA LossyLength ==
    ASSUME NEW g \in Seq(Byte), Len(g) >= 1 PROVE SubSeq(g, 1, 1)[1] = g[1]
<1>1. Len(g) \in Nat /\ 0 + 1 = 1
  BY SeqFacts
<1>2. \A j \in 1..1 : SubSeq(g, 0 + 1, 0 + 1)[j] = g[0 + j]
  BY <1>1, Part
<1>3. QED
  BY <1>1, <1>2

LEMMA LossyLengthIsInt ==
    ASSUME ReaderTypes, Len(got) >= 1
    PROVE  Lossy!PayloadLength = got[1] - 168 /\ Lossy!PayloadLength \in Int
<1>1. Lossy!PayloadLength = SubSeq(got, 1, 1)[1] - 168
  BY DEF Lossy!PayloadLength, Lossy!DecodeLength, Lossy!LengthBytes, Lossy!LengthSize
<1>2. SubSeq(got, 1, 1)[1] = got[1]
  BY LossyLength DEF ReaderTypes
<1>3. got[1] \in Int
  <2>1. got[1] \in Byte
    BY SeqFacts DEF ReaderTypes
  <2>2. \A v \in Byte : v \in Int
    BY DEF Byte
  <2>3. QED
    BY <2>1, <2>2
<1>4. QED
  BY <1>1, <1>2, <1>3

LEMMA LossyStaysKnown ==
    ASSUME ReaderTypes, LossyKnown, pc' = pc,
           got' = got \/ \E b \in Byte : got' = Append(got, b)
    PROVE  LossyKnown'
<1>1. CASE pc = "body"
  <2>1. Len(got) >= 1 /\ Lossy!PayloadLength \in Nat /\ got \in Seq(Byte)
    BY <1>1 DEF LossyKnown, ReaderTypes
  <2>2. PICK g : g = got'
    OBVIOUS
  <2>3. g \in Seq(Byte) /\ Len(g) >= 1 /\ g[1] = got[1]
    <3>1. CASE g = got
      BY <2>1, <3>1
    <3>2. CASE \E b \in Byte : g = Append(got, b)
      BY <2>1, <3>2, SeqFacts, AppendFacts
    <3>3. QED
      BY <2>2, <3>1, <3>2
  <2>4. Lossy!PayloadLength' = SubSeq(got', 1, 1)[1] - 168
    BY DEF Lossy!PayloadLength, Lossy!DecodeLength, Lossy!LengthBytes, Lossy!LengthSize
  <2>5. SubSeq(g, 1, 1)[1] = g[1]
    BY <2>3, LossyLength
  <2>6. Lossy!PayloadLength' = Lossy!PayloadLength
    BY <2>1, <2>2, <2>3, <2>4, <2>5, LossyLengthIsInt
  <2>7. QED
    BY <2>1, <2>2, <2>3, <2>6 DEF LossyKnown
<1>2. CASE pc # "body"
  BY <1>2 DEF LossyKnown
<1>3. QED
  BY <1>1, <1>2

\* A frame without a checksum and an end marker.
LEMMA LossyWire ==
    ASSUME NEW p \in LossyPayloads, Lossy!LengthFits(Len(p))
    PROVE  Lossy!Wire(p) \in Seq(Byte)
<1>1. p \in Seq(Byte) /\ Len(p) \in Nat
  <2>1. 170 \in Byte /\ 85 \in Byte
    BY DEF Byte
  <2>2. <<170, 85>> \in Seq(Byte) /\ <<85, 170, 170>> \in Seq(Byte)
    BY <2>1, ByteTuples
  <2>3. QED
    BY <2>2, SeqFacts DEF LossyPayloads
<1> DEFINE e == Len(p) + 168
           low == e % 256
<1>2. low \in Byte
  <2>1. e \in Int /\ e >= 0 /\ e <= 65535
    BY <1>1 DEF Lossy!LengthFits, Lossy!EncodedLength
  <2> HIDE DEF e
  <2>2. QED
    BY <2>1, SplitInBytes DEF Byte
<1>3. Lossy!EncodeLength(Len(p)) \in Seq(Byte)
  <2>1. Lossy!EncodeLength(Len(p)) = <<low>>
    BY DEF Lossy!EncodeLength, Lossy!EncodedLength
  <2> HIDE DEF low
  <2>2. QED
    BY <1>2, <2>1, ByteTuples
<1>4. Lossy!Checksum(Lossy!EncodeLength(Len(p)), p) = <<>>
  BY DEF Lossy!Checksum, Lossy!ChecksumBytes
<1>5. StartMarker \in Seq(Byte) /\ <<>> \in Seq(Byte)
  BY ConstantsAssumption, ByteTuples
<1> DEFINE lb == Lossy!EncodeLength(Len(p))
<1>6. Lossy!Wire(p) = StartMarker \o lb \o p \o <<>> \o <<>>
  BY <1>4 DEF Lossy!Wire
<1> HIDE DEF lb
<1>7. lb \in Seq(Byte)
  BY <1>3 DEF lb
<1>8. QED
  BY <1>1, <1>5, <1>6, <1>7, Concatenation

LEMMA LossyDamagedType ==
    ASSUME NEW v \in Seq(Byte), NEW w \in Lossy!Damaged(v)
    PROVE  w \in Seq(Byte)
<1> DEFINE change == {[v EXCEPT ![i] = (@ + 1) % 256] : i \in 1..Len(v)}
           loss == {SubSeq(v, 1, i - 1) \o SubSeq(v, i + 1, Len(v)) : i \in 1..Len(v)}
<1>1. w \in change \/ w \in loss
  BY Zenon DEF Lossy!Damaged
<1>2. CASE w \in change
  BY <1>2, ByteDamaged
<1>3. CASE w \in loss
  BY <1>3, ByteDamaged
<1>4. QED
  BY <1>1, <1>2, <1>3

LEMMA LossyPutReader ==
    ASSUME ReaderTypes, LossyKnown, NEW w, NEW first, Put(w, first), Faults
    PROVE  ReaderTypes' /\ LossyKnown'
<1>1. UNCHANGED <<ready, call, result, lost>>
  BY DEF Put
<1>2. ReaderTypes'
  BY <1>1, LineReader
<1>3. QED
  BY <1>1, <1>2, LossyStaysKnown DEF call

LEMMA LossyWritesKeepTypes ==
    ASSUME LossyInv, Lossy!WriteFrame \/ Lossy!WriteDamaged \/ Lossy!MakeNoise
    PROVE  LossyInv'
<1>1. ASSUME NEW p \in LossyPayloads, Lossy!LengthFits(Len(p)), NEW w, NEW intact \in BOOLEAN,
             w = Lossy!Wire(p) \/ w \in Lossy!Damaged(Lossy!Wire(p)), Lossy!Put(w, TRUE),
             awaited' = Append(awaited, [payload |-> p, intact |-> intact]), Faults
      PROVE  LossyInv'
  <2>1. Lossy!Wire(p) \in Seq(Byte)
    BY <1>1, LossyWire
  <2>2. w \in Seq(Byte) /\ Put(w, TRUE)
    BY <1>1, <2>1, LossyDamagedType, SamePut
  <2>3. [payload |-> p, intact |-> intact] \in FramesOf(LossyPayloads)
    BY DEF FramesOf
  <2>4. Queues(LossyPayloads, 1)'
    BY <1>1, <2>2, <2>3, PutQueues DEF LossyInv
  <2>5. QED
    BY <1>1, <2>2, <2>4, LossyPutReader DEF LossyInv
<1>2. CASE Lossy!WriteFrame
  <2>1. PICK p \in LossyPayloads :
           /\ Lossy!LengthFits(Len(p)) /\ Lossy!Put(Lossy!Wire(p), TRUE)
           /\ awaited' = Append(awaited, [payload |-> p, intact |-> TRUE]) /\ Faults
    BY <1>2 DEF Lossy!WriteFrame, Faults
  <2>2. QED
    BY <1>1, <2>1
<1>3. CASE Lossy!WriteDamaged
  <2>1. PICK p \in LossyPayloads : \E w \in Lossy!Damaged(Lossy!Wire(p)) :
           /\ Lossy!LengthFits(Len(p)) /\ Lossy!Put(w, TRUE)
           /\ awaited' = Append(awaited, [payload |-> p, intact |-> FALSE]) /\ Faults
    BY <1>3 DEF Lossy!WriteDamaged, Faults
  <2>2. QED
    BY <1>1, <2>1
<1>4. CASE Lossy!MakeNoise
  BY <1>4 DEF Lossy!MakeNoise
<1>5. QED
  BY <1>2, <1>3, <1>4

LEMMA LossyLineKeepsTypes ==
    ASSUME LossyInv, Lossy!Arrive \/ Lossy!UartInit \/ Lossy!Call PROVE LossyInv'
<1>1. CASE Lossy!Arrive
  <2>1. /\ UNCHANGED <<sent, ready, call, result, frames, faults>>
        /\ line # <<>> /\ Len(fifo) < 1
        /\ fifo' = Append(fifo, Head(line)) /\ line' = Tail(line)
    BY <1>1 DEF Lossy!Arrive, Lossy!call, Lossy!result, Lossy!frames, call, result, frames
  <2>2. Queues(LossyPayloads, 1)'
    BY <2>1, ArriveQueues DEF LossyInv, frames
  <2>3. ReaderTypes'
    BY <2>1, LineReader DEF LossyInv, frames, Faults
  <2>4. LossyKnown'
    BY <2>1, LossyStaysKnown DEF LossyInv, call
  <2>5. QED
    BY <2>2, <2>3, <2>4 DEF LossyInv
<1>2. CASE UartInit
  <2>1. Queues(LossyPayloads, 1)' /\ ReaderTypes'
    BY <1>2, UartInitQueues, UartInitReader DEF LossyInv
  <2>2. LossyKnown'
    BY <1>2, LossyStaysKnown DEF LossyInv, UartInit, call
  <2>3. QED
    BY <2>1, <2>2 DEF LossyInv
<1>3. CASE Call
  <2>1. UNCHANGED <<line, fifo, sent, awaited, current>>
    BY <1>3 DEF Call, wire
  <2>2. Queues(LossyPayloads, 1)' /\ ReaderTypes'
    BY <1>3, <2>1, OthersQueues, CallReader DEF LossyInv
  <2>3. pc' # "body"
    BY <1>3 DEF Call
  <2>4. QED
    BY <2>2, <2>3, NotKnownYet DEF LossyInv
<1>4. QED
  BY <1>1, <1>2, <1>3, SameSteps

LEMMA LossyBytesKeepTypes ==
    ASSUME LossyInv,
           Lossy!MarkerByte \/ Lossy!FieldByte \/ Lossy!DiscardByte \/ Lossy!DrainByte
    PROVE  LossyInv'
<1>1. \/ MarkerByte \/ DiscardByte \/ DrainByte
      \/ /\ GetChar /\ got' = Append(got, Head(fifo).byte)
         /\ UNCHANGED <<pc, matched, left, recent, result>>
  BY SameSteps, SameGetChar DEF Lossy!FieldByte, Lossy!result, result
<1>2. GetChar
  BY <1>1 DEF MarkerByte, DiscardByte, DrainByte
<1>3. Queues(LossyPayloads, 1)' /\ Head(fifo).byte \in Byte
  BY <1>2, GetCharQueues DEF LossyInv
<1>4. ReaderTypes'
  BY <1>1, <1>3, MarkerByteReader, FieldReader, DiscardByteReader, DrainReader DEF LossyInv
<1>5. pc' = pc /\ (got' = got \/ \E b \in Byte : got' = Append(got, b))
  BY <1>1, <1>3 DEF MarkerByte, DiscardByte, DrainByte, call
<1>6. LossyKnown'
  BY <1>5, LossyStaysKnown DEF LossyInv
<1>7. QED
  BY <1>3, <1>4, <1>6 DEF LossyInv

LEMMA LossyTurnsKeepTypes ==
    ASSUME LossyInv,
           Lossy!MarkerFound \/ Lossy!DrainBegin \/ Lossy!DrainEnd \/ Lossy!Decode
    PROVE  LossyInv'
<1>1. CASE MarkerFound \/ DrainBegin \/ DrainEnd
  <2>1. UNCHANGED <<line, fifo, sent, awaited>> /\ (current' = current \/ current' = <<>>)
    BY <1>1 DEF MarkerFound, DrainBegin, DrainEnd, wire, frames
  <2>2. Queues(LossyPayloads, 1)' /\ ReaderTypes'
    BY <1>1, <2>1, OthersQueues, MarkerFoundReader, DrainReader DEF LossyInv
  <2>3. pc' # "body"
    BY <1>1 DEF MarkerFound, DrainBegin, DrainEnd
  <2>4. QED
    BY <2>2, <2>3, NotKnownYet DEF LossyInv
<1>2. CASE Lossy!Decode
  <2>1. pc = "length" /\ Len(got) >= 1
    BY <1>2, SameSizes DEF Lossy!Decode
  <2>2. Lossy!PayloadLength \in Int /\ 0 \in Nat
    BY <2>1, LossyLengthIsInt DEF LossyInv
  <2>3. Decodes(Lossy!PayloadLength, 0)
    <3>1. Lossy!Return("LENGTH_OUT_OF_RANGE") => Returned("LENGTH_OUT_OF_RANGE")
      BY ReturnReturns DEF LossyInv, ReaderTypes
    <3>2. QED
      BY <1>2, <3>1, SameSizes, Zenon
         DEF Lossy!Decode, Decodes, Lossy!wire, wire, Lossy!frames, frames, Lossy!result, result
  <2>4. Queues(LossyPayloads, 1)' /\ ReaderTypes'
    BY <2>2, <2>3, DecodesQueues, DecodesReader DEF LossyInv
  <2>5. LossyKnown'
    <3>1. CASE pc' # "body"
      BY <3>1, NotKnownYet
    <3>2. CASE pc' = "body"
      <4>1. Lossy!PayloadLength \in 0..BufferLength /\ got' = got
        BY <2>3, <3>2 DEF Decodes, Returned
      <4>2. Lossy!PayloadLength' = Lossy!PayloadLength /\ BufferLength \in Nat
        BY <4>1, ConstantsAssumption
           DEF Lossy!PayloadLength, Lossy!DecodeLength, Lossy!LengthBytes, Lossy!LengthSize
      <4>3. QED
        BY <2>1, <4>1, <4>2 DEF LossyKnown
    <3>3. QED
      BY <3>1, <3>2
  <2>6. QED
    BY <2>4, <2>5 DEF LossyInv
<1>3. QED
  BY <1>1, <1>2, SameSteps

LEMMA LossyReturnsKeepTypes ==
    ASSUME LossyInv, Lossy!Discarded \/ Lossy!Verify \/ Lossy!Timeout PROVE LossyInv'
<1>1. PICK s \in Statuses : Returned(s)
  <2>1. PICK s \in Statuses : Lossy!Return(s)
    BY DEF Lossy!Discarded, Lossy!Verify, Lossy!Timeout, Statuses
  <2>2. Returned(s)
    BY <2>1, ReturnReturns DEF LossyInv, ReaderTypes
  <2>3. QED
    BY <2>2
<1>2. size' \in Nat
  <2>1. CASE Lossy!Verify
    <3>1. Lossy!PayloadLength \in Nat
      BY <2>1 DEF Lossy!Verify, LossyInv, LossyKnown
    <3>2. QED
      BY <2>1, <3>1 DEF Lossy!Verify
  <2>2. CASE Lossy!Discarded \/ Lossy!Timeout
    BY <2>2 DEF Lossy!Discarded, Lossy!Timeout, LossyInv, ReaderTypes
  <2>3. QED
    BY <2>1, <2>2
<1>3. Faults
  <2>1. CASE Lossy!Timeout
    <3>1. faults \in Nat /\ MaxFaults \in Nat /\ faults' <= MaxFaults
      BY <2>1, ConstantsAssumption DEF Lossy!Timeout, LossyInv, ReaderTypes
    <3>2. faults' = faults \/ faults' = faults + 1
      BY <2>1 DEF Lossy!Timeout
    <3>3. QED
      BY <3>1, <3>2 DEF Faults
  <2>2. CASE Lossy!Discarded \/ Lossy!Verify
    BY <2>2 DEF Lossy!Discarded, Lossy!Verify, Faults
  <2>3. QED
    BY <2>1, <2>2
<1>4. UNCHANGED <<line, fifo, sent, awaited>> /\ current' = <<>> /\ pc' # "body"
  BY <1>1 DEF Returned, wire
<1>5. QED
  BY <1>1, <1>2, <1>3, <1>4, OthersQueues, ReturnReader, NotKnownYet DEF LossyInv

LEMMA LossyNextTypes == ASSUME LossyInv, Lossy!Next PROVE LossyInv'
BY LossyWritesKeepTypes, LossyLineKeepsTypes, LossyBytesKeepTypes, LossyTurnsKeepTypes,
   LossyReturnsKeepTypes DEF Lossy!Next, Lossy!ReadStep, Lossy!DrainStep

LEMMA LossyStutterTypes == ASSUME LossyInv, UNCHANGED vars PROVE LossyInv'
<1>1. /\ UNCHANGED <<line, fifo, sent>> /\ UNCHANGED <<awaited, current, lost>>
      /\ UNCHANGED <<ready, call, result, faults>> /\ UNCHANGED <<pc, got>>
  BY DEF vars, wire, frames, call
<1>2. Queues(LossyPayloads, 1)'
  BY <1>1, OthersQueues DEF LossyInv
<1>3. ReaderTypes'
  BY <1>1, LineReader DEF LossyInv, Faults
<1>4. LossyKnown'
  BY <1>1, LossyStaysKnown DEF LossyInv
<1>5. QED
  BY <1>2, <1>3, <1>4 DEF LossyInv

LEMMA LossyEnds == ASSUME Lossy!Next PROVE Ends(clean) /\ Ends(whole)
<1>1. CASE Lossy!WriteFrame \/ Lossy!WriteDamaged \/ Lossy!MakeNoise
  <2>1. PICK w, isFrame : Put(w, isFrame) /\ (whole' = whole \/ whole' = FALSE)
    <3>1. PICK w, isFrame : Lossy!Put(w, isFrame) /\ (whole' = whole \/ whole' = FALSE)
      BY <1>1, Zenon DEF Lossy!WriteFrame, Lossy!WriteDamaged, Lossy!MakeNoise
    <3>2. QED
      BY <3>1, SamePut
  <2>2. QED
    BY <2>1, PutEnds
<1>2. CASE \E s : Lossy!Return(s)
  <2>1. PICK s : Lossy!Return(s)
    BY <1>2
  <2>2. clean' = clean /\ whole' = (whole /\ (s = "TIMEOUT" => Lossy!AtBoundary(fifo)))
    BY <2>1 DEF Lossy!Return, Lossy!wire
  <2>3. QED
    BY <2>2, Zenon DEF Ends
<1>3. CASE UartInit \/ Call \/ MarkerByte \/ MarkerFound \/ DiscardByte \/ DrainBegin
           \/ DrainByte \/ DrainEnd
  BY <1>3, NextEnds DEF Next, ReadStep, DrainStep
<1>4. CASE Lossy!Arrive \/ Lossy!FieldByte
  <2>1. clean' = clean /\ whole' = whole
    BY <1>4 DEF Lossy!Arrive, Lossy!FieldByte, Lossy!GetChar, Lossy!frames
  <2>2. QED
    BY <2>1, Zenon DEF Ends
<1>5. CASE Lossy!Decode
  <2>1. (\E s : Lossy!Return(s)) \/ (clean' = clean /\ whole' = whole)
    BY <1>5 DEF Lossy!Decode, Lossy!wire, Lossy!frames
  <2>2. CASE clean' = clean /\ whole' = whole
    BY <2>2, Zenon DEF Ends
  <2>3. QED
    BY <1>2, <2>1, <2>2
<1>6. CASE Lossy!Discarded \/ Lossy!Verify \/ Lossy!Timeout
  <2>1. \E s : Lossy!Return(s)
    BY <1>6 DEF Lossy!Discarded, Lossy!Verify, Lossy!Timeout
  <2>2. QED
    BY <1>2, <2>1
<1>7. QED
  BY <1>1, <1>3, <1>4, <1>5, <1>6, SameSteps DEF Lossy!Next, Lossy!ReadStep, Lossy!DrainStep

\* All that a run of MCUart keeps.
PartTypes == (IF part = "lossy" THEN LossyInv ELSE TypeInv) /\ Histories /\ PairInv

\* In both configurations and in the computation of a checksum: counters in their
\* ranges, queues of frames, and a frame's first byte never read before the frame was
\* written, however many bytes are damaged or lost.
THEOREM UartTypes == MCSpec => []TypesOK
<1>1. MCInit => PartTypes
  <2>1. SUFFICES ASSUME MCInit PROVE PartTypes
    OBVIOUS
  <2>2. Init /\ PairInit
    BY <2>1 DEF MCInit
  <2>3. FifoSize \in Nat /\ 1 \in Nat
    BY ConstantsAssumption
  <2>4. Queues(Payloads, FifoSize) /\ Queues(LossyPayloads, 1) /\ ReaderTypes /\ pc # "body"
    BY <2>2, <2>3, TypesAtFirst
  <2>5. PairInv
    BY <2>2, InitPair
  <2>6. Histories
    BY <2>2 DEF Init, Histories
  <2>7. QED
    BY <2>4, <2>5, <2>6 DEF PartTypes, TypeInv, LossyInv, KnownAs, LossyKnown
<1>2. PartTypes /\ [MCNext]_mcVars => PartTypes'
  <2>1. SUFFICES ASSUME PartTypes, [MCNext]_mcVars PROVE PartTypes'
    OBVIOUS
  <2>2. part' = part
    BY <2>1 DEF MCNext, InFrames, InLossy, InChecksum, frameVars, mcVars
  <2>3. PairInv'
    <3>1. PairInv /\ [PairNext]_pairVars
      BY <2>1 DEF PartTypes, MCNext, InFrames, InLossy, InChecksum, mcVars
    <3>2. QED
      BY <3>1, PairStep
  <2>4. Histories'
    <3>1. Next \/ Lossy!Next \/ UNCHANGED vars
      BY <2>1 DEF MCNext, InFrames, InLossy, InChecksum, frameVars, mcVars
    <3>2. Ends(clean) /\ Ends(whole)
      BY <3>1, NextEnds, LossyEnds
    <3>3. QED
      BY <2>1, <3>2, Zenon DEF PartTypes, Histories, Ends
  <2>5. CASE part = "lossy"
    <3>1. LossyInv /\ (Lossy!Next \/ UNCHANGED vars)
      BY <2>1, <2>5 DEF PartTypes, MCNext, InFrames, InLossy, InChecksum, frameVars, mcVars
    <3>2. LossyInv'
      BY <3>1, LossyNextTypes, LossyStutterTypes
    <3>3. QED
      BY <2>2, <2>3, <2>4, <2>5, <3>2 DEF PartTypes
  <2>6. CASE part # "lossy"
    <3>1. TypeInv /\ [Next]_vars
      BY <2>1, <2>6 DEF PartTypes, MCNext, InFrames, InLossy, InChecksum, frameVars, mcVars
    <3>2. TypeInv'
      BY <3>1, TypesStep
    <3>3. QED
      BY <2>2, <2>3, <2>4, <2>6, <3>2 DEF PartTypes
  <2>7. QED
    BY <2>5, <2>6
<1>3. PartTypes => TypesOK
  <2>1. LossyInv /\ Histories => Lossy!TypeOK
    <3>1. SUFFICES ASSUME LossyInv, Histories PROVE Lossy!TypeOK
      OBVIOUS
    <3>2. /\ Queues(LossyPayloads, 1) /\ ReaderTypes /\ matched \in 0..L
          /\ clean \in BOOLEAN /\ whole \in BOOLEAN
      BY <3>1 DEF LossyInv, ReaderTypes, SearchInv, Histories
    <3>3. Lossy!L = L /\ Lossy!Statuses = Statuses
      BY SameSizes
    <3>4. QED
      BY <3>2, <3>3 DEF Lossy!TypeOK, Lossy!Byte, Byte, Queues, ReaderTypes, FramesOf, Cell
  <2>2. PairInv => PairTypeOK
    BY DEF PairInv
  <2>3. QED
    BY <2>1, <2>2, TypeInvTypes DEF PartTypes, TypesOK
<1>4. QED
  BY <1>1, <1>2, <1>3, PTL DEF MCSpec
=============================================================================
