------------------------- MODULE ChecksumPairProofs -------------------------
(***************************************************************************)
(* For every message: the checksums notice a single wrong byte, the 16-bit *)
(* ones also two wrong bytes next to each other, because one turn of the   *)
(* driver's loop is injective both in the running value and in the byte,   *)
(* and the difference that a byte makes to a CRC spreads beyond the next   *)
(* byte.  And every checksum gives the published value of the published    *)
(* text.                                                                   *)
(***************************************************************************)
EXTENDS ChecksumPair, FiniteSetTheorems, WellFoundedInduction, TLAPS


-----------------------------------------------------------------------------
(* Induction, with the set of the numbers for which a statement holds *)

LEMMA LeastNumber ==
    ASSUME NEW T \in SUBSET Nat, T # {}
    PROVE  \E m \in T : \A k \in T : m <= k
<1> DEFINE F == {1..k : k \in T}
<1>1. F \subseteq FiniteSubsetsOf(Nat) /\ F # {}
  <2>1. \A k \in T : IsFiniteSet(1..k)
    BY FS_Interval
  <2>2. \A k \in T : 1..k \subseteq Nat
    OBVIOUS
  <2>3. QED
    BY <2>1, <2>2 DEF FiniteSubsetsOf
<1>2. PICK s \in F : \A t \in F : ~(<<t, s>> \in StrictSubsetOrdering(Nat))
  <2> HIDE DEF F
  <2> QED
    BY <1>1, FS_StrictSubsetOrderingWellFounded, WFMin
<1>3. PICK m \in T : s = 1..m
  OBVIOUS
<1>4. ASSUME NEW k \in T, k < m PROVE FALSE
  <2>1. k \in Nat /\ m \in Nat
    OBVIOUS
  <2>2. 1..k \subseteq 1..m /\ 1..k # 1..m /\ 1..m \in SUBSET Nat /\ 1..k \in SUBSET Nat
    <3>1. m \in 1..m /\ m \notin 1..k
      BY <2>1, <1>4
    <3>2. QED
      BY <2>1, <1>4, <3>1
  <2>3. <<1..k, 1..m>> \in StrictSubsetOrdering(Nat)
    BY <2>2 DEF StrictSubsetOrdering
  <2>4. QED
    BY <1>2, <1>3, <2>3
<1>5. QED
  <2>1. \A k \in T : ~(k < m) /\ k \in Nat /\ m \in Nat
    BY <1>4
  <2>2. QED
    BY <2>1

\* A set of numbers that has 0 and, with each number, the next one, up to n.
LEMMA UpTo ==
    ASSUME NEW n \in Nat, NEW T, 0 \in T, \A i \in 0..n : i \in T /\ i < n => i + 1 \in T
    PROVE  0..n \subseteq T
<1> SUFFICES ASSUME ~(0..n \subseteq T) PROVE FALSE
  OBVIOUS
<1> DEFINE F == {i \in 0..n : i \notin T}
<1>1. F \in SUBSET Nat /\ F # {}
  OBVIOUS
<1>2. PICK m \in F : \A k \in F : m <= k
  <2> HIDE DEF F
  <2> QED  BY <1>1, LeastNumber
<1>3. m # 0 /\ m \in 0..n /\ m \notin T
  OBVIOUS
<1>4. m - 1 \in 0..n /\ m - 1 < n /\ (m - 1) + 1 = m
  BY <1>3
<1>5. m - 1 \in T
  BY <1>2, <1>4
<1>6. QED
  BY <1>3, <1>4, <1>5

-----------------------------------------------------------------------------
(* Exclusive or *)

Register == SUBSET (0..15)
Octet == SUBSET (0..7)

LEMMA XorMember ==
    ASSUME NEW S, NEW T, NEW x
    PROVE  x \in Xor(S, T) <=> ~(x \in S <=> x \in T)
BY DEF Xor

LEMMA XorCancels ==
    ASSUME NEW S, NEW T, NEW U
    PROVE  /\ Xor(S, U) = Xor(T, U) => S = T
           /\ Xor(U, S) = Xor(U, T) => S = T
<1>1. ASSUME Xor(S, U) = Xor(T, U) PROVE S = T
  <2>1. ASSUME NEW x PROVE x \in S <=> x \in T
    <3>1. x \in Xor(S, U) <=> x \in Xor(T, U)  BY <1>1
    <3>2. QED  BY <3>1, XorMember
  <2>2. QED  BY <2>1
<1>2. ASSUME Xor(U, S) = Xor(U, T) PROVE S = T
  <2>1. ASSUME NEW x PROVE x \in S <=> x \in T
    <3>1. x \in Xor(U, S) <=> x \in Xor(U, T)  BY <1>2
    <3>2. QED  BY <3>1, XorMember
  <2>2. QED  BY <2>1
<1>3. QED  BY <1>1, <1>2

LEMMA XorType ==
    ASSUME NEW S, NEW T, NEW U, S \subseteq U, T \subseteq U
    PROVE  Xor(S, T) \subseteq U
BY DEF Xor

-----------------------------------------------------------------------------
(* The bits of a byte *)

LEMMA HalvesDiffer ==
    ASSUME NEW a \in Nat, NEW b \in Nat, a % 2 = b % 2, a \div 2 = b \div 2
    PROVE  a = b
OBVIOUS

LEMMA HalfOfPart ==
    ASSUME NEW a \in Nat
    PROVE  /\ a \div 2 \in Nat /\ (a \div 2) \div 2 = a \div 4
           /\ a \div 4 \in Nat /\ (a \div 4) \div 2 = a \div 8
           /\ a \div 8 \in Nat /\ (a \div 8) \div 2 = a \div 16
           /\ a \div 16 \in Nat /\ (a \div 16) \div 2 = a \div 32
           /\ a \div 32 \in Nat /\ (a \div 32) \div 2 = a \div 64
           /\ a \div 64 \in Nat /\ (a \div 64) \div 2 = a \div 128
           /\ a \div 128 \in Nat
OBVIOUS

LEMMA BitOf ==
    ASSUME NEW b \in Byte
    PROVE  /\ 0 \in Bits(b) <=> b % 2 = 1
           /\ 1 \in Bits(b) <=> (b \div 2) % 2 = 1
           /\ 2 \in Bits(b) <=> (b \div 4) % 2 = 1
           /\ 3 \in Bits(b) <=> (b \div 8) % 2 = 1
           /\ 4 \in Bits(b) <=> (b \div 16) % 2 = 1
           /\ 5 \in Bits(b) <=> (b \div 32) % 2 = 1
           /\ 6 \in Bits(b) <=> (b \div 64) % 2 = 1
           /\ 7 \in Bits(b) <=> (b \div 128) % 2 = 1
BY DEF Bits, Weight, Byte

LEMMA BitsInjective ==
    ASSUME NEW a \in Byte, NEW b \in Byte, Bits(a) = Bits(b)
    PROVE  a = b
<1>1. a \in Nat /\ b \in Nat /\ a \div 128 \in 0..1 /\ b \div 128 \in 0..1
  BY DEF Byte
<1>2. a \div 128 = b \div 128  BY <1>1, BitOf
<1>3. a \div 64 = b \div 64
  <2>1. (a \div 64) % 2 = (b \div 64) % 2  BY <1>1, BitOf, HalfOfPart
  <2>2. QED  BY <1>1, <1>2, <2>1, HalfOfPart, HalvesDiffer
<1>4. a \div 32 = b \div 32
  <2>1. (a \div 32) % 2 = (b \div 32) % 2  BY <1>1, BitOf, HalfOfPart
  <2>2. QED  BY <1>1, <1>3, <2>1, HalfOfPart, HalvesDiffer
<1>5. a \div 16 = b \div 16
  <2>1. (a \div 16) % 2 = (b \div 16) % 2  BY <1>1, BitOf, HalfOfPart
  <2>2. QED  BY <1>1, <1>4, <2>1, HalfOfPart, HalvesDiffer
<1>6. a \div 8 = b \div 8
  <2>1. (a \div 8) % 2 = (b \div 8) % 2  BY <1>1, BitOf, HalfOfPart
  <2>2. QED  BY <1>1, <1>5, <2>1, HalfOfPart, HalvesDiffer
<1>7. a \div 4 = b \div 4
  <2>1. (a \div 4) % 2 = (b \div 4) % 2  BY <1>1, BitOf, HalfOfPart
  <2>2. QED  BY <1>1, <1>6, <2>1, HalfOfPart, HalvesDiffer
<1>8. a \div 2 = b \div 2
  <2>1. (a \div 2) % 2 = (b \div 2) % 2  BY <1>1, BitOf, HalfOfPart
  <2>2. QED  BY <1>1, <1>7, <2>1, HalfOfPart, HalvesDiffer
<1>9. a % 2 = b % 2  BY <1>1, BitOf
<1>10. QED  BY <1>1, <1>8, <1>9, HalvesDiffer

-----------------------------------------------------------------------------
(* One step of a register *)

\* The bit that falls out of the register comes back in through the highest
\* bit of the reflected polynomial, where the shift has left a 0.
LEMMA IbmStepInjective ==
    ASSUME NEW r \in Register, NEW s \in Register
    PROVE  /\ IbmStep(r) \in Register
           /\ IbmStep(r) = IbmStep(s) => r = s
<1> DEFINE shifted(q) == {i \in 0..14 : i + 1 \in q}
           Poly == {0, 13, 15}
<1>1. ASSUME NEW q \in Register
      PROVE  /\ IbmStep(q) = IF 0 \in q THEN Xor(shifted(q), Poly) ELSE shifted(q)
             /\ shifted(q) \in Register /\ 15 \notin shifted(q)
             /\ IbmStep(q) \in Register
             /\ 15 \in IbmStep(q) <=> 0 \in q
  <2>1. IbmStep(q) = IF 0 \in q THEN Xor(shifted(q), Poly) ELSE shifted(q)
    BY DEF IbmStep
  <2>2. shifted(q) \in Register /\ 15 \notin shifted(q) /\ Poly \in Register
    BY DEF Register
  <2>3. 15 \in Xor(shifted(q), Poly)  BY <2>2, XorMember
  <2> HIDE DEF shifted, Poly
  <2>4. Xor(shifted(q), Poly) \in Register
    <3>1. shifted(q) \subseteq 0..15 /\ Poly \subseteq 0..15
      BY <2>2, Zenon DEF Register
    <3>2. Xor(shifted(q), Poly) \subseteq 0..15  BY <3>1, XorType, Zenon
    <3>3. QED  BY <3>2, Zenon DEF Register
  <2>5. QED  BY <2>1, <2>2, <2>3, <2>4
<1>2. ASSUME IbmStep(r) = IbmStep(s) PROVE r = s
  <2>1. 0 \in r <=> 0 \in s  BY <1>1, <1>2
  <2>2. shifted(r) = shifted(s)
    <3> HIDE DEF shifted, Poly
    <3>1. CASE 0 \in r
      <4>1. Xor(shifted(r), Poly) = Xor(shifted(s), Poly)  BY <1>1, <1>2, <2>1, <3>1
      <4>2. QED  BY <4>1, XorCancels
    <3>2. CASE 0 \notin r  BY <1>1, <1>2, <2>1, <3>2
    <3>3. QED  BY <3>1, <3>2
  <2>3. ASSUME NEW i \in 1..15 PROVE i \in r <=> i \in s
    <3>1. i - 1 \in 0..14 /\ (i - 1) + 1 = i  OBVIOUS
    <3>2. ASSUME NEW q PROVE i - 1 \in shifted(q) <=> i \in q  BY <3>1
    <3>3. QED  BY <2>2, <3>2
  <2>4. r \subseteq 0..15 /\ s \subseteq 0..15  BY DEF Register
  <2>5. \A i \in 0..15 : i = 0 \/ i \in 1..15  OBVIOUS
  <2>6. ASSUME NEW i PROVE i \in r <=> i \in s
    BY <2>1, <2>3, <2>4, <2>5, Zenon
  <2>7. QED  BY <2>6, Zenon
<1>3. QED  BY <1>1, <1>2

LEMMA CcittStepInjective ==
    ASSUME NEW r \in Register, NEW s \in Register
    PROVE  /\ CcittStep(r) \in Register
           /\ CcittStep(r) = CcittStep(s) => r = s
<1> DEFINE shifted(q) == {i \in 1..15 : i - 1 \in q}
           Poly == {0, 5, 12}
<1>1. ASSUME NEW q \in Register
      PROVE  /\ CcittStep(q) = IF 15 \in q THEN Xor(shifted(q), Poly) ELSE shifted(q)
             /\ shifted(q) \in Register /\ 0 \notin shifted(q)
             /\ CcittStep(q) \in Register
             /\ 0 \in CcittStep(q) <=> 15 \in q
  <2>1. CcittStep(q) = IF 15 \in q THEN Xor(shifted(q), Poly) ELSE shifted(q)
    BY DEF CcittStep
  <2>2. shifted(q) \in Register /\ 0 \notin shifted(q) /\ Poly \in Register
    BY DEF Register
  <2>3. 0 \in Xor(shifted(q), Poly)  BY <2>2, XorMember
  <2> HIDE DEF shifted, Poly
  <2>4. Xor(shifted(q), Poly) \in Register
    <3>1. shifted(q) \subseteq 0..15 /\ Poly \subseteq 0..15
      BY <2>2, Zenon DEF Register
    <3>2. Xor(shifted(q), Poly) \subseteq 0..15  BY <3>1, XorType, Zenon
    <3>3. QED  BY <3>2, Zenon DEF Register
  <2>5. QED  BY <2>1, <2>2, <2>3, <2>4
<1>2. ASSUME CcittStep(r) = CcittStep(s) PROVE r = s
  <2>1. 15 \in r <=> 15 \in s  BY <1>1, <1>2
  <2>2. shifted(r) = shifted(s)
    <3> HIDE DEF shifted, Poly
    <3>1. CASE 15 \in r
      <4>1. Xor(shifted(r), Poly) = Xor(shifted(s), Poly)  BY <1>1, <1>2, <2>1, <3>1
      <4>2. QED  BY <4>1, XorCancels
    <3>2. CASE 15 \notin r  BY <1>1, <1>2, <2>1, <3>2
    <3>3. QED  BY <3>1, <3>2
  <2>3. ASSUME NEW i \in 0..14 PROVE i \in r <=> i \in s
    <3>1. i + 1 \in 1..15 /\ (i + 1) - 1 = i  OBVIOUS
    <3>2. ASSUME NEW q PROVE i + 1 \in shifted(q) <=> i \in q  BY <3>1
    <3>3. QED  BY <2>2, <3>2
  <2>4. r \subseteq 0..15 /\ s \subseteq 0..15  BY DEF Register
  <2>5. \A i \in 0..15 : i = 15 \/ i \in 0..14  OBVIOUS
  <2>6. ASSUME NEW i PROVE i \in r <=> i \in s
    BY <2>1, <2>3, <2>4, <2>5, Zenon
  <2>7. QED  BY <2>6, Zenon
<1>3. QED  BY <1>1, <1>2

LEMMA EightStepsInjective ==
    ASSUME NEW r \in Register, NEW s \in Register
    PROVE  /\ Ibm8(r) \in Register /\ (Ibm8(r) = Ibm8(s) => r = s)
           /\ Ccitt8(r) \in Register /\ (Ccitt8(r) = Ccitt8(s) => r = s)
<1>1. \A q, p \in Register : Ibm2(q) \in Register /\ (Ibm2(q) = Ibm2(p) => q = p)
  BY IbmStepInjective DEF Ibm2
<1>2. \A q, p \in Register : Ibm4(q) \in Register /\ (Ibm4(q) = Ibm4(p) => q = p)
  BY <1>1 DEF Ibm4
<1>3. \A q, p \in Register : Ccitt2(q) \in Register /\ (Ccitt2(q) = Ccitt2(p) => q = p)
  BY CcittStepInjective DEF Ccitt2
<1>4. \A q, p \in Register : Ccitt4(q) \in Register /\ (Ccitt4(q) = Ccitt4(p) => q = p)
  BY <1>3 DEF Ccitt4
<1>5. QED  BY <1>2, <1>4 DEF Ibm8, Ccitt8

-----------------------------------------------------------------------------
(* One byte fed to a checksum *)

LEMMA HighInjective ==
    ASSUME NEW S \in Octet, NEW T \in Octet
    PROVE  High(S) \in Register /\ (High(S) = High(T) => S = T)
<1>1. High(S) \in Register  BY DEF High, Register
<1>2. ASSUME High(S) = High(T) PROVE S = T
  <2>1. ASSUME NEW i \in 0..7 PROVE i \in S <=> i \in T
    <3>1. i + 8 \in 8..15 /\ (i + 8) - 8 = i  OBVIOUS
    <3>2. ASSUME NEW U PROVE i + 8 \in High(U) <=> i \in U  BY <3>1 DEF High
    <3>3. QED  BY <1>2, <3>2
  <2>2. QED  BY <2>1, Zenon DEF Octet
<1>3. QED  BY <1>1, <1>2

LEMMA WrapOnce ==
    ASSUME NEW n \in Int, n >= 0, n <= 510
    PROVE  n % 256 = IF n >= 256 THEN n - 256 ELSE n
OBVIOUS

LEMMA SumsDiffer ==
    ASSUME NEW v \in Int, v >= 0, v <= 255, NEW w \in Int, w >= 0, w <= 255,
           NEW b \in Int, b >= 0, b <= 255
    PROVE  /\ (v + b) % 256 >= 0 /\ (v + b) % 256 <= 255 /\ (v + b) % 256 \in Int
           /\ (v + b) % 256 = (w + b) % 256 => v = w
           /\ (b + v) % 256 = (b + w) % 256 => v = w
<1>1. (v + b) % 256 = IF v + b >= 256 THEN (v + b) - 256 ELSE v + b  BY WrapOnce
<1>2. (w + b) % 256 = IF w + b >= 256 THEN (w + b) - 256 ELSE w + b  BY WrapOnce
<1>3. v + b = b + v /\ w + b = b + w  OBVIOUS
<1>4. QED  BY <1>1, <1>2, <1>3

LEMMA Sum8Injective ==
    ASSUME NEW v \in Byte, NEW w \in Byte, NEW b \in Byte
    PROVE  /\ (v + b) % 256 \in Byte
           /\ (v + b) % 256 = (w + b) % 256 => v = w
           /\ (b + v) % 256 = (b + w) % 256 => v = w
<1>1. \A n \in Byte : n \in Int /\ n >= 0 /\ n <= 255  BY DEF Byte
<1>2. \A n \in Int : n >= 0 /\ n <= 255 => n \in Byte  BY DEF Byte
<1>3. QED  BY <1>1, <1>2, SumsDiffer

LEMMA RegisterXor ==
    ASSUME NEW S \in Register, NEW T \in Register
    PROVE  Xor(S, T) \in Register
BY DEF Register, Xor

LEMMA OctetXor ==
    ASSUME NEW S \in Octet, NEW T \in Octet
    PROVE  Xor(S, T) \in Octet
BY DEF Octet, Xor

LEMMA UpdateInjective ==
    ASSUME NEW t \in ChecksumTypes, NEW v \in Values(t), NEW b \in Byte
    PROVE  /\ Update(t, v, b) \in Values(t)
           /\ t # "NONE" =>
                 /\ \A w \in Values(t) : Update(t, v, b) = Update(t, w, b) => v = w
                 /\ \A c \in Byte : Update(t, v, b) = Update(t, v, c) => b = c
<1>1. \A c \in Byte : Bits(c) \in Octet /\ Bits(c) \in Register
  BY DEF Bits, Octet, Register
<1>2. CASE t = "NONE"
  BY <1>2, Zenon DEF Update
<1>3. CASE t = "SUM8"
  <2>1. Values(t) = Byte  BY <1>3, Zenon DEF Values
  <2>2. \A w, c : Update(t, w, c) = (w + c) % 256  BY <1>3 DEF Update
  <2>3. v \in Byte /\ Update(t, v, b) \in Byte  BY <2>1, <2>2, Sum8Injective
  <2>4. \A w \in Byte : Update(t, v, b) = Update(t, w, b) => v = w
    BY <2>2, <2>3, Sum8Injective
  <2>5. \A c \in Byte : Update(t, v, b) = Update(t, v, c) => b = c
    BY <2>2, <2>3, Sum8Injective
  <2>6. QED  BY <2>1, <2>3, <2>4, <2>5, Zenon
<1>4. CASE t = "XOR8"
  <2>1. Values(t) = Octet /\ \A w, c : Update(t, w, c) = Xor(w, Bits(c))
    BY <1>4, Zenon DEF Values, Update, Octet
  <2>2. Update(t, v, b) \in Octet  BY <1>1, <2>1, OctetXor, Zenon
  <2>3. ASSUME NEW w \in Octet, Update(t, v, b) = Update(t, w, b) PROVE v = w
    <3>1. Xor(v, Bits(b)) = Xor(w, Bits(b))  BY <2>1, <2>3, Zenon
    <3>2. QED  BY <3>1, XorCancels, Zenon
  <2>4. ASSUME NEW c \in Byte, Update(t, v, b) = Update(t, v, c) PROVE b = c
    <3>1. Xor(v, Bits(b)) = Xor(v, Bits(c))  BY <2>1, <2>4, Zenon
    <3>2. Bits(b) = Bits(c)  BY <3>1, XorCancels, Zenon
    <3>3. QED  BY <3>2, BitsInjective, Zenon
  <2>5. QED  BY <2>1, <2>2, <2>3, <2>4, Zenon
<1>5. CASE t = "CRC16_IBM"
  <2>1. Values(t) = Register /\ \A w, c : Update(t, w, c) = Ibm8(Xor(w, Bits(c)))
    BY <1>5, Zenon DEF Values, Update, Register
  <2>2. ASSUME NEW w \in Register, NEW c \in Byte
        PROVE  Xor(w, Bits(c)) \in Register
    <3>1. Bits(c) \in Register  BY <1>1, Zenon
    <3>2. QED  BY <3>1, RegisterXor, Zenon
  <2>3. ASSUME NEW w \in Register, NEW c \in Byte, Update(t, v, b) = Update(t, w, c)
        PROVE  Xor(v, Bits(b)) = Xor(w, Bits(c))
    <3>1. Xor(v, Bits(b)) \in Register /\ Xor(w, Bits(c)) \in Register
      BY <2>1, <2>2, Zenon
    <3>2. Ibm8(Xor(v, Bits(b))) = Ibm8(Xor(w, Bits(c)))  BY <2>1, <2>3, Zenon
    <3>3. QED  BY <3>1, <3>2, EightStepsInjective, Zenon
  <2>4. Update(t, v, b) \in Register
    <3>1. Xor(v, Bits(b)) \in Register  BY <2>1, <2>2, Zenon
    <3>2. QED  BY <2>1, <3>1, EightStepsInjective, Zenon
  <2>5. ASSUME NEW w \in Register, Update(t, v, b) = Update(t, w, b) PROVE v = w
    <3>1. Xor(v, Bits(b)) = Xor(w, Bits(b))  BY <2>3, <2>5, Zenon
    <3>2. QED  BY <3>1, XorCancels, Zenon
  <2>6. ASSUME NEW c \in Byte, Update(t, v, b) = Update(t, v, c) PROVE b = c
    <3>1. Xor(v, Bits(b)) = Xor(v, Bits(c))  BY <2>1, <2>3, <2>6, Zenon
    <3>2. Bits(b) = Bits(c)  BY <3>1, XorCancels, Zenon
    <3>3. QED  BY <3>2, BitsInjective, Zenon
  <2>7. QED  BY <2>1, <2>4, <2>5, <2>6, Zenon
<1>6. CASE t = "CRC16_CCITT_FALSE"
  <2>1. Values(t) = Register /\ \A w, c : Update(t, w, c) = Ccitt8(Xor(w, High(Bits(c))))
    BY <1>6, Zenon DEF Values, Update, Register
  <2>2. ASSUME NEW w \in Register, NEW c \in Byte
        PROVE  Xor(w, High(Bits(c))) \in Register
    <3>1. High(Bits(c)) \in Register  BY <1>1, HighInjective, Zenon
    <3>2. QED  BY <3>1, RegisterXor, Zenon
  <2>3. ASSUME NEW w \in Register, NEW c \in Byte, Update(t, v, b) = Update(t, w, c)
        PROVE  Xor(v, High(Bits(b))) = Xor(w, High(Bits(c)))
    <3>1. Xor(v, High(Bits(b))) \in Register /\ Xor(w, High(Bits(c))) \in Register
      BY <2>1, <2>2, Zenon
    <3>2. Ccitt8(Xor(v, High(Bits(b)))) = Ccitt8(Xor(w, High(Bits(c))))  BY <2>1, <2>3, Zenon
    <3>3. QED  BY <3>1, <3>2, EightStepsInjective, Zenon
  <2>4. Update(t, v, b) \in Register
    <3>1. Xor(v, High(Bits(b))) \in Register  BY <2>1, <2>2, Zenon
    <3>2. QED  BY <2>1, <3>1, EightStepsInjective, Zenon
  <2>5. ASSUME NEW w \in Register, Update(t, v, b) = Update(t, w, b) PROVE v = w
    <3>1. Xor(v, High(Bits(b))) = Xor(w, High(Bits(b)))  BY <2>3, <2>5, Zenon
    <3>2. QED  BY <3>1, XorCancels, Zenon
  <2>6. ASSUME NEW c \in Byte, Update(t, v, b) = Update(t, v, c) PROVE b = c
    <3>1. Xor(v, High(Bits(b))) = Xor(v, High(Bits(c)))  BY <2>1, <2>3, <2>6, Zenon
    <3>2. High(Bits(b)) = High(Bits(c))  BY <3>1, XorCancels, Zenon
    <3>3. Bits(b) = Bits(c)  BY <1>1, <3>2, HighInjective, Zenon
    <3>4. QED  BY <3>3, BitsInjective, Zenon
  <2>7. QED  BY <2>1, <2>4, <2>5, <2>6, Zenon
<1>7. QED  BY <1>2, <1>3, <1>4, <1>5, <1>6, Zenon DEF ChecksumTypes

LEMMA InitValueType == \A t \in ChecksumTypes : InitValue(t) \in Values(t)
<1> SUFFICES ASSUME NEW t \in ChecksumTypes PROVE InitValue(t) \in Values(t)
  OBVIOUS
<1>1. 0..15 \in SUBSET (0..15) /\ {} \in SUBSET (0..15) /\ {} \in SUBSET (0..7)
  OBVIOUS
<1>2. 0 \in Byte  BY DEF Byte
<1>3. CASE t \in {"NONE", "SUM8"}  BY <1>2, <1>3, Zenon DEF InitValue, Values
<1>4. CASE t \in {"XOR8", "CRC16_IBM", "CRC16_CCITT_FALSE"}
  BY <1>1, <1>4, Zenon DEF InitValue, Values
<1>5. QED  BY <1>3, <1>4, Zenon DEF ChecksumTypes

-----------------------------------------------------------------------------
(* The value of a message *)

\* The running values while a message is fed to a checksum.
LEMMA RunningValues ==
    ASSUME NEW t \in ChecksumTypes, NEW s \in Seq(Byte)
    PROVE  \E v \in [0..Len(s) -> Values(t)] :
              /\ v[0] = InitValue(t)
              /\ \A i \in 1..Len(s) : v[i] = Update(t, v[i - 1], s[i])
              /\ ValueOf(t, s) = v[Len(s)]
<1> DEFINE n == Len(s)
           V == Values(t)
           Turn(g, i) == IF i = 0 THEN InitValue(t) ELSE Update(t, g[i - 1], s[i])
           v == CHOOSE g : g = [i \in 0..n |-> Turn(g, i)]
<1>1. n \in Nat /\ InitValue(t) \in V /\ \A i \in 1..n : s[i] \in Byte
  BY InitValueType
<1>2. \A w \in V, i \in 1..n : Update(t, w, s[i]) \in V
  BY <1>1, UpdateInjective
<1> HIDE DEF n, V
<1> DEFINE Is(g, m) == /\ g \in [0..m -> V]
                       /\ g[0] = InitValue(t)
                       /\ \A i \in 1..m : g[i] = Update(t, g[i - 1], s[i])
           T == {m \in 0..n : \E g : Is(g, m)}
<1>3. 0 \in T
  <2> DEFINE f == [i \in 0..0 |-> InitValue(t)]
  <2>1. Is(f, 0)
    BY <1>1
  <2> HIDE DEF f, Is
  <2>2. QED
    BY <1>1, <2>1
<1>4. ASSUME NEW m \in 0..n, m \in T, m < n PROVE m + 1 \in T
  <2>1. PICK g : Is(g, m)
    BY <1>4
  <2> DEFINE h == [i \in 0..m + 1 |-> IF i = m + 1 THEN Update(t, g[m], s[m + 1]) ELSE g[i]]
  <2>2. m \in Nat /\ m \in 0..m /\ m + 1 \in 1..n /\ m + 1 \in 0..n
    BY <1>1, <1>4
  <2>3. Update(t, g[m], s[m + 1]) \in V
    BY <1>2, <2>1, <2>2
  <2>4. h \in [0..m + 1 -> V] /\ h[0] = InitValue(t)
    BY <2>1, <2>2, <2>3
  <2>5. ASSUME NEW i \in 1..m + 1 PROVE h[i] = Update(t, h[i - 1], s[i])
    <3>1. CASE i = m + 1
      <4>1. h[i] = Update(t, g[m], s[m + 1])
        BY <2>2, <3>1
      <4>2. i - 1 = m /\ h[m] = g[m]
        BY <2>2, <3>1
      <4>3. QED
        BY <3>1, <4>1, <4>2, Zenon
    <3>2. CASE i # m + 1
      <4>1. i \in 1..m /\ h[i] = g[i] /\ h[i - 1] = g[i - 1]
        BY <2>2, <3>2
      <4>2. QED
        BY <2>1, <4>1
    <3>3. QED
      BY <3>1, <3>2
  <2> HIDE DEF h
  <2>6. Is(h, m + 1)
    BY <2>4, <2>5
  <2>7. QED
    BY <2>2, <2>6
<1>5. PICK g : Is(g, n)
  <2>1. 0..n \subseteq T
    <3> HIDE DEF T
    <3> QED  BY <1>1, <1>3, <1>4, UpTo
  <2>2. n \in T
    <3> HIDE DEF T
    <3> QED  BY <1>1, <2>1
  <2>3. QED
    BY <2>2
<1>6. g = [i \in 0..n |-> Turn(g, i)]
  <2>1. \A i \in 0..n : g[i] = Turn(g, i)
    <3>1. \A i \in 0..n : i = 0 \/ i \in 1..n
      BY <1>1
    <3>2. QED
      BY <1>5, <3>1
  <2>2. QED
    BY <1>5, <2>1
<1>7. v = [i \in 0..n |-> Turn(v, i)]
  <2> HIDE DEF Turn
  <2> QED  BY <1>6
<1>8. ValueOf(t, s) = v[n]
  BY DEF ValueOf, n
<1> HIDE DEF v
<1>9. v[0] = InitValue(t) /\ \A i \in 1..n : v[i] = Update(t, v[i - 1], s[i])
  <2>1. 0 \in 0..n /\ \A i \in 1..n : i \in 0..n /\ i # 0
    BY <1>1
  <2>2. QED
    BY <1>7, <2>1
<1>10. v \in [0..n -> V]
  <2> DEFINE U == {i \in 0..n : v[i] \in V}
  <2>1. 0 \in U
    BY <1>1, <1>9
  <2>2. ASSUME NEW i \in 0..n, i \in U, i < n PROVE i + 1 \in U
    <3>1. i + 1 \in 1..n /\ (i + 1) - 1 = i /\ i + 1 \in 0..n
      BY <1>1, <2>2
    <3>2. v[i + 1] = Update(t, v[i], s[i + 1])
      BY <1>9, <3>1
    <3>3. QED
      BY <1>2, <2>2, <3>1, <3>2
  <2>3. 0..n \subseteq U
    <3> HIDE DEF U
    <3> QED  BY <1>1, <2>1, <2>2, UpTo
  <2>4. \A i \in 0..n : v[i] \in V
    BY <2>3
  <2>5. QED
    BY <1>7, <2>4
<1>11. QED
  BY <1>8, <1>9, <1>10 DEF n, V

-----------------------------------------------------------------------------
(* Two bytes next to each other *)

\* The bits of a shifted register.
LEMMA IbmStepBits ==
    ASSUME NEW r \in Register, NEW i
    PROVE  i \in IbmStep(r) <=>
              ~((i \in 0..14 /\ i + 1 \in r) <=> (0 \in r /\ i \in {0, 13, 15}))
<1> DEFINE shifted == {j \in 0..14 : j + 1 \in r}
           Poly == {0, 13, 15}
<1>1. IbmStep(r) = IF 0 \in r THEN Xor(shifted, Poly) ELSE shifted
  BY DEF IbmStep
<1>2. i \in shifted <=> (i \in 0..14 /\ i + 1 \in r)
  OBVIOUS
<1> HIDE DEF shifted, Poly
<1>3. CASE 0 \in r
  BY <1>1, <1>2, <1>3, XorMember DEF Poly
<1>4. CASE 0 \notin r
  BY <1>1, <1>2, <1>4
<1>5. QED
  BY <1>3, <1>4

LEMMA CcittStepBits ==
    ASSUME NEW r \in Register, NEW i
    PROVE  i \in CcittStep(r) <=>
              ~((i \in 1..15 /\ i - 1 \in r) <=> (15 \in r /\ i \in {0, 5, 12}))
<1> DEFINE shifted == {j \in 1..15 : j - 1 \in r}
           Poly == {0, 5, 12}
<1>1. CcittStep(r) = IF 15 \in r THEN Xor(shifted, Poly) ELSE shifted
  BY DEF CcittStep
<1>2. i \in shifted <=> (i \in 1..15 /\ i - 1 \in r)
  OBVIOUS
<1> HIDE DEF shifted, Poly
<1>3. CASE 15 \in r
  BY <1>1, <1>2, <1>3, XorMember DEF Poly
<1>4. CASE 15 \notin r
  BY <1>1, <1>2, <1>4
<1>5. QED
  BY <1>3, <1>4

\* What a difference becomes does not depend on the values that differ.
LEMMA StepsAreLinear ==
    ASSUME NEW r \in Register, NEW s \in Register
    PROVE  /\ IbmStep(Xor(r, s)) = Xor(IbmStep(r), IbmStep(s))
           /\ CcittStep(Xor(r, s)) = Xor(CcittStep(r), CcittStep(s))
<1>1. Xor(r, s) \in Register
  BY RegisterXor
<1>2. ASSUME NEW i
      PROVE  i \in IbmStep(Xor(r, s)) <=> i \in Xor(IbmStep(r), IbmStep(s))
  <2> DEFINE Shifted(q) == i \in 0..14 /\ i + 1 \in q
             Fed(q) == 0 \in q /\ i \in {0, 13, 15}
  <2>1. \A q \in Register : i \in IbmStep(q) <=> ~(Shifted(q) <=> Fed(q))
    BY IbmStepBits
  <2>2. Shifted(Xor(r, s)) <=> ~(Shifted(r) <=> Shifted(s))
    BY XorMember
  <2>3. Fed(Xor(r, s)) <=> ~(Fed(r) <=> Fed(s))
    BY XorMember
  <2>4. i \in Xor(IbmStep(r), IbmStep(s)) <=> ~(i \in IbmStep(r) <=> i \in IbmStep(s))
    BY XorMember
  <2> HIDE DEF Shifted, Fed
  <2>5. QED
    BY <1>1, <2>1, <2>2, <2>3, <2>4
<1>3. ASSUME NEW i
      PROVE  i \in CcittStep(Xor(r, s)) <=> i \in Xor(CcittStep(r), CcittStep(s))
  <2> DEFINE Shifted(q) == i \in 1..15 /\ i - 1 \in q
             Fed(q) == 15 \in q /\ i \in {0, 5, 12}
  <2>1. \A q \in Register : i \in CcittStep(q) <=> ~(Shifted(q) <=> Fed(q))
    BY CcittStepBits
  <2>2. Shifted(Xor(r, s)) <=> ~(Shifted(r) <=> Shifted(s))
    BY XorMember
  <2>3. Fed(Xor(r, s)) <=> ~(Fed(r) <=> Fed(s))
    BY XorMember
  <2>4. i \in Xor(CcittStep(r), CcittStep(s)) <=> ~(i \in CcittStep(r) <=> i \in CcittStep(s))
    BY XorMember
  <2> HIDE DEF Shifted, Fed
  <2>5. QED
    BY <1>1, <2>1, <2>2, <2>3, <2>4
<1>4. QED
  BY <1>2, <1>3, Zenon

LEMMA EightStepsAreLinear ==
    ASSUME NEW r \in Register, NEW s \in Register
    PROVE  /\ Ibm8(Xor(r, s)) = Xor(Ibm8(r), Ibm8(s))
           /\ Ccitt8(Xor(r, s)) = Xor(Ccitt8(r), Ccitt8(s))
<1>1. \A q \in Register : IbmStep(q) \in Register /\ CcittStep(q) \in Register
  BY IbmStepInjective, CcittStepInjective
<1>2. \A p, q \in Register :
         Ibm2(q) \in Register /\ Ibm2(Xor(p, q)) = Xor(Ibm2(p), Ibm2(q))
  BY <1>1, RegisterXor, StepsAreLinear DEF Ibm2
<1>3. \A p, q \in Register :
         Ibm4(q) \in Register /\ Ibm4(Xor(p, q)) = Xor(Ibm4(p), Ibm4(q))
  BY <1>2, RegisterXor DEF Ibm4
<1>4. \A p, q \in Register :
         Ccitt2(q) \in Register /\ Ccitt2(Xor(p, q)) = Xor(Ccitt2(p), Ccitt2(q))
  BY <1>1, RegisterXor, StepsAreLinear DEF Ccitt2
<1>5. \A p, q \in Register :
         Ccitt4(q) \in Register /\ Ccitt4(Xor(p, q)) = Xor(Ccitt4(p), Ccitt4(q))
  BY <1>4, RegisterXor DEF Ccitt4
<1>6. QED
  BY <1>3, <1>5, RegisterXor DEF Ibm8, Ccitt8

\* A step that leaves the end bit it feeds back clear has only shifted.
LEMMA StepsUndone ==
    ASSUME NEW r \in Register, NEW lo \in Int, NEW hi \in Int
    PROVE  /\ hi < 15 /\ IbmStep(r) \subseteq lo..hi => r \subseteq lo + 1..hi + 1
           /\ lo > 0 /\ CcittStep(r) \subseteq lo..hi => r \subseteq lo - 1..hi - 1
<1>1. r \subseteq 0..15
  BY DEF Register
<1>2. ASSUME hi < 15, IbmStep(r) \subseteq lo..hi, NEW i \in r
      PROVE  i \in lo + 1..hi + 1
  <2>1. 0 \notin r
    <3>1. 15 \notin IbmStep(r)
      BY <1>2
    <3>2. 15 \notin 0..14
      OBVIOUS
    <3>3. QED
      BY <3>1, <3>2, IbmStepBits
  <2>2. i \in 1..15 /\ i - 1 \in 0..14 /\ (i - 1) + 1 = i
    BY <1>1, <1>2, <2>1
  <2>3. i - 1 \in IbmStep(r)
    BY <1>2, <2>1, <2>2, IbmStepBits
  <2>4. QED
    BY <1>2, <2>2, <2>3
<1>3. ASSUME lo > 0, CcittStep(r) \subseteq lo..hi, NEW i \in r
      PROVE  i \in lo - 1..hi - 1
  <2>1. 15 \notin r
    <3>1. 0 \notin CcittStep(r)
      BY <1>3
    <3>2. 0 \notin 1..15
      OBVIOUS
    <3>3. QED
      BY <3>1, <3>2, CcittStepBits
  <2>2. i \in 0..14 /\ i + 1 \in 1..15 /\ (i + 1) - 1 = i
    BY <1>1, <1>3, <2>1
  <2>3. i + 1 \in CcittStep(r)
    BY <1>3, <2>1, <2>2, CcittStepBits
  <2>4. QED
    BY <1>3, <2>2, <2>3
<1>4. QED
  BY <1>2, <1>3

\* The difference one byte makes to a CRC lies not only in the bits the next
\* byte is fed to.
LEMMA DifferenceSpreads ==
    ASSUME NEW r \in Register
    PROVE  /\ r \subseteq 0..7 /\ Ibm8(r) \subseteq 0..7 => r = {}
           /\ r \subseteq 8..15 /\ Ccitt8(r) \subseteq 8..15 => r = {}
<1>1. \A q \in Register : IbmStep(q) \in Register /\ CcittStep(q) \in Register
  BY IbmStepInjective, CcittStepInjective
<1>2. \A q \in Register : Ibm2(q) \in Register /\ Ccitt2(q) \in Register
  BY <1>1 DEF Ibm2, Ccitt2
<1>3. \A q \in Register : Ibm4(q) \in Register /\ Ccitt4(q) \in Register
  BY <1>2 DEF Ibm4, Ccitt4
<1>4. \A q \in Register : \A lo, hi \in Int :
         /\ hi < 14 /\ Ibm2(q) \subseteq lo..hi => q \subseteq lo + 2..hi + 2
         /\ lo > 1 /\ Ccitt2(q) \subseteq lo..hi => q \subseteq lo - 2..hi - 2
  <2> SUFFICES ASSUME NEW q \in Register, NEW lo \in Int, NEW hi \in Int
               PROVE  /\ hi < 14 /\ Ibm2(q) \subseteq lo..hi => q \subseteq lo + 2..hi + 2
                      /\ lo > 1 /\ Ccitt2(q) \subseteq lo..hi => q \subseteq lo - 2..hi - 2
    OBVIOUS
  <2>1. /\ lo + 1 \in Int /\ (lo + 1) + 1 = lo + 2 /\ hi + 1 \in Int /\ (hi + 1) + 1 = hi + 2
        /\ lo - 1 \in Int /\ (lo - 1) - 1 = lo - 2 /\ hi - 1 \in Int /\ (hi - 1) - 1 = hi - 2
        /\ hi < 14 => hi < 15 /\ hi + 1 < 15
        /\ lo > 1 => lo > 0 /\ lo - 1 > 0
    OBVIOUS
  <2>2. ASSUME hi < 14, Ibm2(q) \subseteq lo..hi PROVE q \subseteq lo + 2..hi + 2
    <3>1. IbmStep(q) \subseteq lo + 1..hi + 1
      BY <1>1, <2>1, <2>2, StepsUndone DEF Ibm2
    <3>2. q \subseteq (lo + 1) + 1..(hi + 1) + 1
      BY <2>1, <2>2, <3>1, StepsUndone
    <3>3. QED
      BY <2>1, <3>2
  <2>3. ASSUME lo > 1, Ccitt2(q) \subseteq lo..hi PROVE q \subseteq lo - 2..hi - 2
    <3>1. CcittStep(q) \subseteq lo - 1..hi - 1
      BY <1>1, <2>1, <2>3, StepsUndone DEF Ccitt2
    <3>2. q \subseteq (lo - 1) - 1..(hi - 1) - 1
      BY <2>1, <2>3, <3>1, StepsUndone
    <3>3. QED
      BY <2>1, <3>2
  <2>4. QED
    BY <2>2, <2>3
<1>5. ASSUME Ibm8(r) \subseteq 0..7 PROVE r \subseteq 8..15
  <2>1. \A q \in Register : /\ Ibm2(q) \subseteq 0..7 => q \subseteq 2..9
                            /\ Ibm2(q) \subseteq 2..9 => q \subseteq 4..11
                            /\ Ibm2(q) \subseteq 4..11 => q \subseteq 6..13
                            /\ Ibm2(q) \subseteq 6..13 => q \subseteq 8..15
    <3> SUFFICES ASSUME NEW q \in Register
                 PROVE  /\ Ibm2(q) \subseteq 0..7 => q \subseteq 2..9
                        /\ Ibm2(q) \subseteq 2..9 => q \subseteq 4..11
                        /\ Ibm2(q) \subseteq 4..11 => q \subseteq 6..13
                        /\ Ibm2(q) \subseteq 6..13 => q \subseteq 8..15
      OBVIOUS
    <3>1. Ibm2(q) \subseteq 0..7 => q \subseteq 2..9
      <4>1. 0 + 2 = 2 /\ 7 + 2 = 9
        OBVIOUS
      <4>2. 0 \in Int /\ 7 \in Int /\ 7 < 14
        OBVIOUS
      <4>3. Ibm2(q) \subseteq 0..7 => q \subseteq 0 + 2..7 + 2
        BY <1>4, <4>2
      <4>4. QED
        BY <4>1, <4>3
    <3>2. Ibm2(q) \subseteq 2..9 => q \subseteq 4..11
      <4>1. 2 + 2 = 4 /\ 9 + 2 = 11
        OBVIOUS
      <4>2. 2 \in Int /\ 9 \in Int /\ 9 < 14
        OBVIOUS
      <4>3. Ibm2(q) \subseteq 2..9 => q \subseteq 2 + 2..9 + 2
        BY <1>4, <4>2
      <4>4. QED
        BY <4>1, <4>3
    <3>3. Ibm2(q) \subseteq 4..11 => q \subseteq 6..13
      <4>1. 4 + 2 = 6 /\ 11 + 2 = 13
        OBVIOUS
      <4>2. 4 \in Int /\ 11 \in Int /\ 11 < 14
        OBVIOUS
      <4>3. Ibm2(q) \subseteq 4..11 => q \subseteq 4 + 2..11 + 2
        BY <1>4, <4>2
      <4>4. QED
        BY <4>1, <4>3
    <3>4. Ibm2(q) \subseteq 6..13 => q \subseteq 8..15
      <4>1. 6 + 2 = 8 /\ 13 + 2 = 15
        OBVIOUS
      <4>2. 6 \in Int /\ 13 \in Int /\ 13 < 14
        OBVIOUS
      <4>3. Ibm2(q) \subseteq 6..13 => q \subseteq 6 + 2..13 + 2
        BY <1>4, <4>2
      <4>4. QED
        BY <4>1, <4>3
    <3>5. QED
      BY <3>1, <3>2, <3>3, <3>4
  <2>2. Ibm8(r) = Ibm2(Ibm2(Ibm2(Ibm2(r))))
    BY DEF Ibm8, Ibm4
  <2>3. QED
    BY <1>2, <1>5, <2>1, <2>2
<1>6. \A q \in Register : \A lo, hi \in Int :
         lo > 1 => (Ccitt2(q) \subseteq lo..hi => q \subseteq lo - 2..hi - 2)
  BY <1>4
<1>7. ASSUME Ccitt8(r) \subseteq 8..15 PROVE r \subseteq 0..7
  <2>1. \A q \in Register : /\ Ccitt2(q) \subseteq 8..15 => q \subseteq 6..13
                            /\ Ccitt2(q) \subseteq 6..13 => q \subseteq 4..11
                            /\ Ccitt2(q) \subseteq 4..11 => q \subseteq 2..9
                            /\ Ccitt2(q) \subseteq 2..9 => q \subseteq 0..7
    <3> SUFFICES ASSUME NEW q \in Register
                 PROVE  /\ Ccitt2(q) \subseteq 8..15 => q \subseteq 6..13
                        /\ Ccitt2(q) \subseteq 6..13 => q \subseteq 4..11
                        /\ Ccitt2(q) \subseteq 4..11 => q \subseteq 2..9
                        /\ Ccitt2(q) \subseteq 2..9 => q \subseteq 0..7
      OBVIOUS
    <3>1. Ccitt2(q) \subseteq 8..15 => q \subseteq 6..13
      <4>1. 8 - 2 = 6 /\ 15 - 2 = 13
        OBVIOUS
      <4>2. 8 \in Int /\ 15 \in Int /\ 8 > 1
        OBVIOUS
      <4>3. Ccitt2(q) \subseteq 8..15 => q \subseteq 8 - 2..15 - 2
        BY <1>6, <4>2
      <4>4. QED
        BY <4>1, <4>3
    <3>2. Ccitt2(q) \subseteq 6..13 => q \subseteq 4..11
      <4>1. 6 - 2 = 4 /\ 13 - 2 = 11
        OBVIOUS
      <4>2. 6 \in Int /\ 13 \in Int /\ 6 > 1
        OBVIOUS
      <4>3. Ccitt2(q) \subseteq 6..13 => q \subseteq 6 - 2..13 - 2
        BY <1>6, <4>2
      <4>4. QED
        BY <4>1, <4>3
    <3>3. Ccitt2(q) \subseteq 4..11 => q \subseteq 2..9
      <4>1. 4 - 2 = 2 /\ 11 - 2 = 9
        OBVIOUS
      <4>2. 4 \in Int /\ 11 \in Int /\ 4 > 1
        OBVIOUS
      <4>3. Ccitt2(q) \subseteq 4..11 => q \subseteq 4 - 2..11 - 2
        BY <1>6, <4>2
      <4>4. QED
        BY <4>1, <4>3
    <3>4. Ccitt2(q) \subseteq 2..9 => q \subseteq 0..7
      <4>1. 2 - 2 = 0 /\ 9 - 2 = 7
        OBVIOUS
      <4>2. 2 \in Int /\ 9 \in Int /\ 2 > 1
        OBVIOUS
      <4>3. Ccitt2(q) \subseteq 2..9 => q \subseteq 2 - 2..9 - 2
        BY <1>6, <4>2
      <4>4. QED
        BY <4>1, <4>3
    <3>5. QED
      BY <3>1, <3>2, <3>3, <3>4
  <2>2. Ccitt8(r) = Ccitt2(Ccitt2(Ccitt2(Ccitt2(r))))
    BY DEF Ccitt8, Ccitt4
  <2>3. QED
    BY <1>2, <1>7, <2>1, <2>2
<1>8. ASSUME r \subseteq 0..7, r \subseteq 8..15 PROVE r = {}
  BY <1>8
<1>9. QED
  BY <1>5, <1>7, <1>8

LEMMA XorSwaps ==
    ASSUME NEW R, NEW S, NEW T, NEW U, Xor(R, S) = Xor(T, U)
    PROVE  Xor(R, T) = Xor(S, U)
<1>1. ASSUME NEW x PROVE x \in Xor(R, T) <=> x \in Xor(S, U)
  <2>1. x \in Xor(R, S) <=> x \in Xor(T, U)
    OBVIOUS
  <2>2. QED
    BY <2>1, XorMember
<1>2. QED
  BY <1>1, Zenon

LEMMA XorCommon ==
    ASSUME NEW R, NEW S, NEW T
    PROVE  Xor(Xor(R, S), Xor(R, T)) = Xor(S, T)
<1>1. ASSUME NEW x PROVE x \in Xor(Xor(R, S), Xor(R, T)) <=> x \in Xor(S, T)
  BY XorMember
<1>2. QED
  BY <1>1, Zenon

LEMMA XorEmpty ==
    ASSUME NEW S, NEW T, Xor(S, T) = {}
    PROVE  S = T
<1>1. ASSUME NEW x PROVE x \in S <=> x \in T
  <2>1. x \notin Xor(S, T)
    OBVIOUS
  <2>2. QED
    BY <2>1, XorMember
<1>2. QED
  BY <1>1, Zenon

LEMMA OctetBits ==
    ASSUME NEW b \in Byte
    PROVE  /\ Bits(b) \subseteq 0..7 /\ Bits(b) \in Register
           /\ High(Bits(b)) \subseteq 8..15 /\ High(Bits(b)) \in Register
BY DEF Bits, High, Register

\* After a byte heard wrong, no other byte in the place of the next one makes
\* the two values equal.
LEMMA SecondByteDoesNotHide ==
    ASSUME NEW t \in Crc16, NEW v \in Values(t),
           NEW b \in Byte, NEW c \in Byte, b # c, NEW d \in Byte, NEW e \in Byte
    PROVE  Update(t, Update(t, v, b), d) # Update(t, Update(t, v, c), e)
<1>1. t \in ChecksumTypes /\ t \notin {"NONE", "XOR8", "SUM8"} /\ v \in Register
  BY DEF Crc16, ChecksumTypes, Values, Register
<1>2. \A x \in Byte : Bits(x) \subseteq 0..7 /\ Bits(x) \in Register
                      /\ High(Bits(x)) \subseteq 8..15 /\ High(Bits(x)) \in Register
  BY OctetBits
<1>3. \A p, q \in Register : Xor(p, q) \in Register
  BY RegisterXor
<1>4. \A q \in Register : Ibm8(q) \in Register /\ Ccitt8(q) \in Register
  BY EightStepsInjective
<1>5. CASE t = "CRC16_IBM"
  <2>1. \A w, x : Update(t, w, x) = Ibm8(Xor(w, Bits(x)))
    BY <1>5 DEF Update
  <2> SUFFICES ASSUME Ibm8(Xor(Ibm8(Xor(v, Bits(b))), Bits(d)))
                      = Ibm8(Xor(Ibm8(Xor(v, Bits(c))), Bits(e)))
               PROVE  FALSE
    BY <2>1
  <2> DEFINE p == Xor(v, Bits(b))
             q == Xor(v, Bits(c))
  <2>2. p \in Register /\ q \in Register /\ Ibm8(p) \in Register /\ Ibm8(q) \in Register
    BY <1>1, <1>2, <1>3, <1>4
  <2>3. Xor(Ibm8(p), Bits(d)) = Xor(Ibm8(q), Bits(e))
    <3>1. Xor(Ibm8(p), Bits(d)) \in Register /\ Xor(Ibm8(q), Bits(e)) \in Register
      BY <1>2, <1>3, <2>2
    <3>2. QED
      BY <3>1, EightStepsInjective
  <2>4. Xor(p, q) = Xor(Bits(b), Bits(c))
    BY XorCommon
  <2> HIDE DEF p, q
  <2>5. Xor(Ibm8(p), Ibm8(q)) = Xor(Bits(d), Bits(e))
    BY <2>3, XorSwaps
  <2>6. Ibm8(Xor(Bits(b), Bits(c))) = Xor(Bits(d), Bits(e))
    BY <2>2, <2>4, <2>5, EightStepsAreLinear
  <2>7. Xor(Bits(d), Bits(e)) \subseteq 0..7 /\ Xor(Bits(b), Bits(c)) \subseteq 0..7
    BY <1>2 DEF Xor
  <2>8. Xor(Bits(b), Bits(c)) = {}
    BY <1>2, <1>3, <2>6, <2>7, DifferenceSpreads
  <2>9. QED
    BY <2>8, XorEmpty, BitsInjective
<1>6. CASE t = "CRC16_CCITT_FALSE"
  <2>1. \A w, x : Update(t, w, x) = Ccitt8(Xor(w, High(Bits(x))))
    BY <1>6 DEF Update
  <2> SUFFICES ASSUME Ccitt8(Xor(Ccitt8(Xor(v, High(Bits(b)))), High(Bits(d))))
                      = Ccitt8(Xor(Ccitt8(Xor(v, High(Bits(c)))), High(Bits(e))))
               PROVE  FALSE
    BY <2>1
  <2> DEFINE p == Xor(v, High(Bits(b)))
             q == Xor(v, High(Bits(c)))
  <2>2. p \in Register /\ q \in Register /\ Ccitt8(p) \in Register /\ Ccitt8(q) \in Register
    BY <1>1, <1>2, <1>3, <1>4
  <2>3. Xor(Ccitt8(p), High(Bits(d))) = Xor(Ccitt8(q), High(Bits(e)))
    <3>1. /\ Xor(Ccitt8(p), High(Bits(d))) \in Register
          /\ Xor(Ccitt8(q), High(Bits(e))) \in Register
      BY <1>2, <1>3, <2>2
    <3>2. QED
      BY <3>1, EightStepsInjective
  <2>4. Xor(p, q) = Xor(High(Bits(b)), High(Bits(c)))
    BY XorCommon
  <2> HIDE DEF p, q
  <2>5. Xor(Ccitt8(p), Ccitt8(q)) = Xor(High(Bits(d)), High(Bits(e)))
    BY <2>3, XorSwaps
  <2>6. Ccitt8(Xor(High(Bits(b)), High(Bits(c)))) = Xor(High(Bits(d)), High(Bits(e)))
    BY <1>2, <2>2, <2>4, <2>5, EightStepsAreLinear
  <2>7. /\ Xor(High(Bits(d)), High(Bits(e))) \subseteq 8..15
        /\ Xor(High(Bits(b)), High(Bits(c))) \subseteq 8..15
    BY <1>2 DEF Xor
  <2>8. Xor(High(Bits(b)), High(Bits(c))) = {}
    BY <1>2, <1>3, <2>6, <2>7, DifferenceSpreads
  <2>9. High(Bits(b)) = High(Bits(c))
    BY <2>8, XorEmpty
  <2>10. QED
    BY <1>2, <2>9, HighInjective, BitsInjective DEF Octet
<1>7. QED
  BY <1>5, <1>6 DEF Crc16

-----------------------------------------------------------------------------
(* The two sides *)

\* The byte fed last was the only one heard wrong.
JustMisheard ==
    \E v \in Values(type) : \E b, c \in Byte :
        b # c /\ sender = Update(type, v, b) /\ receiver = Update(type, v, c)

\* As long as nothing was misheard the two values agree; a first difference
\* stays, and for a CRC a second one next to it does not make up for it.
PairInv ==
    /\ PairTypeOK
    /\ errors = {} => sender = receiver
    /\ errors = {index} => JustMisheard
    /\ ErrorsAreNoticed

LEMMA InitPair == PairInit => PairInv
<1> SUFFICES ASSUME PairInit PROVE PairInv  OBVIOUS
<1>1. type \in ChecksumTypes /\ message \in Seq(Byte)
  BY PairAssumption DEF PairInit
<1>2. index \in 0..Len(message)  BY <1>1 DEF PairInit
<1>3. PairTypeOK  BY <1>1, <1>2, InitValueType, Zenon DEF PairInit, PairTypeOK
<1>4. errors = {} /\ errors # {index}  BY DEF PairInit
<1>5. ErrorsAreNoticed
  BY <1>4, Zenon DEF ErrorsAreNoticed, OneByteIsNoticed, BurstIsNoticed
<1>6. QED  BY <1>3, <1>4, <1>5, Zenon DEF PairInv, PairInit

LEMMA FeedKeepsTypes ==
    ASSUME PairTypeOK, index < Len(message), NEW heard \in Byte, Feed(heard)
    PROVE  /\ type \in ChecksumTypes /\ message[index + 1] \in Byte
           /\ index' = index + 1 /\ index' \in 0..Len(message)'
           /\ sender' \in Values(type)' /\ receiver' \in Values(type)'
           /\ type' = type /\ message' = message
           /\ index \in Nat
<1>1. type \in ChecksumTypes /\ message \in Seq(Byte)
  BY PairAssumption DEF PairTypeOK
<1>2. /\ index' = index + 1 /\ index' \in 0..Len(message)'
      /\ type' = type /\ message' = message /\ index \in Nat
  BY <1>1 DEF PairTypeOK, Feed
<1>3. message[index + 1] \in Byte  BY <1>1, <1>2 DEF PairTypeOK
<1>4. sender' \in Values(type) /\ receiver' \in Values(type)
  BY <1>1, <1>3, UpdateInjective, Zenon DEF PairTypeOK, Feed
<1>5. QED  BY <1>1, <1>2, <1>3, <1>4, Zenon DEF Values

LEMMA HeardKeepsPair == PairInv /\ Heard => PairInv'
<1> SUFFICES ASSUME PairInv, Heard PROVE PairInv'  OBVIOUS
<1> DEFINE b == message[index + 1]
<1>1. PairTypeOK /\ index < Len(message) /\ Feed(b) /\ errors' = errors
  BY DEF PairInv, Heard
<1>2. b \in Byte
  <2>1. message \in Seq(Byte) /\ index + 1 \in 1..Len(message)
    BY <1>1, PairAssumption DEF PairTypeOK
  <2>2. QED  BY <2>1
<1>3. /\ type \in ChecksumTypes /\ index' = index + 1 /\ index' \in 0..Len(message)'
      /\ sender' \in Values(type)' /\ receiver' \in Values(type)'
      /\ type' = type /\ message' = message /\ index \in Nat
  BY <1>1, <1>2, FeedKeepsTypes, Zenon
<1>4. errors' \subseteq 1..index' /\ errors' # {index'}
  BY <1>1, <1>3 DEF PairTypeOK
<1>5. PairTypeOK'  BY <1>1, <1>3, <1>4, Zenon DEF PairTypeOK
<1>6. sender' = Update(type, sender, b) /\ receiver' = Update(type, receiver, b)
  BY <1>1, Zenon DEF Feed
<1>7. errors' = {} => sender' = receiver'
  BY <1>1, <1>6, Zenon DEF PairInv
<1>8. type # "NONE" /\ sender # receiver => sender' # receiver'
  <2>1. sender \in Values(type) /\ receiver \in Values(type)
    BY <1>1, Zenon DEF PairTypeOK
  <2>2. QED  BY <1>2, <1>3, <1>6, <2>1, UpdateInjective, Zenon
<1>9. OneByteIsNoticed'
  <2> SUFFICES ASSUME type # "NONE", NEW i, errors = {i} PROVE sender' # receiver'
    BY <1>1, <1>3, Zenon DEF OneByteIsNoticed
  <2>1. i \in 1..index  BY <1>1, Zenon DEF PairTypeOK
  <2>2. sender # receiver
    BY <2>1, Zenon DEF PairInv, ErrorsAreNoticed, OneByteIsNoticed
  <2>3. QED  BY <1>8, <2>2
<1>10. BurstIsNoticed'
  <2> SUFFICES ASSUME type \in Crc16, \E i \in errors : errors \subseteq {i, i + 1}
               PROVE  sender' # receiver'
    BY <1>1, <1>3, Zenon DEF BurstIsNoticed
  <2>1. sender # receiver /\ type # "NONE"
    BY DEF PairInv, ErrorsAreNoticed, BurstIsNoticed, Crc16
  <2>2. QED  BY <1>8, <2>1
<1>11. QED  BY <1>4, <1>5, <1>7, <1>9, <1>10, Zenon DEF PairInv, ErrorsAreNoticed

LEMMA MisheardKeepsPair == PairInv /\ Misheard => PairInv'
<1> SUFFICES ASSUME PairInv, Misheard PROVE PairInv'  OBVIOUS
<1> DEFINE b == message[index + 1]
<1>1. PICK c \in Wrong : c # b /\ Feed(c)  BY Zenon DEF Misheard
<1>2. PairTypeOK /\ index < Len(message) /\ errors' = errors \cup {index + 1}
  BY Zenon DEF PairInv, Misheard
<1>3. c \in Byte  BY PairAssumption, Zenon
<1>4. /\ type \in ChecksumTypes /\ b \in Byte
      /\ index' = index + 1 /\ index' \in 0..Len(message)'
      /\ sender' \in Values(type)' /\ receiver' \in Values(type)'
      /\ type' = type /\ message' = message /\ index \in Nat
  BY <1>1, <1>2, <1>3, FeedKeepsTypes, Zenon
<1>5. errors' \subseteq 1..index'  BY <1>2, <1>4 DEF PairTypeOK
<1>6. PairTypeOK'  BY <1>2, <1>4, <1>5, Zenon DEF PairTypeOK
<1>7. sender' = Update(type, sender, b) /\ receiver' = Update(type, receiver, c)
  BY <1>1, Zenon DEF Feed
<1>8. errors' # {} /\ index + 1 \notin errors
  BY <1>2, <1>4 DEF PairTypeOK
<1>9. sender \in Values(type) /\ receiver \in Values(type)
  BY <1>2, Zenon DEF PairTypeOK
<1>10. CASE errors = {}
  <2>1. sender = receiver  BY <1>10, Zenon DEF PairInv
  <2>2. JustMisheard'
    BY <1>1, <1>3, <1>4, <1>7, <1>9, <2>1, Zenon DEF JustMisheard
  <2>3. type # "NONE" => sender' # receiver'
    BY <1>1, <1>3, <1>4, <1>7, <1>9, <2>1, UpdateInjective, Zenon
  <2>4. ErrorsAreNoticed'
    <3>1. type' \in Crc16 => type' # "NONE"  BY DEF Crc16
    <3>2. QED
      BY <1>4, <2>3, <3>1, Zenon DEF ErrorsAreNoticed, OneByteIsNoticed, BurstIsNoticed
  <2>5. QED  BY <1>6, <1>8, <2>2, <2>4, Zenon DEF PairInv
<1>11. CASE errors # {}
  <2>1. \A i : errors' # {i}  BY <1>2, <1>8, <1>11
  <2>2. OneByteIsNoticed' /\ (errors' = {index'} => JustMisheard')
    BY <2>1, Zenon DEF OneByteIsNoticed
  <2>3. BurstIsNoticed'
    <3> SUFFICES ASSUME type \in Crc16, NEW i \in errors', errors' \subseteq {i, i + 1}
                 PROVE  sender' # receiver'
      BY <1>4, Zenon DEF BurstIsNoticed
    <3>1. /\ \A k \in errors' : k \in {i, i + 1} /\ k \in Int
          /\ i \in errors'
      BY <1>4, <1>5
    <3>2. errors = {index}
      <4>1. \A k \in errors : k \in Int /\ k <= index /\ k \in {i, i + 1}
        BY <1>2, <1>4, <3>1 DEF PairTypeOK
      <4>2. index + 1 \in {i, i + 1} /\ i \in Int
        BY <1>2, <1>4, <3>1
      <4>3. \A k \in errors : k = index
        BY <1>4, <4>1, <4>2
      <4>4. QED
        BY <1>11, <4>3
    <3>3. PICK v \in Values(type), d \in Byte, e \in Byte :
             d # e /\ sender = Update(type, v, d) /\ receiver = Update(type, v, e)
      BY <3>2, Zenon DEF PairInv, JustMisheard
    <3>4. QED
      BY <1>3, <1>4, <1>7, <3>3, SecondByteDoesNotHide, Zenon
  <2>4. QED  BY <1>6, <1>8, <2>2, <2>3, Zenon DEF PairInv, ErrorsAreNoticed
<1>12. QED  BY <1>10, <1>11

LEMMA PairStep == PairInv /\ [PairNext]_pairVars => PairInv'
<1> SUFFICES ASSUME PairInv, [PairNext]_pairVars PROVE PairInv'  OBVIOUS
<1>1. CASE Heard  BY <1>1, HeardKeepsPair
<1>2. CASE Misheard  BY <1>2, MisheardKeepsPair
<1>3. CASE UNCHANGED pairVars
  BY <1>3 DEF pairVars, PairInv, PairTypeOK, ErrorsAreNoticed, OneByteIsNoticed,
              BurstIsNoticed, JustMisheard, Values
<1>4. QED  BY <1>1, <1>2, <1>3 DEF PairNext

\* A frame with one wrong byte never passes the checksum, whatever the type,
\* the message, the byte and its place, nor does one with two wrong bytes next
\* to each other pass a 16-bit checksum: bbai64_uart_read_frame answers
\* CHECKSUM_MISMATCH.
THEOREM ErrorsAreAlwaysNoticed == PairSpec => []ErrorsAreNoticed
<1>1. PairInit => PairInv  BY InitPair
<1>2. PairInv => ErrorsAreNoticed  BY DEF PairInv
<1>3. QED  BY <1>1, <1>2, PairStep, PTL DEF PairSpec

-----------------------------------------------------------------------------
(* The bytes of a checksum *)

LEMMA LowIs ==
    ASSUME NEW bits
    PROVE  Low(bits) = (IF 0 \in bits THEN 1 ELSE 0) + (IF 1 \in bits THEN 2 ELSE 0)
                       + (IF 2 \in bits THEN 4 ELSE 0) + (IF 3 \in bits THEN 8 ELSE 0)
                       + (IF 4 \in bits THEN 16 ELSE 0) + (IF 5 \in bits THEN 32 ELSE 0)
                       + (IF 6 \in bits THEN 64 ELSE 0) + (IF 7 \in bits THEN 128 ELSE 0)
<1> DEFINE Bit(i) == IF i \in bits THEN Weight[i] ELSE 0
           Turn(g, i) == IF i = 0 THEN 0
                         ELSE g[i - 1] + (IF i - 1 \in bits THEN Weight[i - 1] ELSE 0)
           sum == CHOOSE g : g = [i \in 0..8 |-> Turn(g, i)]
           f == [i \in 0..8 |-> IF i = 0 THEN 0 ELSE IF i = 1 THEN Bit(0)
                   ELSE IF i = 2 THEN Bit(0) + Bit(1)
                   ELSE IF i = 3 THEN Bit(0) + Bit(1) + Bit(2)
                   ELSE IF i = 4 THEN Bit(0) + Bit(1) + Bit(2) + Bit(3)
                   ELSE IF i = 5 THEN Bit(0) + Bit(1) + Bit(2) + Bit(3) + Bit(4)
                   ELSE IF i = 6 THEN Bit(0) + Bit(1) + Bit(2) + Bit(3) + Bit(4) + Bit(5)
                   ELSE IF i = 7
                   THEN Bit(0) + Bit(1) + Bit(2) + Bit(3) + Bit(4) + Bit(5) + Bit(6)
                   ELSE Bit(0) + Bit(1) + Bit(2) + Bit(3) + Bit(4) + Bit(5) + Bit(6) + Bit(7)]
<1>1. \A i \in 0..7 : Bit(i) \in Int
  BY DEF Weight
<1>2. /\ Bit(0) = (IF 0 \in bits THEN 1 ELSE 0) /\ Bit(1) = (IF 1 \in bits THEN 2 ELSE 0)
      /\ Bit(2) = (IF 2 \in bits THEN 4 ELSE 0) /\ Bit(3) = (IF 3 \in bits THEN 8 ELSE 0)
      /\ Bit(4) = (IF 4 \in bits THEN 16 ELSE 0) /\ Bit(5) = (IF 5 \in bits THEN 32 ELSE 0)
      /\ Bit(6) = (IF 6 \in bits THEN 64 ELSE 0) /\ Bit(7) = (IF 7 \in bits THEN 128 ELSE 0)
  BY DEF Weight
<1>3. \A g, i : Turn(g, i) = IF i = 0 THEN 0 ELSE g[i - 1] + Bit(i - 1)
  OBVIOUS
<1> HIDE DEF Bit, Turn
<1>4. f = [i \in 0..8 |-> Turn(f, i)]
  <2>1. /\ f[0] = 0 /\ f[1] = Bit(0) /\ f[2] = f[1] + Bit(1) /\ f[3] = f[2] + Bit(2)
        /\ f[4] = f[3] + Bit(3) /\ f[5] = f[4] + Bit(4) /\ f[6] = f[5] + Bit(5)
        /\ f[7] = f[6] + Bit(6) /\ f[8] = f[7] + Bit(7)
    OBVIOUS
  <2>2. Bit(0) = 0 + Bit(0)
    BY <1>1
  <2>3. f = [i \in 0..8 |-> f[i]]
    OBVIOUS
  <2> HIDE DEF f
  <2>4. ASSUME NEW i \in 0..8 PROVE f[i] = Turn(f, i)
    <3>1. i \in {0, 1, 2, 3, 4, 5, 6, 7, 8}
      OBVIOUS
    <3>2. QED
      BY <1>3, <2>1, <2>2, <3>1
  <2>5. QED
    BY <2>3, <2>4
<1>5. sum = [i \in 0..8 |-> Turn(sum, i)]
  <2> HIDE DEF f
  <2>1. QED  BY <1>4
<1>6. Low(bits) = sum[8]
  BY DEF Low, Turn
<1> HIDE DEF sum
<1>7. \A i \in 1..8 : sum[i] = sum[i - 1] + Bit(i - 1)
  BY <1>3, <1>5
<1>8. /\ sum[0] = 0 /\ sum[1] = sum[0] + Bit(0) /\ sum[2] = sum[1] + Bit(1)
      /\ sum[3] = sum[2] + Bit(2) /\ sum[4] = sum[3] + Bit(3) /\ sum[5] = sum[4] + Bit(4)
      /\ sum[6] = sum[5] + Bit(5) /\ sum[7] = sum[6] + Bit(6) /\ sum[8] = sum[7] + Bit(7)
  BY <1>3, <1>5, <1>7
<1>9. QED
  BY <1>1, <1>2, <1>6, <1>8

LEMMA EightBits ==
    ASSUME NEW a \in {0, 1}, NEW b \in {0, 2}, NEW c \in {0, 4}, NEW d \in {0, 8},
           NEW e \in {0, 16}, NEW f \in {0, 32}, NEW g \in {0, 64}, NEW h \in {0, 128},
           NEW a1 \in {0, 1}, NEW b1 \in {0, 2}, NEW c1 \in {0, 4}, NEW d1 \in {0, 8},
           NEW e1 \in {0, 16}, NEW f1 \in {0, 32}, NEW g1 \in {0, 64}, NEW h1 \in {0, 128},
           a + b + c + d + e + f + g + h = a1 + b1 + c1 + d1 + e1 + f1 + g1 + h1
    PROVE  a = a1 /\ b = b1 /\ c = c1 /\ d = d1 /\ e = e1 /\ f = f1 /\ g = g1 /\ h = h1
OBVIOUS

LEMMA LowInjective ==
    ASSUME NEW S, NEW T, Low(S) = Low(T)
    PROVE  \A i \in 0..7 : i \in S <=> i \in T
<1> DEFINE B(X, i, w) == IF i \in X THEN w ELSE 0
<1>1. \A X : Low(X) = B(X, 0, 1) + B(X, 1, 2) + B(X, 2, 4) + B(X, 3, 8) + B(X, 4, 16)
                      + B(X, 5, 32) + B(X, 6, 64) + B(X, 7, 128)
  BY LowIs
<1>2. \A X, i, w : B(X, i, w) \in {0, w} /\ (w # 0 => (i \in X <=> B(X, i, w) = w))
  OBVIOUS
<1> HIDE DEF B
<1>3. /\ B(S, 0, 1) = B(T, 0, 1) /\ B(S, 1, 2) = B(T, 1, 2) /\ B(S, 2, 4) = B(T, 2, 4)
      /\ B(S, 3, 8) = B(T, 3, 8) /\ B(S, 4, 16) = B(T, 4, 16) /\ B(S, 5, 32) = B(T, 5, 32)
      /\ B(S, 6, 64) = B(T, 6, 64) /\ B(S, 7, 128) = B(T, 7, 128)
  BY <1>1, <1>2, EightBits
<1>4. \A i \in 0..7 : i \in {0, 1, 2, 3, 4, 5, 6, 7}
  OBVIOUS
<1>5. QED
  BY <1>2, <1>3, <1>4

LEMMA LowType == ASSUME NEW bits PROVE Low(bits) \in Byte
BY LowIs DEF Byte

LEMMA PairsEqual ==
    ASSUME NEW a, NEW b, NEW c, NEW d
    PROVE  /\ <<a>> = <<c>> => a = c
           /\ <<a, b>> = <<c, d>> => a = c /\ b = d
OBVIOUS

\* Different values make different bytes on the wire.
LEMMA ChecksumBytesInjective ==
    ASSUME NEW t \in ChecksumTypes, t # "NONE", NEW v \in Values(t), NEW w \in Values(t),
           NEW big, ChecksumBytes(t, big, v) = ChecksumBytes(t, big, w)
    PROVE  v = w
<1>1. CASE t = "SUM8"
  <2>1. \A x : ChecksumBytes(t, big, x) = <<x>>
    BY <1>1 DEF ChecksumBytes
  <2>2. QED
    BY <2>1, PairsEqual
<1>2. CASE t = "XOR8"
  <2>1. \A x : ChecksumBytes(t, big, x) = <<Low(x)>>
    BY <1>2 DEF ChecksumBytes
  <2>2. Low(v) = Low(w)
    BY <2>1, PairsEqual
  <2>3. v \subseteq 0..7 /\ w \subseteq 0..7
    BY <1>2 DEF Values
  <2>4. \A i : i \in v <=> i \in w
    BY <2>2, <2>3, LowInjective
  <2>5. QED
    BY <2>3, <2>4
<1>3. CASE t \in Crc16
  <2>1. t \notin {"NONE", "SUM8", "XOR8"}
    BY <1>3 DEF Crc16
  <2>2. \A x : ChecksumBytes(t, big, x) = IF big THEN <<Low(ShiftRight8(x)), Low(x)>>
                                                ELSE <<Low(x), Low(ShiftRight8(x))>>
    BY <2>1, Zenon DEF ChecksumBytes
  <2>3. Low(v) = Low(w) /\ Low(ShiftRight8(v)) = Low(ShiftRight8(w))
    <3>1. CASE big
      <4>1. \A x : ChecksumBytes(t, big, x) = <<Low(ShiftRight8(x)), Low(x)>>
        BY <2>2, <3>1, Zenon
      <4>2. QED
        BY <4>1, PairsEqual
    <3>2. CASE ~big
      <4>1. \A x : ChecksumBytes(t, big, x) = <<Low(x), Low(ShiftRight8(x))>>
        BY <2>2, <3>2, Zenon
      <4>2. QED
        BY <4>1, PairsEqual
    <3>3. QED
      BY <3>1, <3>2
  <2>4. v \subseteq 0..15 /\ w \subseteq 0..15
    BY <2>1, Zenon DEF Values
  <2>5. ASSUME NEW i \in 0..15 PROVE i \in v <=> i \in w
    <3>1. CASE i \in 0..7
      BY <2>3, <3>1, LowInjective
    <3>2. CASE i \notin 0..7
      <4>1. i - 8 \in 0..7 /\ (i - 8) + 8 = i
        BY <3>2
      <4>2. \A x : i - 8 \in ShiftRight8(x) <=> i \in x
        BY <4>1 DEF ShiftRight8
      <4>3. i - 8 \in ShiftRight8(v) <=> i - 8 \in ShiftRight8(w)
        BY <2>3, <4>1, LowInjective
      <4>4. QED
        BY <4>2, <4>3
    <3>3. QED
      BY <3>1, <3>2
  <2>6. QED
    BY <2>4, <2>5
<1>4. QED
  BY <1>1, <1>2, <1>3 DEF ChecksumTypes, Crc16

\* One changed byte changes the value, whatever follows it.
LEMMA OneByteChangesValue ==
    ASSUME NEW t \in ChecksumTypes, t # "NONE", NEW s \in Seq(Byte), NEW r \in Seq(Byte),
           Len(r) = Len(s), NEW d \in 1..Len(s), s[d] # r[d],
           \A i \in 1..Len(s) : i # d => s[i] = r[i]
    PROVE  /\ ValueOf(t, s) \in Values(t) /\ ValueOf(t, r) \in Values(t)
           /\ ValueOf(t, s) # ValueOf(t, r)
<1> DEFINE n == Len(s)
<1>1. PICK v \in [0..n -> Values(t)] :
         /\ v[0] = InitValue(t)
         /\ \A i \in 1..n : v[i] = Update(t, v[i - 1], s[i])
         /\ ValueOf(t, s) = v[n]
  BY RunningValues
<1>2. PICK w \in [0..n -> Values(t)] :
         /\ w[0] = InitValue(t)
         /\ \A i \in 1..n : w[i] = Update(t, w[i - 1], r[i])
         /\ ValueOf(t, r) = w[n]
  <2>1. \E u \in [0..Len(r) -> Values(t)] :
           /\ u[0] = InitValue(t)
           /\ \A i \in 1..Len(r) : u[i] = Update(t, u[i - 1], r[i])
           /\ ValueOf(t, r) = u[Len(r)]
    BY RunningValues
  <2>2. QED
    BY <2>1
<1>3. n \in Nat /\ \A i \in 1..n : s[i] \in Byte /\ r[i] \in Byte
  OBVIOUS
<1> HIDE DEF n
<1>4. ASSUME NEW i \in 1..n
      PROVE  /\ i < d => (v[i - 1] = w[i - 1] => v[i] = w[i])
             /\ i = d => (v[i - 1] = w[i - 1] => v[i] # w[i])
             /\ i > d => (v[i - 1] # w[i - 1] => v[i] # w[i])
  <2>1. i - 1 \in 0..n /\ v[i - 1] \in Values(t) /\ w[i - 1] \in Values(t)
    BY <1>3
  <2>2. v[i] = Update(t, v[i - 1], s[i]) /\ w[i] = Update(t, w[i - 1], r[i])
    BY <1>1, <1>2
  <2>3. i # d => s[i] = r[i]
    BY DEF n
  <2>4. s[i] \in Byte /\ r[i] \in Byte
    BY <1>3
  <2>5. \A x, y \in Values(t) : \A b, c \in Byte :
           /\ Update(t, x, b) = Update(t, y, b) => x = y
           /\ Update(t, x, b) = Update(t, x, c) => b = c
    BY UpdateInjective
  <2>6. i = d => (v[i - 1] = w[i - 1] => v[i] # w[i])
    BY <2>1, <2>2, <2>4, <2>5
  <2>7. i # d => (v[i - 1] # w[i - 1] => v[i] # w[i])
    BY <2>1, <2>2, <2>3, <2>4, <2>5
  <2>8. i # d => (v[i - 1] = w[i - 1] => v[i] = w[i])
    BY <2>2, <2>3, Zenon
  <2>9. i \in Int /\ d \in Int
    BY <1>3 DEF n
  <2>10. QED
    BY <2>6, <2>7, <2>8, <2>9
<1> DEFINE T == {i \in 0..n : v[i] = w[i] <=> i < d}
<1>5. 0 \in T
  BY <1>1, <1>2, <1>3 DEF n
<1>6. ASSUME NEW i \in 0..n, i \in T, i < n PROVE i + 1 \in T
  <2>1. i + 1 \in 1..n /\ i + 1 \in 0..n /\ (i + 1) - 1 = i /\ i \in Int /\ d \in Int
    BY <1>3, <1>6 DEF n
  <2>2. v[i] = w[i] <=> i < d
    BY <1>6
  <2>3. v[i + 1] = w[i + 1] <=> i + 1 < d
    BY <1>4, <2>1, <2>2
  <2>4. QED
    BY <2>1, <2>3
<1>7. n \in T
  <2> HIDE DEF T
  <2>1. 0..n \subseteq T
    BY <1>3, <1>5, <1>6, UpTo
  <2>2. QED
    BY <1>3, <2>1
<1>8. v[n] # w[n]
  BY <1>7 DEF n
<1>9. QED
  BY <1>1, <1>2, <1>3, <1>8

-----------------------------------------------------------------------------
(* The published values *)

\* The codes of the digits '1' to '9'.
LEMMA DigitBits ==
    /\ Bits(49) = {0, 4, 5} /\ Bits(50) = {1, 4, 5} /\ Bits(51) = {0, 1, 4, 5}
    /\ Bits(52) = {2, 4, 5} /\ Bits(53) = {0, 2, 4, 5} /\ Bits(54) = {1, 2, 4, 5}
    /\ Bits(55) = {0, 1, 2, 4, 5} /\ Bits(56) = {3, 4, 5} /\ Bits(57) = {0, 3, 4, 5}
<1>1. \A b \in 49..57 : b \in Byte /\ \A i \in Bits(b) : i \in 0..7
  BY DEF Bits, Byte
<1>2. Bits(49) = {0, 4, 5} /\ Bits(50) = {1, 4, 5} /\ Bits(51) = {0, 1, 4, 5}
  BY <1>1, BitOf
<1>3. Bits(52) = {2, 4, 5} /\ Bits(53) = {0, 2, 4, 5} /\ Bits(54) = {1, 2, 4, 5}
  BY <1>1, BitOf
<1>4. Bits(55) = {0, 1, 2, 4, 5} /\ Bits(56) = {3, 4, 5} /\ Bits(57) = {0, 3, 4, 5}
  BY <1>1, BitOf
<1>5. QED
  BY <1>2, <1>3, <1>4

\* Which shifts a byte takes.
LEMMA CrcUpdates ==
    ASSUME NEW v, NEW b
    PROVE  /\ Update("CRC16_IBM", v, b) = Ibm8(Xor(v, Bits(b)))
           /\ Update("CRC16_CCITT_FALSE", v, b) = Ccitt8(Xor(v, High(Bits(b))))
BY Zenon DEF Update

\* The shifts of each digit, for CRC16_IBM.
LEMMA IbmDigit1 ==
    Update("CRC16_IBM", {}, 49)
      = {0, 6, 7, 10, 12, 14, 15}
<1> DEFINE v == {}
           r0 == {0, 4, 5}
           r1 == {0, 3, 4, 13, 15}
           r2 == {0, 2, 3, 12, 13, 14, 15}
           r3 == {0, 1, 2, 11, 12, 14, 15}
           r4 == {1, 10, 11, 14, 15}
           r5 == {0, 9, 10, 13, 14}
           r6 == {0, 8, 9, 12, 15}
           r7 == {0, 7, 8, 11, 13, 14, 15}
           r8 == {0, 6, 7, 10, 12, 14, 15}
<1>1. Xor(v, Bits(49)) = r0
  BY DigitBits DEF Xor
<1>2. /\ IbmStep(r0) = r1 /\ IbmStep(r1) = r2 /\ IbmStep(r2) = r3 /\ IbmStep(r3) = r4
      /\ IbmStep(r4) = r5 /\ IbmStep(r5) = r6 /\ IbmStep(r6) = r7 /\ IbmStep(r7) = r8
  BY DEF IbmStep, Xor
<1> HIDE DEF v, r0, r1, r2, r3, r4, r5, r6, r7, r8
<1>3. Update("CRC16_IBM", v, 49) = r8
  BY <1>1, <1>2, CrcUpdates, Zenon DEF Ibm8, Ibm4, Ibm2
<1>4. QED
  BY <1>3 DEF v, r8

LEMMA IbmDigit2 ==
    Update("CRC16_IBM", {0, 6, 7, 10, 12, 14, 15}, 50)
      = {2, 4, 7, 8, 10, 14}
<1> DEFINE v == {0, 6, 7, 10, 12, 14, 15}
           r0 == {0, 1, 4, 5, 6, 7, 10, 12, 14, 15}
           r1 == {3, 4, 5, 6, 9, 11, 14, 15}
           r2 == {2, 3, 4, 5, 8, 10, 13, 14}
           r3 == {1, 2, 3, 4, 7, 9, 12, 13}
           r4 == {0, 1, 2, 3, 6, 8, 11, 12}
           r5 == {1, 2, 5, 7, 10, 11, 13, 15}
           r6 == {0, 1, 4, 6, 9, 10, 12, 14}
           r7 == {3, 5, 8, 9, 11, 15}
           r8 == {2, 4, 7, 8, 10, 14}
<1>1. Xor(v, Bits(50)) = r0
  BY DigitBits DEF Xor
<1>2. /\ IbmStep(r0) = r1 /\ IbmStep(r1) = r2 /\ IbmStep(r2) = r3 /\ IbmStep(r3) = r4
      /\ IbmStep(r4) = r5 /\ IbmStep(r5) = r6 /\ IbmStep(r6) = r7 /\ IbmStep(r7) = r8
  BY DEF IbmStep, Xor
<1> HIDE DEF v, r0, r1, r2, r3, r4, r5, r6, r7, r8
<1>3. Update("CRC16_IBM", v, 50) = r8
  BY <1>1, <1>2, CrcUpdates, Zenon DEF Ibm8, Ibm4, Ibm2
<1>4. QED
  BY <1>3 DEF v, r8

LEMMA IbmDigit3 ==
    Update("CRC16_IBM", {2, 4, 7, 8, 10, 14}, 51)
      = {2, 9, 11, 12, 13, 15}
<1> DEFINE v == {2, 4, 7, 8, 10, 14}
           r0 == {0, 1, 2, 5, 7, 8, 10, 14}
           r1 == {1, 4, 6, 7, 9, 15}
           r2 == {0, 3, 5, 6, 8, 14}
           r3 == {0, 2, 4, 5, 7, 15}
           r4 == {0, 1, 3, 4, 6, 13, 14, 15}
           r5 == {2, 3, 5, 12, 14, 15}
           r6 == {1, 2, 4, 11, 13, 14}
           r7 == {0, 1, 3, 10, 12, 13}
           r8 == {2, 9, 11, 12, 13, 15}
<1>1. Xor(v, Bits(51)) = r0
  BY DigitBits DEF Xor
<1>2. /\ IbmStep(r0) = r1 /\ IbmStep(r1) = r2 /\ IbmStep(r2) = r3 /\ IbmStep(r3) = r4
      /\ IbmStep(r4) = r5 /\ IbmStep(r5) = r6 /\ IbmStep(r6) = r7 /\ IbmStep(r7) = r8
  BY DEF IbmStep, Xor
<1> HIDE DEF v, r0, r1, r2, r3, r4, r5, r6, r7, r8
<1>3. Update("CRC16_IBM", v, 51) = r8
  BY <1>1, <1>2, CrcUpdates, Zenon DEF Ibm8, Ibm4, Ibm2
<1>4. QED
  BY <1>3 DEF v, r8

LEMMA IbmDigit4 ==
    Update("CRC16_IBM", {2, 9, 11, 12, 13, 15}, 52)
      = {1, 3, 4, 5, 7, 10, 12}
<1> DEFINE v == {2, 9, 11, 12, 13, 15}
           r0 == {4, 5, 9, 11, 12, 13, 15}
           r1 == {3, 4, 8, 10, 11, 12, 14}
           r2 == {2, 3, 7, 9, 10, 11, 13}
           r3 == {1, 2, 6, 8, 9, 10, 12}
           r4 == {0, 1, 5, 7, 8, 9, 11}
           r5 == {4, 6, 7, 8, 10, 13, 15}
           r6 == {3, 5, 6, 7, 9, 12, 14}
           r7 == {2, 4, 5, 6, 8, 11, 13}
           r8 == {1, 3, 4, 5, 7, 10, 12}
<1>1. Xor(v, Bits(52)) = r0
  BY DigitBits DEF Xor
<1>2. /\ IbmStep(r0) = r1 /\ IbmStep(r1) = r2 /\ IbmStep(r2) = r3 /\ IbmStep(r3) = r4
      /\ IbmStep(r4) = r5 /\ IbmStep(r5) = r6 /\ IbmStep(r6) = r7 /\ IbmStep(r7) = r8
  BY DEF IbmStep, Xor
<1> HIDE DEF v, r0, r1, r2, r3, r4, r5, r6, r7, r8
<1>3. Update("CRC16_IBM", v, 52) = r8
  BY <1>1, <1>2, CrcUpdates, Zenon DEF Ibm8, Ibm4, Ibm2
<1>4. QED
  BY <1>3 DEF v, r8

LEMMA IbmDigit5 ==
    Update("CRC16_IBM", {1, 3, 4, 5, 7, 10, 12}, 53)
      = {0, 2, 4, 6, 10, 13, 15}
<1> DEFINE v == {1, 3, 4, 5, 7, 10, 12}
           r0 == {0, 1, 2, 3, 7, 10, 12}
           r1 == {1, 2, 6, 9, 11, 13, 15}
           r2 == {0, 1, 5, 8, 10, 12, 14}
           r3 == {4, 7, 9, 11, 15}
           r4 == {3, 6, 8, 10, 14}
           r5 == {2, 5, 7, 9, 13}
           r6 == {1, 4, 6, 8, 12}
           r7 == {0, 3, 5, 7, 11}
           r8 == {0, 2, 4, 6, 10, 13, 15}
<1>1. Xor(v, Bits(53)) = r0
  BY DigitBits DEF Xor
<1>2. /\ IbmStep(r0) = r1 /\ IbmStep(r1) = r2 /\ IbmStep(r2) = r3 /\ IbmStep(r3) = r4
      /\ IbmStep(r4) = r5 /\ IbmStep(r5) = r6 /\ IbmStep(r6) = r7 /\ IbmStep(r7) = r8
  BY DEF IbmStep, Xor
<1> HIDE DEF v, r0, r1, r2, r3, r4, r5, r6, r7, r8
<1>3. Update("CRC16_IBM", v, 53) = r8
  BY <1>1, <1>2, CrcUpdates, Zenon DEF Ibm8, Ibm4, Ibm2
<1>4. QED
  BY <1>3 DEF v, r8

LEMMA IbmDigit6 ==
    Update("CRC16_IBM", {0, 2, 4, 6, 10, 13, 15}, 54)
      = {2, 5, 6, 7, 8, 11, 13}
<1> DEFINE v == {0, 2, 4, 6, 10, 13, 15}
           r0 == {0, 1, 5, 6, 10, 13, 15}
           r1 == {4, 5, 9, 12, 13, 14, 15}
           r2 == {3, 4, 8, 11, 12, 13, 14}
           r3 == {2, 3, 7, 10, 11, 12, 13}
           r4 == {1, 2, 6, 9, 10, 11, 12}
           r5 == {0, 1, 5, 8, 9, 10, 11}
           r6 == {4, 7, 8, 9, 10, 13, 15}
           r7 == {3, 6, 7, 8, 9, 12, 14}
           r8 == {2, 5, 6, 7, 8, 11, 13}
<1>1. Xor(v, Bits(54)) = r0
  BY DigitBits DEF Xor
<1>2. /\ IbmStep(r0) = r1 /\ IbmStep(r1) = r2 /\ IbmStep(r2) = r3 /\ IbmStep(r3) = r4
      /\ IbmStep(r4) = r5 /\ IbmStep(r5) = r6 /\ IbmStep(r6) = r7 /\ IbmStep(r7) = r8
  BY DEF IbmStep, Xor
<1> HIDE DEF v, r0, r1, r2, r3, r4, r5, r6, r7, r8
<1>3. Update("CRC16_IBM", v, 54) = r8
  BY <1>1, <1>2, CrcUpdates, Zenon DEF Ibm8, Ibm4, Ibm2
<1>4. QED
  BY <1>3 DEF v, r8

LEMMA IbmDigit7 ==
    Update("CRC16_IBM", {2, 5, 6, 7, 8, 11, 13}, 55)
      = {3, 5, 6, 8, 10, 11, 12, 15}
<1> DEFINE v == {2, 5, 6, 7, 8, 11, 13}
           r0 == {0, 1, 4, 6, 7, 8, 11, 13}
           r1 == {3, 5, 6, 7, 10, 12, 13, 15}
           r2 == {2, 4, 5, 6, 9, 11, 12, 14}
           r3 == {1, 3, 4, 5, 8, 10, 11, 13}
           r4 == {0, 2, 3, 4, 7, 9, 10, 12}
           r5 == {0, 1, 2, 3, 6, 8, 9, 11, 13, 15}
           r6 == {1, 2, 5, 7, 8, 10, 12, 13, 14, 15}
           r7 == {0, 1, 4, 6, 7, 9, 11, 12, 13, 14}
           r8 == {3, 5, 6, 8, 10, 11, 12, 15}
<1>1. Xor(v, Bits(55)) = r0
  BY DigitBits DEF Xor
<1>2. /\ IbmStep(r0) = r1 /\ IbmStep(r1) = r2 /\ IbmStep(r2) = r3 /\ IbmStep(r3) = r4
      /\ IbmStep(r4) = r5 /\ IbmStep(r5) = r6 /\ IbmStep(r6) = r7 /\ IbmStep(r7) = r8
  BY DEF IbmStep, Xor
<1> HIDE DEF v, r0, r1, r2, r3, r4, r5, r6, r7, r8
<1>3. Update("CRC16_IBM", v, 55) = r8
  BY <1>1, <1>2, CrcUpdates, Zenon DEF Ibm8, Ibm4, Ibm2
<1>4. QED
  BY <1>3 DEF v, r8

LEMMA IbmDigit8 ==
    Update("CRC16_IBM", {3, 5, 6, 8, 10, 11, 12, 15}, 56)
      = {0, 2, 3, 4, 7, 10, 11, 12, 13}
<1> DEFINE v == {3, 5, 6, 8, 10, 11, 12, 15}
           r0 == {4, 6, 8, 10, 11, 12, 15}
           r1 == {3, 5, 7, 9, 10, 11, 14}
           r2 == {2, 4, 6, 8, 9, 10, 13}
           r3 == {1, 3, 5, 7, 8, 9, 12}
           r4 == {0, 2, 4, 6, 7, 8, 11}
           r5 == {0, 1, 3, 5, 6, 7, 10, 13, 15}
           r6 == {2, 4, 5, 6, 9, 12, 13, 14, 15}
           r7 == {1, 3, 4, 5, 8, 11, 12, 13, 14}
           r8 == {0, 2, 3, 4, 7, 10, 11, 12, 13}
<1>1. Xor(v, Bits(56)) = r0
  BY DigitBits DEF Xor
<1>2. /\ IbmStep(r0) = r1 /\ IbmStep(r1) = r2 /\ IbmStep(r2) = r3 /\ IbmStep(r3) = r4
      /\ IbmStep(r4) = r5 /\ IbmStep(r5) = r6 /\ IbmStep(r6) = r7 /\ IbmStep(r7) = r8
  BY DEF IbmStep, Xor
<1> HIDE DEF v, r0, r1, r2, r3, r4, r5, r6, r7, r8
<1>3. Update("CRC16_IBM", v, 56) = r8
  BY <1>1, <1>2, CrcUpdates, Zenon DEF Ibm8, Ibm4, Ibm2
<1>4. QED
  BY <1>3 DEF v, r8

LEMMA IbmDigit9 ==
    Update("CRC16_IBM", {0, 2, 3, 4, 7, 10, 11, 12, 13}, 57)
      = {0, 2, 3, 4, 5, 8, 9, 11, 12, 13, 15}
<1> DEFINE v == {0, 2, 3, 4, 7, 10, 11, 12, 13}
           r0 == {2, 5, 7, 10, 11, 12, 13}
           r1 == {1, 4, 6, 9, 10, 11, 12}
           r2 == {0, 3, 5, 8, 9, 10, 11}
           r3 == {0, 2, 4, 7, 8, 9, 10, 13, 15}
           r4 == {0, 1, 3, 6, 7, 8, 9, 12, 13, 14, 15}
           r5 == {2, 5, 6, 7, 8, 11, 12, 14, 15}
           r6 == {1, 4, 5, 6, 7, 10, 11, 13, 14}
           r7 == {0, 3, 4, 5, 6, 9, 10, 12, 13}
           r8 == {0, 2, 3, 4, 5, 8, 9, 11, 12, 13, 15}
<1>1. Xor(v, Bits(57)) = r0
  BY DigitBits DEF Xor
<1>2. /\ IbmStep(r0) = r1 /\ IbmStep(r1) = r2 /\ IbmStep(r2) = r3 /\ IbmStep(r3) = r4
      /\ IbmStep(r4) = r5 /\ IbmStep(r5) = r6 /\ IbmStep(r6) = r7 /\ IbmStep(r7) = r8
  BY DEF IbmStep, Xor
<1> HIDE DEF v, r0, r1, r2, r3, r4, r5, r6, r7, r8
<1>3. Update("CRC16_IBM", v, 57) = r8
  BY <1>1, <1>2, CrcUpdates, Zenon DEF Ibm8, Ibm4, Ibm2
<1>4. QED
  BY <1>3 DEF v, r8

\* And for CRC16_CCITT_FALSE.
LEMMA CcittDigit1 ==
    Update("CRC16_CCITT_FALSE", {0, 1, 2, 3, 4, 5, 6, 7, 8, 9, 10, 11, 12, 13, 14, 15}, 49)
      = {1, 7, 8, 9, 10, 14, 15}
<1> DEFINE v == {0, 1, 2, 3, 4, 5, 6, 7, 8, 9, 10, 11, 12, 13, 14, 15}
           r0 == {0, 1, 2, 3, 4, 5, 6, 7, 9, 10, 11, 14, 15}
           r1 == {0, 1, 2, 3, 4, 6, 7, 8, 10, 11, 15}
           r2 == {0, 1, 2, 3, 4, 7, 8, 9, 11}
           r3 == {1, 2, 3, 4, 5, 8, 9, 10, 12}
           r4 == {2, 3, 4, 5, 6, 9, 10, 11, 13}
           r5 == {3, 4, 5, 6, 7, 10, 11, 12, 14}
           r6 == {4, 5, 6, 7, 8, 11, 12, 13, 15}
           r7 == {0, 6, 7, 8, 9, 13, 14}
           r8 == {1, 7, 8, 9, 10, 14, 15}
<1>1. Xor(v, High(Bits(49))) = r0
  BY DigitBits DEF Xor, High
<1>2. /\ CcittStep(r0) = r1 /\ CcittStep(r1) = r2 /\ CcittStep(r2) = r3 /\ CcittStep(r3) = r4
      /\ CcittStep(r4) = r5 /\ CcittStep(r5) = r6 /\ CcittStep(r6) = r7 /\ CcittStep(r7) = r8
  BY DEF CcittStep, Xor
<1> HIDE DEF v, r0, r1, r2, r3, r4, r5, r6, r7, r8
<1>3. Update("CRC16_CCITT_FALSE", v, 49) = r8
  BY <1>1, <1>2, CrcUpdates, Zenon DEF Ccitt8, Ccitt4, Ccitt2
<1>4. QED
  BY <1>3 DEF v, r8

LEMMA CcittDigit2 ==
    Update("CRC16_CCITT_FALSE", {1, 7, 8, 9, 10, 14, 15}, 50)
      = {1, 3, 4, 5, 7, 8, 10, 11, 12, 13}
<1> DEFINE v == {1, 7, 8, 9, 10, 14, 15}
           r0 == {1, 7, 8, 10, 12, 13, 14, 15}
           r1 == {0, 2, 5, 8, 9, 11, 12, 13, 14, 15}
           r2 == {0, 1, 3, 5, 6, 9, 10, 13, 14, 15}
           r3 == {0, 1, 2, 4, 5, 6, 7, 10, 11, 12, 14, 15}
           r4 == {0, 1, 2, 3, 6, 7, 8, 11, 13, 15}
           r5 == {0, 1, 2, 3, 4, 5, 7, 8, 9, 14}
           r6 == {1, 2, 3, 4, 5, 6, 8, 9, 10, 15}
           r7 == {0, 2, 3, 4, 6, 7, 9, 10, 11, 12}
           r8 == {1, 3, 4, 5, 7, 8, 10, 11, 12, 13}
<1>1. Xor(v, High(Bits(50))) = r0
  BY DigitBits DEF Xor, High
<1>2. /\ CcittStep(r0) = r1 /\ CcittStep(r1) = r2 /\ CcittStep(r2) = r3 /\ CcittStep(r3) = r4
      /\ CcittStep(r4) = r5 /\ CcittStep(r5) = r6 /\ CcittStep(r6) = r7 /\ CcittStep(r7) = r8
  BY DEF CcittStep, Xor
<1> HIDE DEF v, r0, r1, r2, r3, r4, r5, r6, r7, r8
<1>3. Update("CRC16_CCITT_FALSE", v, 50) = r8
  BY <1>1, <1>2, CrcUpdates, Zenon DEF Ccitt8, Ccitt4, Ccitt2
<1>4. QED
  BY <1>3 DEF v, r8

LEMMA CcittDigit3 ==
    Update("CRC16_CCITT_FALSE", {1, 3, 4, 5, 7, 8, 10, 11, 12, 13}, 51)
      = {1, 2, 3, 6, 7, 8, 9, 11, 12, 14}
<1> DEFINE v == {1, 3, 4, 5, 7, 8, 10, 11, 12, 13}
           r0 == {1, 3, 4, 5, 7, 9, 10, 11}
           r1 == {2, 4, 5, 6, 8, 10, 11, 12}
           r2 == {3, 5, 6, 7, 9, 11, 12, 13}
           r3 == {4, 6, 7, 8, 10, 12, 13, 14}
           r4 == {5, 7, 8, 9, 11, 13, 14, 15}
           r5 == {0, 5, 6, 8, 9, 10, 14, 15}
           r6 == {0, 1, 5, 6, 7, 9, 10, 11, 12, 15}
           r7 == {0, 1, 2, 5, 6, 7, 8, 10, 11, 13}
           r8 == {1, 2, 3, 6, 7, 8, 9, 11, 12, 14}
<1>1. Xor(v, High(Bits(51))) = r0
  BY DigitBits DEF Xor, High
<1>2. /\ CcittStep(r0) = r1 /\ CcittStep(r1) = r2 /\ CcittStep(r2) = r3 /\ CcittStep(r3) = r4
      /\ CcittStep(r4) = r5 /\ CcittStep(r5) = r6 /\ CcittStep(r6) = r7 /\ CcittStep(r7) = r8
  BY DEF CcittStep, Xor
<1> HIDE DEF v, r0, r1, r2, r3, r4, r5, r6, r7, r8
<1>3. Update("CRC16_CCITT_FALSE", v, 51) = r8
  BY <1>1, <1>2, CrcUpdates, Zenon DEF Ccitt8, Ccitt4, Ccitt2
<1>4. QED
  BY <1>3 DEF v, r8

LEMMA CcittDigit4 ==
    Update("CRC16_CCITT_FALSE", {1, 2, 3, 6, 7, 8, 9, 11, 12, 14}, 52)
      = {0, 3, 6, 8, 9, 12, 14}
<1> DEFINE v == {1, 2, 3, 6, 7, 8, 9, 11, 12, 14}
           r0 == {1, 2, 3, 6, 7, 8, 9, 10, 11, 13, 14}
           r1 == {2, 3, 4, 7, 8, 9, 10, 11, 12, 14, 15}
           r2 == {0, 3, 4, 8, 9, 10, 11, 13, 15}
           r3 == {0, 1, 4, 9, 10, 11, 14}
           r4 == {1, 2, 5, 10, 11, 12, 15}
           r5 == {0, 2, 3, 5, 6, 11, 13}
           r6 == {1, 3, 4, 6, 7, 12, 14}
           r7 == {2, 4, 5, 7, 8, 13, 15}
           r8 == {0, 3, 6, 8, 9, 12, 14}
<1>1. Xor(v, High(Bits(52))) = r0
  BY DigitBits DEF Xor, High
<1>2. /\ CcittStep(r0) = r1 /\ CcittStep(r1) = r2 /\ CcittStep(r2) = r3 /\ CcittStep(r3) = r4
      /\ CcittStep(r4) = r5 /\ CcittStep(r5) = r6 /\ CcittStep(r6) = r7 /\ CcittStep(r7) = r8
  BY DEF CcittStep, Xor
<1> HIDE DEF v, r0, r1, r2, r3, r4, r5, r6, r7, r8
<1>3. Update("CRC16_CCITT_FALSE", v, 52) = r8
  BY <1>1, <1>2, CrcUpdates, Zenon DEF Ccitt8, Ccitt4, Ccitt2
<1>4. QED
  BY <1>3 DEF v, r8

LEMMA CcittDigit5 ==
    Update("CRC16_CCITT_FALSE", {0, 3, 6, 8, 9, 12, 14}, 53)
      = {5, 6, 8, 10, 14}
<1> DEFINE v == {0, 3, 6, 8, 9, 12, 14}
           r0 == {0, 3, 6, 9, 10, 13, 14}
           r1 == {1, 4, 7, 10, 11, 14, 15}
           r2 == {0, 2, 8, 11, 15}
           r3 == {0, 1, 3, 5, 9}
           r4 == {1, 2, 4, 6, 10}
           r5 == {2, 3, 5, 7, 11}
           r6 == {3, 4, 6, 8, 12}
           r7 == {4, 5, 7, 9, 13}
           r8 == {5, 6, 8, 10, 14}
<1>1. Xor(v, High(Bits(53))) = r0
  BY DigitBits DEF Xor, High
<1>2. /\ CcittStep(r0) = r1 /\ CcittStep(r1) = r2 /\ CcittStep(r2) = r3 /\ CcittStep(r3) = r4
      /\ CcittStep(r4) = r5 /\ CcittStep(r5) = r6 /\ CcittStep(r6) = r7 /\ CcittStep(r7) = r8
  BY DEF CcittStep, Xor
<1> HIDE DEF v, r0, r1, r2, r3, r4, r5, r6, r7, r8
<1>3. Update("CRC16_CCITT_FALSE", v, 53) = r8
  BY <1>1, <1>2, CrcUpdates, Zenon DEF Ccitt8, Ccitt4, Ccitt2
<1>4. QED
  BY <1>3 DEF v, r8

LEMMA CcittDigit6 ==
    Update("CRC16_CCITT_FALSE", {5, 6, 8, 10, 14}, 54)
      = {2, 4, 5, 6, 7, 9, 10, 11, 13}
<1> DEFINE v == {5, 6, 8, 10, 14}
           r0 == {5, 6, 8, 9, 12, 13, 14}
           r1 == {6, 7, 9, 10, 13, 14, 15}
           r2 == {0, 5, 7, 8, 10, 11, 12, 14, 15}
           r3 == {0, 1, 5, 6, 8, 9, 11, 13, 15}
           r4 == {0, 1, 2, 5, 6, 7, 9, 10, 14}
           r5 == {1, 2, 3, 6, 7, 8, 10, 11, 15}
           r6 == {0, 2, 3, 4, 5, 7, 8, 9, 11}
           r7 == {1, 3, 4, 5, 6, 8, 9, 10, 12}
           r8 == {2, 4, 5, 6, 7, 9, 10, 11, 13}
<1>1. Xor(v, High(Bits(54))) = r0
  BY DigitBits DEF Xor, High
<1>2. /\ CcittStep(r0) = r1 /\ CcittStep(r1) = r2 /\ CcittStep(r2) = r3 /\ CcittStep(r3) = r4
      /\ CcittStep(r4) = r5 /\ CcittStep(r5) = r6 /\ CcittStep(r6) = r7 /\ CcittStep(r7) = r8
  BY DEF CcittStep, Xor
<1> HIDE DEF v, r0, r1, r2, r3, r4, r5, r6, r7, r8
<1>3. Update("CRC16_CCITT_FALSE", v, 54) = r8
  BY <1>1, <1>2, CrcUpdates, Zenon DEF Ccitt8, Ccitt4, Ccitt2
<1>4. QED
  BY <1>3 DEF v, r8

LEMMA CcittDigit7 ==
    Update("CRC16_CCITT_FALSE", {2, 4, 5, 6, 7, 9, 10, 11, 13}, 55)
      = {3, 4, 8, 9, 10, 12, 13, 14}
<1> DEFINE v == {2, 4, 5, 6, 7, 9, 10, 11, 13}
           r0 == {2, 4, 5, 6, 7, 8, 11, 12}
           r1 == {3, 5, 6, 7, 8, 9, 12, 13}
           r2 == {4, 6, 7, 8, 9, 10, 13, 14}
           r3 == {5, 7, 8, 9, 10, 11, 14, 15}
           r4 == {0, 5, 6, 8, 9, 10, 11, 15}
           r5 == {0, 1, 5, 6, 7, 9, 10, 11}
           r6 == {1, 2, 6, 7, 8, 10, 11, 12}
           r7 == {2, 3, 7, 8, 9, 11, 12, 13}
           r8 == {3, 4, 8, 9, 10, 12, 13, 14}
<1>1. Xor(v, High(Bits(55))) = r0
  BY DigitBits DEF Xor, High
<1>2. /\ CcittStep(r0) = r1 /\ CcittStep(r1) = r2 /\ CcittStep(r2) = r3 /\ CcittStep(r3) = r4
      /\ CcittStep(r4) = r5 /\ CcittStep(r5) = r6 /\ CcittStep(r6) = r7 /\ CcittStep(r7) = r8
  BY DEF CcittStep, Xor
<1> HIDE DEF v, r0, r1, r2, r3, r4, r5, r6, r7, r8
<1>3. Update("CRC16_CCITT_FALSE", v, 55) = r8
  BY <1>1, <1>2, CrcUpdates, Zenon DEF Ccitt8, Ccitt4, Ccitt2
<1>4. QED
  BY <1>3 DEF v, r8

LEMMA CcittDigit8 ==
    Update("CRC16_CCITT_FALSE", {3, 4, 8, 9, 10, 12, 13, 14}, 56)
      = {0, 1, 3, 5, 8, 13, 15}
<1> DEFINE v == {3, 4, 8, 9, 10, 12, 13, 14}
           r0 == {3, 4, 8, 9, 10, 11, 14}
           r1 == {4, 5, 9, 10, 11, 12, 15}
           r2 == {0, 6, 10, 11, 13}
           r3 == {1, 7, 11, 12, 14}
           r4 == {2, 8, 12, 13, 15}
           r5 == {0, 3, 5, 9, 12, 13, 14}
           r6 == {1, 4, 6, 10, 13, 14, 15}
           r7 == {0, 2, 7, 11, 12, 14, 15}
           r8 == {0, 1, 3, 5, 8, 13, 15}
<1>1. Xor(v, High(Bits(56))) = r0
  BY DigitBits DEF Xor, High
<1>2. /\ CcittStep(r0) = r1 /\ CcittStep(r1) = r2 /\ CcittStep(r2) = r3 /\ CcittStep(r3) = r4
      /\ CcittStep(r4) = r5 /\ CcittStep(r5) = r6 /\ CcittStep(r6) = r7 /\ CcittStep(r7) = r8
  BY DEF CcittStep, Xor
<1> HIDE DEF v, r0, r1, r2, r3, r4, r5, r6, r7, r8
<1>3. Update("CRC16_CCITT_FALSE", v, 56) = r8
  BY <1>1, <1>2, CrcUpdates, Zenon DEF Ccitt8, Ccitt4, Ccitt2
<1>4. QED
  BY <1>3 DEF v, r8

LEMMA CcittDigit9 ==
    Update("CRC16_CCITT_FALSE", {0, 1, 3, 5, 8, 13, 15}, 57)
      = {0, 4, 5, 7, 8, 11, 13}
<1> DEFINE v == {0, 1, 3, 5, 8, 13, 15}
           r0 == {0, 1, 3, 5, 11, 12, 15}
           r1 == {0, 1, 2, 4, 5, 6, 13}
           r2 == {1, 2, 3, 5, 6, 7, 14}
           r3 == {2, 3, 4, 6, 7, 8, 15}
           r4 == {0, 3, 4, 7, 8, 9, 12}
           r5 == {1, 4, 5, 8, 9, 10, 13}
           r6 == {2, 5, 6, 9, 10, 11, 14}
           r7 == {3, 6, 7, 10, 11, 12, 15}
           r8 == {0, 4, 5, 7, 8, 11, 13}
<1>1. Xor(v, High(Bits(57))) = r0
  BY DigitBits DEF Xor, High
<1>2. /\ CcittStep(r0) = r1 /\ CcittStep(r1) = r2 /\ CcittStep(r2) = r3 /\ CcittStep(r3) = r4
      /\ CcittStep(r4) = r5 /\ CcittStep(r5) = r6 /\ CcittStep(r6) = r7 /\ CcittStep(r7) = r8
  BY DEF CcittStep, Xor
<1> HIDE DEF v, r0, r1, r2, r3, r4, r5, r6, r7, r8
<1>3. Update("CRC16_CCITT_FALSE", v, 57) = r8
  BY <1>1, <1>2, CrcUpdates, Zenon DEF Ccitt8, Ccitt4, Ccitt2
<1>4. QED
  BY <1>3 DEF v, r8

\* The registers before each digit and after the last.
IbmAfter(k, r) ==
    \/ k = 0 /\ r = {}
    \/ k = 1 /\ r = {0, 6, 7, 10, 12, 14, 15}
    \/ k = 2 /\ r = {2, 4, 7, 8, 10, 14}
    \/ k = 3 /\ r = {2, 9, 11, 12, 13, 15}
    \/ k = 4 /\ r = {1, 3, 4, 5, 7, 10, 12}
    \/ k = 5 /\ r = {0, 2, 4, 6, 10, 13, 15}
    \/ k = 6 /\ r = {2, 5, 6, 7, 8, 11, 13}
    \/ k = 7 /\ r = {3, 5, 6, 8, 10, 11, 12, 15}
    \/ k = 8 /\ r = {0, 2, 3, 4, 7, 10, 11, 12, 13}
    \/ k = 9 /\ r = {0, 2, 3, 4, 5, 8, 9, 11, 12, 13, 15}

LEMMA IbmKnown ==
    ASSUME NEW k \in 0..8, NEW r, IbmAfter(k, r)
    PROVE  IbmAfter(k + 1, Update("CRC16_IBM", r, 49 + k))
<1>1. CASE k = 0 /\ r = {}
  BY <1>1, IbmDigit1 DEF IbmAfter
<1>2. CASE k = 1 /\ r = {0, 6, 7, 10, 12, 14, 15}
  BY <1>2, IbmDigit2 DEF IbmAfter
<1>3. CASE k = 2 /\ r = {2, 4, 7, 8, 10, 14}
  BY <1>3, IbmDigit3 DEF IbmAfter
<1>4. CASE k = 3 /\ r = {2, 9, 11, 12, 13, 15}
  BY <1>4, IbmDigit4 DEF IbmAfter
<1>5. CASE k = 4 /\ r = {1, 3, 4, 5, 7, 10, 12}
  BY <1>5, IbmDigit5 DEF IbmAfter
<1>6. CASE k = 5 /\ r = {0, 2, 4, 6, 10, 13, 15}
  BY <1>6, IbmDigit6 DEF IbmAfter
<1>7. CASE k = 6 /\ r = {2, 5, 6, 7, 8, 11, 13}
  BY <1>7, IbmDigit7 DEF IbmAfter
<1>8. CASE k = 7 /\ r = {3, 5, 6, 8, 10, 11, 12, 15}
  BY <1>8, IbmDigit8 DEF IbmAfter
<1>9. CASE k = 8 /\ r = {0, 2, 3, 4, 7, 10, 11, 12, 13}
  BY <1>9, IbmDigit9 DEF IbmAfter
<1>10. QED
  BY <1>1, <1>2, <1>3, <1>4, <1>5, <1>6, <1>7, <1>8, <1>9 DEF IbmAfter

CcittAfter(k, r) ==
    \/ k = 0 /\ r = {0, 1, 2, 3, 4, 5, 6, 7, 8, 9, 10, 11, 12, 13, 14, 15}
    \/ k = 1 /\ r = {1, 7, 8, 9, 10, 14, 15}
    \/ k = 2 /\ r = {1, 3, 4, 5, 7, 8, 10, 11, 12, 13}
    \/ k = 3 /\ r = {1, 2, 3, 6, 7, 8, 9, 11, 12, 14}
    \/ k = 4 /\ r = {0, 3, 6, 8, 9, 12, 14}
    \/ k = 5 /\ r = {5, 6, 8, 10, 14}
    \/ k = 6 /\ r = {2, 4, 5, 6, 7, 9, 10, 11, 13}
    \/ k = 7 /\ r = {3, 4, 8, 9, 10, 12, 13, 14}
    \/ k = 8 /\ r = {0, 1, 3, 5, 8, 13, 15}
    \/ k = 9 /\ r = {0, 4, 5, 7, 8, 11, 13}

LEMMA CcittKnown ==
    ASSUME NEW k \in 0..8, NEW r, CcittAfter(k, r)
    PROVE  CcittAfter(k + 1, Update("CRC16_CCITT_FALSE", r, 49 + k))
<1>1. CASE k = 0 /\ r = {0, 1, 2, 3, 4, 5, 6, 7, 8, 9, 10, 11, 12, 13, 14, 15}
  BY <1>1, CcittDigit1 DEF CcittAfter
<1>2. CASE k = 1 /\ r = {1, 7, 8, 9, 10, 14, 15}
  BY <1>2, CcittDigit2 DEF CcittAfter
<1>3. CASE k = 2 /\ r = {1, 3, 4, 5, 7, 8, 10, 11, 12, 13}
  BY <1>3, CcittDigit3 DEF CcittAfter
<1>4. CASE k = 3 /\ r = {1, 2, 3, 6, 7, 8, 9, 11, 12, 14}
  BY <1>4, CcittDigit4 DEF CcittAfter
<1>5. CASE k = 4 /\ r = {0, 3, 6, 8, 9, 12, 14}
  BY <1>5, CcittDigit5 DEF CcittAfter
<1>6. CASE k = 5 /\ r = {5, 6, 8, 10, 14}
  BY <1>6, CcittDigit6 DEF CcittAfter
<1>7. CASE k = 6 /\ r = {2, 4, 5, 6, 7, 9, 10, 11, 13}
  BY <1>7, CcittDigit7 DEF CcittAfter
<1>8. CASE k = 7 /\ r = {3, 4, 8, 9, 10, 12, 13, 14}
  BY <1>8, CcittDigit8 DEF CcittAfter
<1>9. CASE k = 8 /\ r = {0, 1, 3, 5, 8, 13, 15}
  BY <1>9, CcittDigit9 DEF CcittAfter
<1>10. QED
  BY <1>1, <1>2, <1>3, <1>4, <1>5, <1>6, <1>7, <1>8, <1>9 DEF CcittAfter

\* What both sides have computed of "123456789".
KnownSoFar ==
    message = Digits =>
        /\ type = "CRC16_IBM" => IbmAfter(index, sender)
        /\ type = "CRC16_CCITT_FALSE" => CcittAfter(index, sender)

LEMMA DigitIs == Len(Digits) = 9 /\ \A k \in 0..8 : Digits[k + 1] = 49 + k
<1>1. Len(Digits) = 9
  BY DEF Digits
<1>2. /\ Digits[1] = 49 /\ Digits[2] = 50 /\ Digits[3] = 51 /\ Digits[4] = 52
      /\ Digits[5] = 53 /\ Digits[6] = 54 /\ Digits[7] = 55 /\ Digits[8] = 56 /\ Digits[9] = 57
  BY DEF Digits
<1> HIDE DEF Digits
<1>3. \A k \in 0..8 : Digits[k + 1] = 49 + k
  BY <1>2
<1>4. QED
  BY <1>1, <1>3

LEMMA KnownAtFirst == ASSUME PairInit PROVE KnownSoFar
<1>1. index = 0 /\ sender = InitValue(type)
  BY DEF PairInit
<1>2. InitValue("CRC16_IBM") = {} /\ InitValue("CRC16_CCITT_FALSE") = 0..15
  BY DEF InitValue
<1>3. 0..15 = {0, 1, 2, 3, 4, 5, 6, 7, 8, 9, 10, 11, 12, 13, 14, 15}
  OBVIOUS
<1>4. QED
  BY <1>1, <1>2, <1>3, Zenon DEF KnownSoFar, IbmAfter, CcittAfter

LEMMA FeedKnows ==
    ASSUME PairTypeOK, KnownSoFar, index < Len(message), NEW b, Feed(b)
    PROVE  KnownSoFar'
<1>1. /\ type' = type /\ message' = message /\ index' = index + 1
      /\ sender' = Update(type, sender, message[index + 1])
  BY DEF Feed
<1>2. SUFFICES ASSUME message = Digits
               PROVE  /\ type = "CRC16_IBM" => IbmAfter(index', sender')
                      /\ type = "CRC16_CCITT_FALSE" => CcittAfter(index', sender')
  BY <1>1, Zenon DEF KnownSoFar, IbmAfter, CcittAfter
<1>3. index \in 0..8
  BY <1>2, DigitIs DEF PairTypeOK
<1>4. sender' = Update(type, sender, 49 + index)
  BY <1>1, <1>2, <1>3, DigitIs
<1>5. ASSUME type = "CRC16_IBM" PROVE IbmAfter(index + 1, sender')
  <2>1. IbmAfter(index, sender)
    BY <1>2, <1>5, Zenon DEF KnownSoFar
  <2>2. IbmAfter(index + 1, Update("CRC16_IBM", sender, 49 + index))
    BY <1>3, <2>1, IbmKnown
  <2>3. QED
    BY <1>4, <1>5, <2>2, Zenon
<1>6. ASSUME type = "CRC16_CCITT_FALSE" PROVE CcittAfter(index + 1, sender')
  <2>1. CcittAfter(index, sender)
    BY <1>2, <1>6, Zenon DEF KnownSoFar
  <2>2. CcittAfter(index + 1, Update("CRC16_CCITT_FALSE", sender, 49 + index))
    BY <1>3, <2>1, CcittKnown
  <2>3. QED
    BY <1>4, <1>6, <2>2, Zenon
<1>7. QED
  BY <1>1, <1>5, <1>6, Zenon

\* The bytes of the last values.
LEMMA KnownBytes ==
    /\ \A r : IbmAfter(9, r) => ChecksumBytes("CRC16_IBM", TRUE, r) = <<187, 61>>
    /\ \A r : CcittAfter(9, r) => ChecksumBytes("CRC16_CCITT_FALSE", FALSE, r) = <<177, 41>>
<1>1. ASSUME NEW r, IbmAfter(9, r) PROVE ChecksumBytes("CRC16_IBM", TRUE, r) = <<187, 61>>
  <2>1. r = {0, 2, 3, 4, 5, 8, 9, 11, 12, 13, 15}
    BY <1>1 DEF IbmAfter
  <2>2. ShiftRight8(r) = {0, 1, 3, 4, 5, 7}
    BY <2>1 DEF ShiftRight8
  <2>3. Low(ShiftRight8(r)) = 187
    BY <2>2, LowIs
  <2>4. Low(r) = 61
    BY <2>1, LowIs
  <2>5. ChecksumBytes("CRC16_IBM", TRUE, r) = <<Low(ShiftRight8(r)), Low(r)>>
    BY Zenon DEF ChecksumBytes
  <2>6. QED
    BY <2>3, <2>4, <2>5, Zenon
<1>2. ASSUME NEW r, CcittAfter(9, r)
      PROVE  ChecksumBytes("CRC16_CCITT_FALSE", FALSE, r) = <<177, 41>>
  <2>1. r = {0, 4, 5, 7, 8, 11, 13}
    BY <1>2 DEF CcittAfter
  <2>2. ShiftRight8(r) = {0, 3, 5}
    BY <2>1 DEF ShiftRight8
  <2>3. Low(ShiftRight8(r)) = 41
    BY <2>2, LowIs
  <2>4. Low(r) = 177
    BY <2>1, LowIs
  <2>5. ChecksumBytes("CRC16_CCITT_FALSE", FALSE, r) = <<Low(r), Low(ShiftRight8(r))>>
    BY Zenon DEF ChecksumBytes
  <2>6. QED
    BY <2>3, <2>4, <2>5, Zenon
<1>3. QED
  BY <1>1, <1>2

\* Whatever else is compared, and whatever the reader hears: the writer's value of
\* "123456789" is the published one, so that the two CRCs are the ones their names say.
THEOREM ValuesAreWellKnown == PairSpec => []WellKnownValues
<1>1. PairInit => PairInv /\ KnownSoFar
  BY InitPair, KnownAtFirst
<1>2. PairInv /\ KnownSoFar /\ [PairNext]_pairVars => PairInv' /\ KnownSoFar'
  <2> SUFFICES ASSUME PairInv, KnownSoFar, [PairNext]_pairVars PROVE PairInv' /\ KnownSoFar'
    OBVIOUS
  <2>1. PairInv' /\ PairTypeOK
    BY PairStep DEF PairInv
  <2>2. CASE PairNext
    <3>1. index < Len(message) /\ \E b : Feed(b)
      BY <2>2 DEF PairNext, Heard, Misheard
    <3>2. QED
      BY <2>1, <3>1, FeedKnows
  <2>3. CASE UNCHANGED pairVars
    BY <2>1, <2>3 DEF pairVars, KnownSoFar, IbmAfter, CcittAfter
  <2>4. QED
    BY <2>2, <2>3
<1>3. KnownSoFar => WellKnownValues
  <2> SUFFICES ASSUME KnownSoFar, message = Digits, index = 9
               PROVE  /\ type = "CRC16_IBM" => ChecksumBytes(type, TRUE, sender) = <<187, 61>>
                      /\ type = "CRC16_CCITT_FALSE" =>
                            ChecksumBytes(type, FALSE, sender) = <<177, 41>>
    BY DEF WellKnownValues
  <2>1. /\ type = "CRC16_IBM" => IbmAfter(9, sender)
        /\ type = "CRC16_CCITT_FALSE" => CcittAfter(9, sender)
    BY Zenon DEF KnownSoFar
  <2>2. QED
    BY <2>1, KnownBytes, Zenon
<1>4. QED
  BY <1>1, <1>2, <1>3, PTL DEF PairSpec
=============================================================================
