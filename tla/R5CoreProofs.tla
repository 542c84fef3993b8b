---------------------------- MODULE R5CoreProofs ----------------------------
(***************************************************************************)
(* What the layers under the R5 firmware keep true: its clock, for any     *)
(* width of its halves; its start-up, for any number of interrupt lines;   *)
(* the trace buffers with the script that prints them, for any size of the *)
(* buffer and any number of lines and of starts; and its exception         *)
(* entries, instruction by instruction, for any of the exceptions.         *)
(***************************************************************************)
EXTENDS MCR5Core, TLAPS, SequenceTheorems, FunctionTheorems, FiniteSetTheorems

(* The clock.                                                              *)

\* What is known of a read at each of its steps.
ReadInv ==
  /\ Leq(since, count)
  /\ pc \in {"lo", "hi2"} => since.hi <= hi /\ hi <= count.hi
  /\ pc = "hi2" => /\ Leq(since, seen) /\ Leq(seen, count)
                   /\ hi <= seen.hi /\ lo = seen.lo

IInv == TypeOK /\ ReadInv /\ NoTornRead

\* The order of the counter's values is transitive and reflexive.
LEMMA LeqTransitive ==
  ASSUME NEW a \in Counter, NEW b \in Counter, NEW c \in Counter, Leq(a, b), Leq(b, c)
  PROVE  Leq(a, c)
BY TimerAssumption DEF Leq, Counter

LEMMA LeqReflexive == ASSUME NEW a \in Counter PROVE Leq(a, a)
BY TimerAssumption DEF Leq, Counter

\* A step of the counter keeps its type and never takes it back.
LEMMA TickGoesOn ==
  ASSUME count \in Counter, Tick
  PROVE  count' \in Counter /\ Leq(count, count')
BY TimerAssumption DEF Tick, Leq, Counter

\* Two equal high halves around the low one are the high half of seen.
LEMMA ReadIsSeen ==
  ASSUME IInv, pc = "hi2", hi = count.hi
  PROVE  Read = seen
BY TimerAssumption DEF IInv, TypeOK, ReadInv, Leq, Read, Counter

LEMMA InitIInv == ASSUME Init PROVE IInv
BY TimerAssumption DEF Init, IInv, TypeOK, ReadInv, NoTornRead, Leq, Counter, Zero, Uses

LEMMA NextIInv == ASSUME IInv, [Next]_vars PROVE IInv'
<1> USE TimerAssumption
<1>1. CASE Tick
  <2>1. count' \in Counter /\ Leq(count, count')
    BY <1>1, TickGoesOn DEF IInv, TypeOK
  <2>2. TypeOK'
    BY <1>1, <2>1 DEF IInv, TypeOK, Tick, waitVars
  <2>3. Leq(since, count') /\ Leq(got, count') /\ (pc = "hi2" => Leq(seen, count'))
    BY <2>1, LeqTransitive DEF IInv, TypeOK, ReadInv, NoTornRead
  <2>4. count.hi <= count'.hi
    BY <2>1 DEF Leq, IInv, TypeOK, Counter
  <2>5. ReadInv'
    BY <1>1, <2>1, <2>3, <2>4 DEF IInv, TypeOK, ReadInv, Tick, Leq, Counter, waitVars
  <2>6. NoTornRead'
    BY <1>1, <2>3 DEF IInv, NoTornRead, Tick, Leq, waitVars
  <2> QED BY <2>2, <2>5, <2>6 DEF IInv
<1>2. CASE Call
  <2>1. TypeOK'
    BY <1>2 DEF IInv, TypeOK, Call
  <2>2. ReadInv' /\ NoTornRead'
    BY <1>2, LeqReflexive DEF IInv, TypeOK, ReadInv, NoTornRead, Call, Leq, Counter
  <2> QED BY <2>1, <2>2 DEF IInv
<1>3. CASE ReadHi
  <2>1. TypeOK'
    BY <1>3 DEF IInv, TypeOK, ReadHi, Counter, waitVars
  <2>2. ReadInv' /\ NoTornRead'
    BY <1>3 DEF IInv, TypeOK, ReadInv, NoTornRead, ReadHi, Leq, Counter, waitVars
  <2> QED BY <2>1, <2>2 DEF IInv
<1>4. CASE ReadLo
  <2>1. TypeOK'
    BY <1>4 DEF IInv, TypeOK, ReadLo, Counter, waitVars
  <2>2. ReadInv' /\ NoTornRead'
    BY <1>4 DEF IInv, TypeOK, ReadInv, NoTornRead, ReadLo, Leq, Counter, waitVars
  <2> QED BY <2>1, <2>2 DEF IInv
<1>5. CASE ReadHi2 /\ hi # count.hi
  <2>1. TypeOK'
    BY <1>5 DEF IInv, TypeOK, ReadHi2, waitVars
  <2>2. ReadInv' /\ NoTornRead'
    BY <1>5 DEF IInv, TypeOK, ReadInv, NoTornRead, ReadHi2, Leq, Counter, waitVars
  <2> QED BY <2>1, <2>2 DEF IInv
<1>6. CASE ReadHi2 /\ hi = count.hi
  <2>1. got' = seen /\ asked' = since /\ since' = count /\ count' = count /\ pc' \in {"idle", "hi"}
    BY <1>6, ReadIsSeen DEF ReadHi2
  <2>2. first' = FALSE /\ UNCHANGED <<hi, lo, seen, begun, use>>
    BY <1>6 DEF ReadHi2, waitVars
  <2>3. TypeOK'
    BY <2>1, <2>2 DEF IInv, TypeOK
  <2>4. Leq(since, seen) /\ Leq(seen, count) /\ Leq(count, count)
    BY <1>6, LeqReflexive DEF ReadHi2, IInv, ReadInv, TypeOK
  <2>5. ReadInv' /\ NoTornRead'
    BY <2>1, <2>2, <2>4 DEF ReadInv, NoTornRead, Leq
  <2> QED BY <2>3, <2>5 DEF IInv
<1>7. CASE UNCHANGED vars
  BY <1>7 DEF vars, waitVars, IInv, TypeOK, ReadInv, NoTornRead, Leq
<1> QED BY <1>1, <1>2, <1>3, <1>4, <1>5, <1>6, <1>7 DEF Next

LEMMA Invariant == Spec => []IInv
<1>1. Init => IInv BY InitIInv
<1>2. IInv /\ [Next]_vars => IInv' BY NextIInv
<1> QED BY <1>1, <1>2, PTL DEF Spec

\* Every complete read of the global time counter lies between the counter when
\* get_current_ticks was called and the counter when it returned.
THEOREM TimerNeverTorn == Spec => []NoTornRead
<1>1. IInv => NoTornRead BY DEF IInv
<1> QED BY <1>1, Invariant, PTL

\* The halves stay in their registers' range.
THEOREM TimerTypeOK == Spec => []TypeOK
<1>1. IInv => TypeOK BY DEF IInv
<1> QED BY <1>1, Invariant, PTL
-----------------------------------------------------------------------------
(* Waits.                                                                  *)

\* Facts about products and quotients.
LEMMA ProductMonotone ==
  ASSUME NEW a \in Nat, NEW b \in Nat, NEW h \in Nat, a <= b PROVE a * h <= b * h
<1>1. PICK d \in Nat : b = a + d
  <2>1. b - a \in Nat /\ b = a + (b - a) OBVIOUS
  <2> QED BY <2>1
<1>2. b * h = (a * h) + (d * h) BY <1>1
<1>3. d * h \in Nat /\ a * h \in Nat OBVIOUS
<1> QED BY <1>2, <1>3

LEMMA QuotientBounds ==
  ASSUME NEW t \in Nat, NEW h \in Nat \ {0}
  PROVE  /\ t \div h \in Nat /\ (t \div h) * h <= t /\ t < ((t \div h) + 1) * h
OBVIOUS

\* A sum that runs over a modulus above its first term is less than its second.
LEMMA RemainderBounds ==
  ASSUME NEW t \in Nat, NEW d \in Nat, NEW m \in Nat, t < m, (t + d) % m >= d
  PROVE  (t + d) % m = t + d
<1> DEFINE s == t + d   q == s \div m
<1>1. m \in Nat \ {0} /\ s \in Nat OBVIOUS
<1> HIDE DEF s
<1>2. q \in Nat /\ s % m \in Nat /\ s = (m * q) + (s % m) BY <1>1
<1> HIDE DEF q
<1>3. m * q <= t BY <1>1, <1>2 DEF s
<1>4. q = 0
  <2>1. SUFFICES ASSUME q >= 1 PROVE FALSE BY <1>2
  <2>2. 1 * m <= q * m BY <2>1, <1>1, <1>2, ProductMonotone
  <2> QED BY <2>2, <1>1, <1>2, <1>3
<1> QED BY <1>1, <1>2, <1>4 DEF s

\* The order of the counter's values is that of their ticks.
LEMMA LeqTicks ==
  ASSUME NEW a \in Counter, NEW b \in Counter, Leq(a, b)
  PROVE  Ticks(a) \in Nat /\ Ticks(b) \in Nat /\ Ticks(a) <= Ticks(b)
<1>1. /\ a.hi \in Nat /\ a.lo \in Nat /\ a.lo < Half
      /\ b.hi \in Nat /\ b.lo \in Nat /\ Half \in Nat
  BY TimerAssumption DEF Counter
<1>2. a.hi * Half \in Nat /\ b.hi * Half \in Nat BY <1>1
<1>3. CASE a.hi = b.hi /\ a.lo <= b.lo BY <1>1, <1>2, <1>3 DEF Ticks
<1>4. CASE a.hi < b.hi
  <2>1. (a.hi + 1) * Half <= b.hi * Half BY <1>1, <1>4, ProductMonotone
  <2>2. (a.hi + 1) * Half = (a.hi * Half) + Half BY <1>1
  <2> QED BY <1>1, <1>2, <2>1, <2>2 DEF Ticks
<1> QED BY <1>3, <1>4 DEF Leq
\* A wait is counted from a value the counter had after the wait began; deadline
\* and starting second follow from that value.
WaitInv ==
  /\ Ticks(count) <= Last /\ time \in Nat /\ limit \in Nat
  /\ pc # "idle" => Leq(begun, since)
  /\ pc # "idle" /\ ~first =>
       /\ use = "deadline" /\ limit >= time * Cycles =>
            limit >= Ticks(begun) + (time * Cycles)
       /\ use = "seconds" => (limit + 1) * GTC_HZ > Ticks(begun)

\* The first value of a wait gives it such a limit.
LEMMA FirstLimit ==
  ASSUME Last < Half * Half, time \in Nat, NEW b \in Nat, NEW t \in Nat, b <= t, t <= Last
  PROVE  /\ LimitFrom(t) \in Nat
         /\ use = "deadline" /\ LimitFrom(t) >= time * Cycles =>
              LimitFrom(t) >= b + (time * Cycles)
         /\ use = "seconds" => (LimitFrom(t) + 1) * GTC_HZ > b
<1> DEFINE d == time * Cycles   m == Half * Half
<1>1. d \in Nat /\ m \in Nat \ {0} /\ t < m BY TimerAssumption, ProductMonotone
<1>2. CASE use = "deadline"
  <2>1. LimitFrom(t) = (t + d) % m BY <1>2 DEF LimitFrom
  <2> HIDE DEF d, m
  <2>2. (t + d) % m \in Nat BY <1>1
  <2>3. (t + d) % m >= d => (t + d) % m = t + d BY <1>1, RemainderBounds
  <2>4. LimitFrom(t) >= d => LimitFrom(t) >= b + d BY <1>1, <2>1, <2>3
  <2> QED BY <1>2, <2>1, <2>2, <2>4 DEF d
<1>3. CASE use # "deadline"
  <2>1. LimitFrom(t) = t \div GTC_HZ BY <1>3 DEF LimitFrom
  <2>2. (t \div GTC_HZ) \in Nat /\ t < ((t \div GTC_HZ) + 1) * GTC_HZ
    BY TimerAssumption, QuotientBounds
  <2>3. ((t \div GTC_HZ) + 1) * GTC_HZ \in Nat BY <2>2, TimerAssumption
  <2> QED BY <1>3, <2>1, <2>2, <2>3
<1> QED BY <1>2, <1>3

\* What a complete read returns lies between the beginning of the wait and now.
LEMMA ReadInWait ==
  ASSUME IInv, WaitInv, pc = "hi2", hi = count.hi
  PROVE  /\ Ticks(begun) \in Nat /\ Ticks(Read) \in Nat /\ Ticks(count) \in Nat
         /\ Ticks(begun) <= Ticks(Read) /\ Ticks(Read) <= Ticks(count)
<1>1. Read = seen /\ begun \in Counter /\ since \in Counter /\ seen \in Counter /\ count \in Counter
  BY ReadIsSeen DEF IInv, TypeOK
<1>2. Leq(begun, since) /\ Leq(since, seen) /\ Leq(seen, count)
  BY DEF WaitInv, IInv, ReadInv
<1>3. Leq(begun, seen) BY <1>1, <1>2, LeqTransitive
<1> QED BY <1>1, <1>2, <1>3, LeqTicks

LEMMA InitWaitInv == ASSUME Init PROVE WaitInv
<1>1. Ticks(count) = 0 BY TimerAssumption DEF Init, Zero, Ticks
<1> QED BY <1>1, TimerAssumption DEF Init, WaitInv

LEMMA NextWaitInv ==
  ASSUME Last < Half * Half, IInv, WaitInv, [Next]_vars PROVE WaitInv'
<1> USE TimerAssumption
<1>1. CASE Tick
  <2>1. Ticks(count') <= Last
    <3>1. count \in Counter /\ Ticks(count) < Last BY <1>1 DEF Tick, IInv, TypeOK
    <3>2. CASE count.lo + 1 < Half
      BY <1>1, <3>1, <3>2 DEF Tick, Ticks, Counter
    <3>3. CASE ~(count.lo + 1 < Half)
      <4>1. count' = [hi |-> count.hi + 1, lo |-> 0] BY <1>1, <3>3 DEF Tick
      <4>2. count.hi \in Nat /\ count.lo \in Nat /\ count.lo + 1 = Half
        BY <3>1, <3>3 DEF Counter
      <4>3. Ticks(count') = (count.hi * Half) + Half BY <4>1, <4>2 DEF Ticks
      <4>4. count.hi * Half \in Nat BY <4>2
      <4> QED BY <3>1, <4>2, <4>3, <4>4 DEF Ticks
    <3> QED BY <3>2, <3>3
  <2> QED BY <1>1, <2>1 DEF WaitInv, Tick, waitVars, Ticks, Leq
<1>2. CASE Call
  <2>1. Leq(count, count) BY LeqReflexive DEF IInv, TypeOK
  <2>2. time' \in Nat BY <1>2 DEF Call
  <2> QED BY <1>2, <2>1, <2>2 DEF Call, WaitInv, Leq, Ticks
<1>3. CASE ReadHi BY <1>3 DEF ReadHi, WaitInv, waitVars, Leq, Ticks
<1>4. CASE ReadLo BY <1>4 DEF ReadLo, WaitInv, waitVars, Leq, Ticks
<1>5. CASE ReadHi2 /\ hi # count.hi BY <1>5 DEF ReadHi2, WaitInv, waitVars, Leq, Ticks
<1>6. CASE ReadHi2 /\ hi = count.hi
  <2>1. /\ UNCHANGED <<count, begun, time, use>> /\ since' = count /\ ~first'
        /\ limit' = IF first /\ use # "get" THEN LimitFrom(Ticks(Read)) ELSE limit
        /\ pc = "hi2"
    BY <1>6 DEF ReadHi2, waitVars
  <2>2. /\ Ticks(begun) \in Nat /\ Ticks(Read) \in Nat /\ Ticks(count) \in Nat
        /\ Ticks(begun) <= Ticks(Read) /\ Ticks(Read) <= Ticks(count)
    BY <1>6, <2>1, ReadInWait
  <2>3. Leq(begun, count)
    BY <2>1, LeqTransitive DEF WaitInv, IInv, TypeOK, ReadInv
  <2>4. Ticks(count)' = Ticks(count) /\ Ticks(begun)' = Ticks(begun) /\ Leq(begun, since)'
    BY <2>1, <2>3 DEF Ticks, Leq
  <2>5. CASE first /\ use # "get"
    <3>1. /\ LimitFrom(Ticks(Read)) \in Nat
          /\ use = "deadline" /\ LimitFrom(Ticks(Read)) >= time * Cycles =>
               LimitFrom(Ticks(Read)) >= Ticks(begun) + (time * Cycles)
          /\ use = "seconds" => (LimitFrom(Ticks(Read)) + 1) * GTC_HZ > Ticks(begun)
      BY <2>2, FirstLimit DEF WaitInv
    <3>2. limit' = LimitFrom(Ticks(Read)) BY <2>1, <2>5
    <3> QED BY <2>1, <2>4, <3>1, <3>2 DEF WaitInv
  <2>6. CASE ~(first /\ use # "get")
    <3>1. limit' = limit BY <2>1, <2>6
    <3>2. use # "get" => ~first BY <2>6
    <3> QED BY <2>1, <2>4, <3>1, <3>2 DEF WaitInv
  <2> QED BY <2>5, <2>6
<1>7. CASE UNCHANGED vars BY <1>7 DEF vars, waitVars, WaitInv, Leq, Ticks
<1> QED BY <1>1, <1>2, <1>3, <1>4, <1>5, <1>6, <1>7 DEF Next

\* The step that ends a wait, and no other, leaves the second read of the high half.
LongEnough ==
  /\ Ends("deadline") /\ limit >= time * Cycles =>
       Ticks(count) >= Ticks(begun) + (time * Cycles)
  /\ Ends("seconds") => Ticks(count) > Ticks(begun) + ((time - 1) * GTC_HZ)

LEMMA WaitEnds == ASSUME IInv, WaitInv, [Next]_vars PROVE LongEnough
<1> SUFFICES ASSUME NEW u \in {"deadline", "seconds"}, Ends(u)
             PROVE  /\ u = "deadline" /\ limit >= time * Cycles =>
                         Ticks(count) >= Ticks(begun) + (time * Cycles)
                    /\ u = "seconds" => Ticks(count) > Ticks(begun) + ((time - 1) * GTC_HZ)
  BY DEF LongEnough
<1>1. use = u /\ pc = "hi2" /\ pc' = "idle" BY DEF Ends
<1>2. ReadHi2 /\ hi = count.hi
  BY <1>1 DEF Next, vars, Tick, Call, ReadHi, ReadLo, ReadHi2
<1>3. ~first /\ Over(Ticks(Read)) BY <1>1, <1>2 DEF ReadHi2
<1>4. /\ Ticks(begun) \in Nat /\ Ticks(Read) \in Nat /\ Ticks(count) \in Nat
      /\ Ticks(begun) <= Ticks(Read) /\ Ticks(Read) <= Ticks(count)
  BY <1>1, <1>2, ReadInWait
<1>5. limit \in Nat /\ time \in Nat BY DEF WaitInv
<1>6. CASE u = "deadline"
  <2>1. Ticks(Read) >= limit BY <1>1, <1>3, <1>6 DEF Over
  <2>2. limit >= time * Cycles => limit >= Ticks(begun) + (time * Cycles)
    BY <1>1, <1>3, <1>6 DEF WaitInv
  <2>3. time * Cycles \in Nat BY <1>5, TimerAssumption
  <2> QED BY <1>4, <1>5, <1>6, <2>1, <2>2, <2>3
<1>7. CASE u = "seconds"
  <2> DEFINE t == Ticks(Read)   q == t \div GTC_HZ
  <2>1. q - limit >= time BY <1>1, <1>3, <1>7 DEF Over
  <2>2. (limit + 1) * GTC_HZ > Ticks(begun) BY <1>1, <1>3, <1>7 DEF WaitInv
  <2>3. q \in Nat /\ q * GTC_HZ <= t BY <1>4, TimerAssumption, QuotientBounds
  <2> HIDE DEF q, t
  <2>4. (limit + time) * GTC_HZ <= q * GTC_HZ
    BY <1>5, <2>1, <2>3, TimerAssumption, ProductMonotone
  <2>5. /\ (limit + time) * GTC_HZ = (limit * GTC_HZ) + (time * GTC_HZ)
        /\ (limit + 1) * GTC_HZ = (limit * GTC_HZ) + GTC_HZ
        /\ (time - 1) * GTC_HZ = (time * GTC_HZ) - GTC_HZ
        /\ limit * GTC_HZ \in Nat /\ time * GTC_HZ \in Nat /\ q * GTC_HZ \in Nat
    BY <1>5, <2>3, TimerAssumption
  <2> QED BY <1>4, <1>7, <2>2, <2>3, <2>4, <2>5, TimerAssumption DEF t
<1> QED BY <1>6, <1>7

\* No wait of the firmware (delay_ticks, the UART deadlines, the blocking calls) is
\* shorter than it may be, provided the 64-bit counter itself does not run over.
THEOREM TimerWaitsLongEnough ==
  ASSUME Last < Half * Half PROVE Spec => WaitsLongEnough
<1>1. Init => IInv /\ WaitInv BY InitIInv, InitWaitInv
<1>2. IInv /\ WaitInv /\ [Next]_vars => IInv' /\ WaitInv'
  BY NextIInv, NextWaitInv
<1>3. IInv /\ WaitInv /\ [Next]_vars => [LongEnough]_vars
  BY WaitEnds
<1> QED BY <1>1, <1>2, <1>3, PTL DEF Spec, WaitsLongEnough, LongEnough

-----------------------------------------------------------------------------
(* Start-up.  No dirty line of the data cache is lost, and no interrupt is *)
(* taken before the VIM has been silenced.                                 *)

\* The switches of the core.
BootCore == [mpu : BOOLEAN, background : BOOLEAN, c : BOOLEAN, i : BOOLEAN,
             writeThrough : BOOLEAN, dirty : BOOLEAN, lost : BOOLEAN,
             irqMasked : BOOLEAN, fiqMasked : BOOLEAN]

\* Nothing has been lost, and nothing is dirty in a cache that is off.
Kept(m) == m \in BootCore /\ ~m.lost /\ (m.c \/ ~m.dirty)

\* The data cache is cleaned before it is switched off,
LEMMA DisableKeeps ==
    ASSUME NEW m, Kept(m), NEW type
    PROVE  LET d == Boot!CacheDisable(m, type)
           IN  /\ Kept(d) /\ d.irqMasked = m.irqMasked /\ d.fiqMasked = m.fiqMasked
               /\ d.mpu = m.mpu /\ d.background = m.background
               /\ d.i = (m.i /\ "L1P" \notin type) /\ d.c = (m.c /\ "L1D" \notin type)
  BY DEF Kept, BootCore, Boot!CacheDisable, Boot!disableL1d, Boot!disableL1p,
       Boot!getEnabled

\* and invalidated, with nothing dirty in it, before it is switched on.
LEMMA EnableKeeps ==
    ASSUME NEW m, Kept(m), NEW type
    PROVE  LET d == Boot!CacheEnable(m, type)
           IN  /\ Kept(d) /\ d.irqMasked = m.irqMasked /\ d.fiqMasked = m.fiqMasked
               /\ d.mpu = m.mpu /\ d.background = m.background
               /\ d.i = (m.i \/ "L1P" \in type) /\ d.c = (m.c \/ "L1D" \in type)
  BY DEF Kept, BootCore, Boot!CacheEnable, Boot!enableL1d, Boot!enableL1p,
       Boot!getEnabled

\* The MPU is enabled between switching caches off and on,
LEMMA MpuEnableKeeps ==
    ASSUME NEW m, Kept(m)
    PROVE  LET d == Boot!MpuEnable(m)
           IN  /\ Kept(d) /\ d.irqMasked = m.irqMasked /\ d.mpu = TRUE
               /\ d.background = m.background /\ d.i = m.i /\ d.c = m.c
<1>1. CASE m.mpu
  BY <1>1 DEF Boot!MpuEnable, Kept, BootCore
<1>2. CASE ~m.mpu
  <2> DEFINE type == Boot!getEnabled(m)
             a == [m EXCEPT !.irqMasked = TRUE]
             b == Boot!CacheDisable(a, type \cap {"L1P"})
             c == [b EXCEPT !.mpu = TRUE]
             e == Boot!CacheEnable(c, type)
  <2>1. Kept(a) /\ a.background = m.background /\ a.i = m.i /\ a.c = m.c
    BY DEF Kept, BootCore
  <2>2. ("L1P" \in type <=> m.i) /\ ("L1D" \in type <=> m.c)
    BY DEF Boot!getEnabled
  <2> HIDE DEF a, type
  <2>3. Kept(b) /\ b.background = a.background /\ b.c = a.c /\ b.i = FALSE
    BY <2>1, <2>2, DisableKeeps DEF Kept, BootCore
  <2> HIDE DEF b
  <2>4. Kept(c) /\ c.background = b.background /\ c.c = b.c /\ c.i = b.i /\ c.mpu = TRUE
    BY <2>3 DEF Kept, BootCore
  <2> HIDE DEF c
  <2>5. Kept(e) /\ e.background = c.background /\ e.mpu = c.mpu
        /\ e.i = (c.i \/ "L1P" \in type) /\ e.c = (c.c \/ "L1D" \in type)
    BY <2>4, EnableKeeps
  <2> HIDE DEF e
  <2>6. Boot!MpuEnable(m) = [e EXCEPT !.irqMasked = m.irqMasked]
    BY <1>2 DEF Boot!MpuEnable, Boot!HwiRestore, e, c, b, a, type
  <2>7. m.irqMasked \in BOOLEAN /\ m.i \in BOOLEAN /\ m.c \in BOOLEAN
    BY DEF Kept, BootCore
  <2>8. e.i = m.i /\ e.c = m.c
    BY <2>1, <2>2, <2>3, <2>4, <2>5, <2>7
  <2>9. QED
    BY <2>1, <2>3, <2>4, <2>5, <2>6, <2>7, <2>8 DEF Kept, BootCore
<1>3. QED
  BY <1>1, <1>2

\* and disabled in the same way.
LEMMA MpuDisableKeeps ==
    ASSUME NEW m, Kept(m)
    PROVE  LET d == Boot!MpuDisable(m)
           IN  /\ Kept(d) /\ d.irqMasked = m.irqMasked /\ d.mpu = FALSE
               /\ d.background = m.background
<1>1. CASE ~m.mpu
  BY <1>1 DEF Boot!MpuDisable, Kept, BootCore
<1>2. CASE m.mpu
  <2> DEFINE type == Boot!getEnabled(m)
             a == [m EXCEPT !.irqMasked = TRUE]
             b == Boot!CacheDisable(a, type)
             c == [b EXCEPT !.mpu = FALSE]
             e == Boot!CacheEnable(c, type)
  <2>1. Kept(a) /\ a.background = m.background
    BY DEF Kept, BootCore
  <2> HIDE DEF a, type
  <2>3. Kept(b) /\ b.background = a.background
    BY <2>1, DisableKeeps
  <2> HIDE DEF b
  <2>4. Kept(c) /\ c.background = b.background /\ c.mpu = FALSE
    BY <2>3 DEF Kept, BootCore
  <2> HIDE DEF c
  <2>5. Kept(e) /\ e.background = c.background /\ e.mpu = c.mpu
    BY <2>4, EnableKeeps
  <2> HIDE DEF e
  <2>6. Boot!MpuDisable(m) = [e EXCEPT !.irqMasked = m.irqMasked]
    BY <1>2 DEF Boot!MpuDisable, Boot!HwiRestore, e, c, b, a, type
  <2>7. m.irqMasked \in BOOLEAN
    BY DEF Kept, BootCore
  <2>9. QED
    BY <2>1, <2>3, <2>4, <2>5, <2>6, <2>7 DEF Kept, BootCore
<1>3. QED
  BY <1>1, <1>2

\* The steps of the start-up.
BootPcs == {"mask", "mpu", "regions", "caches", "vim", "intc", "start"}

\* Interrupts are masked until no line of the VIM is enabled any more.
Quiet ==
    /\ bootPc \in BootPcs /\ loop \in Nat /\ early = FALSE
    /\ loop <= 6 \/ loop <= Lines
    /\ \A n \in vim.enabled : n \in 0..Lines - 1
    /\ bootPc \in {"mpu", "regions", "caches", "vim"} => r5.irqMasked = TRUE
    /\ bootPc = "vim" => loop <= Lines /\ \A n \in vim.enabled : n >= loop
    /\ bootPc = "intc" => vim.enabled = {}

\* The invariant of the start-up.
BootInv ==
    /\ Kept(r5) /\ Quiet
    /\ vim \in [enabled : SUBSET (0..Lines - 1), pending : SUBSET (0..Lines - 1)]

\* R5Boot is about a VIM that has lines.
USE CoreAssumption DEF BootPcs

\* gMpuRegionConfig has six rows.
LEMMA TableLength == Boot!numRegions = 6
  BY DEF Boot!numRegions, Boot!gMpuRegionConfig

\* The core comes out of reset with the invariant.
LEMMA BootInvInit == Boot!Init => BootInv
  BY DEF Boot!Init, BootInv, Kept, BootCore, Quiet

\* Reset_Handler masks both kinds of interrupts,
LEMMA MaskKeeps == BootInv /\ Boot!MaskInterrupts => BootInv'
  BY DEF BootInv, Quiet, Kept, BootCore, Boot!MaskInterrupts, Boot!Go

\* switches the MPU off,
LEMMA MpuInitBeginKeeps == BootInv /\ Boot!MpuInitBegin => BootInv'
<1> SUFFICES ASSUME BootInv, Boot!MpuInitBegin PROVE BootInv'
  OBVIOUS
<1>1. Kept(Boot!MpuDisable(r5)) /\ Boot!MpuDisable(r5).irqMasked = r5.irqMasked
  BY MpuDisableKeeps DEF BootInv
<1>2. r5' = [Boot!MpuDisable(r5) EXCEPT !.background = FALSE]
  BY DEF Boot!MpuInitBegin
<1>3. Kept(r5') /\ r5'.irqMasked = r5.irqMasked
  BY <1>1, <1>2 DEF Kept, BootCore
<1>4. QED
  BY <1>3 DEF BootInv, Quiet, Boot!MpuInitBegin, Boot!Go

\* writes one region after the other,
LEMMA SetRegionKeeps == BootInv /\ Boot!SetRegion => BootInv'
<1> SUFFICES ASSUME BootInv, Boot!SetRegion PROVE BootInv'
  OBVIOUS
<1> DEFINE off == Boot!MpuDisable(r5)
<1>1. Kept(off) /\ off.irqMasked = r5.irqMasked
  BY MpuDisableKeeps DEF BootInv
<1>2. r5' = off \/ r5' = Boot!MpuEnable(off)
  BY DEF Boot!SetRegion
<1> HIDE DEF off
<1>3. Kept(r5') /\ r5'.irqMasked = r5.irqMasked
  BY <1>1, <1>2, MpuEnableKeeps
<1>4. QED
  BY <1>3, TableLength DEF BootInv, Quiet, Boot!SetRegion

\* and switches the MPU on again.
LEMMA MpuInitEndKeeps == BootInv /\ Boot!MpuInitEnd => BootInv'
<1> SUFFICES ASSUME BootInv, Boot!MpuInitEnd PROVE BootInv'
  OBVIOUS
<1> DEFINE m == [r5 EXCEPT !.background = TRUE]
<1>1. Kept(m) /\ m.irqMasked = r5.irqMasked
  BY DEF BootInv, Kept, BootCore
<1>2. r5' = Boot!MpuEnable(m)
  BY DEF Boot!MpuInitEnd
<1> HIDE DEF m
<1>3. Kept(r5') /\ r5'.irqMasked = r5.irqMasked
  BY <1>1, <1>2, MpuEnableKeeps
<1>4. QED
  BY <1>3 DEF BootInv, Quiet, Boot!MpuInitEnd, Boot!Go

\* The caches are switched off and on again.
LEMMA CacheInitKeeps == BootInv /\ Boot!CacheInit => BootInv'
<1> SUFFICES ASSUME BootInv, Boot!CacheInit PROVE BootInv'
  OBVIOUS
<1> DEFINE d == Boot!CacheDisable(r5, Boot!L1)
           m == [d EXCEPT !.writeThrough = FALSE]
<1>1. Kept(d) /\ d.irqMasked = r5.irqMasked
  BY DisableKeeps DEF BootInv
<1> HIDE DEF d
<1>2. Kept(m) /\ m.irqMasked = r5.irqMasked
  BY <1>1 DEF Kept, BootCore
<1>3. r5' = Boot!CacheEnable(m, Boot!L1)
  BY DEF Boot!CacheInit, d
<1> HIDE DEF m
<1>4. Kept(r5') /\ r5'.irqMasked = r5.irqMasked
  BY <1>2, <1>3, EnableKeeps
<1>5. QED
  BY <1>4 DEF BootInv, Quiet, Boot!CacheInit, Boot!Go

\* One line of the VIM after the other is disabled.
LEMMA ClearLineKeeps == BootInv /\ Boot!ClearLine => BootInv'
  BY DEF BootInv, Quiet, Boot!ClearLine

\* Interrupts are let in after the last line has been disabled.
LEMMA UnmaskKeeps == BootInv /\ Boot!UnmaskInterrupts => BootInv'
<1> SUFFICES ASSUME BootInv, Boot!UnmaskInterrupts PROVE BootInv'
  OBVIOUS
<1>1. Kept(r5')
  BY DEF BootInv, Kept, BootCore, Boot!UnmaskInterrupts
<1>2. vim.enabled = {}
  BY DEF BootInv, Quiet, Boot!UnmaskInterrupts, Boot!Go
<1>3. QED
  BY <1>1, <1>2 DEF BootInv, Quiet, Boot!UnmaskInterrupts, Boot!Go

\* Intc_Init leaves the lines alone, so that the firmware starts with none enabled.
LEMMA IntcInitKeeps == BootInv /\ Boot!IntcInit => BootInv'
  BY DEF BootInv, Quiet, Boot!IntcInit, Boot!Go

\* A store leaves a dirty line only in a cache that is on.
LEMMA StoreKeeps == BootInv /\ Boot!Store => BootInv'
  BY DEF BootInv, Quiet, Kept, BootCore, Boot!Store

\* Interrupt requests may come at any time
LEMMA RaiseIrqKeeps == BootInv /\ Boot!RaiseIrq => BootInv'
  BY DEF BootInv, Quiet, Boot!RaiseIrq

\* and lines are enabled only by the running firmware,
LEMMA EnableLineKeeps == BootInv /\ Boot!EnableLine => BootInv'
  BY DEF BootInv, Quiet, Boot!EnableLine

\* which is where interrupts are taken.
LEMMA TakeIrqKeeps == BootInv /\ Boot!TakeIrq => BootInv'
  BY DEF BootInv, Quiet, Boot!TakeIrq

\* The reset vector is entered again with caches, MPU and VIM as they were left.
LEMMA EnterAgainKeeps == BootInv /\ Boot!EnterAgain => BootInv'
  BY DEF BootInv, Quiet, Boot!EnterAgain, Boot!Go

\* Every step keeps the invariant.
LEMMA BootInvNext == BootInv /\ [MCNext]_mcVars => BootInv'
<1> SUFFICES ASSUME BootInv, [MCNext]_mcVars PROVE BootInv'
  OBVIOUS
<1>1. CASE UNCHANGED bootVars
  BY <1>1 DEF bootVars, BootInv, Quiet
<1>2. CASE Boot!Next
  BY <1>2, MaskKeeps, MpuInitBeginKeeps, SetRegionKeeps, MpuInitEndKeeps,
       CacheInitKeeps,
     ClearLineKeeps, UnmaskKeeps, IntcInitKeeps, StoreKeeps, RaiseIrqKeeps, EnableLineKeeps,
     TakeIrqKeeps, EnterAgainKeeps DEF Boot!Next, Boot!BootStep
<1>3. QED
  BY <1>1, <1>2 DEF MCNext, InTimer, InBoot, InEntry, InTrace, mcVars

\* However often Reset_Handler is entered, whatever has been stored, and whichever
\* lines request interrupts before and meanwhile, it discards no dirty line of the
\* data cache, and no interrupt is taken before _start.  This holds for any number
\* of lines of the VIM.
THEOREM QuietBoot == MCSpec => []NothingLostOrEarly
<1>1. MCInit => BootInv
  BY BootInvInit DEF MCInit
<1>2. BootInv => NothingLostOrEarly
  BY DEF BootInv, Kept, Quiet, NothingLostOrEarly, Boot!NothingLost,
       Boot!NoEarlyInterrupt
<1>3. QED
  BY <1>1, <1>2, BootInvNext, PTL DEF MCSpec

-----------------------------------------------------------------------------
(* Start-up.  The six rows of gMpuRegionConfig give the memory the         *)
(* attributes the link map needs.                                          *)

\* Row n + 1 of the table is what register n of the MPU is given.
InTable(n) == region[n] = Boot!gMpuRegionConfig[n + 1]

\* Every register is as after reset or holds its row of the table, and those before
\* loop, and at last all of them, hold their row.
RegionsSet ==
    /\ region = [n \in Boot!RegionIds |-> region[n]]
    /\ \A n \in 0..5 : region[n] = Boot!Unused \/ InTable(n)
    /\ \A n \in 6..15 : region[n] = Boot!Unused
    /\ bootPc = "regions" => loop <= 6 /\ \A n \in 0..5 : n < loop => InTable(n)
    /\ bootPc \in {"caches", "vim", "intc", "start"} => \A n \in 0..5 : InTable(n)

\* The bits of the core that the code in DDR needs.
Switched ==
    /\ bootPc \in {"caches", "vim", "intc", "start"} => r5.mpu = TRUE /\ r5.background = TRUE
    /\ bootPc \in {"vim", "intc", "start"} => r5.i = TRUE /\ r5.c = TRUE

\* The invariant of the memory map.
MapInv == BootInv /\ RegionsSet /\ Switched

\* Every base in the table is a multiple of the size, so that setRegion's rounding
\* leaves it as it is, whatever the undefined mask of the 4G region is.
LEMMA TableIsAligned ==
    ASSUME NEW n \in 0..5, NEW mask \in Boot!Masks(Boot!gMpuRegionConfig[n + 1].log)
    PROVE  [Boot!gMpuRegionConfig[n + 1] EXCEPT !.base =
               Boot!Aligned(Boot!gMpuRegionConfig[n + 1].base, mask)]
           = Boot!gMpuRegionConfig[n + 1]
<1> DEFINE row == Boot!gMpuRegionConfig[n + 1]
<1>0. CASE n = 0
  <2>1. row.base = 0 /\ row.log = 12 /\ row = [row EXCEPT !.base = 0]
    BY <1>0 DEF Boot!gMpuRegionConfig, Boot!Row
  <2>2. mask = 0 \/ mask = 1
    BY <2>1 DEF Boot!Masks
  <2>3. Boot!Aligned(0, mask) = 0
    BY <2>2 DEF Boot!Aligned
  <2>4. QED
    BY <2>1, <2>3
<1>1. CASE n = 1
  <2>1. row.base = 1792 /\ row.log = 3 /\ row = [row EXCEPT !.base = 1792]
    BY <1>1 DEF Boot!gMpuRegionConfig, Boot!Row
  <2>2. 2^3 = 8
    OBVIOUS
  <2>3. mask = 8
    BY <2>1, <2>2 DEF Boot!Masks
  <2>4. Boot!Aligned(1792, 8) = 1792
    BY DEF Boot!Aligned
  <2>5. QED
    BY <2>1, <2>3, <2>4
<1>2. CASE n = 2
  <2>1. row.base = 2048 /\ row.log = 11 /\ row = [row EXCEPT !.base = 2048]
    BY <1>2 DEF Boot!gMpuRegionConfig, Boot!Row
  <2>2. 2^11 = 2048
    OBVIOUS
  <2>3. mask = 2048
    BY <2>1, <2>2 DEF Boot!Masks
  <2>4. Boot!Aligned(2048, 2048) = 2048
    BY DEF Boot!Aligned
  <2>5. QED
    BY <2>1, <2>3, <2>4
<1>3. CASE n = 3
  <2>1. row.base = 2592 /\ row.log = 0 /\ row = [row EXCEPT !.base = 2592]
    BY <1>3 DEF Boot!gMpuRegionConfig, Boot!Row
  <2>2. 2^0 = 1
    OBVIOUS
  <2>3. mask = 1
    BY <2>1, <2>2 DEF Boot!Masks
  <2>4. Boot!Aligned(2592, 1) = 2592
    BY DEF Boot!Aligned
  <2>5. QED
    BY <2>1, <2>3, <2>4
<1>4. CASE n = 4
  <2>1. row.base = 2594 /\ row.log = 1 /\ row = [row EXCEPT !.base = 2594]
    BY <1>4 DEF Boot!gMpuRegionConfig, Boot!Row
  <2>2. 2^1 = 2
    OBVIOUS
  <2>3. mask = 2
    BY <2>1, <2>2 DEF Boot!Masks
  <2>4. Boot!Aligned(2594, 2) = 2594
    BY DEF Boot!Aligned
  <2>5. QED
    BY <2>1, <2>3, <2>4
<1>5. CASE n = 5
  <2>1. row.base = 2304 /\ row.log = 4 /\ row = [row EXCEPT !.base = 2304]
    BY <1>5 DEF Boot!gMpuRegionConfig, Boot!Row
  <2>2. 2^4 = 16
    OBVIOUS
  <2>3. mask = 16
    BY <2>1, <2>2 DEF Boot!Masks
  <2>4. Boot!Aligned(2304, 16) = 2304
    BY DEF Boot!Aligned
  <2>5. QED
    BY <2>1, <2>3, <2>4
<1>6. QED
  BY <1>0, <1>1, <1>2, <1>3, <1>4, <1>5

\* The region that decides is the last one that covers the address.
LEMMA LastDecides ==
    ASSUME NEW a \in Nat, NEW n \in Boot!RegionIds, Boot!Covers(region[n], a),
           \A k \in Boot!RegionIds : Boot!Covers(region[k], a) => k <= n
    PROVE  Boot!Attributes(a) = region[n]
<1> DEFINE hits == {k \in Boot!RegionIds : Boot!Covers(region[k], a)}
           last == CHOOSE k \in hits : \A j \in hits : j <= k
<1>1. n \in hits /\ \A j \in hits : j <= n
  OBVIOUS
<1>2. last \in hits /\ \A j \in hits : j <= last
  BY <1>1
<1>3. last = n
  BY <1>1, <1>2 DEF Boot!RegionIds
<1>4. QED
  BY <1>1, <1>3 DEF Boot!Attributes

\* At reset no region is set.
LEMMA MapInvInit == Boot!Init => MapInv
  BY BootInvInit DEF Boot!Init, MapInv, RegionsSet, Switched, Boot!RegionIds, BootInv

\* Only setRegion writes a region register.
LEMMA RegionsKept ==
    ASSUME MapInv, UNCHANGED region,
           bootPc' = "regions" => loop' = 0 \/ (bootPc = "regions" /\ loop' = loop),
           bootPc' \in {"caches", "vim", "intc", "start"} =>
               \/ bootPc \in {"caches", "vim", "intc", "start"}
               \/ bootPc = "regions" /\ loop = 6
    PROVE  RegionsSet'
<1>1. region' = region
  OBVIOUS
<1>2. \A n \in 0..5 : InTable(n)' <=> InTable(n)
  BY <1>1 DEF InTable
<1>3. region' = [n \in Boot!RegionIds |-> region'[n]]
  BY <1>1 DEF MapInv, RegionsSet
<1>4. bootPc' = "regions" => loop' <= 6 /\ \A n \in 0..5 : n < loop' => InTable(n)'
  BY <1>2 DEF MapInv, RegionsSet
<1>5. bootPc' \in {"caches", "vim", "intc", "start"} => \A n \in 0..5 : InTable(n)'
  BY <1>2 DEF MapInv, RegionsSet
<1>6. QED
  BY <1>1, <1>2, <1>3, <1>4, <1>5 DEF MapInv, RegionsSet

\* The steps one by one: before the regions,
LEMMA MaskMaps == MapInv /\ Boot!MaskInterrupts => RegionsSet' /\ Switched'
  BY RegionsKept DEF Boot!MaskInterrupts, Boot!Go, Switched

\* when the MPU is switched off for them,
LEMMA MpuInitBeginMaps == MapInv /\ Boot!MpuInitBegin => RegionsSet' /\ Switched'
  BY RegionsKept DEF Boot!MpuInitBegin, Boot!Go, Switched

\* one row after the other,
LEMMA SetRegionMaps == MapInv /\ Boot!SetRegion => RegionsSet' /\ Switched'
<1> SUFFICES ASSUME MapInv, Boot!SetRegion PROVE RegionsSet' /\ Switched'
  OBVIOUS
<1>1. bootPc = "regions" /\ bootPc' = "regions" /\ loop \in 0..5 /\ loop' = loop + 1
  BY TableLength DEF MapInv, BootInv, Quiet, Boot!SetRegion
<1> DEFINE row == Boot!gMpuRegionConfig[loop + 1]
<1>2. PICK mask \in Boot!Masks(row.log) :
        region' = [region EXCEPT ![loop] = [row EXCEPT !.base = Boot!Aligned(row.base, mask)]]
  BY DEF Boot!SetRegion
<1>3. region' = [region EXCEPT ![loop] = row]
  BY <1>1, <1>2, TableIsAligned
<1>4. region = [n \in Boot!RegionIds |-> region[n]]
  BY DEF MapInv, RegionsSet
<1> HIDE DEF row
<1>5. region'[loop] = row /\ \A n \in 0..15 : n # loop => region'[n] = region[n]
  BY <1>1, <1>3, <1>4 DEF Boot!RegionIds
<1>6. region' = [n \in Boot!RegionIds |-> region'[n]]
  BY <1>1, <1>3, <1>4
<1>7. \A n \in 0..5 : n <= loop => region[n]' = Boot!gMpuRegionConfig[n + 1]
  BY <1>1, <1>5 DEF MapInv, RegionsSet, InTable, row
<1>8. \A n \in 0..5 : region[n]' = Boot!Unused \/ region[n]' = Boot!gMpuRegionConfig[n + 1]
  BY <1>1, <1>5 DEF MapInv, RegionsSet, InTable, row
<1>9. \A n \in 6..15 : region[n]' = Boot!Unused
  BY <1>1, <1>5 DEF MapInv, RegionsSet
<1>10. QED
  BY <1>1, <1>6, <1>7, <1>8, <1>9 DEF RegionsSet, InTable, Switched

\* when the MPU is switched on, with all six rows in place,
LEMMA MpuInitEndMaps == MapInv /\ Boot!MpuInitEnd => RegionsSet' /\ Switched'
<1> SUFFICES ASSUME MapInv, Boot!MpuInitEnd PROVE RegionsSet' /\ Switched'
  OBVIOUS
<1> DEFINE m == [r5 EXCEPT !.background = TRUE]
<1>1. Kept(m) /\ m.background = TRUE
  BY DEF MapInv, BootInv, Kept, BootCore
<1>2. r5' = Boot!MpuEnable(m)
  BY DEF Boot!MpuInitEnd
<1> HIDE DEF m
<1>3. r5'.mpu = TRUE /\ r5'.background = TRUE
  BY <1>1, <1>2, MpuEnableKeeps
<1>4. RegionsSet'
  BY RegionsKept, TableLength DEF Boot!MpuInitEnd, Boot!Go
<1>5. QED
  BY <1>3, <1>4 DEF Switched, Boot!MpuInitEnd, Boot!Go

\* and the caches after it.
LEMMA CacheInitMaps == MapInv /\ Boot!CacheInit => RegionsSet' /\ Switched'
<1> SUFFICES ASSUME MapInv, Boot!CacheInit PROVE RegionsSet' /\ Switched'
  OBVIOUS
<1> DEFINE d == Boot!CacheDisable(r5, Boot!L1)
           m == [d EXCEPT !.writeThrough = FALSE]
<1>1. Kept(d) /\ d.mpu = r5.mpu /\ d.background = r5.background
  BY DisableKeeps DEF MapInv, BootInv
<1> HIDE DEF d
<1>2. Kept(m) /\ m.mpu = r5.mpu /\ m.background = r5.background
  BY <1>1 DEF Kept, BootCore
<1>3. r5' = Boot!CacheEnable(m, Boot!L1)
  BY DEF Boot!CacheInit, d
<1> HIDE DEF m
<1>4. r5'.mpu = r5.mpu /\ r5'.background = r5.background /\ r5'.i = TRUE /\ r5'.c = TRUE
  BY <1>2, <1>3, EnableKeeps DEF Boot!L1
<1>5. RegionsSet'
  BY RegionsKept DEF Boot!CacheInit, Boot!Go
<1>6. QED
  BY <1>4, <1>5 DEF MapInv, Switched, Boot!CacheInit, Boot!Go

\* Unmasking interrupts touches none of it,
LEMMA UnmaskMaps == MapInv /\ Boot!UnmaskInterrupts => RegionsSet' /\ Switched'
<1> SUFFICES ASSUME MapInv, Boot!UnmaskInterrupts PROVE RegionsSet' /\ Switched'
  OBVIOUS
<1>1. RegionsSet'
  BY RegionsKept DEF Boot!UnmaskInterrupts, Boot!Go
<1>2. Switched'
  BY DEF MapInv, BootInv, Kept, BootCore, Switched, Boot!UnmaskInterrupts, Boot!Go
<1>3. QED
  BY <1>1, <1>2

\* nor does a store.
LEMMA StoreMaps == MapInv /\ Boot!Store => RegionsSet' /\ Switched'
<1> SUFFICES ASSUME MapInv, Boot!Store PROVE RegionsSet' /\ Switched'
  OBVIOUS
<1>1. RegionsSet'
  BY RegionsKept DEF Boot!Store
<1>2. Switched'
  BY DEF MapInv, BootInv, Kept, BootCore, Switched, Boot!Store
<1>3. QED
  BY <1>1, <1>2

\* The other steps leave the core and its regions alone.
LEMMA OthersMap ==
    ASSUME MapInv, UNCHANGED <<r5, region>>,
           bootPc' = "regions" => bootPc = "regions" /\ loop' = loop,
           bootPc' \in {"caches", "vim", "intc", "start"} =>
               bootPc = bootPc' \/ (bootPc = "intc" /\ bootPc' = "start")
    PROVE  RegionsSet' /\ Switched'
<1>1. RegionsSet'
  BY RegionsKept
<1>2. Switched'
  BY DEF MapInv, Switched
<1>3. QED
  BY <1>1, <1>2

\* Every step keeps the invariant.
LEMMA MapInvNext == MapInv /\ [MCNext]_mcVars => MapInv'
<1> SUFFICES ASSUME MapInv, [MCNext]_mcVars PROVE RegionsSet' /\ Switched'
  BY BootInvNext DEF MapInv
<1>1. CASE UNCHANGED bootVars
  BY <1>1, OthersMap DEF bootVars
<1>2. CASE Boot!ClearLine
  BY <1>2, OthersMap DEF Boot!ClearLine
<1>3. CASE Boot!IntcInit
  BY <1>3, OthersMap DEF Boot!IntcInit, Boot!Go
<1>4. CASE Boot!RaiseIrq \/ Boot!EnableLine \/ Boot!TakeIrq
  BY <1>4, OthersMap DEF Boot!RaiseIrq, Boot!EnableLine, Boot!TakeIrq
<1>5. CASE Boot!EnterAgain
  BY <1>5, OthersMap DEF Boot!EnterAgain, Boot!Go
<1>6. CASE Boot!Next
  BY <1>2, <1>3, <1>4, <1>5, <1>6, MaskMaps, MpuInitBeginMaps, SetRegionMaps,
       MpuInitEndMaps,
     CacheInitMaps, UnmaskMaps, StoreMaps DEF Boot!Next, Boot!BootStep
<1>7. QED
  BY <1>1, <1>6 DEF MCNext, InTimer, InBoot, InEntry, InTrace, mcVars

\* What the six rows give to an address: the last of them that covers it decides.
Given(n, a) ==
    /\ Boot!Covers(Boot!gMpuRegionConfig[n + 1], a)
    /\ \A k \in 0..5 : Boot!Covers(Boot!gMpuRegionConfig[k + 1], a) => k <= n

\* So an address has the attributes of that row.
LEMMA GivenDecides ==
    ASSUME MapInv, bootPc \in {"vim", "intc", "start"}, NEW a \in Nat, NEW n \in 0..5, Given(n, a)
    PROVE  Boot!Attributes(a) = Boot!gMpuRegionConfig[n + 1]
<1>1. \A k \in 0..5 : region[k] = Boot!gMpuRegionConfig[k + 1]
  BY DEF MapInv, RegionsSet, InTable
<1>2. \A k \in 6..15 : ~Boot!Covers(region[k], a)
  BY DEF MapInv, RegionsSet, Boot!Covers, Boot!Unused
<1>3. \A k \in Boot!RegionIds : Boot!Covers(region[k], a) => k <= n
  BY <1>1, <1>2 DEF Boot!RegionIds, Given
<1>4. Boot!Covers(region[n], a) /\ n \in Boot!RegionIds
  BY <1>1 DEF Boot!RegionIds, Given
<1>5. QED
  BY <1>1, <1>3, <1>4, LastDecides

\* Where the rows lie.
LEMMA RowsCover ==
    ASSUME NEW a \in Nat
    PROVE  /\ Boot!Covers(Boot!gMpuRegionConfig[1], a) <=> a < 4096
           /\ Boot!Covers(Boot!gMpuRegionConfig[2], a) <=> 1792 <= a /\ a < 1800
           /\ Boot!Covers(Boot!gMpuRegionConfig[3], a) <=> 2048 <= a /\ a < 4096
           /\ Boot!Covers(Boot!gMpuRegionConfig[4], a) <=> a = 2592
           /\ Boot!Covers(Boot!gMpuRegionConfig[5], a) <=> a = 2594 \/ a = 2595
           /\ Boot!Covers(Boot!gMpuRegionConfig[6], a) <=> 2304 <= a /\ a < 2320
<1>1. Boot!Covers(Boot!gMpuRegionConfig[1], a) <=> a < 4096
  <2>1. Boot!gMpuRegionConfig[1].on = TRUE /\ Boot!gMpuRegionConfig[1].base = 0
        /\ Boot!gMpuRegionConfig[1].log = 12
    BY DEF Boot!gMpuRegionConfig, Boot!Row
  <2>2. 2^12 = 4096
    OBVIOUS
  <2>3. QED
    BY <2>1, <2>2 DEF Boot!Covers
<1>2. Boot!Covers(Boot!gMpuRegionConfig[2], a) <=> (1792 <= a /\ a < 1800)
  <2>1. Boot!gMpuRegionConfig[2].on = TRUE /\ Boot!gMpuRegionConfig[2].base = 1792
        /\ Boot!gMpuRegionConfig[2].log = 3
    BY DEF Boot!gMpuRegionConfig, Boot!Row
  <2>2. 2^3 = 8
    OBVIOUS
  <2>3. QED
    BY <2>1, <2>2 DEF Boot!Covers
<1>3. Boot!Covers(Boot!gMpuRegionConfig[3], a) <=> (2048 <= a /\ a < 4096)
  <2>1. Boot!gMpuRegionConfig[3].on = TRUE /\ Boot!gMpuRegionConfig[3].base = 2048
        /\ Boot!gMpuRegionConfig[3].log = 11
    BY DEF Boot!gMpuRegionConfig, Boot!Row
  <2>2. 2^11 = 2048
    OBVIOUS
  <2>3. QED
    BY <2>1, <2>2 DEF Boot!Covers
<1>4. Boot!Covers(Boot!gMpuRegionConfig[4], a) <=> a = 2592
  <2>1. Boot!gMpuRegionConfig[4].on = TRUE /\ Boot!gMpuRegionConfig[4].base = 2592
        /\ Boot!gMpuRegionConfig[4].log = 0
    BY DEF Boot!gMpuRegionConfig, Boot!Row
  <2>2. 2^0 = 1
    OBVIOUS
  <2>3. QED
    BY <2>1, <2>2 DEF Boot!Covers
<1>5. Boot!Covers(Boot!gMpuRegionConfig[5], a) <=> (a = 2594 \/ a = 2595)
  <2>1. Boot!gMpuRegionConfig[5].on = TRUE /\ Boot!gMpuRegionConfig[5].base = 2594
        /\ Boot!gMpuRegionConfig[5].log = 1
    BY DEF Boot!gMpuRegionConfig, Boot!Row
  <2>2. 2^1 = 2
    OBVIOUS
  <2>3. QED
    BY <2>1, <2>2 DEF Boot!Covers
<1>6. Boot!Covers(Boot!gMpuRegionConfig[6], a) <=> (2304 <= a /\ a < 2320)
  <2>1. Boot!gMpuRegionConfig[6].on = TRUE /\ Boot!gMpuRegionConfig[6].base = 2304
        /\ Boot!gMpuRegionConfig[6].log = 4
    BY DEF Boot!gMpuRegionConfig, Boot!Row
  <2>2. 2^4 = 16
    OBVIOUS
  <2>3. QED
    BY <2>1, <2>2 DEF Boot!Covers
<1>7. QED
  BY <1>1, <1>2, <1>3, <1>4, <1>5, <1>6

\* All the link map needs follows: code in DDR runs with caches and MPU on, and
\* every address it uses is decided by the row written for it.
LEMMA MapIsLinked == MapInv => MemoryAsLinked
<1> SUFFICES ASSUME MapInv, bootPc \in {"vim", "intc", "start"} PROVE Boot!MemoryAsLinked
  BY DEF MemoryAsLinked, Boot!MemoryAsLinked
<1>1. Boot!getEnabled(r5) = Boot!L1 /\ r5.mpu /\ r5.background
  BY DEF MapInv, Switched, Boot!getEnabled, Boot!L1
<1>2. Boot!Attributes(2592) = Boot!gMpuRegionConfig[4]
  <2>1. Given(3, 2592)
    BY RowsCover DEF Given
  <2>2. QED
    BY <2>1, GivenDecides
<1>3. \A a \in 2304..2319 : Boot!Attributes(a) = Boot!gMpuRegionConfig[6]
  <2>1. \A a \in 2304..2319 : Given(5, a)
    BY RowsCover DEF Given
  <2>2. QED
    BY <2>1, GivenDecides
<1>4. \A a \in {0, 656, 1791} : Boot!Attributes(a) = Boot!gMpuRegionConfig[1]
  <2>1. \A a \in {0, 656, 1791} : Given(0, a)
    BY RowsCover DEF Given
  <2>2. QED
    BY <2>1, GivenDecides
<1>5. \A a \in {2594, 2595} : Boot!Attributes(a) = Boot!gMpuRegionConfig[5]
  <2>1. \A a \in {2594, 2595} : Given(4, a)
    BY RowsCover DEF Given
  <2>2. QED
    BY <2>1, GivenDecides
<1>6. \A a \in {2593} \cup 2596..2607 : Boot!Attributes(a) = Boot!gMpuRegionConfig[3]
  <2>1. \A a \in {2593} \cup 2596..2607 : Given(2, a)
    BY RowsCover DEF Given
  <2>2. QED
    BY <2>1, GivenDecides
<1>7. /\ ~Boot!gMpuRegionConfig[4].c /\ Boot!gMpuRegionConfig[4].s
      /\ ~Boot!gMpuRegionConfig[6].c /\ Boot!gMpuRegionConfig[6].s
      /\ ~Boot!gMpuRegionConfig[1].c /\ ~Boot!gMpuRegionConfig[1].xn
      /\ Boot!gMpuRegionConfig[5].c /\ ~Boot!gMpuRegionConfig[5].xn
      /\ Boot!gMpuRegionConfig[3].c
  BY DEF Boot!gMpuRegionConfig, Boot!Row
<1>8. \A a \in {2592} \cup 2304..2319 : ~Boot!Attributes(a).c /\ Boot!Attributes(a).s
  BY <1>2, <1>3, <1>7
<1>9. \A a \in {0, 656, 1791} : ~Boot!Attributes(a).c
  BY <1>4, <1>7
<1>10. ~Boot!Attributes(2594).xn /\ ~Boot!Attributes(0).xn
  BY <1>4, <1>5, <1>7
<1>11. \A a \in 2593..2607 : Boot!Attributes(a).c
  <2>1. \A a \in 2593..2607 : a \in {2594, 2595} \/ a \in {2593} \cup 2596..2607
    OBVIOUS
  <2>2. QED
    BY <1>5, <1>6, <1>7, <2>1
<1>12. QED
  BY <1>1, <1>8, <1>9, <1>10, <1>11 DEF Boot!MemoryAsLinked

\* When code runs in DDR, caches and MPU are on, and vectors, code, data and the
\* memory shared with Linux have the attributes the link map needs: of the rows of
\* gMpuRegionConfig that overlap the last one decides, and it is the right one,
\* although setRegion computes an undefined mask for the row of 4 GB.
THEOREM LinkedMemory == MCSpec => []MemoryAsLinked
<1>1. MCInit => MapInv
  BY MapInvInit DEF MCInit
<1>2. QED
  BY <1>1, MapInvNext, MapIsLinked, PTL DEF MCSpec

\* The types of the start-up follow as well.
LEMMA BootTypes == MapInv => Boot!TypeOK
<1> SUFFICES ASSUME MapInv PROVE Boot!TypeOK
  OBVIOUS
<1> DEFINE Small(g) == g.base \in 0..4095 /\ g.log \in 0..12
<1>1. \A n \in 0..5 : Small(Boot!gMpuRegionConfig[n + 1])
  <2>1. Small(Boot!gMpuRegionConfig[1])
    BY DEF Boot!gMpuRegionConfig, Boot!Row
  <2>2. Small(Boot!gMpuRegionConfig[2])
    BY DEF Boot!gMpuRegionConfig, Boot!Row
  <2>3. Small(Boot!gMpuRegionConfig[3])
    BY DEF Boot!gMpuRegionConfig, Boot!Row
  <2>4. Small(Boot!gMpuRegionConfig[4])
    BY DEF Boot!gMpuRegionConfig, Boot!Row
  <2>5. Small(Boot!gMpuRegionConfig[5])
    BY DEF Boot!gMpuRegionConfig, Boot!Row
  <2>6. Small(Boot!gMpuRegionConfig[6])
    BY DEF Boot!gMpuRegionConfig, Boot!Row
  <2> HIDE DEF Small
  <2>7. QED
    BY <2>1, <2>2, <2>3, <2>4, <2>5, <2>6
<1>2. \A n \in Boot!RegionIds : Small(region[n])
  <2>1. Small(Boot!Unused)
    BY DEF Boot!Unused
  <2> HIDE DEF Small
  <2>2. \A n \in 0..5 : region[n] = Boot!Unused \/ region[n] = Boot!gMpuRegionConfig[n + 1]
    BY DEF MapInv, RegionsSet, InTable
  <2>3. \A n \in 6..15 : region[n] = Boot!Unused
    BY DEF MapInv, RegionsSet
  <2>4. \A n \in 0..15 : n \in 0..5 \/ n \in 6..15
    OBVIOUS
  <2>5. QED
    BY <1>1, <2>1, <2>2, <2>3, <2>4 DEF Boot!RegionIds
<1>3. loop \in 0 .. (IF Boot!numRegions > Lines THEN Boot!numRegions ELSE Lines)
  BY TableLength DEF MapInv, BootInv, Quiet
<1>4. r5 \in BootCore /\ bootPc \in BootPcs /\ early \in BOOLEAN
      /\ vim \in [enabled : SUBSET (0..Lines - 1), pending : SUBSET (0..Lines - 1)]
  BY DEF MapInv, BootInv, Kept, Quiet
<1>5. QED
  BY <1>2, <1>3, <1>4 DEF BootCore, BootPcs, Boot!TypeOK

HIDE CoreAssumption DEF BootPcs

-----------------------------------------------------------------------------
(* The trace buffer.  What it holds of the characters that were written,   *)
(* which lines a reader finds in it, and what the script makes of them.    *)

\* m is the largest number of s.
MaxIs(s, m) == m \in s /\ \A k \in s : k <= m

\* There is only one largest number.
LEMMA MaxUnique == ASSUME NEW s \in SUBSET Nat, NEW m, MaxIs(s, m) PROVE Trace!Max(s) = m
<1> DEFINE x == CHOOSE x \in s : \A y \in s : x >= y
<1>1. m \in s /\ \A y \in s : m >= y
  BY DEF MaxIs
<1>2. x \in s /\ \A y \in s : x >= y
  BY <1>1
<1>3. m \in Nat /\ x \in Nat /\ x >= m /\ m >= x
  BY <1>1, <1>2
<1>4. x = m
  BY <1>3
<1>5. QED
  BY <1>4 DEF Trace!Max

\* printf puts three characters, or the one of a line that is not complete, one
\* after the other.
LEMMA FoldThree ==
  ASSUME NEW b, NEW d, DOMAIN d = 1..3
  PROVE Trace!FoldLeft(Trace!Put, b, d) = Trace!Put(Trace!Put(Trace!Put(b, d[1]), d[2]), d[3])
<1> DEFINE F(f) == [s \in SUBSET DOMAIN d |->
                      IF s = {} THEN b ELSE Trace!Put(f[s \ {Trace!Max(s)}], d[Trace!Max(s)])]
           iter == CHOOSE f : f = F(f)
           one(s) == IF 1 \in s THEN Trace!Put(b, d[1]) ELSE b
           two(s) == IF 2 \in s THEN Trace!Put(one(s), d[2]) ELSE one(s)
           three(s) == IF 3 \in s THEN Trace!Put(two(s), d[3]) ELSE two(s)
           g == [s \in SUBSET DOMAIN d |-> three(s)]
<1>1. Trace!FoldLeft(Trace!Put, b, d) = iter[DOMAIN d]
  BY Zenon DEF Trace!FoldLeft, Trace!MapThenFoldSet
<1>2. ASSUME NEW s \in SUBSET (1..3)
      PROVE  three(s) = IF s = {} THEN b ELSE Trace!Put(three(s \ {Trace!Max(s)}), d[Trace!Max(s)])
  <2>1. CASE 3 \in s
    <3>1. Trace!Max(s) = 3
      BY <2>1, MaxUnique DEF MaxIs
    <3>2. QED
      BY <2>1, <3>1
  <2>2. CASE 3 \notin s /\ 2 \in s
    <3>1. Trace!Max(s) = 2
      BY <2>2, MaxUnique DEF MaxIs
    <3>2. QED
      BY <2>2, <3>1
  <2>3. CASE 3 \notin s /\ 2 \notin s /\ 1 \in s
    <3>1. Trace!Max(s) = 1
      BY <2>3, MaxUnique DEF MaxIs
    <3>2. QED
      BY <2>3, <3>1
  <2>4. CASE 3 \notin s /\ 2 \notin s /\ 1 \notin s
    BY <2>4
  <2>5. QED
    BY <2>1, <2>2, <2>3, <2>4
<1>3. \A s \in SUBSET (1..3) : s # {} => s \ {Trace!Max(s)} \in SUBSET (1..3)
  OBVIOUS
<1>4. g = F(g)
  <2> HIDE DEF three
  <2>1. QED
    BY <1>2, <1>3
<1> HIDE DEF g, F
<1>5. iter = F(iter)
  BY <1>4
<1> HIDE DEF iter
<1>6. Trace!Max(1..3) = 3 /\ Trace!Max(1..2) = 2 /\ Trace!Max({1}) = 1
  BY MaxUnique DEF MaxIs
<1>7. \A s \in SUBSET (1..3) : iter[s] = IF s = {} THEN b ELSE Trace!Put(iter[s \ {Trace!Max(s)}], d[Trace!Max(s)])
  BY <1>5 DEF F
<1>8. iter[{}] = b
  BY <1>7
<1>9. iter[{1}] = Trace!Put(b, d[1])
  BY <1>6, <1>7, <1>8
<1>10. iter[1..2] = Trace!Put(iter[{1}], d[2])
  <2>1. (1..2) \ {2} = {1}
    OBVIOUS
  <2>2. QED
    BY <1>6, <1>7, <2>1
<1>11. iter[1..3] = Trace!Put(iter[1..2], d[3])
  <2>1. (1..3) \ {3} = 1..2
    OBVIOUS
  <2>2. QED
    BY <1>6, <1>7, <2>1
<1>12. QED
  BY <1>1, <1>9, <1>10, <1>11

\* The same of one character.
LEMMA FoldOne ==
  ASSUME NEW b, NEW d, DOMAIN d = 1..1
  PROVE Trace!FoldLeft(Trace!Put, b, d) = Trace!Put(b, d[1])
<1> DEFINE F(f) == [s \in SUBSET DOMAIN d |->
                      IF s = {} THEN b ELSE Trace!Put(f[s \ {Trace!Max(s)}], d[Trace!Max(s)])]
           iter == CHOOSE f : f = F(f)
           g == [s \in SUBSET DOMAIN d |-> IF s = {} THEN b ELSE Trace!Put(b, d[1])]
<1>1. Trace!FoldLeft(Trace!Put, b, d) = iter[DOMAIN d]
  BY Zenon DEF Trace!FoldLeft, Trace!MapThenFoldSet
<1>2. Trace!Max({1}) = 1
  BY MaxUnique DEF MaxIs
<1>3. \A s \in SUBSET (1..1) : s # {} => s = {1} /\ s \ {1} = {}
  <2>1. 1..1 = {1}
    OBVIOUS
  <2>2. QED
    BY <2>1
<1>4. g = F(g)
  <2>1. \A s \in SUBSET (1..1) : s # {} =>
          Trace!Max(s) = 1 /\ s \ {Trace!Max(s)} = {} /\ {} \in SUBSET (1..1)
    BY <1>2, <1>3
  <2>2. QED
    BY <2>1
<1> HIDE DEF g, F
<1>5. iter = F(iter)
  BY <1>4
<1> HIDE DEF iter
<1>6. \A s \in SUBSET (1..1) : iter[s] = IF s = {} THEN b ELSE Trace!Put(iter[s \ {Trace!Max(s)}], d[Trace!Max(s)])
  BY <1>5 DEF F
<1>7. iter[{}] = b
  BY <1>6
<1>8. iter[1..1] = Trace!Put(b, d[1])
  <2>1. 1..1 = {1} /\ {1} \ {1} = {}
    OBVIOUS
  <2>2. QED
    BY <1>2, <1>6, <1>7, <2>1
<1>9. QED
  BY <1>1, <1>8

USE CoreAssumption

\* The division by the size of the buffer,
LEMMA DivMod == ASSUME NEW a \in Nat, NEW S \in Nat, S > 0
                PROVE  /\ a \div S \in Nat /\ a % S \in 0 .. S - 1
                       /\ a = S * (a \div S) + (a % S)
  BY Z3

\* whose results are the only ones,
LEMMA ModUnique == ASSUME NEW S \in Nat, S > 0, NEW q \in Nat, NEW r \in 0 .. S - 1
                   PROVE  (S * q + r) % S = r
  BY Z3

\* one step on,
LEMMA ModStep == ASSUME NEW a \in Nat, NEW S \in Nat, S > 1
                 PROVE  (a + 1) % S = IF (a % S) + 1 >= S THEN 0 ELSE (a % S) + 1
<1> DEFINE q == a \div S
           r == a % S
<1>1. q \in Nat /\ r \in 0 .. S - 1 /\ a = S * q + r
  BY DivMod
<1> HIDE DEF q, r
<1>2. CASE r + 1 >= S
  <2>1. a + 1 = S * (q + 1) + 0
    BY <1>1, <1>2
  <2>2. q + 1 \in Nat /\ 0 \in 0 .. S - 1 /\ S > 0
    BY <1>1
  <2>3. (S * (q + 1) + 0) % S = 0
    BY <2>2, ModUnique, Zenon
  <2>4. (a + 1) % S = 0
    <3>1. S * (q + 1) + 0 = S * (q + 1)
      BY <1>1
    <3>2. QED
      BY <2>1, <2>3, <3>1
  <2>5. QED
    BY <1>2, <2>4, Zenon DEF r
<1>3. CASE r + 1 < S
  <2>1. a + 1 = S * q + (r + 1) /\ r + 1 \in 0 .. S - 1
    BY <1>1, <1>3
  <2>2. (a + 1) % S = r + 1
    BY <1>1, <2>1, ModUnique
  <2>3. QED
    BY <1>1, <1>3, <2>2 DEF r
<1>4. QED
  BY <1>1, <1>2, <1>3

\* and at two positions less than the size apart.
LEMMA ModApart == ASSUME NEW S \in Nat, S > 0, NEW a \in Nat, NEW b \in Nat, a < b, b - a < S
                  PROVE  a % S # b % S
<1> SUFFICES ASSUME a % S = b % S PROVE FALSE
  OBVIOUS
<1> DEFINE p == a \div S
           q == b \div S
<1>1. p \in Nat /\ q \in Nat /\ b - a = S * q - S * p
  BY DivMod
<1> HIDE DEF p, q
<1>2. S * q - S * p = S * (q - p)
  BY <1>1
<1>3. q - p > 0
  BY <1>1, <1>2
<1>4. S * (q - p) >= S
  BY <1>1, <1>3
<1>5. QED
  BY <1>1, <1>2, <1>4

\* The first w characters.
Texts(w) == {Trace!Char(i) : i \in 1..w}

\* Buffer b of the R5 after w characters.
Ring(b, w) ==
    /\ b = [mem |-> b.mem, next |-> w % Size]
    /\ b.mem = [i \in 0 .. Size - 1 |-> b.mem[i]]
    /\ \A i \in Nat : i < w /\ w - i <= Size => b.mem[i % Size] = Trace!Char(i + 1)
    /\ \A i \in 0 .. Size - 1 : i < w => b.mem[i] \in Texts(w)
    /\ \A i \in 0 .. Size - 1 : ~(i < w) => b.mem[i] = Trace!Nul

\* The R5 writes round its buffer.
LEMMA PutRoundKeeps ==
  ASSUME NEW b, NEW w \in Nat, Ring(b, w)
  PROVE  Ring(Trace!PutRound(b, Trace!Char(w + 1)), w + 1)
<1> DEFINE p == w % Size
           d == Trace!PutRound(b, Trace!Char(w + 1))
<1>1. p \in 0 .. Size - 1
  BY DivMod
<1>2. b.next = p /\ b.mem = [i \in 0 .. Size - 1 |-> b.mem[i]]
  BY DEF Ring
<1>3. (w + 1) % Size = IF p + 1 >= Size THEN 0 ELSE p + 1
  <2>1. Size \in Nat /\ Size > 1
    OBVIOUS
  <2>2. QED
    BY <2>1, ModStep, Zenon
<1>4. d.next = (w + 1) % Size /\ d.mem = [b.mem EXCEPT ![p] = Trace!Char(w + 1)]
      /\ d = [mem |-> d.mem, next |-> d.next]
  <2>1. d = [mem |-> [b.mem EXCEPT ![p] = Trace!Char(w + 1)],
             next |-> IF p + 1 >= Size THEN 0 ELSE p + 1]
    BY <1>2, Zenon DEF Trace!PutRound
  <2> HIDE DEF p
  <2>2. QED
    BY <1>3, <2>1
<1> HIDE DEF d, p
<1>5. d.mem = [i \in 0 .. Size - 1 |-> d.mem[i]]
  BY <1>2, <1>4
<1>6. d.mem[p] = Trace!Char(w + 1) /\ \A i \in 0 .. Size - 1 : i # p => d.mem[i] = b.mem[i]
  BY <1>1, <1>2, <1>4
<1>7. ASSUME NEW i \in Nat, i < w + 1, w + 1 - i <= Size
      PROVE  d.mem[i % Size] = Trace!Char(i + 1)
  <2>1. CASE i = w
    BY <1>6, <2>1 DEF p
  <2>2. CASE i < w
    <3>1. i % Size # p /\ i % Size \in 0 .. Size - 1
      BY <1>7, <2>2, ModApart, DivMod DEF p
    <3>2. b.mem[i % Size] = Trace!Char(i + 1)
      <4>1. i < w /\ w - i <= Size
        BY <1>7, <2>2
      <4>2. QED
        BY <4>1, Zenon DEF Ring
    <3>3. QED
      BY <1>6, <3>1, <3>2
  <2>3. QED
    BY <1>7, <2>1, <2>2
<1>8. \A i \in 0 .. Size - 1 : i = w => p = i
  <2>1. ASSUME w \in 0 .. Size - 1 PROVE p = w
    <3>1. w = Size * 0 + w
      OBVIOUS
    <3>2. QED
      BY <2>1, <3>1, ModUnique DEF p
  <2>2. QED
    BY <2>1
<1>9. ASSUME NEW i \in 0 .. Size - 1, ~(i < w + 1) PROVE d.mem[i] = Trace!Nul
  <2>1. w \in 0 .. Size - 1 /\ ~(i < w) /\ i # w
    BY <1>9
  <2>2. i # p
    BY <1>8, <2>1
  <2>3. QED
    BY <1>6, <2>1, <2>2 DEF Ring
<1>10. ASSUME NEW i \in 0 .. Size - 1, i < w + 1 PROVE d.mem[i] \in Texts(w + 1)
  <2>1. Trace!Char(w + 1) \in Texts(w + 1) /\ Texts(w) \subseteq Texts(w + 1)
    BY DEF Texts
  <2>2. i = p \/ (i # p /\ i < w)
    BY <1>8, <1>10
  <2>3. i # p /\ i < w => b.mem[i] \in Texts(w)
    BY DEF Ring
  <2>4. QED
    BY <1>6, <2>1, <2>2, <2>3
<1>11. QED
  BY <1>4, <1>5, <1>7, <1>9, <1>10 DEF Ring, d

\* Buffer b of a PRU after w characters: the first Size - 1 of them.
First(w) == IF w < Size THEN w ELSE Size - 1
Filled(b, w) ==
    /\ b = [mem |-> b.mem, next |-> First(w)]
    /\ b.mem = [i \in 0 .. Size - 1 |-> b.mem[i]]
    /\ \A i \in 0 .. Size - 1 :
         b.mem[i] = IF i < First(w) THEN Trace!Char(i + 1) ELSE Trace!Nul

\* The PRU stops writing when one byte is left.
LEMMA PutUntilFullKeeps ==
  ASSUME NEW b, NEW w \in Nat, Filled(b, w)
  PROVE  Filled(Trace!PutUntilFull(b, Trace!Char(w + 1)), w + 1)
<1>1. CASE First(w) >= Size - 1
  <2>1. First(w) = Size - 1 /\ First(w + 1) = Size - 1
    BY <1>1 DEF First
  <2>2. Trace!PutUntilFull(b, Trace!Char(w + 1)) = b
    BY <1>1 DEF Trace!PutUntilFull, Filled
  <2>3. QED
    BY <2>1, <2>2 DEF Filled
<1>2. CASE First(w) < Size - 1
  <2> DEFINE d == Trace!PutUntilFull(b, Trace!Char(w + 1))
  <2>1. First(w) = w /\ w < Size - 1 /\ First(w + 1) = w + 1 /\ b.next = w
    BY <1>2 DEF First, Filled
  <2>2. b.mem = [i \in 0 .. Size - 1 |-> b.mem[i]]
    BY DEF Filled
  <2>3. d = [mem |-> [[b.mem EXCEPT ![w] = Trace!Char(w + 1)] EXCEPT ![w + 1] = Trace!Nul],
             next |-> w + 1]
    BY <2>1 DEF Trace!PutUntilFull
  <2> HIDE DEF d
  <2>4. d = [mem |-> d.mem, next |-> w + 1]
    BY <2>3
  <2>5. d.mem = [i \in 0 .. Size - 1 |-> d.mem[i]]
    BY <2>2, <2>3
  <2>6. \A i \in 0 .. Size - 1 : d.mem[i] = IF i = w + 1 THEN Trace!Nul
                                          ELSE IF i = w THEN Trace!Char(w + 1) ELSE b.mem[i]
    BY <2>1, <2>2, <2>3
  <2>7. \A i \in 0 .. Size - 1 :
          d.mem[i] = IF i < First(w + 1) THEN Trace!Char(i + 1) ELSE Trace!Nul
    BY <2>1, <2>6 DEF Filled
  <2>8. QED
    BY <2>1, <2>4, <2>5, <2>7 DEF Filled, d
<1>3. QED
  BY <1>1, <1>2 DEF First

\* The characters of all lines.
Glyphs == {Trace!Char(i) : i \in Nat}

\* What has been written, and what the buffer holds of it.
LogInv ==
    /\ core \in {"R5", "PRU"}
    /\ written \in Seq(Glyphs) /\ Len(written) <= 3 * MaxLines
    /\ \A i \in 1 .. Len(written) : written[i] = Trace!Char(i)
    /\ core = "R5" => Len(written) % 3 = 0 /\ Ring(log, Len(written))
    /\ core = "PRU" => Filled(log, Len(written))

\* The buffer of a core that starts is empty.
LEMMA LogInvEmpty == Ring(Trace!Empty, 0) /\ Filled(Trace!Empty, 0)
<1>1. 0 = Size * 0 + 0 /\ 0 \in 0 .. Size - 1 /\ Size > 0
  OBVIOUS
<1>2. 0 % Size = 0
  BY <1>1, ModUnique
<1>3. First(0) = 0
  BY DEF First
<1>4. QED
  BY <1>2, <1>3 DEF Ring, Filled, Trace!Empty, Texts

\* Every printf keeps the invariant.
LEMMA LogInvWrite == LogInv /\ Trace!Write => LogInv'
<1> SUFFICES ASSUME LogInv, Trace!Write PROVE LogInv'
  OBVIOUS
<1> DEFINE w == Len(written)
           n == IF core = "R5" THEN 3 ELSE 1
           data == [i \in 1..n |-> Trace!Char(w + i)]
<1>1. w \in Nat /\ w < 3 * MaxLines /\ core' = core /\ core \in {"R5", "PRU"}
  BY DEF LogInv, Trace!Write, Trace!Newline
<1>2. log' = Trace!FoldLeft(Trace!Put, log, data) /\ written' = written \o data
  BY DEF Trace!Write, Trace!Newline
<1>3. data \in Seq(Glyphs) /\ Len(data) = n
  BY <1>1 DEF Glyphs
<1>4. written' \in Seq(Glyphs) /\ Len(written') = w + n
  BY <1>2, <1>3 DEF LogInv
<1>5. ASSUME NEW i \in 1 .. Len(written') PROVE written'[i] = Trace!Char(i)
  <2>1. CASE i <= w
    BY <1>1, <1>2, <1>3, <1>4, <1>5, <2>1 DEF LogInv
  <2>2. CASE i > w
    <3>1. written'[i] = data[i - w] /\ i - w \in 1..n
      BY <1>1, <1>2, <1>3, <1>4, <1>5, <2>2 DEF LogInv
    <3>2. data[i - w] = Trace!Char(w + (i - w))
      BY <3>1
    <3>3. w + (i - w) = i
      BY <1>1, <1>4, <1>5
    <3>4. QED
      BY <3>1, <3>2, <3>3
  <2>3. QED
    BY <1>1, <1>4, <1>5, <2>1, <2>2
<1>6. CASE core = "R5"
  <2>1. Ring(log, w) /\ w % 3 = 0
    BY <1>6 DEF LogInv
  <2>2. \A b, c : Trace!Put(b, c) = Trace!PutRound(b, c)
    BY <1>6 DEF Trace!Put
  <2>3. DOMAIN data = 1..3 /\ data[1] = Trace!Char(w + 1) /\ data[2] = Trace!Char((w + 1) + 1)
        /\ data[3] = Trace!Char(((w + 1) + 1) + 1)
    <3>1. w + 2 = (w + 1) + 1 /\ w + 3 = ((w + 1) + 1) + 1
      BY <1>1
    <3>2. QED
      BY <1>6, <3>1
  <2> HIDE DEF data, w
  <2>4. log' = Trace!Put(Trace!Put(Trace!Put(log, data[1]), data[2]), data[3])
    BY <1>2, <2>3, FoldThree
  <2>5. log' = Trace!PutRound(Trace!PutRound(Trace!PutRound(log, Trace!Char(w + 1)),
                 Trace!Char((w + 1) + 1)), Trace!Char(((w + 1) + 1) + 1))
    BY <2>2, <2>3, <2>4, Zenon
  <2>6. w + 1 \in Nat /\ (w + 1) + 1 \in Nat /\ ((w + 1) + 1) + 1 = w + 3
    BY <1>1
  <2>7. Ring(Trace!PutRound(log, Trace!Char(w + 1)), w + 1)
    BY <1>1, <2>1, PutRoundKeeps
  <2>8. Ring(Trace!PutRound(Trace!PutRound(log, Trace!Char(w + 1)), Trace!Char((w + 1) + 1)),
             (w + 1) + 1)
    BY <2>6, <2>7, PutRoundKeeps, Zenon
  <2>9. Ring(log', ((w + 1) + 1) + 1)
    BY <2>5, <2>6, <2>8, PutRoundKeeps, Zenon
  <2>10. Ring(log', w + 3)
    BY <2>6, <2>9
  <2>11. (w + 3) % 3 = 0 /\ w + 3 <= 3 * MaxLines
    BY <1>1, <2>1
  <2>12. Len(written') = w + 3
    BY <1>4, <1>6
  <2>13. QED
    BY <1>1, <1>4, <1>5, <1>6, <2>10, <2>11, <2>12 DEF LogInv
<1>7. CASE core = "PRU"
  <2>1. Filled(log, w)
    BY <1>7 DEF LogInv
  <2>2. \A b, c : Trace!Put(b, c) = Trace!PutUntilFull(b, c)
    BY <1>7 DEF Trace!Put
  <2>3. DOMAIN data = 1..1 /\ data[1] = Trace!Char(w + 1) /\ n = 1
    BY <1>7
  <2> HIDE DEF data, w, n
  <2>4. log' = Trace!PutUntilFull(log, Trace!Char(w + 1))
    BY <1>2, <2>2, <2>3, FoldOne
  <2>5. Filled(log', w + 1)
    BY <1>1, <2>1, <2>4, PutUntilFullKeeps
  <2>6. Len(written') = w + 1
    BY <1>4, <2>3
  <2>7. QED
    BY <1>1, <1>4, <1>5, <1>7, <2>5, <2>6 DEF LogInv
<1>8. QED
  BY <1>1, <1>6, <1>7

\* How many characters the kernel shows, while the buffer of an R5 has not run over.
Shown == IF core = "R5" THEN Len(written) ELSE First(Len(written))

\* No character that is written is a NUL.
LEMMA CharNotNul == \A i \in Nat : i >= 1 => Trace!Char(i) # Trace!Nul
  BY DEF Trace!Char, Trace!Nul, Trace!Newline

\* What the kernel shows: what has been written, unless the buffer has run over.
LEMMA VisibleIs ==
  ASSUME LogInv, core = "R5" => Len(written) <= Size
  PROVE  /\ Shown \in 0 .. Size /\ Shown <= Len(written)
         /\ Trace!Visible = [i \in 1 .. Shown |-> Trace!Char(i)]
<1> DEFINE w == Len(written)
           nuls == {i \in 0 .. Size - 1 : log.mem[i] = Trace!Nul}
           end == IF nuls = {} THEN Size ELSE CHOOSE i \in nuls : \A k \in nuls : i <= k
<1>1. w \in Nat /\ core \in {"R5", "PRU"}
  BY DEF LogInv
<1>2. Shown \in 0 .. Size /\ Shown <= w
  BY <1>1 DEF Shown, First
<1>3. \A i \in 0 .. Size - 1 :
         log.mem[i] = IF i < Shown THEN Trace!Char(i + 1) ELSE Trace!Nul
  <2>1. CASE core = "R5"
    <3>1. Shown = w /\ w <= Size /\ Ring(log, w)
      BY <2>1 DEF LogInv, Shown
    <3>2. ASSUME NEW i \in 0 .. Size - 1, i < w PROVE log.mem[i] = Trace!Char(i + 1)
      <4>1. i \in Nat /\ w - i <= Size
        BY <1>1, <3>1
      <4>2. log.mem[i % Size] = Trace!Char(i + 1)
        BY <3>1, <3>2, <4>1, Zenon DEF Ring
      <4>3. i % Size = i
        BY <3>2
      <4>4. QED
        BY <4>2, <4>3
    <3>3. \A i \in 0 .. Size - 1 : ~(i < w) => log.mem[i] = Trace!Nul
      BY <1>1, <3>1 DEF Ring
    <3>4. QED
      BY <3>1, <3>2, <3>3
  <2>2. CASE core = "PRU"
    BY <2>2 DEF LogInv, Shown, Filled
  <2>3. QED
    BY <1>1, <2>1, <2>2
<1>4. \A i \in 0 .. Size - 1 : i \in nuls <=> ~(i < Shown)
  BY <1>2, <1>3, CharNotNul
<1>5. end = Shown
  <2>1. CASE Shown = Size
    <3>1. nuls = {}
      BY <1>4, <2>1
    <3>2. QED
      BY <2>1, <3>1
  <2>2. CASE Shown < Size
    <3> HIDE DEF nuls
    <3>1. nuls \subseteq 0 .. Size - 1
      BY DEF nuls
    <3>2. Shown \in nuls /\ \A k \in nuls : Shown <= k
      BY <1>2, <1>4, <2>2, <3>1
    <3>3. \A i \in nuls : (\A k \in nuls : i <= k) => i = Shown
      BY <1>2, <3>1, <3>2
    <3>4. (CHOOSE i \in nuls : \A k \in nuls : i <= k) = Shown
      BY <3>2, <3>3
    <3>5. QED
      BY <3>2, <3>4
  <2>3. Shown = Size \/ Shown < Size
    BY <1>2
  <2>4. QED
    BY <2>1, <2>2, <2>3, Zenon
<1>6. Trace!Visible = [i \in 1 .. end |-> log.mem[i - 1]]
  BY DEF Trace!Visible
<1> HIDE DEF end
<1>7. \A i \in 1 .. Shown : log.mem[i - 1] = Trace!Char(i)
  <2> SUFFICES ASSUME NEW i \in 1 .. Shown PROVE log.mem[i - 1] = Trace!Char(i)
    OBVIOUS
  <2> DEFINE j == i - 1
  <2>1. j \in 0 .. Size - 1 /\ j < Shown /\ j + 1 = i
    BY <1>2
  <2> HIDE DEF j
  <2>2. log.mem[j] = Trace!Char(j + 1)
    BY <1>3, <2>1, Zenon
  <2>3. QED
    BY <2>1, <2>2 DEF j
<1>8. QED
  BY <1>2, <1>5, <1>6, <1>7

\* An R5 keeps the last characters and a PRU the first ones.
LEMMA EndIsKept == LogInv => Trace!LogKeepsItsEnd
<1> SUFFICES ASSUME LogInv PROVE Trace!LogKeepsItsEnd
  OBVIOUS
<1> DEFINE w == Len(written)
<1>1. w \in Nat /\ core \in {"R5", "PRU"} /\ DOMAIN written = 1..w
  BY DEF LogInv
<1>2. CASE core = "R5"
  <2>1. ASSUME NEW i \in DOMAIN written, w - i < Size
        PROVE  log.mem[(i - 1) % Size] = written[i]
    <3>1. i - 1 \in Nat /\ i - 1 < w /\ w - (i - 1) <= Size /\ (i - 1) + 1 = i
      BY <1>1, <2>1
    <3>2. log.mem[(i - 1) % Size] = Trace!Char((i - 1) + 1)
      BY <1>2, <3>1, Zenon DEF LogInv, Ring
    <3>3. written[i] = Trace!Char(i)
      BY <1>1 DEF LogInv
    <3>4. QED
      BY <3>1, <3>2, <3>3
  <2>2. QED
    BY <1>2, <2>1 DEF Trace!LogKeepsItsEnd
<1>3. CASE core = "PRU"
  <2>1. log.mem[Size - 1] = Trace!Nul
    <3>1. Size - 1 \in 0 .. Size - 1 /\ ~(Size - 1 < First(w))
      BY <1>1 DEF First
    <3>2. QED
      BY <1>3, <3>1, Zenon DEF LogInv, Filled
  <2>2. Shown \in Nat /\ Shown <= w /\ Trace!Visible = [i \in 1 .. Shown |-> Trace!Char(i)]
    BY <1>3, VisibleIs
  <2>3. Len(Trace!Visible) = Shown
    BY <2>2
  <2>4. SubSeq(Trace!Visible, 1, Shown) = [i \in 1 .. Shown |-> Trace!Char(i)]
    BY <2>2
  <2>5. SubSeq(written, 1, Shown) = [i \in 1 .. Shown |-> Trace!Char(i)]
    BY <1>1, <2>2 DEF LogInv
  <2>6. Shown <= w
    BY <2>2
  <2>7. Trace!IsPrefix(Trace!Visible, written)
    BY <2>3, <2>4, <2>5, <2>6, Zenon DEF Trace!IsPrefix
  <2>8. core # "R5"
    BY <1>3
  <2>9. QED
    BY <2>1, <2>7, <2>8 DEF Trace!LogKeepsItsEnd
<1>4. QED
  BY <1>1, <1>2, <1>3

\* The positions after which splitlines cuts, and the k-th of them.
NewlinesIn(s) == {i \in DOMAIN s : s[i][2] = 3}
Cuts(s) == NewlinesIn(s) \cup IF s # <<>> /\ Len(s) \notin NewlinesIn(s) THEN {Len(s) + 1} ELSE {}
UpTo(c, i) == {j \in c : j <= i}
Cut(c, k) == CHOOSE i \in {0} \cup c : Trace!Cardinality(UpTo(c, i)) = k

\* splitlines in these terms.
LEMMA SplitIs ==
  ASSUME NEW s
  PROVE  Trace!SplitLines(s) =
           [k \in 1 .. Trace!Cardinality(Cuts(s)) |->
              SubSeq(s, Cut(Cuts(s), k - 1) + 1, Cut(Cuts(s), k) - 1)]
  BY Zenon DEF Trace!SplitLines, Trace!Newline, Cuts, NewlinesIn, Cut, UpTo

\* The library has one cardinality.
LEMMA CardIs == \A x : Trace!Cardinality(x) = Cardinality(x)
  BY DEF Trace!Cardinality, Cardinality

\* Of n positive numbers each has its rank, and each rank up to n its number.
LEMMA RankExists ==
  ASSUME NEW c \in SUBSET (Nat \ {0}), IsFiniteSet(c), NEW k \in 0 .. Cardinality(c)
  PROVE  Cut(c, k) \in {0} \cup c /\ Cardinality(UpTo(c, Cut(c, k))) = k
<1> DEFINE n == Cardinality(c)
           rank == [i \in c |-> Cardinality(UpTo(c, i))]
<1>0. \A i \in c : i \in Nat /\ i >= 1
  OBVIOUS
<1>1. n \in Nat /\ IsFiniteSet(1..n) /\ Cardinality(1..n) = n
  BY FS_CardinalityType, FS_Interval
<1>2. \A i \in c : /\ UpTo(c, i) \in SUBSET c /\ IsFiniteSet(UpTo(c, i)) /\ i \in UpTo(c, i)
                   /\ Cardinality(UpTo(c, i)) \in 1..n
  <2> SUFFICES ASSUME NEW i \in c
               PROVE  /\ UpTo(c, i) \in SUBSET c /\ IsFiniteSet(UpTo(c, i)) /\ i \in UpTo(c, i)
                      /\ Cardinality(UpTo(c, i)) \in 1..n
    OBVIOUS
  <2>1. UpTo(c, i) \in SUBSET c /\ i \in UpTo(c, i)
    BY DEF UpTo
  <2>2. IsFiniteSet(UpTo(c, i)) /\ Cardinality(UpTo(c, i)) <= n
    BY <2>1, FS_Subset
  <2>3. Cardinality(UpTo(c, i)) \in Nat /\ Cardinality(UpTo(c, i)) # 0
    BY <2>1, <2>2, FS_CardinalityType, FS_EmptySet
  <2>4. QED
    BY <1>1, <2>1, <2>2, <2>3
<1>3. ASSUME NEW i \in c, NEW j \in c, i < j PROVE rank[i] # rank[j]
  <2>1. UpTo(c, i) \in SUBSET UpTo(c, j) /\ UpTo(c, i) # UpTo(c, j)
    <3>1. j \notin UpTo(c, i)
      BY <1>3 DEF UpTo
    <3>2. UpTo(c, i) \subseteq UpTo(c, j)
      <4>1. \A x \in c : x <= i => x <= j
        BY <1>0, <1>3
      <4>2. QED
        BY <4>1 DEF UpTo
    <3>3. QED
      BY <1>2, <3>1, <3>2
  <2>2. Cardinality(UpTo(c, i)) # Cardinality(UpTo(c, j))
    BY <1>2, <2>1, FS_Subset
  <2>3. QED
    BY <2>2
<1>4. rank \in Injection(c, 1..n)
  <2>1. rank \in [c -> 1..n]
    BY <1>2
  <2>2. \A i, j \in c : i # j => i < j \/ j < i
    OBVIOUS
  <2>3. \A i, j \in c : rank[i] = rank[j] => i = j
    BY <1>3, <2>2
  <2> HIDE DEF rank
  <2>4. QED
    BY <2>1, <2>3 DEF Injection, IsInjective
<1>5. rank \in Surjection(c, 1..n)
  BY <1>1, <1>4, FS_Injection
<1>6. \E i \in {0} \cup c : Cardinality(UpTo(c, i)) = k
  <2>1. CASE k = 0
    <3>1. UpTo(c, 0) = {}
      <4>1. \A x \in c : ~(x <= 0)
        BY <1>0
      <4>2. QED
        BY <4>1 DEF UpTo
    <3>2. QED
      BY <2>1, <3>1, FS_EmptySet
  <2>2. CASE k # 0
    <3>1. k \in 1..n
      BY <1>1, <2>2
    <3>2. PICK i \in c : rank[i] = k
      BY <1>5, <3>1 DEF Surjection
    <3>3. QED
      BY <3>2
  <2>3. QED
    BY <2>1, <2>2
<1>7. QED
  BY <1>6, CardIs DEF Cut

\* A text has finitely many cuts.
LEMMA CutsFinite ==
  ASSUME NEW T, NEW s \in Seq(T)
  PROVE  /\ Cuts(s) \in SUBSET (1 .. Len(s) + 1) /\ Cuts(s) \in SUBSET (Nat \ {0})
         /\ IsFiniteSet(Cuts(s)) /\ Cardinality(Cuts(s)) \in Nat
<1>1. Len(s) \in Nat /\ DOMAIN s = 1 .. Len(s)
  OBVIOUS
<1>2. Cuts(s) \subseteq 1 .. Len(s) + 1
  BY <1>1 DEF Cuts, NewlinesIn
<1>3. IsFiniteSet(1 .. Len(s) + 1)
  BY <1>1, FS_Interval
<1>4. IsFiniteSet(Cuts(s)) /\ Cardinality(Cuts(s)) \in Nat
  BY <1>2, <1>3, FS_Subset, FS_CardinalityType
<1>5. 1 .. Len(s) + 1 \subseteq Nat \ {0}
  BY <1>1
<1>6. QED
  BY <1>2, <1>4, <1>5

\* Whatever the text, its lines are texts of the same characters.
LEMMA SplitAny ==
  ASSUME NEW T, NEW s \in Seq(T)
  PROVE  Trace!SplitLines(s) \in Seq(Seq(T))
<1> DEFINE c == Cuts(s)
           n == Cardinality(c)
           line(k) == SubSeq(s, Cut(c, k - 1) + 1, Cut(c, k) - 1)
<1>1. n \in Nat /\ c \in SUBSET (1 .. Len(s) + 1) /\ Len(s) \in Nat
  BY CutsFinite
<1>2. \A k \in 0..n : Cut(c, k) \in 0 .. Len(s) + 1
  <2>1. \A k \in 0..n : Cut(c, k) \in {0} \cup c
    BY CutsFinite, RankExists
  <2>2. \A x \in {0} \cup c : x \in 0 .. Len(s) + 1
    BY <1>1
  <2> HIDE DEF c, n
  <2>3. QED
    BY <2>1, <2>2
<1>3. \A k \in 1..n : line(k) \in Seq(T)
  <2> HIDE DEF c, n
  <2> SUFFICES ASSUME NEW k \in 1..n PROVE line(k) \in Seq(T)
    OBVIOUS
  <2> DEFINE a == Cut(c, k - 1)
             b == Cut(c, k)
  <2>1. a \in 0 .. Len(s) + 1 /\ b \in 0 .. Len(s) + 1
    BY <1>1, <1>2
  <2> HIDE DEF a, b
  <2>2. SubSeq(s, a + 1, b - 1) \in Seq(T)
    <3>1. \A i \in a + 1 .. b - 1 : i \in 1 .. Len(s) /\ s[i] \in T
      BY <1>1, <2>1
    <3>2. QED
      BY <1>1, <2>1, <3>1, SubSeqProperties
  <2>3. QED
    BY <2>2 DEF a, b
<1>4. Trace!SplitLines(s) = [k \in 1..n |-> line(k)]
  BY SplitIs, CardIs
<1> HIDE DEF n, c, line
<1>5. QED
  BY <1>1, <1>3, <1>4

\* The k-th line of the first n glyphs ends before position At(n, k).
At(n, k) == IF 3 * k <= n THEN 3 * k ELSE n + 1
LinesIn(n) == (n + 2) \div 3

\* The lines end one after the other.
LEMMA AtGrows ==
  ASSUME NEW n \in Nat
  PROVE  /\ LinesIn(n) \in Nat /\ At(n, 0) = 0
         /\ \A k \in 1 .. LinesIn(n) : /\ At(n, k) \in 1 .. n + 1 /\ At(n, k - 1) = 3 * (k - 1)
                                       /\ At(n, k) >= 3 * k - 1 /\ At(n, k) <= 3 * k
         /\ \A j, k \in 0 .. LinesIn(n) : j < k <=> At(n, j) < At(n, k)
  BY DEF At, LinesIn

\* These are the cuts of the first n glyphs,
LEMMA CutsOfGlyphs ==
  ASSUME NEW n \in Nat, NEW s, s = [i \in 1..n |-> Trace!Char(i)]
  PROVE  Cuts(s) = {At(n, k) : k \in 1 .. LinesIn(n)}
<1>1. DOMAIN s = 1..n /\ Len(s) = n /\ (s = <<>> <=> n = 0)
  OBVIOUS
<1>2. NewlinesIn(s) = {i \in 1..n : i % 3 = 0}
  <2>1. \A i \in 1..n : s[i][2] = ((i - 1) % 3) + 1
    BY DEF Trace!Char, Trace!Newline
  <2>2. \A i \in 1..n : ((i - 1) % 3) + 1 = 3 <=> i % 3 = 0
    OBVIOUS
  <2>3. QED
    BY <1>1, <2>1, <2>2 DEF NewlinesIn
<1>3. Cuts(s) = {i \in 1..n : i % 3 = 0} \cup IF n % 3 # 0 THEN {n + 1} ELSE {}
  BY <1>1, <1>2 DEF Cuts
<1>4. \A i \in Cuts(s) : \E k \in 1 .. LinesIn(n) : i = At(n, k)
  <2> SUFFICES ASSUME NEW i \in Cuts(s) PROVE \E k \in 1 .. LinesIn(n) : i = At(n, k)
    OBVIOUS
  <2>1. CASE i \in 1..n /\ i % 3 = 0
    <3>1. i = At(n, i \div 3) /\ i \div 3 \in 1 .. LinesIn(n)
      BY <2>1 DEF At, LinesIn
    <3>2. QED
      BY <3>1
  <2>2. CASE n % 3 # 0 /\ i = n + 1
    <3>1. i = At(n, LinesIn(n)) /\ LinesIn(n) \in 1 .. LinesIn(n)
      BY <2>2 DEF At, LinesIn
    <3>2. QED
      BY <3>1
  <2>3. QED
    BY <1>3, <2>1, <2>2
<1>5. \A k \in 1 .. LinesIn(n) : At(n, k) \in Cuts(s)
  BY <1>3 DEF At, LinesIn
<1>6. QED
  BY <1>4, <1>5

\* in this order.
LEMMA CutOfGlyphs ==
  ASSUME NEW n \in Nat, NEW s, s = [i \in 1..n |-> Trace!Char(i)], NEW k \in 0 .. LinesIn(n)
  PROVE  /\ Cut(Cuts(s), k) = At(n, k)
         /\ Cardinality(Cuts(s)) = LinesIn(n)
<1> DEFINE c == Cuts(s)
           m == LinesIn(n)
           upTo(j) == {At(n, i) : i \in 1..j}
<1>1. m \in Nat /\ c = {At(n, i) : i \in 1..m}
  BY AtGrows, CutsOfGlyphs
<1> HIDE DEF c, m
<1>2. \A j \in 0..m : Cardinality(upTo(j)) = j
  <2> SUFFICES ASSUME NEW j \in 0..m PROVE Cardinality(upTo(j)) = j
    OBVIOUS
  <2> DEFINE f == [i \in 1..j |-> At(n, i)]
  <2>1. f \in [1..j -> upTo(j)]
    OBVIOUS
  <2>2. \A a, b \in 1..j : f[a] = f[b] => a = b
    <3>1. \A a, b \in 0..m : a < b <=> At(n, a) < At(n, b)
      BY AtGrows DEF m
    <3>2. \A a, b \in 1..j : At(n, a) = At(n, b) => ~(a < b) /\ ~(b < a)
      BY <1>1, <3>1
    <3>3. \A a, b \in 1..j : ~(a < b) /\ ~(b < a) => a = b
      BY <1>1
    <3>4. QED
      BY <3>2, <3>3
  <2>3. \A y \in upTo(j) : \E i \in 1..j : f[i] = y
    OBVIOUS
  <2> HIDE DEF f
  <2>4. f \in Bijection(1..j, upTo(j))
    BY <2>1, <2>2, <2>3 DEF Bijection, Injection, Surjection, IsInjective
  <2> HIDE DEF upTo
  <2>5. ExistsBijection(1..j, upTo(j))
    BY <2>4, Fun_ExistsBij
  <2>6. j \in Nat
    BY <1>1
  <2>7. QED
    BY <2>5, <2>6, FS_CountingElements
<1>3. \A j \in 0..m : UpTo(c, At(n, j)) = upTo(j)
  <2> SUFFICES ASSUME NEW j \in 0..m PROVE UpTo(c, At(n, j)) = upTo(j)
    OBVIOUS
  <2>1. \A i \in 1..m : At(n, i) <= At(n, j) <=> i <= j
    <3>1. \A a, b \in 0..m : a < b <=> At(n, a) < At(n, b)
      BY AtGrows DEF m
    <3>2. \A a \in 0..m : At(n, a) \in Nat
      <4>1. At(n, 0) = 0 /\ \A a \in 1..m : At(n, a) \in 1 .. n + 1
        BY AtGrows DEF m
      <4>2. \A a \in 0..m : a = 0 \/ a \in 1..m
        BY <1>1
      <4>3. QED
        BY <4>1, <4>2
    <3>3. QED
      BY <1>1, <3>1, <3>2
  <2>2. QED
    BY <1>1, <2>1 DEF UpTo
<1>4. Cardinality(c) = m
  BY <1>1, <1>2
<1>5. Cut(c, k) \in {0} \cup c /\ Cardinality(UpTo(c, Cut(c, k))) = k
  <2>1. s \in Seq(Glyphs)
    BY DEF Glyphs
  <2>2. c \in SUBSET (Nat \ {0}) /\ IsFiniteSet(c)
    BY <2>1, CutsFinite DEF c
  <2>3. QED
    BY <1>4, <2>2, RankExists DEF m
<1>6. PICK j \in 0..m : Cut(c, k) = At(n, j)
  <2>1. At(n, 0) = 0
    BY AtGrows
  <2>2. CASE Cut(c, k) = 0
    <3>1. 0 \in 0..m
      BY <1>1
    <3>2. QED
      BY <2>1, <2>2, <3>1
  <2>3. CASE Cut(c, k) \in c
    <3>1. PICK i \in 1..m : Cut(c, k) = At(n, i)
      BY <1>1, <2>3
    <3>2. i \in 0..m
      BY <1>1
    <3>3. QED
      BY <3>1, <3>2
  <2>4. QED
    BY <1>5, <2>2, <2>3
<1>7. j = k
  BY <1>2, <1>3, <1>5, <1>6
<1>8. QED
  BY <1>4, <1>6, <1>7 DEF c, m

\* The characters a core can write in one life.
Marks == Texts(3 * MaxLines)

\* They carry the number of their line.
LEMMA MarkNumber == \A c \in Marks : c[1] \in 1 .. MaxLines
  BY DEF Marks, Texts, Trace!Char, Trace!Newline

\* Whatever the kernel shows has been written.
LEMMA VisibleAny == LogInv => Trace!Visible \in Seq(Marks)
<1> SUFFICES ASSUME LogInv PROVE Trace!Visible \in Seq(Marks)
  OBVIOUS
<1> DEFINE w == Len(written)
<1>1. w \in Nat /\ w <= 3 * MaxLines /\ core \in {"R5", "PRU"}
  BY DEF LogInv
<1>2. CASE core = "R5" => w <= Size
  <2>1. Shown \in 0 .. Size /\ Shown <= w
        /\ Trace!Visible = [i \in 1 .. Shown |-> Trace!Char(i)]
    BY <1>2, VisibleIs
  <2>2. \A i \in 1 .. Shown : Trace!Char(i) \in Marks
    BY <1>1, <2>1 DEF Marks, Texts
  <2>3. QED
    BY <2>1, <2>2
<1>3. CASE core = "R5" /\ w > Size
  <2>1. \A i \in 0 .. Size - 1 : log.mem[i] \in Texts(w)
    BY <1>1, <1>3 DEF LogInv, Ring
  <2>2. \A i \in 0 .. Size - 1 : log.mem[i] \in Marks /\ log.mem[i] # Trace!Nul
    BY <1>1, <2>1, CharNotNul DEF Texts, Marks
  <2>3. Trace!Visible = [i \in 1 .. Size |-> log.mem[i - 1]]
    BY <2>2 DEF Trace!Visible
  <2>4. \A i \in 1 .. Size : log.mem[i - 1] \in Marks
    <3>1. \A i \in 1 .. Size : i - 1 \in 0 .. Size - 1
      OBVIOUS
    <3>2. QED
      BY <2>2, <3>1
  <2>5. QED
    BY <2>3, <2>4
<1>4. QED
  BY <1>1, <1>2, <1>3

\* A line that is complete without its newline.
LEMMA PairIs ==
  ASSUME NEW f, NEW x, NEW y, f = [i \in 1..2 |-> f[i]], f[1] = x, f[2] = y
  PROVE  f = <<x, y>>
<1>1. f \in Seq({x, y}) /\ Len(f) = 2
  <2>1. \A i \in 1..2 : f[i] \in {x, y}
    <3>1. \A i \in 1..2 : i = 1 \/ i = 2
      OBVIOUS
    <3>2. QED
      BY <3>1
  <2>2. QED
    BY <2>1
<1>2. <<x, y>> \in Seq({x, y}) /\ Len(<<x, y>>) = 2
  OBVIOUS
<1>3. \A i \in 1..2 : f[i] = <<x, y>>[i]
  <2>1. \A i \in 1..2 : i = 1 \/ i = 2
    OBVIOUS
  <2>2. QED
    BY <2>1
<1>4. QED
  BY <1>1, <1>2, <1>3, SeqEqual

\* The lines of the first n glyphs.
LEMMA GlyphLines ==
  ASSUME NEW n \in Nat, NEW s, s = [i \in 1..n |-> Trace!Char(i)]
  PROVE  /\ Trace!SplitLines(s) \in Seq(Seq(Glyphs)) /\ Len(Trace!SplitLines(s)) = LinesIn(n)
         /\ \A k \in 1 .. LinesIn(n) :
              Trace!SplitLines(s)[k] # <<>> /\ Trace!SplitLines(s)[k][1][1] = k
         /\ \A k \in 1 .. n \div 3 : Trace!SplitLines(s)[k] = <<<<k, 1>>, <<k, 2>>>>
<1> DEFINE m == LinesIn(n)
<1>1. s \in Seq(Glyphs) /\ Len(s) = n /\ m \in Nat
  <2>1. \A i \in 1..n : Trace!Char(i) \in Glyphs
    BY DEF Glyphs
  <2>2. m \in Nat
    BY DEF LinesIn
  <2>3. QED
    BY <2>1, <2>2
<1>2. \A k \in 0..m : Cut(Cuts(s), k) = At(n, k)
  BY CutOfGlyphs
<1>3. Cardinality(Cuts(s)) = m
  <2>1. 0 \in 0..m
    BY <1>1
  <2>2. QED
    BY <2>1, CutOfGlyphs
<1>4. Trace!SplitLines(s) =
        [k \in 1..m |-> SubSeq(s, Cut(Cuts(s), k - 1) + 1, Cut(Cuts(s), k) - 1)]
  BY <1>3, SplitIs, CardIs
<1>5. ASSUME NEW k \in 1..m
      PROVE  /\ Trace!SplitLines(s)[k] # <<>> /\ Trace!SplitLines(s)[k][1][1] = k
             /\ 3 * k <= n => Trace!SplitLines(s)[k] = <<<<k, 1>>, <<k, 2>>>>
  <2> DEFINE a == 3 * (k - 1) + 1
             b == At(n, k) - 1
             line == SubSeq(s, a, b)
  <2>1. k - 1 \in 0..m /\ k \in 0..m
    BY <1>1
  <2>2. At(n, k - 1) = 3 * (k - 1) /\ At(n, k) \in 1 .. n + 1
        /\ At(n, k) >= 3 * k - 1 /\ At(n, k) <= 3 * k
    BY AtGrows
  <2> HIDE DEF m
  <2>3. Trace!SplitLines(s)[k] = line
    BY <1>2, <1>4, <2>1, <2>2
  <2>4. a \in 1..n /\ b \in 1..n /\ (b = a \/ b = a + 1)
    BY <2>2
  <2>5. line = [i \in 1 .. b - a + 1 |-> s[a + i - 1]]
    BY <1>1, <2>4
  <2>6. s[a] = <<k, 1>>
    <3>1. s[a] = Trace!Char(a)
      BY <2>4
    <3>2. (a - 1) \div 3 = k - 1 /\ (a - 1) % 3 = 0
      BY <2>4
    <3>3. Trace!Char(a) = <<((a - 1) \div 3) + 1, ((a - 1) % 3) + 1>>
      BY DEF Trace!Char, Trace!Newline
    <3> HIDE DEF a
    <3>4. Trace!Char(a) = <<(k - 1) + 1, 0 + 1>>
      BY <3>2, <3>3
    <3>5. QED
      BY <1>1, <3>1, <3>4
  <2>7. b = a + 1 => s[b] = <<k, 2>>
    <3> SUFFICES ASSUME b = a + 1 PROVE s[b] = <<k, 2>>
      OBVIOUS
    <3>1. s[b] = Trace!Char(b)
      BY <2>4
    <3>2. (b - 1) \div 3 = k - 1 /\ (b - 1) % 3 = 1
      <4>1. b - 1 = 3 * (k - 1) + 1
        BY <2>4
      <4>2. QED
        BY <4>1
    <3>3. Trace!Char(b) = <<((b - 1) \div 3) + 1, ((b - 1) % 3) + 1>>
      BY DEF Trace!Char, Trace!Newline
    <3> HIDE DEF b
    <3>4. Trace!Char(b) = <<(k - 1) + 1, 1 + 1>>
      BY <3>2, <3>3
    <3>5. QED
      BY <1>1, <3>1, <3>4
  <2>8. 3 * k <= n => b = a + 1
    BY DEF At
  <2> HIDE DEF a, b
  <2> HIDE DEF line
  <2>9. line # <<>> /\ line[1] = s[a]
    <3>1. b - a + 1 \in Nat /\ 1 \in 1 .. b - a + 1 /\ a + 1 - 1 = a
      BY <2>4
    <3>2. DOMAIN line = 1 .. b - a + 1 /\ line[1] = s[a + 1 - 1]
      BY <2>5, <3>1
    <3>3. DOMAIN <<>> = {}
      OBVIOUS
    <3>4. QED
      BY <3>1, <3>2, <3>3
  <2>10. b = a + 1 => line = <<s[a], s[b]>>
    <3> SUFFICES ASSUME b = a + 1 PROVE line = <<s[a], s[b]>>
      OBVIOUS
    <3>1. b - a + 1 = 2 /\ a + 1 - 1 = a /\ a + 2 - 1 = b
      BY <2>4
    <3>2. line = [i \in 1..2 |-> s[a + i - 1]]
      BY <2>5, <3>1
    <3> DEFINE g(i) == s[a + i - 1]
    <3>3. g(1) = s[a] /\ g(2) = s[b]
      BY <3>1
    <3> HIDE DEF g
    <3>4. line = [i \in 1..2 |-> g(i)]
      BY <3>2 DEF g
    <3>5. line = [i \in 1..2 |-> line[i]] /\ line[1] = s[a] /\ line[2] = s[b]
      BY <3>3, <3>4
    <3>6. QED
      BY <3>5, PairIs
  <2>11. line[1][1] = k
    BY <2>6, <2>9
  <2>12. QED
    BY <2>3, <2>6, <2>7, <2>8, <2>9, <2>10, <2>11
<1>6. Trace!SplitLines(s) \in Seq(Seq(Glyphs))
  BY <1>1, SplitAny
<1>7. ASSUME NEW k \in 1 .. n \div 3
      PROVE  Trace!SplitLines(s)[k] = <<<<k, 1>>, <<k, 2>>>>
  <2>1. k \in 1..m /\ 3 * k <= n
    BY DEF LinesIn
  <2> HIDE DEF m
  <2>2. QED
    BY <1>5, <2>1
<1>8. Len(Trace!SplitLines(s)) = m
  BY <1>1, <1>4
<1>9. QED
  <2>1. \A k \in 1..m : Trace!SplitLines(s)[k] # <<>> /\ Trace!SplitLines(s)[k][1][1] = k
    BY <1>5
  <2>2. \A k \in 1 .. n \div 3 : Trace!SplitLines(s)[k] = <<<<k, 1>>, <<k, 2>>>>
    BY <1>7, Zenon
  <2>3. QED
    BY <1>6, <1>8, <2>1, <2>2

\* The number before the first line of a life.
Base(life) == life * (MaxLines + 1)

\* A later life has larger numbers than all lines of an earlier one.
LEMMA BaseGrows ==
  ASSUME NEW l \in Nat, NEW m \in Nat, l <= m
  PROVE  /\ Base(l) \in Nat /\ Base(m) \in Nat /\ Base(l) <= Base(m)
         /\ Base(m + 1) = Base(m) + MaxLines + 1
<1>1. Base(l) \in Nat /\ Base(m) \in Nat
  BY DEF Base
<1>2. Base(m + 1) = Base(m) + MaxLines + 1
  BY DEF Base
<1>3. PICK d \in Nat : m = l + d
  <2>1. m - l \in Nat /\ m = l + (m - l)
    OBVIOUS
  <2>2. QED
    BY <2>1
<1>4. (l + d) * (MaxLines + 1) = l * (MaxLines + 1) + d * (MaxLines + 1)
      /\ d * (MaxLines + 1) >= 0
  BY <1>3
<1>5. Base(l) <= Base(m)
  BY <1>1, <1>3, <1>4 DEF Base
<1>6. QED
  BY <1>1, <1>2, <1>5

\* They are numbers.
LEMMA BaseNat == \A l \in Nat : Base(l) \in Nat
  BY DEF Base

LEMMA BaseNext == \A l \in Nat : Base(l + 1) = Base(l) + MaxLines + 1
  BY DEF Base

\* What the script prints: a line, and the life of the firmware it is of.
Entries == [life : Nat, line : Seq(Marks)]

\* The number of an entry lies in the range of its life.
LEMMA NumberIs ==
  ASSUME NEW e \in Entries
  PROVE  /\ Trace!Number(e) \in Nat
         /\ Trace!Number(e) >= Base(e.life) /\ Trace!Number(e) < Base(e.life + 1)
         /\ e.line # <<>> => Trace!Number(e) = Base(e.life) + e.line[1][1]
<1> DEFINE d == IF e.line = <<>> THEN 0 ELSE e.line[1][1]
<1>1. d \in 0 .. MaxLines
  <2>1. CASE e.line = <<>>
    BY <2>1
  <2>2. CASE e.line # <<>>
    <3>1. e.line \in Seq(Marks)
      BY DEF Entries
    <3>2. e.line[1] \in Marks
      BY <2>2, <3>1
    <3>3. QED
      BY <2>2, <3>2, MarkNumber
  <2>3. QED
    BY <2>1, <2>2
<1>2. Trace!Number(e) = Base(e.life) + d
  BY DEF Trace!Number, Base
<1>3. e.life \in Nat
  BY DEF Entries
<1>4. e.line # <<>> => d = e.line[1][1]
  OBVIOUS
<1> HIDE DEF d
<1>5. Base(e.life) \in Nat /\ Base(e.life + 1) = Base(e.life) + MaxLines + 1
  BY <1>3, BaseNat, BaseNext, Zenon
<1>6. QED
  BY <1>1, <1>2, <1>4, <1>5

\* The buffer holds less than what was written.
RunOver == Len(written) > Size

\* More characters make no fewer lines.
LEMMA LinesGrow ==
  ASSUME NEW a \in Nat, NEW b \in Nat, a <= b
  PROVE  LinesIn(a) \in Nat /\ LinesIn(b) \in Nat /\ LinesIn(a) <= LinesIn(b)
  BY DEF LinesIn

\* The k-th line of the first life, and the number of what was printed last.
Printed(k) == [life |-> 1, line |-> <<<<k, 1>>, <<k, 2>>>>]
LastNumber == Trace!Number(out[Len(out)])

\* The types of what the script keeps.
ScriptTypes ==
    /\ running \in BOOLEAN /\ waiting \in BOOLEAN /\ fresh \in BOOLEAN
    /\ starts \in Nat /\ lineCount \in Nat /\ out \in Seq(Entries)

\* The script runs on lines of this life and of earlier ones.
Lives ==
    /\ \A k \in 1 .. Len(out) : out[k].life <= starts
    /\ running => starts >= 1
    /\ starts = 0 => lineCount = 0
    /\ fresh => running /\ ~waiting

\* As many lines as it has counted are out, in the first life.
Counted ==
    /\ core = "R5" /\ starts <= 1 /\ ~RunOver =>
         \A k \in 1 .. lineCount : \E j \in 1 .. Len(out) : out[j] = Printed(k)
    /\ core = "R5" /\ fresh /\ ~RunOver => lineCount = LinesIn(Len(written))

\* What it has printed last comes before all that is to come.
Ordered ==
    out # <<>> /\ running =>
      /\ waiting => LastNumber < Base(starts)
      /\ ~waiting /\ ~RunOver => /\ LastNumber <= Base(starts) + lineCount
                              /\ LastNumber <= Base(starts) + LinesIn(Shown)

\* The invariant of the trace and the script.
ScriptInv == LogInv /\ ScriptTypes /\ Lives /\ Counted /\ Ordered

\* What was printed last is below all numbers of later lives.
LEMMA LastBelow ==
  ASSUME ScriptInv, out # <<>>
  PROVE  LastNumber \in Nat /\ LastNumber < Base(starts + 1)
<1>1. Len(out) \in Nat /\ Len(out) \in 1 .. Len(out)
  BY DEF ScriptInv, ScriptTypes
<1>2. out[Len(out)] \in Entries /\ out[Len(out)].life <= starts
  BY <1>1 DEF ScriptInv, ScriptTypes, Lives
<1> DEFINE e == out[Len(out)]
<1>3. e \in Entries /\ e.life \in Nat /\ starts \in Nat /\ e.life + 1 <= starts + 1
  BY <1>2 DEF ScriptInv, ScriptTypes, Entries
<1> HIDE DEF e
<1>4. Trace!Number(e) \in Nat /\ Trace!Number(e) < Base(e.life + 1)
  BY <1>3, NumberIs
<1>5. Base(e.life + 1) \in Nat /\ Base(starts + 1) \in Nat /\ Base(e.life + 1) <= Base(starts + 1)
  <2>1. e.life + 1 \in Nat /\ starts + 1 \in Nat
    BY <1>3
  <2>2. QED
    BY <1>3, <2>1, BaseGrows, Zenon
<1>6. QED
  BY <1>4, <1>5 DEF LastNumber, e

\* What is shown can be counted.
LEMMA ShownNat == LogInv => Shown \in Nat /\ LinesIn(Shown) \in Nat
<1> SUFFICES ASSUME LogInv PROVE Shown \in Nat /\ LinesIn(Shown) \in Nat
  OBVIOUS
<1>1. Len(written) \in Nat
  BY DEF LogInv
<1>2. Shown \in Nat
  BY <1>1 DEF Shown, First
<1>3. QED
  BY <1>2 DEF LinesIn

\* The script and the core start with the invariant.
LEMMA ScriptInit == Trace!Init => ScriptInv
<1> SUFFICES ASSUME Trace!Init PROVE ScriptInv
  OBVIOUS
<1>1. LogInv
  <2>1. written = <<>> /\ log = Trace!Empty /\ core \in {"R5", "PRU"}
    BY DEF Trace!Init
  <2>2. Len(written) = 0 /\ written \in Seq(Glyphs) /\ 0 <= 3 * MaxLines /\ 0 % 3 = 0
    BY <2>1
  <2>3. QED
    BY <2>1, <2>2, LogInvEmpty DEF LogInv
<1>2. QED
  <2>1. /\ running = FALSE /\ starts = 0 /\ waiting = TRUE /\ lineCount = 0
        /\ out = <<>> /\ fresh = FALSE
    BY DEF Trace!Init
  <2>2. out \in Seq(Entries) /\ Len(out) = 0
    BY <2>1
  <2>3. ScriptTypes
    BY <2>1, <2>2 DEF ScriptTypes
  <2>4. Lives
    BY <2>1, <2>2 DEF Lives
  <2>5. Counted
    BY <2>1, <2>2 DEF Counted
  <2>6. Ordered
    BY <2>1 DEF Ordered
  <2>7. QED
    BY <1>1, <2>3, <2>4, <2>5, <2>6 DEF ScriptInv

\* The core writes: no number becomes smaller.
LEMMA ScriptWrite == ScriptInv /\ Trace!Write => ScriptInv'
<1> SUFFICES ASSUME ScriptInv, Trace!Write PROVE ScriptInv'
  OBVIOUS
<1>1. LogInv'
  BY LogInvWrite DEF ScriptInv
<1>2. UNCHANGED <<core, running, starts, waiting, lineCount, out>> /\ fresh' = FALSE
  BY DEF Trace!Write
<1>3. Len(written) \in Nat /\ Len(written') \in Nat /\ Len(written) <= Len(written')
  <2> DEFINE n == IF core = "R5" THEN 3 ELSE 1
             data == [i \in 1..n |-> Trace!Char(Len(written) + i)]
  <2>1. written' = written \o data
    BY DEF Trace!Write, Trace!Newline
  <2>2. written \in Seq(Glyphs)
    BY DEF ScriptInv, LogInv
  <2>3. data \in Seq(Glyphs) /\ Len(data) = n
    <3>1. \A i \in 1..n : Trace!Char(Len(written) + i) \in Glyphs
      BY <2>2 DEF Glyphs
    <3>2. QED
      BY <3>1
  <2> HIDE DEF data
  <2>4. Len(written') = Len(written) + Len(data)
    BY <2>1, <2>2, <2>3, ConcatProperties
  <2>5. QED
    BY <2>2, <2>3, <2>4
<1>4. ~RunOver' => ~RunOver
  BY <1>3 DEF RunOver
<1>5. Shown' \in Nat /\ Shown \in Nat /\ Shown <= Shown'
  BY <1>2, <1>3 DEF Shown, First
<1>6. LinesIn(Shown) <= LinesIn(Shown') /\ LinesIn(Shown) \in Nat /\ LinesIn(Shown') \in Nat
  BY <1>5, LinesGrow
<1>7. ScriptTypes' /\ Lives' /\ Counted'
  BY <1>2, <1>4 DEF ScriptInv, ScriptTypes, Lives, Counted, Printed
<1>8. Ordered'
  <2> SUFFICES ASSUME out # <<>>, running
               PROVE  /\ waiting => LastNumber < Base(starts)
                      /\ ~waiting /\ ~RunOver' => /\ LastNumber <= Base(starts) + lineCount
                                               /\ LastNumber <= Base(starts) + LinesIn(Shown')
    BY <1>2 DEF Ordered, LastNumber, Trace!Number
  <2>1. LastNumber \in Nat /\ Base(starts) \in Nat
    <3>1. starts \in Nat /\ starts <= starts
      BY DEF ScriptInv, ScriptTypes
    <3>2. QED
      BY <3>1, LastBelow, BaseGrows
  <2>2. QED
    BY <1>4, <1>6, <2>1 DEF ScriptInv, Ordered
<1>9. QED
  BY <1>1, <1>7, <1>8 DEF ScriptInv

\* The core stops, and its buffer stays,
LEMMA ScriptStop == ScriptInv /\ Trace!Stop => ScriptInv'
<1> SUFFICES ASSUME ScriptInv, Trace!Stop PROVE ScriptInv'
  OBVIOUS
<1>1. UNCHANGED <<core, starts, log, written, waiting, lineCount, out>>
      /\ running' = FALSE /\ fresh' = FALSE
  BY DEF Trace!Stop
<1>2. LogInv'
  BY <1>1 DEF ScriptInv, LogInv
<1>3. ScriptTypes' /\ Lives' /\ Counted' /\ Ordered'
  BY <1>1 DEF ScriptInv, ScriptTypes, Lives, Counted, Ordered, RunOver, Printed
<1>4. QED
  BY <1>2, <1>3 DEF ScriptInv

\* until it is started again with an empty one and a new life.
LEMMA ScriptStart == ScriptInv /\ Trace!Start => ScriptInv'
<1> SUFFICES ASSUME ScriptInv, Trace!Start PROVE ScriptInv'
  OBVIOUS
<1>1. UNCHANGED <<core, waiting, lineCount, out>>
      /\ running' = TRUE /\ fresh' = FALSE /\ starts' = starts + 1
      /\ written' = <<>> /\ log' = Trace!Empty
  BY DEF Trace!Start
<1>2. core \in {"R5", "PRU"} /\ starts \in Nat
  BY DEF ScriptInv, LogInv, ScriptTypes
<1>3. LogInv'
  <2>1. Len(written') = 0 /\ written' \in Seq(Glyphs) /\ 0 <= 3 * MaxLines /\ 0 % 3 = 0
    BY <1>1
  <2>2. QED
    BY <1>1, <1>2, <2>1, LogInvEmpty DEF LogInv
<1>4. ScriptTypes'
  <2>1. starts + 1 \in Nat
    BY <1>2
  <2>2. QED
    BY <1>1, <2>1, Zenon DEF ScriptInv, ScriptTypes
<1>5. Lives'
  <2>1. \A k \in 1 .. Len(out) : out[k].life \in Nat
    <3>1. \A k \in 1 .. Len(out) : out[k] \in Entries
      BY DEF ScriptInv, ScriptTypes
    <3>2. QED
      BY <3>1 DEF Entries
  <2>2. QED
    BY <1>1, <1>2, <2>1 DEF ScriptInv, Lives
<1>6. Counted'
  <2>1. starts' <= 1 => starts = 0
    BY <1>1, <1>2
  <2>2. lineCount' = lineCount /\ (starts' <= 1 => lineCount = 0)
    BY <1>1, <2>1 DEF ScriptInv, Lives
  <2>3. QED
    BY <1>1, <2>2 DEF Counted
<1>7. Ordered'
  <2> SUFFICES ASSUME out # <<>>
               PROVE  /\ LastNumber < Base(starts')
                      /\ LastNumber <= Base(starts') + lineCount
                      /\ LastNumber <= Base(starts') + LinesIn(Shown')
    BY <1>1 DEF Ordered, LastNumber, Trace!Number
  <2>1. LastNumber \in Nat /\ LastNumber < Base(starts')
    BY <1>1, LastBelow
  <2>2. Base(starts') \in Nat
    BY <1>1, <1>2, BaseGrows DEF Base
  <2>3. LinesIn(Shown') \in Nat
    BY <1>1 DEF Shown, First, LinesIn
  <2>4. lineCount \in Nat
    BY DEF ScriptInv, ScriptTypes
  <2>5. QED
    BY <2>1, <2>2, <2>3, <2>4
<1>8. QED
  BY <1>3, <1>4, <1>5, <1>6, <1>7 DEF ScriptInv

\* The script waits until there is something to read,
LEMMA ScriptReady == ScriptInv /\ Trace!WaitReady => ScriptInv'
<1> SUFFICES ASSUME ScriptInv, Trace!WaitReady PROVE ScriptInv'
  OBVIOUS
<1>1. UNCHANGED <<core, running, starts, log, written, out, fresh>>
      /\ waiting = TRUE /\ running = TRUE /\ waiting' = FALSE /\ lineCount' = 0
  BY DEF Trace!WaitReady, ScriptInv, ScriptTypes
<1>2. LogInv'
  BY <1>1 DEF ScriptInv, LogInv
<1>3. ScriptTypes' /\ Lives' /\ Counted'
  <2>1. ScriptTypes'
    BY <1>1, Zenon DEF ScriptInv, ScriptTypes
  <2>2. fresh = FALSE
    BY <1>1 DEF ScriptInv, ScriptTypes, Lives
  <2>3. Lives'
    BY <1>1, <2>2 DEF ScriptInv, Lives
  <2>4. Counted'
    BY <1>1, <2>2 DEF Counted
  <2>5. QED
    BY <2>1, <2>3, <2>4
<1>4. Ordered'
  <2> SUFFICES ASSUME out # <<>>
               PROVE  /\ LastNumber <= Base(starts) + 0
                      /\ LastNumber <= Base(starts) + LinesIn(Shown)
    BY <1>1 DEF Ordered, LastNumber, Trace!Number, Shown
  <2>1. LastNumber < Base(starts)
    BY <1>1 DEF ScriptInv, Ordered
  <2>2. LastNumber \in Nat /\ Base(starts) \in Nat
    <3>1. starts \in Nat /\ starts <= starts
      BY DEF ScriptInv, ScriptTypes
    <3>2. QED
      BY <3>1, LastBelow, BaseGrows
  <2>3. LinesIn(Shown) \in Nat
    BY ShownNat DEF ScriptInv
  <2>4. QED
    BY <2>1, <2>2, <2>3
<1>5. QED
  BY <1>2, <1>3, <1>4 DEF ScriptInv

\* and goes on waiting when the core has stopped.
LEMMA ScriptWaits == ScriptInv /\ Trace!Poll /\ ~running => ScriptInv'
<1> SUFFICES ASSUME ScriptInv, Trace!Poll, ~running PROVE ScriptInv'
  OBVIOUS
<1>1. UNCHANGED <<core, running, starts, log, written, lineCount, out, fresh>> /\ waiting' = TRUE
  BY DEF Trace!Poll
<1>2. LogInv'
  BY <1>1 DEF ScriptInv, LogInv
<1>3. ScriptTypes' /\ Lives' /\ Counted' /\ Ordered'
  BY <1>1 DEF ScriptInv, ScriptTypes, Lives, Counted, Ordered, RunOver, Printed
<1>4. QED
  BY <1>2, <1>3 DEF ScriptInv

\* What a poll of the trace of a running core adds to the output.
NowVisible == Trace!SplitLines(Trace!Visible)
Added == [k \in DOMAIN Trace!NewLines(NowVisible) |->
            [life |-> starts, line |-> Trace!NewLines(NowVisible)[k]]]

\* These are entries of this life.
LEMMA PollAdds ==
  ASSUME ScriptInv
  PROVE  /\ NowVisible \in Seq(Seq(Marks)) /\ Len(NowVisible) \in Nat /\ Added \in Seq(Entries)
         /\ Len(Added) = IF Len(NowVisible) > lineCount THEN Len(NowVisible) - lineCount ELSE 0
         /\ \A k \in 1 .. Len(Added) : /\ lineCount + k \in 1 .. Len(NowVisible)
                                       /\ Added[k] = [life |-> starts, line |-> NowVisible[lineCount + k]]
<1> DEFINE n == Len(NowVisible)
           c == lineCount
           new == Trace!NewLines(NowVisible)
<1>1. NowVisible \in Seq(Seq(Marks)) /\ n \in Nat /\ c \in Nat /\ starts \in Nat
  BY VisibleAny, SplitAny DEF NowVisible, ScriptInv, ScriptTypes
<1>2. CASE n > c
  <2>1. new = SubSeq(NowVisible, c + 1, n)
    BY <1>2 DEF Trace!NewLines
  <2>2. new = [k \in 1 .. n - c |-> NowVisible[c + k]]
    BY <1>1, <1>2, <2>1
  <2>3. \A k \in 1 .. n - c : c + k \in 1..n /\ NowVisible[c + k] \in Seq(Marks)
    BY <1>1, <1>2
  <2> HIDE DEF new, n, c
  <2>4. DOMAIN new = 1 .. n - c /\ \A k \in 1 .. n - c : new[k] = NowVisible[c + k]
    BY <2>2
  <2>5. Added = [k \in 1 .. n - c |-> [life |-> starts, line |-> NowVisible[c + k]]]
    BY <2>4 DEF Added, new
  <2>6. \A k \in 1 .. n - c : [life |-> starts, line |-> NowVisible[c + k]] \in Entries
    BY <1>1, <2>3 DEF Entries
  <2>7. Added \in Seq(Entries) /\ Len(Added) = n - c
    <3> DEFINE m == n - c
               f(k) == [life |-> starts, line |-> NowVisible[c + k]]
    <3>1. m \in Nat
      BY <1>1, <1>2 DEF n, c
    <3>2. \A k \in 1..m : f(k) \in Entries
      BY <2>6
    <3>3. Added = [k \in 1..m |-> f(k)]
      BY <2>5
    <3> HIDE DEF m, f
    <3>4. Added \in Seq(Entries) /\ Len(Added) = m
      BY <3>1, <3>2, <3>3
    <3>5. QED
      BY <3>4 DEF m
  <2>8. QED
    BY <1>1, <1>2, <2>3, <2>5, <2>7 DEF n, c
<1>3. CASE ~(n > c)
  <2>1. new = <<>>
    BY <1>3 DEF Trace!NewLines
  <2>2. Added = <<>>
    BY <2>1 DEF Added
  <2>3. QED
    BY <1>1, <1>3, <2>2
<1>4. QED
  BY <1>2, <1>3

\* Until the buffer has run over, the k-th line that is new has the k-th number after
\* those that have been counted.
LEMMA PollNumbers ==
  ASSUME ScriptInv, ~RunOver
  PROVE  /\ Trace!Visible = [i \in 1 .. Shown |-> Trace!Char(i)]
         /\ Len(NowVisible) = LinesIn(Shown)
         /\ \A k \in 1 .. Shown \div 3 : NowVisible[k] = <<<<k, 1>>, <<k, 2>>>>
         /\ \A k \in 1 .. Len(Added) : Trace!Number(Added[k]) = Base(starts) + lineCount + k
<1>1. LogInv /\ Shown \in Nat /\ starts \in Nat /\ lineCount \in Nat /\ Len(Added) \in Nat
  BY PollAdds, ShownNat DEF ScriptInv, ScriptTypes
<1>2. core = "R5" => Len(written) <= Size
  <2>1. Len(written) \in Nat
    BY <1>1 DEF LogInv
  <2>2. QED
    BY <2>1 DEF RunOver
<1>3. Trace!Visible = [i \in 1 .. Shown |-> Trace!Char(i)]
  BY <1>1, <1>2, VisibleIs
<1>4. /\ Len(NowVisible) = LinesIn(Shown)
      /\ \A k \in 1 .. LinesIn(Shown) : NowVisible[k] # <<>> /\ NowVisible[k][1][1] = k
      /\ \A k \in 1 .. Shown \div 3 : NowVisible[k] = <<<<k, 1>>, <<k, 2>>>>
  <2> DEFINE s == Trace!Visible
             n == Shown
  <2>1. s = [i \in 1..n |-> Trace!Char(i)] /\ n \in Nat
    BY <1>1, <1>3
  <2>2. NowVisible = Trace!SplitLines(s)
    BY DEF NowVisible
  <2> HIDE DEF s, n
  <2>3. /\ Len(Trace!SplitLines(s)) = LinesIn(n)
        /\ \A k \in 1 .. LinesIn(n) :
             Trace!SplitLines(s)[k] # <<>> /\ Trace!SplitLines(s)[k][1][1] = k
    BY <2>1, GlyphLines
  <2>4. \A k \in 1 .. n \div 3 : Trace!SplitLines(s)[k] = <<<<k, 1>>, <<k, 2>>>>
    BY <2>1, GlyphLines
  <2>5. QED
    BY <2>2, <2>3, <2>4 DEF n
<1>5. ASSUME NEW k \in 1 .. Len(Added)
      PROVE  Trace!Number(Added[k]) = Base(starts) + lineCount + k
  <2> DEFINE e == Added[k]
             j == lineCount + k
  <2>1. j \in 1 .. Len(NowVisible) /\ e = [life |-> starts, line |-> NowVisible[j]]
    BY PollAdds
  <2>2. e \in Entries
    BY <1>1, PollAdds
  <2> HIDE DEF e
  <2>3. e.life = starts /\ e.line # <<>> /\ e.line[1][1] = j
    BY <1>4, <2>1
  <2>4. Trace!Number(e) = Base(starts) + j
    BY <2>2, <2>3, NumberIs
  <2>5. Base(starts) \in Nat
    BY <1>1, BaseNat
  <2>6. QED
    BY <1>1, <2>4, <2>5 DEF e
<1>6. QED
  BY <1>3, <1>4, <1>5

\* A poll appends them and counts all visible lines.
LEMMA PollDoes ==
  ASSUME ScriptInv, Trace!Poll, running
  PROVE  /\ UNCHANGED <<core, running, starts, log, written, waiting>> /\ waiting = FALSE
         /\ lineCount' = Len(NowVisible) /\ fresh' = TRUE /\ out' = out \o Added
         /\ Len(out) \in Nat /\ Len(Added) \in Nat /\ Len(out') = Len(out) + Len(Added)
         /\ out' \in Seq(Entries)
         /\ \A k \in 1 .. Len(out) : out'[k] = out[k]
         /\ \A k \in 1 .. Len(Added) : out'[Len(out) + k] = Added[k]
<1>1. /\ UNCHANGED <<core, running, starts, log, written, waiting>> /\ waiting = FALSE
      /\ lineCount' = Len(NowVisible) /\ fresh' = TRUE /\ out' = out \o Added
  BY DEF Trace!Poll, NowVisible, Added, ScriptInv, ScriptTypes
<1>2. out \in Seq(Entries) /\ Added \in Seq(Entries)
  BY PollAdds DEF ScriptInv, ScriptTypes
<1>3. Len(out) \in Nat /\ Len(Added) \in Nat
  BY <1>2
<1>4. out' \in Seq(Entries) /\ Len(out') = Len(out) + Len(Added)
  BY <1>1, <1>2, ConcatProperties
<1>5. \A k \in 1 .. Len(out) : out'[k] = out[k]
  BY <1>1, <1>2
<1>6. \A k \in 1 .. Len(Added) : out'[Len(out) + k] = Added[k]
  BY <1>1, <1>2
<1>7. QED
  BY <1>1, <1>3, <1>4, <1>5, <1>6

\* So a poll keeps the invariant.
LEMMA ScriptPoll == ScriptInv /\ Trace!Poll /\ running => ScriptInv'
<1> SUFFICES ASSUME ScriptInv, Trace!Poll, running PROVE ScriptInv'
  OBVIOUS
<1>1. /\ UNCHANGED <<core, running, starts, log, written, waiting>> /\ waiting = FALSE
      /\ lineCount' = Len(NowVisible) /\ fresh' = TRUE /\ out' \in Seq(Entries)
  BY PollDoes
<1>2. Len(out) \in Nat /\ Len(Added) \in Nat /\ Len(out') = Len(out) + Len(Added)
  BY PollDoes
<1>3. /\ \A k \in 1 .. Len(out) : out'[k] = out[k]
      /\ \A k \in 1 .. Len(Added) : out'[Len(out) + k] = Added[k]
  BY PollDoes
<1>4. Len(NowVisible) \in Nat /\ starts \in Nat /\ lineCount \in Nat /\ running = TRUE
  BY PollAdds DEF ScriptInv, ScriptTypes
<1>5. LogInv'
  BY <1>1 DEF ScriptInv, LogInv
<1>6. ScriptTypes'
  BY <1>1, <1>4 DEF ScriptInv, ScriptTypes
<1>7. Lives'
  <2>1. \A k \in 1 .. Len(out) : out'[k].life <= starts
    BY <1>3 DEF ScriptInv, Lives
  <2>2. \A k \in 1 .. Len(Added) : out'[Len(out) + k].life = starts
    <3>1. \A k \in 1 .. Len(Added) : Added[k].life = starts
      <4>1. \A k \in 1 .. Len(Added) : Added[k] = [life |-> starts, line |-> NowVisible[lineCount + k]]
        BY PollAdds
      <4>2. \A x : [life |-> starts, line |-> x].life = starts
        OBVIOUS
      <4>3. QED
        BY <4>1, <4>2
    <3>2. QED
      BY <1>3, <3>1
  <2>3. \A k \in 1 .. Len(out') : k \in 1 .. Len(out) \/ k - Len(out) \in 1 .. Len(Added)
    BY <1>2
  <2>4. \A k \in 1 .. Len(out') : out'[k].life <= starts
    <3> SUFFICES ASSUME NEW k \in 1 .. Len(out') PROVE out'[k].life <= starts
      OBVIOUS
    <3>1. CASE k \in 1 .. Len(out)
      BY <2>1, <3>1
    <3>2. CASE k - Len(out) \in 1 .. Len(Added)
      <4>1. PICK j \in 1 .. Len(Added) : k = Len(out) + j
        <5>1. k = Len(out) + (k - Len(out))
          BY <1>2
        <5>2. QED
          BY <3>2, <5>1
      <4>2. out'[k].life = starts
        BY <2>2, <4>1
      <4>3. QED
        BY <1>4, <4>2
    <3>3. QED
      BY <2>3, <3>1, <3>2
  <2>5. starts >= 1
    BY <1>4 DEF ScriptInv, Lives
  <2>6. QED
    BY <1>1, <1>4, <2>4, <2>5 DEF Lives
<1>8. Counted'
  <2> SUFFICES ASSUME core = "R5", ~RunOver
               PROVE  /\ starts <= 1 => \A k \in 1 .. Len(NowVisible) :
                           \E j \in 1 .. Len(out') : out'[j] = Printed(k)
                      /\ Len(NowVisible) = LinesIn(Len(written))
    BY <1>1 DEF Counted, RunOver, Printed
  <2>1. Shown = Len(written) /\ Len(written) \in Nat /\ Len(written) % 3 = 0
    BY DEF Shown, ScriptInv, LogInv
  <2>2. Trace!Visible = [i \in 1 .. Len(written) |-> Trace!Char(i)]
        /\ Len(NowVisible) = LinesIn(Len(written))
    BY <2>1, PollNumbers
  <2>3. ASSUME starts <= 1, NEW k \in 1 .. Len(NowVisible)
        PROVE  \E j \in 1 .. Len(out') : out'[j] = Printed(k)
    <3>1. starts = 1
      BY <1>4, <2>3 DEF ScriptInv, Lives
    <3>2. NowVisible[k] = <<<<k, 1>>, <<k, 2>>>>
      <4>1. k \in 1 .. Len(written) \div 3
        BY <2>1, <2>2 DEF LinesIn
      <4>2. QED
        BY <2>1, <4>1, PollNumbers
    <3>3. CASE k <= lineCount
      <4>1. k \in 1 .. lineCount
        BY <1>4, <3>3
      <4>2. PICK j \in 1 .. Len(out) : out[j] = Printed(k)
        BY <3>1, <4>1 DEF ScriptInv, Counted
      <4>3. j \in 1 .. Len(out') /\ out'[j] = Printed(k)
        BY <1>2, <1>3, <4>2
      <4>4. QED
        BY <4>3
    <3>4. CASE k > lineCount
      <4> DEFINE i == k - lineCount
      <4>1. i \in 1 .. Len(Added) /\ lineCount + i = k
        BY <1>4, <3>4, PollAdds
      <4> HIDE DEF i
      <4>2. Added[i] = [life |-> starts, line |-> NowVisible[lineCount + i]]
        BY <4>1, PollAdds
      <4>3. Added[i] = Printed(k)
        BY <3>1, <3>2, <4>1, <4>2 DEF Printed
      <4>4. Len(out) + i \in 1 .. Len(out') /\ out'[Len(out) + i] = Printed(k)
        BY <1>2, <1>3, <4>1, <4>3
      <4>5. QED
        BY <4>4
    <3>5. QED
      BY <1>4, <3>3, <3>4
  <2>4. QED
    BY <2>2, <2>3
<1>9. Ordered'
  <2> SUFFICES ASSUME out' # <<>>, ~RunOver
               PROVE  LastNumber' <= Base(starts) + Len(NowVisible) /\ Len(NowVisible) = LinesIn(Shown)
    BY <1>1 DEF Ordered, RunOver, Shown
  <2>1. Len(NowVisible) = LinesIn(Shown)
    BY PollNumbers
  <2>2. Base(starts) \in Nat
    BY <1>4, BaseNat
  <2>3. CASE Len(Added) = 0
    <3>1. Len(out') = Len(out)
      BY <1>2, <2>3
    <3>2. out # <<>> /\ Len(out) \in 1 .. Len(out)
      BY <1>1, <1>2, <3>1 DEF ScriptInv, ScriptTypes
    <3>3. LastNumber' = LastNumber
      BY <1>3, <3>1, <3>2 DEF LastNumber, Trace!Number
    <3>4. LastNumber <= Base(starts) + LinesIn(Shown)
      BY <1>1, <1>4, <3>2 DEF ScriptInv, Ordered
    <3>5. QED
      BY <2>1, <3>3, <3>4
  <2>4. CASE Len(Added) > 0
    <3> DEFINE k == Len(Added)
    <3>1. k \in 1 .. Len(Added) /\ Len(NowVisible) = lineCount + k
      BY <1>2, <1>4, <2>4, PollAdds
    <3>2. Trace!Number(Added[k]) = Base(starts) + lineCount + k
      BY <3>1, PollNumbers
    <3> HIDE DEF k
    <3>3. out'[Len(out')] = Added[k]
      BY <1>2, <1>3, <3>1 DEF k
    <3>4. LastNumber' = Trace!Number(Added[k])
      BY <3>3 DEF LastNumber, Trace!Number
    <3>5. QED
      BY <1>4, <2>1, <2>2, <3>1, <3>2, <3>4
  <2>5. QED
    BY <1>2, <2>1, <2>3, <2>4
<1>10. QED
  BY <1>5, <1>6, <1>7, <1>8, <1>9 DEF ScriptInv

\* Every step keeps the invariant.
LEMMA ScriptInvNext == ScriptInv /\ [MCNext]_mcVars => ScriptInv'
<1> SUFFICES ASSUME ScriptInv, [MCNext]_mcVars PROVE ScriptInv'
  OBVIOUS
<1>1. CASE UNCHANGED traceVars
  BY <1>1 DEF traceVars, ScriptInv, LogInv, ScriptTypes, Lives, Counted, Ordered,
       RunOver,
     LastNumber, Shown, Printed
<1>2. CASE Trace!Next
  <2>1. running \in BOOLEAN
    BY DEF ScriptInv, ScriptTypes
  <2>2. QED
    BY <1>2, <2>1, ScriptWrite, ScriptStop, ScriptStart, ScriptPoll, ScriptWaits,
         ScriptReady
       DEF Trace!Next
<1>3. QED
  BY <1>1, <1>2 DEF MCNext, InTimer, InBoot, InEntry, InTrace, mcVars

\* What has just been read has been printed.
LEMMA FreshIsPrinted == ScriptInv => Trace!NewLinesPrinted
<1> SUFFICES ASSUME ScriptInv, core = "R5", starts = 1, fresh, ~Trace!Overrun,
                    NEW k \in 1 .. Len(Trace!Visible) \div 3
             PROVE  Printed(k) \in Trace!ToSet(out)
  BY DEF Trace!NewLinesPrinted, Trace!Newline, Printed
<1>1. ~RunOver /\ Len(written) \in Nat /\ Len(written) % 3 = 0 /\ Shown = Len(written)
  BY DEF Trace!Overrun, RunOver, ScriptInv, LogInv, Shown
<1>2. Len(Trace!Visible) = Len(written)
  BY <1>1, PollNumbers
<1>3. lineCount = LinesIn(Len(written))
  BY <1>1 DEF ScriptInv, Counted
<1>4. k \in 1 .. lineCount
  BY <1>1, <1>2, <1>3 DEF LinesIn
<1>5. PICK j \in 1 .. Len(out) : out[j] = Printed(k)
  BY <1>1, <1>4 DEF ScriptInv, Counted
<1>6. j \in DOMAIN out
  BY DEF ScriptInv, ScriptTypes
<1>7. QED
  BY <1>5, <1>6 DEF Trace!ToSet

\* For any size of the trace buffer and any number of lines and of starts: the buffer
\* of an R5 holds the last characters that _write was given, that of a PRU the first
\* ones and a NUL; and what the script has just read of an R5 in its first life has
\* been printed, each line as it was written.
THEOREM CompleteTrace == MCSpec => []TraceIsComplete
<1>1. MCInit => ScriptInv
  BY ScriptInit DEF MCInit
<1>2. ScriptInv => TraceIsComplete
  BY EndIsKept, FreshIsPrinted DEF ScriptInv, TraceIsComplete
<1>3. QED
  BY <1>1, <1>2, ScriptInvNext, PTL DEF MCSpec

\* The action of PrintsInOrder.
NextInOrder ==
  ~RunOver => \A k \in DOMAIN out' : k > Len(out) /\ k > 1 =>
                Trace!Number(out'[k]) > Trace!Number(out'[k - 1])

\* What a step appends has larger numbers than what is out.
LEMMA StepInOrder == ScriptInv /\ [MCNext]_mcVars => NextInOrder
<1> SUFFICES ASSUME ScriptInv, [MCNext]_mcVars, ~RunOver, NEW k \in DOMAIN out', k > Len(out), k > 1
             PROVE  Trace!Number(out'[k]) > Trace!Number(out'[k - 1])
  BY DEF NextInOrder
<1>1. out \in Seq(Entries) /\ Len(out) \in Nat /\ DOMAIN out = 1 .. Len(out)
  BY DEF ScriptInv, ScriptTypes
<1>2. out' # out
  BY <1>1
<1>3. Trace!Poll /\ running
  <2>1. ~UNCHANGED traceVars
    BY <1>2 DEF traceVars
  <2>2. Trace!Next
    BY <2>1 DEF MCNext, InTimer, InBoot, InEntry, InTrace, mcVars
  <2>3. QED
    BY <1>2, <2>2 DEF Trace!Next, Trace!Write, Trace!Stop, Trace!Start, Trace!Poll,
         Trace!WaitReady
<1>4. /\ waiting = FALSE /\ Len(Added) \in Nat /\ Len(out') = Len(out) + Len(Added)
      /\ out' \in Seq(Entries)
      /\ \A i \in 1 .. Len(out) : out'[i] = out[i]
      /\ \A i \in 1 .. Len(Added) : out'[Len(out) + i] = Added[i]
  BY <1>3, PollDoes
<1> DEFINE i == k - Len(out)
<1>5. i \in 1 .. Len(Added) /\ k = Len(out) + i
  BY <1>1, <1>4
<1>6. starts \in Nat /\ lineCount \in Nat /\ Base(starts) \in Nat
  BY BaseNat DEF ScriptInv, ScriptTypes
<1> HIDE DEF i
<1>7. Trace!Number(out'[k]) = Base(starts) + lineCount + i
  <2>1. out'[k] = Added[i]
    BY <1>4, <1>5
  <2>2. QED
    BY <1>5, <2>1, PollNumbers
<1>8. CASE i = 1
  <2>1. k - 1 = Len(out) /\ k - 1 \in 1 .. Len(out)
    BY <1>1, <1>5, <1>8
  <2>2. out'[k - 1] = out[Len(out)] /\ out # <<>>
    BY <1>1, <1>4, <2>1
  <2>3. LastNumber <= Base(starts) + lineCount /\ LastNumber \in Nat
    BY <1>3, <1>4, <2>2, LastBelow DEF ScriptInv, Ordered
  <2>4. QED
    BY <1>6, <1>7, <1>8, <2>2, <2>3 DEF LastNumber
<1>9. CASE i > 1
  <2> DEFINE j == i - 1
  <2>1. j \in 1 .. Len(Added) /\ k - 1 = Len(out) + j /\ i = j + 1
    BY <1>1, <1>4, <1>5, <1>9
  <2> HIDE DEF j
  <2>2. Trace!Number(out'[k - 1]) = Base(starts) + lineCount + j
    BY <1>4, <2>1, PollNumbers
  <2>3. QED
    BY <1>6, <1>7, <2>1, <2>2
<1>10. QED
  BY <1>4, <1>5, <1>8, <1>9

\* Until the buffer runs over, the script prints no line a second time and none
\* after a later one, over all stops and starts of the core, whatever its polls meet.
THEOREM PrintedInOrder == MCSpec => PrintsInOrder
<1>1. MCInit => ScriptInv
  BY ScriptInit DEF MCInit
<1>2. ScriptInv /\ [MCNext]_mcVars =>
        [~Trace!Overrun => \A k \in DOMAIN out' : k > Len(out) /\ k > 1 =>
            Trace!Number(out'[k]) > Trace!Number(out'[k - 1])]_(Trace!vars)
  BY StepInOrder DEF NextInOrder, RunOver, Trace!Overrun
<1>3. QED
  BY <1>1, <1>2, ScriptInvNext, PTL DEF MCSpec, PrintsInOrder, Trace!PrintedInOrder

-----------------------------------------------------------------------------
(* The exception entries.                                                  *)

\* What a list of registers holds, as the words that a push of it leaves on the stack:
\* the register named first on top.
Frame(l, v) == [k \in 1 .. Len(l) |-> v[l[(Len(l) - k) + 1]]]
All(x) == [r \in Entry!AllRegs |-> x]
Registers == [Entry!AllRegs -> Entry!Values]

\* The lists are lists of registers, each named once.
RegList(l) ==
  /\ l \in Seq(Entry!AllRegs)
  /\ \A i, j \in 1 .. Len(l) : l[i] = l[j] => i = j

\* The types of the processor's state; interrupts are unmasked in masterIsr alone,
\* from the C handler on.
EntryTypes ==
  /\ handler \in Handlers /\ handler \in Entry!Vectors
  /\ thumb \in BOOLEAN /\ open \in BOOLEAN /\ odd \in {0, 1}
  /\ at \in 0 .. Len(Entry!Program[handler])
  /\ regs \in Registers /\ spsr \in Entry!Values /\ stack \in Seq(Entry!Values)

LEMMA FrameTyped ==
  ASSUME NEW l, RegList(l), NEW v \in Registers
  PROVE  Frame(l, v) \in Seq(Entry!Values) /\ Len(Frame(l, v)) = Len(l)
<1>1. \A k \in 1 .. Len(l) : (Len(l) - k) + 1 \in 1 .. Len(l)
  BY DEF RegList
<1>2. \A k \in 1 .. Len(l) : v[l[(Len(l) - k) + 1]] \in Entry!Values
  BY <1>1 DEF RegList, Registers
<1>3. QED
  BY <1>2 DEF Frame, RegList

LEMMA StackGrows ==
  ASSUME NEW l, RegList(l), NEW v \in Registers, NEW s \in Seq(Entry!Values)
  PROVE  s \o Frame(l, v) \in Seq(Entry!Values) /\ Len(s \o Frame(l, v)) = Len(s) + Len(l)
<1>1. Frame(l, v) \in Seq(Entry!Values) /\ Len(Frame(l, v)) = Len(l)
  BY FrameTyped
<1>2. /\ Len(s \o Frame(l, v)) = Len(s) + Len(Frame(l, v))
      /\ s \o Frame(l, v) \in Seq(Entry!Values)
  BY <1>1, ConcatProperties
<1>3. QED
  BY <1>1, <1>2

\* Registers that agree on a list leave the same words.
LEMMA FrameAgrees ==
  ASSUME NEW l, RegList(l), NEW v, NEW w, \A i \in 1 .. Len(l) : v[l[i]] = w[l[i]]
  PROVE  Frame(l, v) = Frame(l, w)
<1>1. \A k \in 1 .. Len(l) : (Len(l) - k) + 1 \in 1 .. Len(l)
  BY DEF RegList
<1>2. QED
  BY <1>1 DEF Frame

\* The instruction that is next, and the step that executes it.
LEMMA ThisInstruction ==
  ASSUME Entry!Next, ~Entry!Nested, at > 0, NEW i, Entry!Program[handler][at] = i
  PROVE  /\ i.op = "push" => Entry!ExecPush
         /\ i.op = "pop" => Entry!ExecPop
         /\ i.op = "adjust" => Entry!ExecAdjust
         /\ i.op = "adjustT" => Entry!ExecAdjustIfThumb
         /\ i.op = "mrs" => Entry!ExecReadSpsr
         /\ i.op = "msr" => Entry!ExecWriteSpsr
         /\ i.op = "call" => Entry!ExecCall
         /\ i.op = "align" => Entry!ExecAlign
         /\ i.op = "unalign" => Entry!ExecUnalign
         /\ i.op = "cpsid" => Entry!ExecMaskIrq
         /\ i.op = "fmrx" => Entry!ExecReadFpscr
         /\ i.op = "vmsr" => Entry!ExecWriteFpscr
         /\ i.op = "movs" => Entry!ExecReturn
<1>5. at # 0
  OBVIOUS
<1>1. ~Entry!Take
  BY <1>5, Zenon DEF Entry!Take
<1>4. \A op : Entry!Is(op) => i.op = op
  BY DEF Entry!Is
<1>2. /\ Entry!ExecPush => i.op = "push"
      /\ Entry!ExecPop => i.op = "pop"
      /\ Entry!ExecAdjust => i.op = "adjust"
      /\ Entry!ExecAdjustIfThumb => i.op = "adjustT"
      /\ Entry!ExecReadSpsr => i.op = "mrs"
      /\ Entry!ExecWriteSpsr => i.op = "msr"
      /\ Entry!ExecCall => i.op = "call"
      /\ Entry!ExecAlign => i.op = "align"
      /\ Entry!ExecUnalign => i.op = "unalign"
      /\ Entry!ExecMaskIrq => i.op = "cpsid"
      /\ Entry!ExecReadFpscr => i.op = "fmrx"
      /\ Entry!ExecWriteFpscr => i.op = "vmsr"
      /\ Entry!ExecReturn => i.op = "movs"
  BY <1>4
  DEF Entry!ExecPush, Entry!ExecPop, Entry!ExecAdjust, Entry!ExecAdjustIfThumb,
      Entry!ExecReadSpsr, Entry!ExecWriteSpsr, Entry!ExecCall, Entry!ExecAlign,
      Entry!ExecUnalign, Entry!ExecMaskIrq, Entry!ExecReadFpscr, Entry!ExecWriteFpscr,
      Entry!ExecReturn
<1>3. QED
  BY <1>1, <1>2 DEF Entry!Next

Onwards == at' = at + 1 /\ UNCHANGED <<handler, thumb, odd>>

\* A push.
LEMMA PushStep ==
  ASSUME EntryTypes, Entry!Next, ~Entry!Nested, at > 0,
         NEW l, RegList(l), Entry!Program[handler][at] = Entry!Push(l)
  PROVE  /\ Onwards /\ UNCHANGED <<regs, spsr, open>>
         /\ stack' = stack \o Frame(l, regs)
<1>1. Entry!Push(l).op = "push" /\ Entry!Push(l).list = l
  BY DEF Entry!Push
<1>2. Entry!ExecPush /\ Entry!List = l
  BY <1>1, ThisInstruction DEF Entry!List
<1> DEFINE f == [i \in 1 .. Len(l) |-> regs[l[i]]]
<1>3. /\ Onwards /\ UNCHANGED <<regs, spsr, open>>
      /\ stack' = stack \o Entry!Reverse(f)
  BY <1>2 DEF Entry!ExecPush, Entry!Goes, Onwards
<1>4. Entry!Reverse(f) = Frame(l, regs)
  <2>1. Len(l) \in Nat
    BY DEF RegList
  <2>2. Len(f) = Len(l)
    BY <2>1
  <2>3. \A k \in 1 .. Len(l) : (Len(l) - k) + 1 \in 1 .. Len(l)
    BY <2>1
  <2>4. QED
    BY <2>2, <2>3 DEF Entry!Reverse, Frame
<1>5. QED
  BY <1>3, <1>4

\* A pop of what is on top.
LEMMA PopStep ==
  ASSUME EntryTypes, Entry!Next, ~Entry!Nested, at > 0,
         NEW l, RegList(l), Entry!Program[handler][at] = Entry!Pop(l),
         NEW s \in Seq(Entry!Values), NEW v \in Registers, stack = s \o Frame(l, v)
  PROVE  /\ Onwards /\ UNCHANGED <<spsr, open>>
         /\ stack' = s
         /\ \A i \in 1 .. Len(l) : regs'[l[i]] = v[l[i]]
         /\ \A r \in Entry!AllRegs : (\A i \in 1 .. Len(l) : l[i] # r) => regs'[r] = regs[r]
         /\ regs' \in Registers
<1>1. Entry!Pop(l).op = "pop" /\ Entry!Pop(l).list = l
  BY DEF Entry!Pop
<1>2. Entry!ExecPop /\ Entry!List = l
  BY <1>1, ThisInstruction DEF Entry!List
<1> DEFINE top(i) == IF i <= Len(stack) THEN stack[Len(stack) + 1 - i] ELSE Entry!Junk
           place(r) == CHOOSE i \in DOMAIN l : l[i] = r
<1>3. /\ Onwards /\ UNCHANGED <<spsr, open>>
      /\ regs' = [r \in Entry!AllRegs |->
                    IF r \in Entry!ToSet(l) THEN top(place(r)) ELSE regs[r]]
      /\ stack' = SubSeq(stack, 1, Len(stack) - Len(l))
  BY <1>2 DEF Entry!ExecPop, Entry!Goes, Onwards
<1> HIDE DEF top, place
<1>4. /\ Len(l) \in Nat /\ Len(s) \in Nat /\ DOMAIN l = 1 .. Len(l)
      /\ Len(stack) = Len(s) + Len(l) /\ Frame(l, v) \in Seq(Entry!Values)
      /\ Len(Frame(l, v)) = Len(l)
  <2>1. Len(l) \in Nat /\ Len(s) \in Nat /\ DOMAIN l = 1 .. Len(l)
    BY DEF RegList
  <2>2. Frame(l, v) \in Seq(Entry!Values) /\ Len(Frame(l, v)) = Len(l)
    BY FrameTyped
  <2>3. Len(s \o Frame(l, v)) = Len(s) + Len(Frame(l, v))
    BY <2>2, ConcatProperties
  <2>4. Len(stack) = Len(s) + Len(l)
    <3>1. stack = s \o Frame(l, v)
      OBVIOUS
    <3>2. Len(stack) = Len(s) + Len(Frame(l, v))
      BY <2>3, <3>1, Zenon
    <3>3. QED
      BY <2>2, <3>2
  <2>5. QED
    BY <2>1, <2>2, <2>4
<1>5. stack' = s
  <2>1. Len(stack) - Len(l) = Len(s)
    BY <1>4
  <2>2. \A i \in 1 .. Len(s) : stack[i] = s[i]
    BY <1>4
  <2>3. stack \in Seq(Entry!Values)
    BY DEF EntryTypes
  <2>4. stack' = SubSeq(stack, 1, Len(s)) /\ Len(s) <= Len(stack)
    BY <1>3, <1>4, <2>1
  <2>5. /\ stack' \in Seq(Entry!Values) /\ Len(stack') = Len(s)
        /\ \A i \in 1 .. Len(s) : stack'[i] = stack[i]
    BY <1>4, <2>3, <2>4
  <2>6. QED
    BY <2>2, <2>5, SeqEqual
<1>6. ASSUME NEW i \in 1 .. Len(l) PROVE top(i) = v[l[i]]
  <2>1. Len(stack) + 1 - i = Len(s) + ((Len(l) - i) + 1) /\ i <= Len(stack)
    BY <1>4
  <2>2. (Len(l) - i) + 1 \in 1 .. Len(l) /\ (Len(l) - ((Len(l) - i) + 1)) + 1 = i
    BY <1>4
  <2>3. stack[Len(stack) + 1 - i] = Frame(l, v)[(Len(l) - i) + 1]
    BY <1>4, <2>1, <2>2
  <2>4. QED
    BY <2>1, <2>2, <2>3 DEF Frame, top
<1>7. ASSUME NEW i \in 1 .. Len(l) PROVE place(l[i]) = i
  BY <1>4 DEF RegList, place
<1>8. ASSUME NEW i \in 1 .. Len(l) PROVE regs'[l[i]] = v[l[i]]
  <2>1. l[i] \in Entry!AllRegs /\ l[i] \in Entry!ToSet(l)
    BY <1>4 DEF RegList, Entry!ToSet
  <2>2. QED
    BY <1>3, <1>6, <1>7, <2>1
<1>9. \A r \in Entry!AllRegs : (\A i \in 1 .. Len(l) : l[i] # r) => regs'[r] = regs[r]
  BY <1>3, <1>4 DEF Entry!ToSet
<1>10. regs' \in Registers
  <2>1. ASSUME NEW r \in Entry!AllRegs PROVE regs'[r] \in Entry!Values
    <3>1. CASE \E i \in 1 .. Len(l) : l[i] = r
      BY <1>8, <3>1 DEF Registers
    <3>2. CASE \A i \in 1 .. Len(l) : l[i] # r
      BY <1>9, <3>2 DEF Registers, EntryTypes
    <3>3. QED
      BY <3>1, <3>2
  <2>2. QED
    BY <1>3, <2>1 DEF Registers
<1>11. QED
  BY <1>3, <1>5, <1>8, <1>9, <1>10

\* The other instructions.
LEMMA AdjustStep ==
  ASSUME EntryTypes, Entry!Next, ~Entry!Nested, at > 0, Entry!Program[handler][at] = Entry!Adjust,
         NEW k \in 0 .. 4, regs["lr"] = Entry!Code(k + 4)
  PROVE  /\ Onwards /\ UNCHANGED <<spsr, stack, open>>
         /\ regs'["lr"] = Entry!Code(k) /\ regs' \in Registers
         /\ \A r \in Entry!AllRegs : r # "lr" => regs'[r] = regs[r]
<1>1. Entry!Adjust.op = "adjust"
  BY DEF Entry!Adjust
<1>2. Entry!ExecAdjust
  BY <1>1, ThisInstruction
<1>3. /\ Onwards /\ UNCHANGED <<spsr, stack, open>>
      /\ regs' = [regs EXCEPT !["lr"].n = @ - 4]
  BY <1>2 DEF Entry!ExecAdjust, Entry!Goes, Onwards
<1>4. "lr" \in Entry!AllRegs /\ Entry!Code(k) \in Entry!Values
  BY DEF Entry!AllRegs, Entry!Values
<1>5. /\ regs'["lr"] = [regs["lr"] EXCEPT !.n = @ - 4]
      /\ \A r \in Entry!AllRegs : r # "lr" => regs'[r] = regs[r]
  BY <1>3, <1>4 DEF EntryTypes, Registers
<1>6. [Entry!Code(k + 4) EXCEPT !.n = @ - 4] = Entry!Code(k)
  BY DEF Entry!Code
<1>7. regs'["lr"] = Entry!Code(k)
  BY <1>5, <1>6, Zenon
<1>8. regs' = [r \in Entry!AllRegs |-> regs'[r]]
  BY <1>3 DEF EntryTypes, Registers
<1>9. \A r \in Entry!AllRegs : regs'[r] \in Entry!Values
  BY <1>4, <1>5, <1>7 DEF EntryTypes, Registers
<1>10. regs' \in Registers
  BY <1>8, <1>9 DEF Registers
<1>11. QED
  BY <1>3, <1>5, <1>7, <1>10

LEMMA ReadSpsrStep ==
  ASSUME EntryTypes, Entry!Next, ~Entry!Nested, at > 0, Entry!Program[handler][at] = Entry!ReadSpsr
  PROVE  /\ Onwards /\ UNCHANGED <<spsr, stack, open>>
         /\ regs'["lr"] = spsr /\ regs' \in Registers
         /\ \A r \in Entry!AllRegs : r # "lr" => regs'[r] = regs[r]
<1>1. Entry!ReadSpsr.op = "mrs"
  BY DEF Entry!ReadSpsr
<1>2. Entry!ExecReadSpsr /\ "lr" \in Entry!AllRegs
  BY <1>1, ThisInstruction DEF Entry!AllRegs
<1>3. QED
  BY <1>2 DEF Entry!ExecReadSpsr, Entry!Goes, Onwards, EntryTypes, Registers

LEMMA WriteSpsrStep ==
  ASSUME EntryTypes, Entry!Next, ~Entry!Nested, at > 0, Entry!Program[handler][at] = Entry!WriteSpsr
  PROVE  Onwards /\ UNCHANGED <<regs, stack, open>> /\ spsr' = regs["lr"]
<1>1. Entry!WriteSpsr.op = "msr"
  BY DEF Entry!WriteSpsr
<1>2. Entry!ExecWriteSpsr
  BY <1>1, ThisInstruction
<1>3. QED
  BY <1>2 DEF Entry!ExecWriteSpsr, Entry!Goes, Onwards

LEMMA CallStep ==
  ASSUME EntryTypes, Entry!Next, ~Entry!Nested, at > 0, Entry!Program[handler][at] = Entry!Call
  PROVE  /\ Onwards /\ UNCHANGED stack
         /\ regs' \in Registers /\ open' \in BOOLEAN /\ spsr' \in Entry!Values
         /\ handler # "masterIsr" => open' = FALSE /\ spsr' = spsr
<1>1. Entry!Call.op = "call"
  BY DEF Entry!Call
<1>2. Entry!ExecCall
  BY <1>1, ThisInstruction
<1>3. Onwards /\ UNCHANGED stack
  BY <1>2 DEF Entry!ExecCall, Entry!Goes, Onwards
<1>4. Entry!Junk \in Entry!Values
  BY DEF Entry!Values
<1>5. regs' \in Registers
  BY <1>2, <1>4 DEF Entry!ExecCall, EntryTypes, Registers
<1>6. /\ open' \in BOOLEAN /\ spsr' \in Entry!Values
      /\ handler # "masterIsr" => open' = FALSE /\ spsr' = spsr
  BY <1>2, <1>4 DEF Entry!ExecCall, EntryTypes
<1>7. QED
  BY <1>3, <1>5, <1>6

LEMMA ReturnStep ==
  ASSUME EntryTypes, Entry!Next, ~Entry!Nested, at > 0, Entry!Program[handler][at] = Entry!Return
  PROVE  at' = 0 /\ open' = FALSE /\ UNCHANGED <<handler, thumb, regs, spsr, stack, odd>>
<1>1. Entry!Return.op = "movs"
  BY DEF Entry!Return
<1>2. Entry!ExecReturn
  BY <1>1, ThisInstruction
<1>3. QED
  BY <1>2 DEF Entry!ExecReturn

LEMMA AdjustIfThumbStep ==
  ASSUME EntryTypes, Entry!Next, ~Entry!Nested, at > 0,
         Entry!Program[handler][at] = Entry!AdjustIfThumb, regs["lr"] = Entry!Code(8)
  PROVE  /\ Onwards /\ UNCHANGED <<spsr, stack, open>>
         /\ regs'["lr"] = Entry!Code(IF thumb THEN 6 ELSE 8)
         /\ regs'["r0"] = spsr /\ regs'["r1"] = Entry!Junk /\ regs' \in Registers
         /\ \A r \in Entry!AllRegs : r \notin {"lr", "r0", "r1"} => regs'[r] = regs[r]
<1>1. Entry!AdjustIfThumb.op = "adjustT"
  BY DEF Entry!AdjustIfThumb
<1>2. Entry!ExecAdjustIfThumb
  BY <1>1, ThisInstruction
<1> DEFINE c == IF thumb THEN 6 ELSE 8
<1>3. /\ Onwards /\ UNCHANGED <<spsr, stack, open>>
      /\ regs' = [regs EXCEPT !["r0"] = spsr, !["r1"] = Entry!Junk,
                              !["lr"].n = IF thumb THEN @ - 2 ELSE @]
  BY <1>2 DEF Entry!ExecAdjustIfThumb, Entry!Goes, Onwards
<1>4. /\ {"lr", "r0", "r1"} \subseteq Entry!AllRegs /\ Entry!Junk \in Entry!Values
      /\ Entry!Code(c) \in Entry!Values
  BY DEF Entry!AllRegs, Entry!CoreRegs, Entry!Values
<1>5. /\ regs'["lr"] = [regs["lr"] EXCEPT !.n = IF thumb THEN @ - 2 ELSE @]
      /\ regs'["r0"] = spsr /\ regs'["r1"] = Entry!Junk
      /\ \A r \in Entry!AllRegs : r \notin {"lr", "r0", "r1"} => regs'[r] = regs[r]
  BY <1>3, <1>4 DEF EntryTypes, Registers
<1>6. [Entry!Code(8) EXCEPT !.n = IF thumb THEN @ - 2 ELSE @] = Entry!Code(c)
  BY DEF Entry!Code
<1>7. regs'["lr"] = Entry!Code(c)
  BY <1>5, <1>6, Zenon
<1>8. regs' = [r \in Entry!AllRegs |-> regs'[r]]
  BY <1>3 DEF EntryTypes, Registers
<1>9. \A r \in Entry!AllRegs : regs'[r] \in Entry!Values
  <2> HIDE DEF c
  <2>1. QED
    BY <1>4, <1>5, <1>7 DEF EntryTypes, Registers
<1>10. regs' \in Registers
  BY <1>8, <1>9 DEF Registers
<1>11. QED
  BY <1>3, <1>5, <1>7, <1>10

\* An interrupt in between.
LEMMA NestedStep ==
  ASSUME EntryTypes, Entry!Nested
  PROVE  /\ open /\ UNCHANGED <<handler, thumb, at, stack, odd, open>>
         /\ spsr' \in Entry!Values /\ regs' \in Registers
         /\ \A r \in Entry!AllRegs : r # "lr" => regs'[r] = regs[r]
<1>1. Entry!Junk \in Entry!Values /\ "lr" \in Entry!AllRegs
  BY DEF Entry!Values, Entry!AllRegs
<1>2. QED
  BY <1>1 DEF Entry!Nested, EntryTypes, Registers

\* The alignment of the stack and its end.
LEMMA AlignStep ==
  ASSUME EntryTypes, Entry!Next, ~Entry!Nested, at > 0, Entry!Program[handler][at] = Entry!Align,
         Len(stack) = 11
  PROVE  /\ Onwards /\ UNCHANGED <<spsr, open>>
         /\ stack' = IF odd = 1 THEN stack ELSE Append(stack, Entry!Junk)
         /\ regs'["r2"] = Entry!Pad(1 - odd) /\ regs' \in Registers
<1>1. Entry!Align.op = "align"
  BY DEF Entry!Align
<1>2. Entry!ExecAlign
  BY <1>1, ThisInstruction
<1>3. Entry!Aligned <=> odd = 1
  <2>1. odd = 0 \/ odd = 1
    BY DEF EntryTypes
  <2>2. odd = 0 => (Len(stack) + odd) % 2 = 1
    OBVIOUS
  <2>3. odd = 1 => (Len(stack) + odd) % 2 = 0
    OBVIOUS
  <2>4. QED
    BY <2>1, <2>2, <2>3 DEF Entry!Aligned
<1>4. "r2" \in Entry!AllRegs /\ Entry!Pad(0) \in Entry!Values /\ Entry!Pad(1) \in Entry!Values
  BY DEF Entry!AllRegs, Entry!CoreRegs, Entry!Values
<1>5. /\ Onwards /\ UNCHANGED <<spsr, open>>
      /\ stack' = IF odd = 1 THEN stack ELSE Append(stack, Entry!Junk)
      /\ regs' = [regs EXCEPT !["r2"] = Entry!Pad(IF odd = 1 THEN 0 ELSE 1)]
  BY <1>2, <1>3 DEF Entry!ExecAlign, Entry!Goes, Onwards
<1>6. (IF odd = 1 THEN 0 ELSE 1) = 1 - odd
  BY DEF EntryTypes
<1>7. regs'["r2"] = Entry!Pad(1 - odd)
  BY <1>4, <1>5, <1>6 DEF EntryTypes, Registers
<1>8. regs' \in Registers
  BY <1>4, <1>5 DEF EntryTypes, Registers
<1>9. QED
  BY <1>5, <1>7, <1>8

LEMMA UnalignStep ==
  ASSUME EntryTypes, Entry!Next, ~Entry!Nested, at > 0, Entry!Program[handler][at] = Entry!Unalign,
         regs["r2"] = Entry!Pad(1 - odd)
  PROVE  /\ Onwards /\ UNCHANGED <<regs, spsr, open>>
         /\ stack' = SubSeq(stack, 1, Len(stack) - (1 - odd))
<1>1. Entry!Unalign.op = "unalign"
  BY DEF Entry!Unalign
<1>2. Entry!ExecUnalign
  BY <1>1, ThisInstruction
<1>3. Entry!Pad(1 - odd).from = "pad" /\ Entry!Pad(1 - odd).n = 1 - odd
  BY DEF Entry!Pad
<1>4. regs["r2"].from = "pad" /\ regs["r2"].n = 1 - odd
  BY <1>3
<1>5. QED
  BY <1>2, <1>4 DEF Entry!ExecUnalign, Entry!Goes, Onwards

LEMMA MaskIrqStep ==
  ASSUME EntryTypes, Entry!Next, ~Entry!Nested, at > 0, Entry!Program[handler][at] = Entry!MaskIrq
  PROVE  Onwards /\ UNCHANGED <<regs, spsr, stack>> /\ open' = FALSE
<1>1. Entry!MaskIrq.op = "cpsid"
  BY DEF Entry!MaskIrq
<1>2. Entry!ExecMaskIrq
  BY <1>1, ThisInstruction
<1>3. QED
  BY <1>2 DEF Entry!ExecMaskIrq, Entry!Goes, Onwards

LEMMA ReadFpscrStep ==
  ASSUME EntryTypes, Entry!Next, ~Entry!Nested, at > 0, Entry!Program[handler][at] = Entry!ReadFpscr
  PROVE  /\ Onwards /\ UNCHANGED <<spsr, stack, open>>
         /\ regs'["r0"] = regs["fpscr"] /\ regs' \in Registers
         /\ \A r \in Entry!AllRegs : r # "r0" => regs'[r] = regs[r]
<1>1. Entry!ReadFpscr.op = "fmrx"
  BY DEF Entry!ReadFpscr
<1>2. Entry!ExecReadFpscr /\ {"r0", "fpscr"} \subseteq Entry!AllRegs
  BY <1>1, ThisInstruction DEF Entry!AllRegs, Entry!CoreRegs, Entry!FpRegs
<1>3. QED
  BY <1>2 DEF Entry!ExecReadFpscr, Entry!Goes, Onwards, EntryTypes, Registers

LEMMA WriteFpscrStep ==
  ASSUME EntryTypes, Entry!Next, ~Entry!Nested, at > 0, Entry!Program[handler][at] = Entry!WriteFpscr
  PROVE  /\ Onwards /\ UNCHANGED <<spsr, stack, open>>
         /\ regs'["fpscr"] = regs["r0"] /\ regs' \in Registers
         /\ \A r \in Entry!AllRegs : r # "fpscr" => regs'[r] = regs[r]
<1>1. Entry!WriteFpscr.op = "vmsr"
  BY DEF Entry!WriteFpscr
<1>2. Entry!ExecWriteFpscr /\ {"r0", "fpscr"} \subseteq Entry!AllRegs
  BY <1>1, ThisInstruction DEF Entry!AllRegs, Entry!CoreRegs, Entry!FpRegs
<1>3. QED
  BY <1>2 DEF Entry!ExecWriteFpscr, Entry!Goes, Onwards, EntryTypes, Registers

-----------------------------------------------------------------------------
(* The six entries that save no floating-point state.                      *)

\* What the registers hold when they are saved: those of the interrupted code, but for
\* the two DAbt_Handler has worked in.
Entered == [r \in Entry!AllRegs |->
              IF r = "lr" \/ (handler = "DAbt" /\ r = "r1") THEN Entry!Junk
              ELSE IF handler = "DAbt" /\ r = "r0" THEN Entry!Status ELSE Entry!User(r)]

InPlace == \A r \in Entry!CoreRegs : regs[r] = Entered[r]

\* Where the entry goes back to, and the link register before it has been adjusted.
Back == Entry!Code(Entry!ResumesAt)
Before == Entry!Code(Entry!ResumesAt + 4)

\* The stack after each push.
Saved1 == <<>> \o Frame(Entry!Used, Entered)
Saved2 == Saved1 \o Frame(Entry!Lr, All(Back))
Saved3 == Saved2 \o Frame(Entry!Lr, All(Entry!Status))

\* The next instruction, counted alike in all six: DAbt_Handler has one more.
Here == IF handler = "DAbt" THEN at - 1 ELSE at

BriefInv ==
  /\ spsr = Entry!Status /\ open = FALSE
  /\ Here = 0 => stack = <<>> /\ regs = [Entered EXCEPT !["r0"] = Entry!User("r0"),
                                           !["r1"] = Entry!User("r1"), !["lr"] = Entry!Code(8)]
  /\ Here = 1 => stack = <<>> /\ InPlace /\ regs["lr"] = Before
  /\ Here = 2 /\ handler = "DAbt" => stack = <<>> /\ InPlace /\ regs["lr"] = Back
  /\ Here = 2 /\ handler # "DAbt" => stack = Saved1 /\ regs["lr"] = Before
  /\ Here = 3 => stack = Saved1 /\ regs["lr"] = Back
  /\ Here = 4 => stack = Saved2
  /\ Here = 5 => stack = Saved2 /\ regs["lr"] = Entry!Status
  /\ Here \in {6, 7} => stack = Saved3
  /\ Here = 8 => stack = Saved2 /\ regs["lr"] = Entry!Status
  /\ Here = 9 => stack = Saved2
  /\ Here = 10 => stack = Saved1 /\ regs["lr"] = Back
  /\ Here = 11 => stack = <<>> /\ InPlace /\ regs["lr"] = Back

\* The six programs.
LEMMA BriefCode ==
  ASSUME EntryTypes, handler # "masterIsr", at > 0
  PROVE  /\ Here \in 0 .. 11 /\ (Here = 0 => handler = "DAbt")
         /\ Here # 11 => at + 1 \in 0 .. Len(Entry!Program[handler])
         /\ LET i == Entry!Program[handler][at] IN
              /\ Here = 0 => i = Entry!AdjustIfThumb
              /\ Here = 1 => i = IF handler = "DAbt" THEN Entry!Adjust ELSE Entry!Push(Entry!Used)
              /\ Here = 2 => i = IF handler = "DAbt" THEN Entry!Push(Entry!Used) ELSE Entry!Adjust
              /\ Here = 3 => i = Entry!Push(Entry!Lr)
              /\ Here = 4 => i = Entry!ReadSpsr
              /\ Here = 5 => i = Entry!Push(Entry!Lr)
              /\ Here = 6 => i = Entry!Call
              /\ Here = 7 => i = Entry!Pop(Entry!Lr)
              /\ Here = 8 => i = Entry!WriteSpsr
              /\ Here = 9 => i = Entry!Pop(Entry!Lr)
              /\ Here = 10 => i = Entry!Pop(Entry!Used)
              /\ Here = 11 => i = Entry!Return
<1>1. CASE handler = "DAbt"
  <2>1. Entry!Program[handler] = Entry!DAbt_Handler
    BY <1>1 DEF Entry!Program
  <2>2. Len(Entry!DAbt_Handler) = 12
    BY DEF Entry!DAbt_Handler
  <2>3. at \in 1 .. 12 /\ Here = at - 1
    BY <1>1, <2>1, <2>2 DEF EntryTypes, Here
  <2>4. QED
    BY <1>1, <2>1, <2>3 DEF Entry!DAbt_Handler
<1>2. CASE handler # "DAbt"
  <2>1. Entry!Program[handler] = Entry!IRQ_Handler
    <3>1. handler \in {"Undef", "SVC", "PAbt", "IRQ", "FIQ"}
      BY <1>2 DEF EntryTypes, Entry!Vectors
    <3>2. /\ Entry!SVC_Handler = Entry!Undef_Handler /\ Entry!FIQ_Handler = Entry!IRQ_Handler
          /\ Entry!Undef_Handler = Entry!IRQ_Handler /\ Entry!PAbt_Handler = Entry!IRQ_Handler
      BY Zenon DEF Entry!SVC_Handler, Entry!FIQ_Handler, Entry!Undef_Handler, Entry!IRQ_Handler,
           Entry!PAbt_Handler
    <3>3. QED
      BY <3>1, <3>2 DEF Entry!Program
  <2>2. Len(Entry!IRQ_Handler) = 11
    BY DEF Entry!IRQ_Handler
  <2>3. at \in 1 .. 11 /\ Here = at
    BY <1>2, <2>1, <2>2 DEF EntryTypes, Here
  <2>4. QED
    BY <1>2, <2>1, <2>3 DEF Entry!IRQ_Handler
<1>3. QED
  BY <1>1, <1>2

\* The lists of registers and what is saved of them.
LEMMA ListsOnce ==
  /\ RegList(Entry!Used) /\ RegList(Entry!Lr) /\ RegList(Entry!Doubles) /\ RegList(<<"r0">>)
  /\ RegList(<<"r0", "r1", "r2", "r3", "r4", "lr">>)
  /\ Len(Entry!Used) = 6 /\ Len(Entry!Lr) = 1 /\ Len(Entry!Doubles) = 2
  BY DEF RegList, Entry!Used, Entry!Lr, Entry!Doubles, Entry!AllRegs, Entry!CoreRegs, Entry!FpRegs

LEMMA SavedTyped ==
  ASSUME EntryTypes
  PROVE  /\ Entered \in Registers /\ Back \in Entry!Values /\ Before \in Entry!Values
         /\ \A x \in Entry!Values : All(x) \in Registers
         /\ Entry!Status \in Entry!Values /\ Entry!Junk \in Entry!Values
         /\ <<>> \in Seq(Entry!Values)
         /\ Saved1 \in Seq(Entry!Values) /\ Len(Saved1) = 6
         /\ Saved2 \in Seq(Entry!Values) /\ Len(Saved2) = 7
         /\ Saved3 \in Seq(Entry!Values) /\ Len(Saved3) = 8
<1>1. /\ Entry!Status \in Entry!Values /\ Entry!Junk \in Entry!Values
      /\ \A k \in 0 .. 8 : Entry!Code(k) \in Entry!Values
      /\ \A r \in Entry!CoreRegs \cup Entry!FpRegs : Entry!User(r) \in Entry!Values
  BY DEF Entry!Values
<1>2. Entry!ResumesAt \in {0, 2, 4}
  BY DEF Entry!ResumesAt, EntryTypes
<1>3. Back \in Entry!Values /\ Before \in Entry!Values
  BY <1>1, <1>2 DEF Back, Before
<1>4. Entered \in Registers
  BY <1>1 DEF Entered, Registers, Entry!AllRegs
<1>5. \A x \in Entry!Values : All(x) \in Registers
  BY DEF All, Registers
<1>6. <<>> \in Seq(Entry!Values) /\ Len(<<>>) = 0
  OBVIOUS
<1>7. Saved1 \in Seq(Entry!Values) /\ Len(Saved1) = 6
  <2>1. Len(Saved1) = Len(<<>>) + Len(Entry!Used) /\ Saved1 \in Seq(Entry!Values)
    BY <1>4, <1>6, ListsOnce, StackGrows DEF Saved1
  <2>2. QED
    BY <1>6, <2>1, ListsOnce
<1>8. Saved2 \in Seq(Entry!Values) /\ Len(Saved2) = 7
  <2>1. Len(Saved2) = Len(Saved1) + Len(Entry!Lr) /\ Saved2 \in Seq(Entry!Values)
    BY <1>3, <1>5, <1>7, ListsOnce, StackGrows DEF Saved2
  <2>2. QED
    BY <1>7, <2>1, ListsOnce
<1>9. Saved3 \in Seq(Entry!Values) /\ Len(Saved3) = 8
  <2>1. Len(Saved3) = Len(Saved2) + Len(Entry!Lr) /\ Saved3 \in Seq(Entry!Values)
    BY <1>1, <1>5, <1>8, ListsOnce, StackGrows DEF Saved3
  <2>2. QED
    BY <1>8, <2>1, ListsOnce
<1>10. QED
  BY <1>1, <1>3, <1>4, <1>5, <1>6, <1>7, <1>8, <1>9

\* The registers in place are saved as they were entered, and a link register as it is.
LEMMA UsedInPlace == InPlace => Frame(Entry!Used, regs) = Frame(Entry!Used, Entered)
<1>1. \A j \in 1 .. 6 : Entry!Used[j] \in Entry!CoreRegs
  BY DEF Entry!Used, Entry!CoreRegs
<1>2. QED
  BY <1>1, ListsOnce, FrameAgrees DEF InPlace

LEMMA LrSaved == ASSUME NEW x, regs["lr"] = x PROVE Frame(Entry!Lr, regs) = Frame(Entry!Lr, All(x))
<1>1. Entry!Lr[1] = "lr" /\ "lr" \in Entry!AllRegs
  BY DEF Entry!Lr, Entry!AllRegs
<1>2. \A j \in 1 .. 1 : regs[Entry!Lr[j]] = All(x)[Entry!Lr[j]]
  BY <1>1 DEF All
<1>3. QED
  BY <1>2, ListsOnce, FrameAgrees

\* A step of one of them.
LEMMA BriefStep ==
  ASSUME EntryTypes, BriefInv, handler # "masterIsr", at > 0, Entry!Next
  PROVE  /\ EntryTypes' /\ UNCHANGED <<handler, thumb, odd>>
         /\ Here # 11 => at' = at + 1 /\ BriefInv'
         /\ Here = 11 => at' = 0 /\ open' = FALSE /\ UNCHANGED <<regs, spsr, stack>>
<1>1. ~Entry!Nested /\ spsr = Entry!Status /\ open = FALSE
  BY DEF Entry!Nested, BriefInv
<1>2. Here \in 0 .. 11
  BY BriefCode
<1>3. ASSUME Onwards
      PROVE  /\ Here' = Here + 1 /\ Entered' = Entered /\ Back' = Back /\ Before' = Before
             /\ Saved1' = Saved1 /\ Saved2' = Saved2 /\ Saved3' = Saved3
  <2>1. Entered' = Entered
    BY <1>3 DEF Onwards, Entered
  <2>2. Here' = Here + 1
    BY <1>3 DEF Onwards, Here, EntryTypes
  <2>3. Entry!ResumesAt' = Entry!ResumesAt
    BY <1>3 DEF Onwards, Entry!ResumesAt
  <2>4. QED
    BY <2>1, <2>2, <2>3 DEF Back, Before, Saved1, Saved2, Saved3
<1> DEFINE i == Entry!Program[handler][at]
           Done == /\ EntryTypes' /\ UNCHANGED <<handler, thumb, odd>>
                   /\ at' = at + 1 /\ BriefInv'
<1>4. ASSUME Onwards, Here # 11, regs' \in Registers, spsr' = Entry!Status,
             open' = FALSE, stack' \in Seq(Entry!Values), BriefInv'
      PROVE  Done
  <2>1. at' \in 0 .. Len(Entry!Program[handler'])
    BY <1>4, BriefCode DEF Onwards
  <2>2. QED
    BY <1>4, <2>1, SavedTyped DEF Onwards, EntryTypes
<1> HIDE DEF i, Done
<1>5. ASSUME Here = 0 PROVE Done
  <2>1. i = Entry!AdjustIfThumb /\ handler = "DAbt"
    BY <1>5, BriefCode DEF i
  <2>2. /\ stack = <<>>
        /\ regs = [Entered EXCEPT !["r0"] = Entry!User("r0"), !["r1"] = Entry!User("r1"),
                                  !["lr"] = Entry!Code(8)]
    BY <1>5 DEF BriefInv
  <2>3. /\ regs["lr"] = Entry!Code(8)
        /\ \A r \in Entry!AllRegs : r \notin {"lr", "r0", "r1"} => regs[r] = Entered[r]
    BY <2>2 DEF Entered, Entry!AllRegs
  <2>4. /\ Onwards /\ UNCHANGED <<spsr, stack, open>>
        /\ regs'["lr"] = Entry!Code(IF thumb THEN 6 ELSE 8)
        /\ regs'["r0"] = spsr /\ regs'["r1"] = Entry!Junk /\ regs' \in Registers
        /\ \A r \in Entry!AllRegs : r \notin {"lr", "r0", "r1"} => regs'[r] = regs[r]
    BY <1>1, <2>1, <2>3, AdjustIfThumbStep DEF i
  <2>5. Before = Entry!Code(IF thumb THEN 6 ELSE 8)
    BY <2>1 DEF Before, Entry!ResumesAt
  <2>6. Entered["r0"] = Entry!Status /\ Entered["r1"] = Entry!Junk
    BY <2>1 DEF Entered, Entry!AllRegs, Entry!CoreRegs
  <2>7. InPlace'
    BY <1>1, <1>3, <2>3, <2>4, <2>6 DEF InPlace, Entry!AllRegs, Entry!CoreRegs
  <2>8. BriefInv'
    BY <1>1, <1>3, <1>5, <2>2, <2>4, <2>5, <2>7 DEF BriefInv, Onwards
  <2>9. spsr' = Entry!Status /\ open' = FALSE /\ stack' \in Seq(Entry!Values) /\ Here # 11
    BY <1>1, <1>5, <2>2, <2>4, SavedTyped
  <2>10. QED
    BY <1>4, <2>4, <2>8, <2>9
<1>6. ASSUME Here = 1, handler = "DAbt" PROVE Done
  <2>1. i = Entry!Adjust
    BY <1>6, BriefCode DEF i
  <2>2. regs["lr"] = Before /\ stack = <<>> /\ InPlace
    BY <1>6 DEF BriefInv
  <2>3. Entry!ResumesAt \in 0 .. 4
    BY DEF Entry!ResumesAt, EntryTypes
  <2>4. /\ Onwards /\ UNCHANGED <<spsr, stack, open>>
        /\ regs'["lr"] = Back /\ regs' \in Registers
        /\ \A r \in Entry!AllRegs : r # "lr" => regs'[r] = regs[r]
    BY <1>1, <2>1, <2>2, <2>3, AdjustStep DEF Back, Before, i
  <2>5. InPlace'
    BY <1>3, <2>2, <2>4 DEF InPlace, Entry!AllRegs, Entry!CoreRegs
  <2>6. BriefInv'
    BY <1>1, <1>3, <1>6, <2>2, <2>4, <2>5 DEF BriefInv, Onwards
  <2>7. spsr' = Entry!Status /\ open' = FALSE /\ stack' \in Seq(Entry!Values)
    BY <1>1, <2>2, <2>4, SavedTyped
  <2>8. Here # 11
    BY <1>6
  <2>9. QED
    BY <1>4, <2>4, <2>6, <2>7, <2>8
<1>7. ASSUME Here = 1, handler # "DAbt" PROVE Done
  <2>1. i = Entry!Push(Entry!Used)
    BY <1>7, BriefCode DEF i
  <2>2. regs["lr"] = Before /\ stack = <<>> /\ InPlace
    BY <1>7 DEF BriefInv
  <2>3. /\ Onwards /\ UNCHANGED <<regs, spsr, open>>
        /\ stack' = stack \o Frame(Entry!Used, regs)
    BY <1>1, <2>1, ListsOnce, PushStep DEF i
  <2>4. Frame(Entry!Used, regs) = Frame(Entry!Used, Entered)
    BY <2>2, UsedInPlace
  <2>5. stack' = Saved1
    BY <2>2, <2>3, <2>4 DEF Saved1
  <2>6. BriefInv'
    BY <1>1, <1>3, <1>7, <2>2, <2>3, <2>5 DEF BriefInv, Onwards
  <2>7. /\ spsr' = Entry!Status /\ open' = FALSE /\ stack' \in Seq(Entry!Values)
        /\ regs' \in Registers /\ Here # 11
    BY <1>1, <1>7, <2>3, <2>5, SavedTyped DEF EntryTypes
  <2>8. QED
    BY <1>4, <2>3, <2>6, <2>7
<1>8. ASSUME Here = 2, handler = "DAbt" PROVE Done
  <2>1. i = Entry!Push(Entry!Used)
    BY <1>8, BriefCode DEF i
  <2>2. regs["lr"] = Back /\ stack = <<>> /\ InPlace
    BY <1>8 DEF BriefInv
  <2>3. /\ Onwards /\ UNCHANGED <<regs, spsr, open>>
        /\ stack' = stack \o Frame(Entry!Used, regs)
    BY <1>1, <2>1, ListsOnce, PushStep DEF i
  <2>4. Frame(Entry!Used, regs) = Frame(Entry!Used, Entered)
    BY <2>2, UsedInPlace
  <2>5. stack' = Saved1
    BY <2>2, <2>3, <2>4 DEF Saved1
  <2>6. BriefInv'
    BY <1>1, <1>3, <1>8, <2>2, <2>3, <2>5 DEF BriefInv, Onwards
  <2>7. /\ spsr' = Entry!Status /\ open' = FALSE /\ stack' \in Seq(Entry!Values)
        /\ regs' \in Registers /\ Here # 11
    BY <1>1, <1>8, <2>2, <2>3, <2>5, SavedTyped DEF EntryTypes
  <2>8. QED
    BY <1>4, <2>2, <2>3, <2>5, <2>6, <2>7
<1>9. ASSUME Here = 2, handler # "DAbt" PROVE Done
  <2>1. i = Entry!Adjust
    BY <1>9, BriefCode DEF i
  <2>2. regs["lr"] = Before /\ stack = Saved1
    BY <1>9 DEF BriefInv
  <2>3. Entry!ResumesAt \in 0 .. 4
    BY DEF Entry!ResumesAt, EntryTypes
  <2>4. /\ Onwards /\ UNCHANGED <<spsr, stack, open>>
        /\ regs'["lr"] = Back /\ regs' \in Registers
    BY <1>1, <2>1, <2>2, <2>3, AdjustStep DEF Back, Before, i
  <2>5. BriefInv'
    BY <1>1, <1>3, <1>9, <2>2, <2>4 DEF BriefInv, Onwards
  <2>6. /\ spsr' = Entry!Status /\ open' = FALSE /\ stack' \in Seq(Entry!Values)
        /\ regs' \in Registers /\ Here # 11
    BY <1>1, <1>9, <2>2, <2>4, SavedTyped DEF EntryTypes
  <2>7. QED
    BY <1>4, <2>2, <2>4, <2>5, <2>6
<1>10. ASSUME Here = 3 PROVE Done
  <2>1. i = Entry!Push(Entry!Lr)
    BY <1>10, BriefCode DEF i
  <2>2. regs["lr"] = Back /\ stack = Saved1
    BY <1>10 DEF BriefInv
  <2>3. /\ Onwards /\ UNCHANGED <<regs, spsr, open>>
        /\ stack' = stack \o Frame(Entry!Lr, regs)
    BY <1>1, <2>1, ListsOnce, PushStep DEF i
  <2>4. Frame(Entry!Lr, regs) = Frame(Entry!Lr, All(Back))
    BY <2>2, LrSaved
  <2>5. stack' = Saved2
    BY <2>2, <2>3, <2>4 DEF Saved2
  <2>6. BriefInv'
    BY <1>1, <1>3, <1>10, <2>2, <2>3, <2>5 DEF BriefInv, Onwards
  <2>7. /\ spsr' = Entry!Status /\ open' = FALSE /\ stack' \in Seq(Entry!Values)
        /\ regs' \in Registers /\ Here # 11
    BY <1>1, <1>10, <2>2, <2>3, <2>5, SavedTyped DEF EntryTypes
  <2>8. QED
    BY <1>4, <2>2, <2>3, <2>5, <2>6, <2>7
<1>11. ASSUME Here = 4 PROVE Done
  <2>1. i = Entry!ReadSpsr
    BY <1>11, BriefCode DEF i
  <2>2. stack = Saved2
    BY <1>11 DEF BriefInv
  <2>3. /\ Onwards /\ UNCHANGED <<spsr, stack, open>>
        /\ regs'["lr"] = Entry!Status /\ regs' \in Registers
    BY <1>1, <2>1, ReadSpsrStep DEF i
  <2>4. BriefInv'
    BY <1>1, <1>3, <1>11, <2>2, <2>3 DEF BriefInv, Onwards
  <2>5. /\ spsr' = Entry!Status /\ open' = FALSE /\ stack' \in Seq(Entry!Values)
        /\ regs' \in Registers /\ Here # 11
    BY <1>1, <1>11, <2>2, <2>3, SavedTyped DEF EntryTypes
  <2>6. QED
    BY <1>4, <2>2, <2>3, <2>4, <2>5
<1>12. ASSUME Here = 5 PROVE Done
  <2>1. i = Entry!Push(Entry!Lr)
    BY <1>12, BriefCode DEF i
  <2>2. regs["lr"] = Entry!Status /\ stack = Saved2
    BY <1>12 DEF BriefInv
  <2>3. /\ Onwards /\ UNCHANGED <<regs, spsr, open>>
        /\ stack' = stack \o Frame(Entry!Lr, regs)
    BY <1>1, <2>1, ListsOnce, PushStep DEF i
  <2>4. Frame(Entry!Lr, regs) = Frame(Entry!Lr, All(Entry!Status))
    BY <2>2, LrSaved
  <2>5. stack' = Saved3
    BY <2>2, <2>3, <2>4 DEF Saved3
  <2>6. BriefInv'
    BY <1>1, <1>3, <1>12, <2>2, <2>3, <2>5 DEF BriefInv, Onwards
  <2>7. /\ spsr' = Entry!Status /\ open' = FALSE /\ stack' \in Seq(Entry!Values)
        /\ regs' \in Registers /\ Here # 11
    BY <1>1, <1>12, <2>2, <2>3, <2>5, SavedTyped DEF EntryTypes
  <2>8. QED
    BY <1>4, <2>2, <2>3, <2>5, <2>6, <2>7
<1>13. ASSUME Here = 6 PROVE Done
  <2>1. i = Entry!Call
    BY <1>13, BriefCode DEF i
  <2>2. stack = Saved3
    BY <1>13 DEF BriefInv
  <2>3. Onwards /\ UNCHANGED <<spsr, stack>> /\ open' = FALSE /\ regs' \in Registers
    BY <1>1, <2>1, CallStep DEF i
  <2>4. BriefInv'
    BY <1>1, <1>3, <1>13, <2>2, <2>3 DEF BriefInv, Onwards
  <2>5. /\ spsr' = Entry!Status /\ open' = FALSE /\ stack' \in Seq(Entry!Values)
        /\ regs' \in Registers /\ Here # 11
    BY <1>1, <1>13, <2>2, <2>3, SavedTyped DEF EntryTypes
  <2>6. QED
    BY <1>4, <2>2, <2>3, <2>4, <2>5
<1>14. ASSUME Here = 7 PROVE Done
  <2>1. i = Entry!Pop(Entry!Lr)
    BY <1>14, BriefCode DEF i
  <2>2. stack = Saved3
    BY <1>14 DEF BriefInv
  <2>3. stack = Saved2 \o Frame(Entry!Lr, All(Entry!Status))
    BY <2>2 DEF Saved3
  <2>4. Saved2 \in Seq(Entry!Values) /\ All(Entry!Status) \in Registers
    BY SavedTyped
  <2>5. /\ Onwards /\ UNCHANGED <<spsr, open>> /\ stack' = Saved2 /\ regs' \in Registers
        /\ \A j \in 1 .. 1 : regs'[Entry!Lr[j]] = All(Entry!Status)[Entry!Lr[j]]
    BY <1>1, <2>1, <2>3, <2>4, ListsOnce, PopStep DEF i
  <2>6. regs'["lr"] = Entry!Status
    BY <2>5 DEF Entry!Lr, All, Entry!AllRegs
  <2>7. BriefInv'
    BY <1>1, <1>3, <1>14, <2>5, <2>6 DEF BriefInv, Onwards
  <2>8. /\ spsr' = Entry!Status /\ open' = FALSE /\ stack' \in Seq(Entry!Values)
        /\ regs' \in Registers /\ Here # 11
    BY <1>1, <1>14, <2>5, <2>6, SavedTyped DEF EntryTypes
  <2>9. QED
    BY <1>4, <2>5, <2>6, <2>7, <2>8
<1>15. ASSUME Here = 8 PROVE Done
  <2>1. i = Entry!WriteSpsr
    BY <1>15, BriefCode DEF i
  <2>2. stack = Saved2 /\ regs["lr"] = Entry!Status
    BY <1>15 DEF BriefInv
  <2>3. Onwards /\ UNCHANGED <<regs, stack, open>> /\ spsr' = Entry!Status
    BY <1>1, <2>1, <2>2, WriteSpsrStep DEF i
  <2>4. BriefInv'
    BY <1>1, <1>3, <1>15, <2>2, <2>3 DEF BriefInv, Onwards
  <2>5. /\ spsr' = Entry!Status /\ open' = FALSE /\ stack' \in Seq(Entry!Values)
        /\ regs' \in Registers /\ Here # 11
    BY <1>1, <1>15, <2>2, <2>3, SavedTyped DEF EntryTypes
  <2>6. QED
    BY <1>4, <2>2, <2>3, <2>4, <2>5
<1>16. ASSUME Here = 9 PROVE Done
  <2>1. i = Entry!Pop(Entry!Lr)
    BY <1>16, BriefCode DEF i
  <2>2. stack = Saved2
    BY <1>16 DEF BriefInv
  <2>3. stack = Saved1 \o Frame(Entry!Lr, All(Back))
    BY <2>2 DEF Saved2
  <2>4. Saved1 \in Seq(Entry!Values) /\ All(Back) \in Registers
    BY SavedTyped
  <2>5. /\ Onwards /\ UNCHANGED <<spsr, open>> /\ stack' = Saved1 /\ regs' \in Registers
        /\ \A j \in 1 .. 1 : regs'[Entry!Lr[j]] = All(Back)[Entry!Lr[j]]
    BY <1>1, <2>1, <2>3, <2>4, ListsOnce, PopStep DEF i
  <2>6. regs'["lr"] = Back
    BY <2>5 DEF Entry!Lr, All, Entry!AllRegs
  <2>7. BriefInv'
    BY <1>1, <1>3, <1>16, <2>5, <2>6 DEF BriefInv, Onwards
  <2>8. /\ spsr' = Entry!Status /\ open' = FALSE /\ stack' \in Seq(Entry!Values)
        /\ regs' \in Registers /\ Here # 11
    BY <1>1, <1>16, <2>5, <2>6, SavedTyped DEF EntryTypes
  <2>9. QED
    BY <1>4, <2>5, <2>6, <2>7, <2>8
<1>17. ASSUME Here = 10 PROVE Done
  <2>1. i = Entry!Pop(Entry!Used)
    BY <1>17, BriefCode DEF i
  <2>2. stack = Saved1 /\ regs["lr"] = Back
    BY <1>17 DEF BriefInv
  <2>3. stack = <<>> \o Frame(Entry!Used, Entered)
    BY <2>2 DEF Saved1
  <2>4. <<>> \in Seq(Entry!Values) /\ Entered \in Registers
    BY SavedTyped
  <2>5. /\ Onwards /\ UNCHANGED <<spsr, open>> /\ stack' = <<>> /\ regs' \in Registers
        /\ \A j \in 1 .. 6 : regs'[Entry!Used[j]] = Entered[Entry!Used[j]]
        /\ \A r \in Entry!AllRegs : (\A j \in 1 .. 6 : Entry!Used[j] # r) => regs'[r] = regs[r]
    <3>1. RegList(Entry!Used) /\ Len(Entry!Used) = 6
      BY ListsOnce
    <3>2. Entry!Program[handler][at] = Entry!Pop(Entry!Used)
      BY <2>1 DEF i
    <3>3. /\ Onwards /\ UNCHANGED <<spsr, open>> /\ stack' = <<>> /\ regs' \in Registers
          /\ \A j \in 1 .. Len(Entry!Used) : regs'[Entry!Used[j]] = Entered[Entry!Used[j]]
          /\ \A r \in Entry!AllRegs :
               (\A j \in 1 .. Len(Entry!Used) : Entry!Used[j] # r) => regs'[r] = regs[r]
      BY <1>1, <2>3, <2>4, <3>1, <3>2, PopStep
    <3>4. QED
      BY <3>1, <3>3
  <2>6. \A r \in Entry!CoreRegs : \E j \in 1 .. 6 : Entry!Used[j] = r
    <3>1. /\ Entry!Used[1] = "r0" /\ Entry!Used[2] = "r1" /\ Entry!Used[3] = "r2"
          /\ Entry!Used[4] = "r3" /\ Entry!Used[5] = "r4" /\ Entry!Used[6] = "r12"
      BY DEF Entry!Used
    <3>2. QED
      BY <3>1 DEF Entry!CoreRegs
  <2>7. InPlace'
    BY <1>3, <2>5, <2>6 DEF InPlace
  <2>8. regs'["lr"] = Back
    BY <2>2, <2>5 DEF Entry!Used, Entry!AllRegs
  <2>9. BriefInv'
    BY <1>1, <1>3, <1>17, <2>5, <2>7, <2>8 DEF BriefInv, Onwards
  <2>10. /\ spsr' = Entry!Status /\ open' = FALSE /\ stack' \in Seq(Entry!Values)
        /\ regs' \in Registers /\ Here # 11
    BY <1>1, <1>17, <2>5, <2>7, <2>8, SavedTyped DEF EntryTypes
  <2>11. QED
    BY <1>4, <2>5, <2>7, <2>8, <2>9, <2>10
<1>18. ASSUME Here = 11
       PROVE  EntryTypes' /\ at' = 0 /\ open' = FALSE
              /\ UNCHANGED <<handler, thumb, regs, spsr, stack, odd>>
  <2>1. i = Entry!Return
    BY <1>18, BriefCode DEF i
  <2>2. at' = 0 /\ open' = FALSE /\ UNCHANGED <<handler, thumb, regs, spsr, stack, odd>>
    BY <1>1, <2>1, ReturnStep DEF i
  <2>3. 0 \in 0 .. Len(Entry!Program[handler])
    BY DEF EntryTypes
  <2>4. QED
    BY <2>2, <2>3 DEF EntryTypes
<1>19. Here # 11 => Done
  BY <1>2, <1>5, <1>6, <1>7, <1>8, <1>9, <1>10, <1>11, <1>12, <1>13, <1>14, <1>15, <1>16, <1>17
<1>20. QED
  BY <1>18, <1>19 DEF Done

-----------------------------------------------------------------------------
(* masterIsr, which saves the floating-point state and may be interrupted.  *)

FpInPlace == \A r \in Entry!FpRegs : regs[r] = Entered[r]

Called == <<"r0", "r1", "r2", "r3", "r4", "lr">>
Fpscr == Entry!User("fpscr")

\* The stack after each push, and after the alignment.
Master1 == <<>> \o Frame(Entry!Lr, All(Entry!Code(0)))
Master2 == Master1 \o Frame(Entry!Lr, All(Entry!Status))
Master3 == Master2 \o Frame(Entry!Used, Entered)
Master4 == Master3 \o Frame(Entry!Doubles, Entered)
Master5 == Master4 \o Frame(<<"r0">>, All(Fpscr))
Master6 == IF odd = 1 THEN Master5 ELSE Append(Master5, Entry!Junk)
OnTop == \E v \in Registers : v["r2"] = Entry!Pad(1 - odd) /\ stack = Master6 \o Frame(Called, v)

MasterInv ==
  /\ open => at \in 12 .. 14
  /\ at \in (1 .. 11) \cup {21, 22} => spsr = Entry!Status
  /\ at \in (1 .. 5) \cup (19 .. 22) => InPlace
  /\ at \in (1 .. 7) \cup (18 .. 22) => FpInPlace
  /\ at \in {1, 2, 22} => stack = <<>>
  /\ at = 1 => regs["lr"] = Entry!Code(4)
  /\ at \in {2, 22} => regs["lr"] = Entry!Code(0)
  /\ at \in {3, 4, 20, 21} => stack = Master1
  /\ at \in {4, 20} => regs["lr"] = Entry!Status
  /\ at \in {5, 19} => stack = Master2
  /\ at \in {6, 7, 17, 18} => stack = Master3
  /\ at \in {7, 8, 16, 17} => regs["r0"] = Fpscr
  /\ at \in {8, 16} => stack = Master4
  /\ at \in {9, 14, 15} => stack = Master5
  /\ at \in {10, 13} => stack = Master6 /\ regs["r2"] = Entry!Pad(1 - odd)
  /\ at \in {11, 12} => OnTop
  /\ at = 17 => \A r \in {"d0_7", "d8_15"} : regs[r] = Entered[r]

\* The program.
LEMMA MasterCode ==
  ASSUME EntryTypes, handler = "masterIsr", at > 0
  PROVE  /\ at \in 1 .. 22 /\ Len(Entry!Program[handler]) = 22
         /\ LET i == Entry!Program[handler][at] IN
              /\ at = 1 => i = Entry!Adjust
              /\ at = 2 => i = Entry!Push(Entry!Lr)
              /\ at = 3 => i = Entry!ReadSpsr
              /\ at = 4 => i = Entry!Push(Entry!Lr)
              /\ at = 5 => i = Entry!Push(Entry!Used)
              /\ at = 6 => i = Entry!ReadFpscr
              /\ at = 7 => i = Entry!Push(Entry!Doubles)
              /\ at = 8 => i = Entry!Push(<<"r0">>)
              /\ at = 9 => i = Entry!Align
              /\ at = 10 => i = Entry!Push(Called)
              /\ at = 11 => i = Entry!Call
              /\ at = 12 => i = Entry!Pop(Called)
              /\ at = 13 => i = Entry!Unalign
              /\ at = 14 => i = Entry!MaskIrq
              /\ at = 15 => i = Entry!Pop(<<"r0">>)
              /\ at = 16 => i = Entry!Pop(Entry!Doubles)
              /\ at = 17 => i = Entry!WriteFpscr
              /\ at = 18 => i = Entry!Pop(Entry!Used)
              /\ at = 19 => i = Entry!Pop(Entry!Lr)
              /\ at = 20 => i = Entry!WriteSpsr
              /\ at = 21 => i = Entry!Pop(Entry!Lr)
              /\ at = 22 => i = Entry!Return
<1>1. Entry!Program[handler] = Entry!masterIsr
  BY DEF Entry!Program
<1>2. Len(Entry!masterIsr) = 22
  BY DEF Entry!masterIsr
<1>3. at \in 1 .. 22
  BY <1>1, <1>2 DEF EntryTypes
<1>4. QED
  BY <1>1, <1>2, <1>3 DEF Entry!masterIsr, Called

\* One word onto the stack and off it.
LEMMA PadPushed ==
  ASSUME NEW S, NEW s \in Seq(S), NEW e \in S
  PROVE  Append(s, e) \in Seq(S) /\ Len(Append(s, e)) = Len(s) + 1
OBVIOUS

LEMMA PadGone ==
  ASSUME NEW S, NEW s \in Seq(S), NEW e \in S
  PROVE  SubSeq(Append(s, e), 1, Len(s)) = s
<1> DEFINE a == Append(s, e)
           b == SubSeq(a, 1, Len(s))
<1>1. /\ a \in Seq(S) /\ Len(a) = Len(s) + 1 /\ Len(s) \in Nat
      /\ \A j \in 1 .. Len(s) : a[j] = s[j]
  OBVIOUS
<1> HIDE DEF a
<1>2. b \in Seq(S) /\ Len(b) = Len(s) /\ \A j \in 1 .. Len(s) : b[j] = a[j]
  BY <1>1
<1> HIDE DEF b
<1>3. b = s
  BY <1>1, <1>2, SeqEqual
<1>4. QED
  BY <1>3 DEF a, b

LEMMA MasterTyped ==
  ASSUME EntryTypes
  PROVE  /\ Fpscr \in Entry!Values /\ All(Fpscr) \in Registers
         /\ Entry!Code(0) \in Entry!Values /\ All(Entry!Code(0)) \in Registers
         /\ RegList(Called) /\ Len(Called) = 6 /\ Len(<<"r0">>) = 1
         /\ Master1 \in Seq(Entry!Values) /\ Len(Master1) = 1
         /\ Master2 \in Seq(Entry!Values) /\ Len(Master2) = 2
         /\ Master3 \in Seq(Entry!Values) /\ Len(Master3) = 8
         /\ Master4 \in Seq(Entry!Values) /\ Len(Master4) = 10
         /\ Master5 \in Seq(Entry!Values) /\ Len(Master5) = 11
         /\ Master6 \in Seq(Entry!Values) /\ Len(Master6) = 12 - odd
<1>1. Fpscr \in Entry!Values /\ Entry!Code(0) \in Entry!Values
  BY DEF Entry!Values, Fpscr, Entry!FpRegs
<1>2. /\ All(Fpscr) \in Registers /\ All(Entry!Code(0)) \in Registers
      /\ All(Entry!Status) \in Registers /\ Entered \in Registers
  BY <1>1, SavedTyped
<1>3. RegList(Called) /\ Len(Called) = 6 /\ Len(<<"r0">>) = 1
  BY ListsOnce DEF Called
<1>4. <<>> \in Seq(Entry!Values) /\ Len(<<>>) = 0
  OBVIOUS
<1>5. Master1 \in Seq(Entry!Values) /\ Len(Master1) = 1
  <2>1. Master1 \in Seq(Entry!Values) /\ Len(Master1) = Len(<<>>) + Len(Entry!Lr)
    BY <1>2, <1>4, ListsOnce, StackGrows DEF Master1
  <2>2. QED
    BY <1>4, <2>1, ListsOnce
<1>6. Master2 \in Seq(Entry!Values) /\ Len(Master2) = 2
  <2>1. Master2 \in Seq(Entry!Values) /\ Len(Master2) = Len(Master1) + Len(Entry!Lr)
    BY <1>2, <1>5, ListsOnce, StackGrows DEF Master2
  <2>2. QED
    BY <1>5, <2>1, ListsOnce
<1>7. Master3 \in Seq(Entry!Values) /\ Len(Master3) = 8
  <2>1. Master3 \in Seq(Entry!Values) /\ Len(Master3) = Len(Master2) + Len(Entry!Used)
    BY <1>2, <1>6, ListsOnce, StackGrows DEF Master3
  <2>2. QED
    BY <1>6, <2>1, ListsOnce
<1>8. Master4 \in Seq(Entry!Values) /\ Len(Master4) = 10
  <2>1. Master4 \in Seq(Entry!Values) /\ Len(Master4) = Len(Master3) + Len(Entry!Doubles)
    BY <1>2, <1>7, ListsOnce, StackGrows DEF Master4
  <2>2. QED
    BY <1>7, <2>1, ListsOnce
<1>9. Master5 \in Seq(Entry!Values) /\ Len(Master5) = 11
  <2>1. Master5 \in Seq(Entry!Values) /\ Len(Master5) = Len(Master4) + Len(<<"r0">>)
    BY <1>2, <1>8, ListsOnce, StackGrows DEF Master5
  <2>2. QED
    BY <1>3, <1>8, <2>1
<1>10. Master6 \in Seq(Entry!Values) /\ Len(Master6) = 12 - odd
  <2>1. Entry!Junk \in Entry!Values /\ odd \in {0, 1}
    BY SavedTyped DEF EntryTypes
  <2>2. Append(Master5, Entry!Junk) \in Seq(Entry!Values) /\ Len(Append(Master5, Entry!Junk)) = 12
    <3>1. /\ Append(Master5, Entry!Junk) \in Seq(Entry!Values)
          /\ Len(Append(Master5, Entry!Junk)) = Len(Master5) + 1
      BY <1>9, <2>1, PadPushed
    <3>2. QED
      BY <1>9, <3>1
  <2>3. QED
    BY <1>9, <2>1, <2>2 DEF Master6
<1>11. QED
  BY <1>1, <1>2, <1>3, <1>5, <1>6, <1>7, <1>8, <1>9, <1>10

\* What is saved when the registers are in place.
LEMMA DoublesInPlace == FpInPlace => Frame(Entry!Doubles, regs) = Frame(Entry!Doubles, Entered)
<1>1. \A j \in 1 .. 2 : Entry!Doubles[j] \in Entry!FpRegs
  BY DEF Entry!Doubles, Entry!FpRegs
<1>2. QED
  BY <1>1, ListsOnce, FrameAgrees DEF FpInPlace

LEMMA R0Saved ==
  ASSUME NEW x, regs["r0"] = x
  PROVE  Frame(<<"r0">>, regs) = Frame(<<"r0">>, All(x))
<1>1. "r0" \in Entry!AllRegs
  BY DEF Entry!AllRegs, Entry!CoreRegs
<1>2. \A j \in 1 .. Len(<<"r0">>) : regs[<<"r0">>[j]] = All(x)[<<"r0">>[j]]
  BY <1>1 DEF All
<1>3. QED
  BY <1>2, ListsOnce, FrameAgrees

\* Registers that are popped into place.
LEMMA UsedBack ==
  ASSUME \A j \in 1 .. Len(Entry!Used) : regs'[Entry!Used[j]] = Entered[Entry!Used[j]],
         Entered' = Entered
  PROVE  InPlace'
<1>1. /\ Entry!Used[1] = "r0" /\ Entry!Used[2] = "r1" /\ Entry!Used[3] = "r2"
      /\ Entry!Used[4] = "r3" /\ Entry!Used[5] = "r4" /\ Entry!Used[6] = "r12"
  BY DEF Entry!Used
<1>2. \A r \in Entry!CoreRegs : \E j \in 1 .. 6 : Entry!Used[j] = r
  BY <1>1 DEF Entry!CoreRegs
<1>3. QED
  BY <1>2, ListsOnce DEF InPlace

\* A step of it.
LEMMA MasterStep ==
  ASSUME EntryTypes, MasterInv, handler = "masterIsr", at > 0, Entry!Next
  PROVE  /\ EntryTypes' /\ UNCHANGED <<handler, thumb, odd>>
         /\ at # 22 => at' > 0 /\ MasterInv'
         /\ at = 22 => at' = 0 /\ open' = FALSE /\ UNCHANGED <<regs, spsr, stack>>
<1>1. at \in 1 .. 22
  BY MasterCode
<1>2. /\ Len(Entry!Program[handler]) = 22
      /\ Entry!Status \in Entry!Values /\ "r2" \in Entry!AllRegs /\ "fpscr" \in Entry!AllRegs
  BY MasterCode, SavedTyped DEF Entry!AllRegs, Entry!CoreRegs, Entry!FpRegs
<1>3. ASSUME UNCHANGED <<handler, thumb, odd>>
      PROVE  /\ Entered' = Entered /\ Master1' = Master1 /\ Master2' = Master2
             /\ Master3' = Master3 /\ Master4' = Master4 /\ Master5' = Master5
             /\ Master6' = Master6
  <2>1. Entered' = Entered
    BY <1>3 DEF Entered
  <2>2. QED
    BY <1>3, <2>1 DEF Master1, Master2, Master3, Master4, Master5, Master6
<1> DEFINE i == Entry!Program[handler][at]
           Done == EntryTypes' /\ UNCHANGED <<handler, thumb, odd>> /\ at' > 0 /\ MasterInv'
<1>4. ASSUME Onwards, at # 22, regs' \in Registers, spsr' \in Entry!Values,
             open' \in BOOLEAN, stack' \in Seq(Entry!Values), MasterInv'
      PROVE  Done
  <2>1. at' \in 0 .. Len(Entry!Program[handler'])
    <3>1. handler' = handler /\ at' \in 0 .. 22
      BY <1>1, <1>4 DEF Onwards
    <3>2. Len(Entry!Program[handler']) = 22
      BY <1>2, <3>1, Zenon
    <3>3. QED
      BY <3>1, <3>2
  <2>2. at' > 0
    BY <1>1, <1>4 DEF Onwards
  <2>3. QED
    BY <1>4, <2>1, <2>2 DEF Onwards, EntryTypes
<1> HIDE DEF i, Done
<1>5. ASSUME Entry!Nested PROVE Done /\ at # 22
  <2>1. /\ open /\ UNCHANGED <<handler, thumb, at, stack, odd, open>>
        /\ spsr' \in Entry!Values /\ regs' \in Registers
        /\ \A r \in Entry!AllRegs : r # "lr" => regs'[r] = regs[r]
    BY <1>5, NestedStep
  <2>2. at \in 12 .. 14 /\ at' = at
    BY <2>1 DEF MasterInv
  <2>3. regs'["r2"] = regs["r2"]
    BY <1>2, <2>1
  <2>4. (OnTop => OnTop') /\ Master5' = Master5 /\ Master6' = Master6
    BY <1>3, <2>1 DEF OnTop
  <2>5. /\ at = 12 => OnTop'
        /\ at = 13 => stack' = Master6' /\ regs'["r2"] = Entry!Pad(1 - odd')
        /\ at = 14 => stack' = Master5'
    BY <2>1, <2>3, <2>4 DEF MasterInv
  <2>6. MasterInv'
    <3>1. at' = 12 \/ at' = 13 \/ at' = 14
      BY <2>2
    <3>2. CASE at' = 12
      BY <2>2, <2>5, <3>2 DEF MasterInv
    <3>3. CASE at' = 13
      BY <2>2, <2>5, <3>3 DEF MasterInv
    <3>4. CASE at' = 14
      BY <2>2, <2>5, <3>4 DEF MasterInv
    <3>5. QED
      BY <3>1, <3>2, <3>3, <3>4
  <2>7. EntryTypes'
    BY <2>1 DEF EntryTypes
  <2>8. QED
    BY <1>1, <2>1, <2>2, <2>6, <2>7 DEF Done
<1>6. ASSUME at = 1, ~Entry!Nested PROVE Done
  <2>1. i = Entry!Adjust
    BY <1>6, MasterCode DEF i
  <2>2. /\ spsr = Entry!Status /\ InPlace /\ FpInPlace /\ ~open
        /\ stack = <<>> /\ regs["lr"] = Entry!Code(4)
    BY <1>6 DEF MasterInv
  <2>3. /\ Onwards /\ UNCHANGED <<spsr, stack, open>>
        /\ regs'["lr"] = Entry!Code(0) /\ regs' \in Registers
        /\ \A r \in Entry!AllRegs : r # "lr" => regs'[r] = regs[r]
    BY <1>6, <2>1, <2>2, AdjustStep DEF i
  <2>4. (InPlace => InPlace') /\ (FpInPlace => FpInPlace')
    BY <1>3, <2>3 DEF InPlace, FpInPlace, Onwards, Entry!AllRegs, Entry!CoreRegs, Entry!FpRegs
  <2>5. at' = 2 /\ UNCHANGED <<handler, thumb, odd>>
    BY <1>6, <2>3 DEF Onwards
  <2>6. MasterInv'
    BY <1>3, <2>2, <2>3, <2>4, <2>5 DEF MasterInv
  <2>7. /\ regs' \in Registers /\ spsr' \in Entry!Values
        /\ open' \in BOOLEAN /\ stack' \in Seq(Entry!Values)
    BY <1>2, <2>2, <2>3, <2>4, <2>5, <2>6, MasterTyped, SavedTyped DEF EntryTypes
  <2>8. at # 22
    BY <1>6
  <2>9. QED
    BY <1>4, <2>3, <2>6, <2>7, <2>8
<1>7. ASSUME at = 2, ~Entry!Nested PROVE Done
  <2>1. i = Entry!Push(Entry!Lr)
    BY <1>7, MasterCode DEF i
  <2>2. /\ spsr = Entry!Status /\ InPlace /\ FpInPlace /\ ~open
        /\ stack = <<>> /\ regs["lr"] = Entry!Code(0)
    BY <1>7 DEF MasterInv
  <2>3. /\ Onwards /\ UNCHANGED <<regs, spsr, open>>
        /\ stack' = stack \o Frame(Entry!Lr, regs)
    BY <1>7, <2>1, ListsOnce, PushStep DEF i
  <2>4. Frame(Entry!Lr, regs) = Frame(Entry!Lr, All(Entry!Code(0)))
    BY <2>2, LrSaved
  <2>5. stack' = Master1
    BY <2>2, <2>3, <2>4 DEF Master1
  <2>6. (InPlace => InPlace') /\ (FpInPlace => FpInPlace')
    BY <1>3, <2>3 DEF InPlace, FpInPlace, Onwards
  <2>7. at' = 3 /\ UNCHANGED <<handler, thumb, odd>>
    BY <1>7, <2>3 DEF Onwards
  <2>8. MasterInv'
    BY <1>3, <2>2, <2>3, <2>4, <2>5, <2>6, <2>7 DEF MasterInv
  <2>9. /\ regs' \in Registers /\ spsr' \in Entry!Values
        /\ open' \in BOOLEAN /\ stack' \in Seq(Entry!Values)
    BY <1>2, <2>2, <2>3, <2>4, <2>5, <2>6, <2>7, <2>8, MasterTyped, SavedTyped DEF EntryTypes
  <2>10. at # 22
    BY <1>7
  <2>11. QED
    BY <1>4, <2>3, <2>8, <2>9, <2>10
<1>8. ASSUME at = 3, ~Entry!Nested PROVE Done
  <2>1. i = Entry!ReadSpsr
    BY <1>8, MasterCode DEF i
  <2>2. spsr = Entry!Status /\ InPlace /\ FpInPlace /\ ~open /\ stack = Master1
    BY <1>8 DEF MasterInv
  <2>3. /\ Onwards /\ UNCHANGED <<spsr, stack, open>>
        /\ regs'["lr"] = spsr /\ regs' \in Registers
        /\ \A r \in Entry!AllRegs : r # "lr" => regs'[r] = regs[r]
    BY <1>8, <2>1, ReadSpsrStep DEF i
  <2>4. (InPlace => InPlace') /\ (FpInPlace => FpInPlace')
    BY <1>3, <2>3 DEF InPlace, FpInPlace, Onwards, Entry!AllRegs, Entry!CoreRegs, Entry!FpRegs
  <2>5. at' = 4 /\ UNCHANGED <<handler, thumb, odd>>
    BY <1>8, <2>3 DEF Onwards
  <2>6. MasterInv'
    BY <1>3, <2>2, <2>3, <2>4, <2>5 DEF MasterInv
  <2>7. /\ regs' \in Registers /\ spsr' \in Entry!Values
        /\ open' \in BOOLEAN /\ stack' \in Seq(Entry!Values)
    BY <1>2, <2>2, <2>3, <2>4, <2>5, <2>6, MasterTyped, SavedTyped DEF EntryTypes
  <2>8. at # 22
    BY <1>8
  <2>9. QED
    BY <1>4, <2>3, <2>6, <2>7, <2>8
<1>9. ASSUME at = 4, ~Entry!Nested PROVE Done
  <2>1. i = Entry!Push(Entry!Lr)
    BY <1>9, MasterCode DEF i
  <2>2. /\ spsr = Entry!Status /\ InPlace /\ FpInPlace /\ ~open
        /\ stack = Master1 /\ regs["lr"] = Entry!Status
    BY <1>9 DEF MasterInv
  <2>3. /\ Onwards /\ UNCHANGED <<regs, spsr, open>>
        /\ stack' = stack \o Frame(Entry!Lr, regs)
    BY <1>9, <2>1, ListsOnce, PushStep DEF i
  <2>4. Frame(Entry!Lr, regs) = Frame(Entry!Lr, All(Entry!Status))
    BY <2>2, LrSaved
  <2>5. stack' = Master2
    BY <2>2, <2>3, <2>4 DEF Master2
  <2>6. (InPlace => InPlace') /\ (FpInPlace => FpInPlace')
    BY <1>3, <2>3 DEF InPlace, FpInPlace, Onwards
  <2>7. at' = 5 /\ UNCHANGED <<handler, thumb, odd>>
    BY <1>9, <2>3 DEF Onwards
  <2>8. MasterInv'
    BY <1>3, <2>2, <2>3, <2>4, <2>5, <2>6, <2>7 DEF MasterInv
  <2>9. /\ regs' \in Registers /\ spsr' \in Entry!Values
        /\ open' \in BOOLEAN /\ stack' \in Seq(Entry!Values)
    BY <1>2, <2>2, <2>3, <2>4, <2>5, <2>6, <2>7, <2>8, MasterTyped, SavedTyped DEF EntryTypes
  <2>10. at # 22
    BY <1>9
  <2>11. QED
    BY <1>4, <2>3, <2>8, <2>9, <2>10
<1>10. ASSUME at = 5, ~Entry!Nested PROVE Done
  <2>1. i = Entry!Push(Entry!Used)
    BY <1>10, MasterCode DEF i
  <2>2. spsr = Entry!Status /\ InPlace /\ FpInPlace /\ ~open /\ stack = Master2
    BY <1>10 DEF MasterInv
  <2>3. /\ Onwards /\ UNCHANGED <<regs, spsr, open>>
        /\ stack' = stack \o Frame(Entry!Used, regs)
    BY <1>10, <2>1, ListsOnce, PushStep DEF i
  <2>4. Frame(Entry!Used, regs) = Frame(Entry!Used, Entered)
    BY <2>2, UsedInPlace
  <2>5. stack' = Master3
    BY <2>2, <2>3, <2>4 DEF Master3
  <2>6. (InPlace => InPlace') /\ (FpInPlace => FpInPlace')
    BY <1>3, <2>3 DEF InPlace, FpInPlace, Onwards
  <2>7. at' = 6 /\ UNCHANGED <<handler, thumb, odd>>
    BY <1>10, <2>3 DEF Onwards
  <2>8. MasterInv'
    BY <1>3, <2>2, <2>3, <2>4, <2>5, <2>6, <2>7 DEF MasterInv
  <2>9. /\ regs' \in Registers /\ spsr' \in Entry!Values
        /\ open' \in BOOLEAN /\ stack' \in Seq(Entry!Values)
    BY <1>2, <2>2, <2>3, <2>4, <2>5, <2>6, <2>7, <2>8, MasterTyped, SavedTyped DEF EntryTypes
  <2>10. at # 22
    BY <1>10
  <2>11. QED
    BY <1>4, <2>3, <2>8, <2>9, <2>10
<1>11. ASSUME at = 6, ~Entry!Nested PROVE Done
  <2>1. i = Entry!ReadFpscr
    BY <1>11, MasterCode DEF i
  <2>2. spsr = Entry!Status /\ FpInPlace /\ ~open /\ stack = Master3
    BY <1>11 DEF MasterInv
  <2>3. /\ Onwards /\ UNCHANGED <<spsr, stack, open>>
        /\ regs'["r0"] = regs["fpscr"] /\ regs' \in Registers
        /\ \A r \in Entry!AllRegs : r # "r0" => regs'[r] = regs[r]
    BY <1>11, <2>1, ReadFpscrStep DEF i
  <2>4. FpInPlace'
    BY <1>3, <2>2, <2>3 DEF FpInPlace, Onwards, Entry!AllRegs, Entry!FpRegs
  <2>5. regs'["r0"] = Fpscr
    BY <2>2, <2>3 DEF FpInPlace, Fpscr, Entered, Entry!AllRegs, Entry!FpRegs
  <2>6. at' = 7 /\ UNCHANGED <<handler, thumb, odd>>
    BY <1>11, <2>3 DEF Onwards
  <2>7. MasterInv'
    BY <1>3, <2>2, <2>3, <2>4, <2>5, <2>6 DEF MasterInv
  <2>8. /\ regs' \in Registers /\ spsr' \in Entry!Values
        /\ open' \in BOOLEAN /\ stack' \in Seq(Entry!Values)
    BY <1>2, <2>2, <2>3, <2>4, <2>5, <2>6, <2>7, MasterTyped, SavedTyped DEF EntryTypes
  <2>9. at # 22
    BY <1>11
  <2>10. QED
    BY <1>4, <2>3, <2>7, <2>8, <2>9
<1>12. ASSUME at = 7, ~Entry!Nested PROVE Done
  <2>1. i = Entry!Push(Entry!Doubles)
    BY <1>12, MasterCode DEF i
  <2>2. /\ spsr = Entry!Status /\ FpInPlace /\ ~open
        /\ stack = Master3 /\ regs["r0"] = Fpscr
    BY <1>12 DEF MasterInv
  <2>3. /\ Onwards /\ UNCHANGED <<regs, spsr, open>>
        /\ stack' = stack \o Frame(Entry!Doubles, regs)
    BY <1>12, <2>1, ListsOnce, PushStep DEF i
  <2>4. Frame(Entry!Doubles, regs) = Frame(Entry!Doubles, Entered)
    BY <2>2, DoublesInPlace
  <2>5. stack' = Master4
    BY <2>2, <2>3, <2>4 DEF Master4
  <2>6. (InPlace => InPlace') /\ (FpInPlace => FpInPlace')
    BY <1>3, <2>3 DEF InPlace, FpInPlace, Onwards
  <2>7. at' = 8 /\ UNCHANGED <<handler, thumb, odd>>
    BY <1>12, <2>3 DEF Onwards
  <2>8. MasterInv'
    BY <1>3, <2>2, <2>3, <2>4, <2>5, <2>6, <2>7 DEF MasterInv
  <2>9. /\ regs' \in Registers /\ spsr' \in Entry!Values
        /\ open' \in BOOLEAN /\ stack' \in Seq(Entry!Values)
    BY <1>2, <2>2, <2>3, <2>4, <2>5, <2>6, <2>7, <2>8, MasterTyped, SavedTyped DEF EntryTypes
  <2>10. at # 22
    BY <1>12
  <2>11. QED
    BY <1>4, <2>3, <2>8, <2>9, <2>10
<1>13. ASSUME at = 8, ~Entry!Nested PROVE Done
  <2>1. i = Entry!Push(<<"r0">>)
    BY <1>13, MasterCode DEF i
  <2>2. spsr = Entry!Status /\ ~open /\ stack = Master4 /\ regs["r0"] = Fpscr
    BY <1>13 DEF MasterInv
  <2>3. /\ Onwards /\ UNCHANGED <<regs, spsr, open>>
        /\ stack' = stack \o Frame(<<"r0">>, regs)
    BY <1>13, <2>1, ListsOnce, PushStep DEF i
  <2>4. Frame(<<"r0">>, regs) = Frame(<<"r0">>, All(Fpscr))
    BY <2>2, R0Saved
  <2>5. stack' = Master5
    BY <2>2, <2>3, <2>4 DEF Master5
  <2>6. (InPlace => InPlace') /\ (FpInPlace => FpInPlace')
    BY <1>3, <2>3 DEF InPlace, FpInPlace, Onwards
  <2>7. at' = 9 /\ UNCHANGED <<handler, thumb, odd>>
    BY <1>13, <2>3 DEF Onwards
  <2>8. MasterInv'
    BY <1>3, <2>2, <2>3, <2>4, <2>5, <2>6, <2>7 DEF MasterInv
  <2>9. /\ regs' \in Registers /\ spsr' \in Entry!Values
        /\ open' \in BOOLEAN /\ stack' \in Seq(Entry!Values)
    BY <1>2, <2>2, <2>3, <2>4, <2>5, <2>6, <2>7, <2>8, MasterTyped, SavedTyped DEF EntryTypes
  <2>10. at # 22
    BY <1>13
  <2>11. QED
    BY <1>4, <2>3, <2>8, <2>9, <2>10
<1>14. ASSUME at = 9, ~Entry!Nested PROVE Done
  <2>1. i = Entry!Align
    BY <1>14, MasterCode DEF i
  <2>2. spsr = Entry!Status /\ ~open /\ stack = Master5
    BY <1>14 DEF MasterInv
  <2>3. /\ Onwards /\ UNCHANGED <<spsr, open>>
        /\ stack' = IF odd = 1 THEN stack ELSE Append(stack, Entry!Junk)
        /\ regs'["r2"] = Entry!Pad(1 - odd) /\ regs' \in Registers
    BY <1>14, <2>1, <2>2, MasterTyped, AlignStep DEF i
  <2>4. stack' = Master6
    BY <2>2, <2>3 DEF Master6
  <2>5. at' = 10 /\ UNCHANGED <<handler, thumb, odd>>
    BY <1>14, <2>3 DEF Onwards
  <2>6. MasterInv'
    BY <1>3, <2>2, <2>3, <2>4, <2>5 DEF MasterInv
  <2>7. /\ regs' \in Registers /\ spsr' \in Entry!Values
        /\ open' \in BOOLEAN /\ stack' \in Seq(Entry!Values)
    BY <1>2, <2>2, <2>3, <2>4, <2>5, <2>6, MasterTyped, SavedTyped DEF EntryTypes
  <2>8. at # 22
    BY <1>14
  <2>9. QED
    BY <1>4, <2>3, <2>6, <2>7, <2>8
<1>15. ASSUME at = 10, ~Entry!Nested PROVE Done
  <2>1. i = Entry!Push(Called)
    BY <1>15, MasterCode DEF i
  <2>2. spsr = Entry!Status /\ ~open /\ stack = Master6 /\ regs["r2"] = Entry!Pad(1 - odd)
    BY <1>15 DEF MasterInv
  <2>3. /\ Onwards /\ UNCHANGED <<regs, spsr, open>>
        /\ stack' = stack \o Frame(Called, regs)
    BY <1>15, <2>1, MasterTyped, PushStep DEF i
  <2>4. OnTop'
    BY <1>3, <2>2, <2>3 DEF OnTop, Onwards, EntryTypes
  <2>5. stack' \in Seq(Entry!Values)
    BY <2>2, <2>3, MasterTyped, StackGrows DEF EntryTypes
  <2>6. at' = 11 /\ UNCHANGED <<handler, thumb, odd>>
    BY <1>15, <2>3 DEF Onwards
  <2>7. MasterInv'
    BY <1>3, <2>2, <2>3, <2>4, <2>5, <2>6 DEF MasterInv
  <2>8. /\ regs' \in Registers /\ spsr' \in Entry!Values
        /\ open' \in BOOLEAN /\ stack' \in Seq(Entry!Values)
    BY <1>2, <2>2, <2>3, <2>4, <2>5, <2>6, <2>7, MasterTyped, SavedTyped DEF EntryTypes
  <2>9. at # 22
    BY <1>15
  <2>10. QED
    BY <1>4, <2>3, <2>7, <2>8, <2>9
<1>16. ASSUME at = 11, ~Entry!Nested PROVE Done
  <2>1. i = Entry!Call
    BY <1>16, MasterCode DEF i
  <2>2. OnTop
    BY <1>16 DEF MasterInv
  <2>3. /\ Onwards /\ UNCHANGED stack
        /\ regs' \in Registers /\ open' \in BOOLEAN /\ spsr' \in Entry!Values
    BY <1>16, <2>1, CallStep DEF i
  <2>4. OnTop'
    BY <1>3, <2>2, <2>3 DEF OnTop, Onwards
  <2>5. at' = 12 /\ UNCHANGED <<handler, thumb, odd>>
    BY <1>16, <2>3 DEF Onwards
  <2>6. MasterInv'
    BY <1>3, <2>2, <2>3, <2>4, <2>5 DEF MasterInv
  <2>7. /\ regs' \in Registers /\ spsr' \in Entry!Values
        /\ open' \in BOOLEAN /\ stack' \in Seq(Entry!Values)
    BY <1>2, <2>2, <2>3, <2>4, <2>5, <2>6, MasterTyped, SavedTyped DEF EntryTypes
  <2>8. at # 22
    BY <1>16
  <2>9. QED
    BY <1>4, <2>3, <2>6, <2>7, <2>8
<1>17. ASSUME at = 12, ~Entry!Nested PROVE Done
  <2>1. i = Entry!Pop(Called)
    BY <1>17, MasterCode DEF i
  <2>2. OnTop
    BY <1>17 DEF MasterInv
  <2>3. /\ Onwards /\ UNCHANGED <<spsr, open>> /\ stack' = Master6 /\ regs' \in Registers
        /\ regs'["r2"] = Entry!Pad(1 - odd)
    <3>1. PICK v \in Registers : v["r2"] = Entry!Pad(1 - odd) /\ stack = Master6 \o Frame(Called, v)
      BY <2>2 DEF OnTop
    <3>2. RegList(Called) /\ Len(Called) = 6 /\ Master6 \in Seq(Entry!Values)
      BY MasterTyped
    <3>3. Entry!Program[handler][at] = Entry!Pop(Called)
      BY <2>1 DEF i
    <3>4. /\ Onwards /\ UNCHANGED <<spsr, open>> /\ stack' = Master6 /\ regs' \in Registers
          /\ \A j \in 1 .. Len(Called) : regs'[Called[j]] = v[Called[j]]
      BY <1>17, <3>1, <3>2, <3>3, PopStep
    <3>5. 3 \in 1 .. Len(Called) /\ Called[3] = "r2"
      BY <3>2 DEF Called
    <3>6. QED
      BY <3>1, <3>4, <3>5
  <2>4. at' = 13 /\ UNCHANGED <<handler, thumb, odd>>
    BY <1>17, <2>3 DEF Onwards
  <2>5. MasterInv'
    BY <1>3, <2>2, <2>3, <2>4 DEF MasterInv
  <2>6. /\ regs' \in Registers /\ spsr' \in Entry!Values
        /\ open' \in BOOLEAN /\ stack' \in Seq(Entry!Values)
    BY <1>2, <2>2, <2>3, <2>4, <2>5, MasterTyped, SavedTyped DEF EntryTypes
  <2>7. at # 22
    BY <1>17
  <2>8. QED
    BY <1>4, <2>3, <2>5, <2>6, <2>7
<1>18. ASSUME at = 13, ~Entry!Nested PROVE Done
  <2>1. i = Entry!Unalign
    BY <1>18, MasterCode DEF i
  <2>2. stack = Master6 /\ regs["r2"] = Entry!Pad(1 - odd)
    BY <1>18 DEF MasterInv
  <2>3. /\ Onwards /\ UNCHANGED <<regs, spsr, open>>
        /\ stack' = SubSeq(stack, 1, Len(stack) - (1 - odd))
    BY <1>18, <2>1, <2>2, UnalignStep DEF i
  <2>4. stack' = Master5
    <3>1. /\ Master5 \in Seq(Entry!Values) /\ Len(Master5) = 11 /\ Len(Master6) = 12 - odd
          /\ odd \in {0, 1}
      BY MasterTyped DEF EntryTypes
    <3>2. Len(stack) - (1 - odd) = 11
      BY <2>2, <3>1
    <3>3. stack' = SubSeq(Master6, 1, 11)
      BY <2>2, <2>3, <3>2
    <3>4. SubSeq(Master5, 1, 11) = Master5
      BY <3>1
    <3>5. SubSeq(Append(Master5, Entry!Junk), 1, 11) = Master5
      <4>1. Entry!Junk \in Entry!Values
        BY SavedTyped
      <4>2. SubSeq(Append(Master5, Entry!Junk), 1, Len(Master5)) = Master5
        BY <3>1, <4>1, PadGone
      <4>3. QED
        BY <3>1, <4>2
    <3>6. QED
      BY <3>1, <3>3, <3>4, <3>5 DEF Master6
  <2>5. at' = 14 /\ UNCHANGED <<handler, thumb, odd>>
    BY <1>18, <2>3 DEF Onwards
  <2>6. MasterInv'
    BY <1>3, <2>2, <2>3, <2>4, <2>5 DEF MasterInv
  <2>7. /\ regs' \in Registers /\ spsr' \in Entry!Values
        /\ open' \in BOOLEAN /\ stack' \in Seq(Entry!Values)
    BY <1>2, <2>2, <2>3, <2>4, <2>5, <2>6, MasterTyped, SavedTyped DEF EntryTypes
  <2>8. at # 22
    BY <1>18
  <2>9. QED
    BY <1>4, <2>3, <2>6, <2>7, <2>8
<1>19. ASSUME at = 14, ~Entry!Nested PROVE Done
  <2>1. i = Entry!MaskIrq
    BY <1>19, MasterCode DEF i
  <2>2. stack = Master5
    BY <1>19 DEF MasterInv
  <2>3. Onwards /\ UNCHANGED <<regs, spsr, stack>> /\ open' = FALSE
    BY <1>19, <2>1, MaskIrqStep DEF i
  <2>4. at' = 15 /\ UNCHANGED <<handler, thumb, odd>>
    BY <1>19, <2>3 DEF Onwards
  <2>5. MasterInv'
    BY <1>3, <2>2, <2>3, <2>4 DEF MasterInv
  <2>6. /\ regs' \in Registers /\ spsr' \in Entry!Values
        /\ open' \in BOOLEAN /\ stack' \in Seq(Entry!Values)
    BY <1>2, <2>2, <2>3, <2>4, <2>5, MasterTyped, SavedTyped DEF EntryTypes
  <2>7. at # 22
    BY <1>19
  <2>8. QED
    BY <1>4, <2>3, <2>5, <2>6, <2>7
<1>20. ASSUME at = 15, ~Entry!Nested PROVE Done
  <2>1. i = Entry!Pop(<<"r0">>)
    BY <1>20, MasterCode DEF i
  <2>2. stack = Master5 /\ ~open
    BY <1>20 DEF MasterInv
  <2>3. /\ Onwards /\ UNCHANGED <<spsr, open>> /\ stack' = Master4 /\ regs' \in Registers
        /\ \A j \in 1 .. 1 : regs'[<<"r0">>[j]] = All(Fpscr)[<<"r0">>[j]]
        /\ \A r \in Entry!AllRegs : (\A j \in 1 .. 1 : <<"r0">>[j] # r) => regs'[r] = regs[r]
    <3>1. RegList(<<"r0">>) /\ Len(<<"r0">>) = 1
      BY ListsOnce, MasterTyped
    <3>2. Entry!Program[handler][at] = Entry!Pop(<<"r0">>)
      BY <2>1 DEF i
    <3>3. stack = Master4 \o Frame(<<"r0">>, All(Fpscr))
      BY <2>2 DEF Master5
    <3>4. Master4 \in Seq(Entry!Values) /\ All(Fpscr) \in Registers
      BY MasterTyped, SavedTyped
    <3>5. /\ Onwards /\ UNCHANGED <<spsr, open>> /\ stack' = Master4 /\ regs' \in Registers
          /\ \A j \in 1 .. Len(<<"r0">>) : regs'[<<"r0">>[j]] = All(Fpscr)[<<"r0">>[j]]
          /\ \A r \in Entry!AllRegs :
               (\A j \in 1 .. Len(<<"r0">>) : <<"r0">>[j] # r) => regs'[r] = regs[r]
      BY <1>20, <3>1, <3>2, <3>3, <3>4, PopStep
    <3>6. QED
      BY <3>1, <3>5
  <2>4. regs'["r0"] = Fpscr
    BY <2>3 DEF All, Entry!AllRegs, Entry!CoreRegs
  <2>5. at' = 16 /\ UNCHANGED <<handler, thumb, odd>>
    BY <1>20, <2>3 DEF Onwards
  <2>6. MasterInv'
    BY <1>3, <2>2, <2>3, <2>4, <2>5 DEF MasterInv
  <2>7. /\ regs' \in Registers /\ spsr' \in Entry!Values
        /\ open' \in BOOLEAN /\ stack' \in Seq(Entry!Values)
    BY <1>2, <2>2, <2>3, <2>4, <2>5, <2>6, MasterTyped, SavedTyped DEF EntryTypes
  <2>8. at # 22
    BY <1>20
  <2>9. QED
    BY <1>4, <2>3, <2>6, <2>7, <2>8
<1>21. ASSUME at = 16, ~Entry!Nested PROVE Done
  <2>1. i = Entry!Pop(Entry!Doubles)
    BY <1>21, MasterCode DEF i
  <2>2. stack = Master4 /\ ~open /\ regs["r0"] = Fpscr
    BY <1>21 DEF MasterInv
  <2>3. /\ Onwards /\ UNCHANGED <<spsr, open>> /\ stack' = Master3 /\ regs' \in Registers
        /\ \A j \in 1 .. 2 : regs'[Entry!Doubles[j]] = Entered[Entry!Doubles[j]]
        /\ \A r \in Entry!AllRegs : (\A j \in 1 .. 2 : Entry!Doubles[j] # r) => regs'[r] = regs[r]
    <3>1. RegList(Entry!Doubles) /\ Len(Entry!Doubles) = 2
      BY ListsOnce, MasterTyped
    <3>2. Entry!Program[handler][at] = Entry!Pop(Entry!Doubles)
      BY <2>1 DEF i
    <3>3. stack = Master3 \o Frame(Entry!Doubles, Entered)
      BY <2>2 DEF Master4
    <3>4. Master3 \in Seq(Entry!Values) /\ Entered \in Registers
      BY MasterTyped, SavedTyped
    <3>5. /\ Onwards /\ UNCHANGED <<spsr, open>> /\ stack' = Master3 /\ regs' \in Registers
          /\ \A j \in 1 .. Len(Entry!Doubles) : regs'[Entry!Doubles[j]] = Entered[Entry!Doubles[j]]
          /\ \A r \in Entry!AllRegs :
               (\A j \in 1 .. Len(Entry!Doubles) : Entry!Doubles[j] # r) => regs'[r] = regs[r]
      BY <1>21, <3>1, <3>2, <3>3, <3>4, PopStep
    <3>6. QED
      BY <3>1, <3>5
  <2>4. /\ \A r \in {"d0_7", "d8_15"} : regs'[r] = Entered[r]
        /\ regs'["r0"] = Fpscr
    BY <2>2, <2>3 DEF Entry!Doubles, Entry!AllRegs, Entry!CoreRegs
  <2>5. at' = 17 /\ UNCHANGED <<handler, thumb, odd>>
    BY <1>21, <2>3 DEF Onwards
  <2>6. MasterInv'
    BY <1>3, <2>2, <2>3, <2>4, <2>5 DEF MasterInv
  <2>7. /\ regs' \in Registers /\ spsr' \in Entry!Values
        /\ open' \in BOOLEAN /\ stack' \in Seq(Entry!Values)
    BY <1>2, <2>2, <2>3, <2>4, <2>5, <2>6, MasterTyped, SavedTyped DEF EntryTypes
  <2>8. at # 22
    BY <1>21
  <2>9. QED
    BY <1>4, <2>3, <2>6, <2>7, <2>8
<1>22. ASSUME at = 17, ~Entry!Nested PROVE Done
  <2>1. i = Entry!WriteFpscr
    BY <1>22, MasterCode DEF i
  <2>2. /\ stack = Master3 /\ ~open /\ regs["r0"] = Fpscr
        /\ \A r \in {"d0_7", "d8_15"} : regs[r] = Entered[r]
    BY <1>22 DEF MasterInv
  <2>3. /\ Onwards /\ UNCHANGED <<spsr, stack, open>>
        /\ regs'["fpscr"] = regs["r0"] /\ regs' \in Registers
        /\ \A r \in Entry!AllRegs : r # "fpscr" => regs'[r] = regs[r]
    BY <1>22, <2>1, WriteFpscrStep DEF i
  <2>4. Entered["fpscr"] = Fpscr
    BY <1>2 DEF Entered, Fpscr, Entry!AllRegs, Entry!FpRegs
  <2>5. FpInPlace'
    BY <1>3, <2>2, <2>3, <2>4 DEF FpInPlace, Onwards, Entry!AllRegs, Entry!FpRegs
  <2>6. at' = 18 /\ UNCHANGED <<handler, thumb, odd>>
    BY <1>22, <2>3 DEF Onwards
  <2>7. MasterInv'
    BY <1>3, <2>2, <2>3, <2>4, <2>5, <2>6 DEF MasterInv
  <2>8. /\ regs' \in Registers /\ spsr' \in Entry!Values
        /\ open' \in BOOLEAN /\ stack' \in Seq(Entry!Values)
    BY <1>2, <2>2, <2>3, <2>4, <2>5, <2>6, <2>7, MasterTyped, SavedTyped DEF EntryTypes
  <2>9. at # 22
    BY <1>22
  <2>10. QED
    BY <1>4, <2>3, <2>7, <2>8, <2>9
<1>23. ASSUME at = 18, ~Entry!Nested PROVE Done
  <2>1. i = Entry!Pop(Entry!Used)
    BY <1>23, MasterCode DEF i
  <2>2. stack = Master3 /\ ~open /\ FpInPlace
    BY <1>23 DEF MasterInv
  <2>3. /\ Onwards /\ UNCHANGED <<spsr, open>> /\ stack' = Master2 /\ regs' \in Registers
        /\ \A j \in 1 .. 6 : regs'[Entry!Used[j]] = Entered[Entry!Used[j]]
        /\ \A r \in Entry!AllRegs : (\A j \in 1 .. 6 : Entry!Used[j] # r) => regs'[r] = regs[r]
    <3>1. RegList(Entry!Used) /\ Len(Entry!Used) = 6
      BY ListsOnce, MasterTyped
    <3>2. Entry!Program[handler][at] = Entry!Pop(Entry!Used)
      BY <2>1 DEF i
    <3>3. stack = Master2 \o Frame(Entry!Used, Entered)
      BY <2>2 DEF Master3
    <3>4. Master2 \in Seq(Entry!Values) /\ Entered \in Registers
      BY MasterTyped, SavedTyped
    <3>5. /\ Onwards /\ UNCHANGED <<spsr, open>> /\ stack' = Master2 /\ regs' \in Registers
          /\ \A j \in 1 .. Len(Entry!Used) : regs'[Entry!Used[j]] = Entered[Entry!Used[j]]
          /\ \A r \in Entry!AllRegs :
               (\A j \in 1 .. Len(Entry!Used) : Entry!Used[j] # r) => regs'[r] = regs[r]
      BY <1>23, <3>1, <3>2, <3>3, <3>4, PopStep
    <3>6. QED
      BY <3>1, <3>5
  <2>4. InPlace'
    BY <1>3, <2>3, ListsOnce, UsedBack DEF Onwards
  <2>5. FpInPlace'
    BY <1>3, <2>2, <2>3 DEF FpInPlace, Onwards, Entry!AllRegs, Entry!FpRegs, Entry!Used
  <2>6. at' = 19 /\ UNCHANGED <<handler, thumb, odd>>
    BY <1>23, <2>3 DEF Onwards
  <2>7. MasterInv'
    BY <1>3, <2>2, <2>3, <2>4, <2>5, <2>6 DEF MasterInv
  <2>8. /\ regs' \in Registers /\ spsr' \in Entry!Values
        /\ open' \in BOOLEAN /\ stack' \in Seq(Entry!Values)
    BY <1>2, <2>2, <2>3, <2>4, <2>5, <2>6, <2>7, MasterTyped, SavedTyped DEF EntryTypes
  <2>9. at # 22
    BY <1>23
  <2>10. QED
    BY <1>4, <2>3, <2>7, <2>8, <2>9
<1>24. ASSUME at = 19, ~Entry!Nested PROVE Done
  <2>1. i = Entry!Pop(Entry!Lr)
    BY <1>24, MasterCode DEF i
  <2>2. stack = Master2 /\ ~open /\ InPlace /\ FpInPlace
    BY <1>24 DEF MasterInv
  <2>3. /\ Onwards /\ UNCHANGED <<spsr, open>> /\ stack' = Master1 /\ regs' \in Registers
        /\ \A j \in 1 .. 1 : regs'[Entry!Lr[j]] = All(Entry!Status)[Entry!Lr[j]]
        /\ \A r \in Entry!AllRegs : (\A j \in 1 .. 1 : Entry!Lr[j] # r) => regs'[r] = regs[r]
    <3>1. RegList(Entry!Lr) /\ Len(Entry!Lr) = 1
      BY ListsOnce, MasterTyped
    <3>2. Entry!Program[handler][at] = Entry!Pop(Entry!Lr)
      BY <2>1 DEF i
    <3>3. stack = Master1 \o Frame(Entry!Lr, All(Entry!Status))
      BY <2>2 DEF Master2
    <3>4. Master1 \in Seq(Entry!Values) /\ All(Entry!Status) \in Registers
      BY MasterTyped, SavedTyped
    <3>5. /\ Onwards /\ UNCHANGED <<spsr, open>> /\ stack' = Master1 /\ regs' \in Registers
          /\ \A j \in 1 .. Len(Entry!Lr) : regs'[Entry!Lr[j]] = All(Entry!Status)[Entry!Lr[j]]
          /\ \A r \in Entry!AllRegs :
               (\A j \in 1 .. Len(Entry!Lr) : Entry!Lr[j] # r) => regs'[r] = regs[r]
      BY <1>24, <3>1, <3>2, <3>3, <3>4, PopStep
    <3>6. QED
      BY <3>1, <3>5
  <2>4. regs'["lr"] = Entry!Status
    BY <2>3 DEF All, Entry!Lr, Entry!AllRegs
  <2>5. InPlace' /\ FpInPlace'
    BY <1>3, <2>2, <2>3 DEF InPlace, FpInPlace, Onwards, Entry!AllRegs, Entry!CoreRegs, Entry!FpRegs, Entry!Lr
  <2>6. at' = 20 /\ UNCHANGED <<handler, thumb, odd>>
    BY <1>24, <2>3 DEF Onwards
  <2>7. MasterInv'
    BY <1>3, <2>2, <2>3, <2>4, <2>5, <2>6 DEF MasterInv
  <2>8. /\ regs' \in Registers /\ spsr' \in Entry!Values
        /\ open' \in BOOLEAN /\ stack' \in Seq(Entry!Values)
    BY <1>2, <2>2, <2>3, <2>4, <2>5, <2>6, <2>7, MasterTyped, SavedTyped DEF EntryTypes
  <2>9. at # 22
    BY <1>24
  <2>10. QED
    BY <1>4, <2>3, <2>7, <2>8, <2>9
<1>25. ASSUME at = 20, ~Entry!Nested PROVE Done
  <2>1. i = Entry!WriteSpsr
    BY <1>25, MasterCode DEF i
  <2>2. stack = Master1 /\ ~open /\ InPlace /\ FpInPlace /\ regs["lr"] = Entry!Status
    BY <1>25 DEF MasterInv
  <2>3. Onwards /\ UNCHANGED <<regs, stack, open>> /\ spsr' = Entry!Status
    BY <1>25, <2>1, <2>2, WriteSpsrStep DEF i
  <2>4. (InPlace => InPlace') /\ (FpInPlace => FpInPlace')
    BY <1>3, <2>3 DEF InPlace, FpInPlace, Onwards
  <2>5. at' = 21 /\ UNCHANGED <<handler, thumb, odd>>
    BY <1>25, <2>3 DEF Onwards
  <2>6. MasterInv'
    BY <1>3, <2>2, <2>3, <2>4, <2>5 DEF MasterInv
  <2>7. /\ regs' \in Registers /\ spsr' \in Entry!Values
        /\ open' \in BOOLEAN /\ stack' \in Seq(Entry!Values)
    BY <1>2, <2>2, <2>3, <2>4, <2>5, <2>6, MasterTyped, SavedTyped DEF EntryTypes
  <2>8. at # 22
    BY <1>25
  <2>9. QED
    BY <1>4, <2>3, <2>6, <2>7, <2>8
<1>26. ASSUME at = 21, ~Entry!Nested PROVE Done
  <2>1. i = Entry!Pop(Entry!Lr)
    BY <1>26, MasterCode DEF i
  <2>2. stack = Master1 /\ ~open /\ InPlace /\ FpInPlace /\ spsr = Entry!Status
    BY <1>26 DEF MasterInv
  <2>3. /\ Onwards /\ UNCHANGED <<spsr, open>> /\ stack' = <<>> /\ regs' \in Registers
        /\ \A j \in 1 .. 1 : regs'[Entry!Lr[j]] = All(Entry!Code(0))[Entry!Lr[j]]
        /\ \A r \in Entry!AllRegs : (\A j \in 1 .. 1 : Entry!Lr[j] # r) => regs'[r] = regs[r]
    <3>1. RegList(Entry!Lr) /\ Len(Entry!Lr) = 1
      BY ListsOnce, MasterTyped
    <3>2. Entry!Program[handler][at] = Entry!Pop(Entry!Lr)
      BY <2>1 DEF i
    <3>3. stack = <<>> \o Frame(Entry!Lr, All(Entry!Code(0)))
      BY <2>2 DEF Master1
    <3>4. <<>> \in Seq(Entry!Values) /\ All(Entry!Code(0)) \in Registers
      BY MasterTyped, SavedTyped
    <3>5. /\ Onwards /\ UNCHANGED <<spsr, open>> /\ stack' = <<>> /\ regs' \in Registers
          /\ \A j \in 1 .. Len(Entry!Lr) : regs'[Entry!Lr[j]] = All(Entry!Code(0))[Entry!Lr[j]]
          /\ \A r \in Entry!AllRegs :
               (\A j \in 1 .. Len(Entry!Lr) : Entry!Lr[j] # r) => regs'[r] = regs[r]
      BY <1>26, <3>1, <3>2, <3>3, <3>4, PopStep
    <3>6. QED
      BY <3>1, <3>5
  <2>4. regs'["lr"] = Entry!Code(0)
    BY <2>3 DEF All, Entry!Lr, Entry!AllRegs
  <2>5. InPlace' /\ FpInPlace'
    BY <1>3, <2>2, <2>3 DEF InPlace, FpInPlace, Onwards, Entry!AllRegs, Entry!CoreRegs, Entry!FpRegs, Entry!Lr
  <2>6. at' = 22 /\ UNCHANGED <<handler, thumb, odd>>
    BY <1>26, <2>3 DEF Onwards
  <2>7. MasterInv'
    BY <1>3, <2>2, <2>3, <2>4, <2>5, <2>6 DEF MasterInv
  <2>8. /\ regs' \in Registers /\ spsr' \in Entry!Values
        /\ open' \in BOOLEAN /\ stack' \in Seq(Entry!Values)
    BY <1>2, <2>2, <2>3, <2>4, <2>5, <2>6, <2>7, MasterTyped, SavedTyped DEF EntryTypes
  <2>9. at # 22
    BY <1>26
  <2>10. QED
    BY <1>4, <2>3, <2>7, <2>8, <2>9
<1>27. ASSUME at = 22
       PROVE  EntryTypes' /\ at' = 0 /\ open' = FALSE
              /\ UNCHANGED <<handler, thumb, regs, spsr, stack, odd>>
  <2>1. i = Entry!Return /\ ~Entry!Nested
    BY <1>27, <1>5, MasterCode DEF i
  <2>2. at' = 0 /\ open' = FALSE /\ UNCHANGED <<handler, thumb, regs, spsr, stack, odd>>
    BY <1>27, <2>1, ReturnStep DEF i
  <2>3. 0 \in 0 .. Len(Entry!Program[handler])
    BY <1>2
  <2>4. QED
    BY <2>2, <2>3 DEF EntryTypes
<1>28. at # 22 => Done
  BY <1>1, <1>5, <1>6, <1>7, <1>8, <1>9, <1>10, <1>11, <1>12, <1>13, <1>14, <1>15, <1>16, <1>17, <1>18, <1>19, <1>20, <1>21, <1>22, <1>23, <1>24, <1>25, <1>26
<1>29. QED
  BY <1>27, <1>28 DEF Done

-----------------------------------------------------------------------------
(* All seven.                                                              *)

EntryInv ==
  /\ EntryTypes
  /\ at > 0 /\ handler # "masterIsr" => BriefInv
  /\ at > 0 /\ handler = "masterIsr" => MasterInv
  /\ at = 0 => open = FALSE /\ Entry!ContextRestored

LEMMA ProgramLength == \A h \in Entry!Vectors : Len(Entry!Program[h]) \in {11, 12, 22}
<1>1. /\ Len(Entry!masterIsr) = 22 /\ Len(Entry!DAbt_Handler) = 12
      /\ Len(Entry!Undef_Handler) = 11 /\ Len(Entry!PAbt_Handler) = 11
      /\ Len(Entry!IRQ_Handler) = 11
  BY DEF Entry!masterIsr, Entry!DAbt_Handler, Entry!Undef_Handler, Entry!PAbt_Handler,
         Entry!IRQ_Handler
<1>2. Len(Entry!SVC_Handler) = 11 /\ Len(Entry!FIQ_Handler) = 11
  BY <1>1 DEF Entry!SVC_Handler, Entry!FIQ_Handler
<1>3. QED
  BY <1>1, <1>2 DEF Entry!Program, Entry!Vectors

LEMMA EntryInit == Entry!Init => EntryInv
<1> SUFFICES ASSUME Entry!Init PROVE EntryInv
  OBVIOUS
<1>1. /\ handler \in Handlers /\ thumb = FALSE /\ at = 0 /\ odd = 0 /\ open = FALSE
      /\ regs = [r \in Entry!AllRegs |->
                   IF r = "lr" THEN Entry!Code(Entry!ResumesAt) ELSE Entry!User(r)]
      /\ spsr = Entry!Status /\ stack = <<>>
  BY DEF Entry!Init
<1>2. handler \in Entry!Vectors
  BY <1>1, CoreAssumption DEF Entry!Vectors
<1>3. Entry!ResumesAt \in {0, 4}
  BY <1>1 DEF Entry!ResumesAt
<1>4. /\ Entry!Status \in Entry!Values /\ Entry!Code(Entry!ResumesAt) \in Entry!Values
      /\ \A r \in Entry!CoreRegs \cup Entry!FpRegs : Entry!User(r) \in Entry!Values
  BY <1>3 DEF Entry!Values
<1>5. regs \in Registers
  BY <1>1, <1>4 DEF Registers, Entry!AllRegs
<1>6. 0 \in 0 .. Len(Entry!Program[handler])
  BY <1>2, ProgramLength
<1>7. EntryTypes
  <2>1. <<>> \in Seq(Entry!Values)
    OBVIOUS
  <2>2. QED
    BY <1>1, <1>2, <1>4, <1>5, <1>6, <2>1 DEF EntryTypes
<1>8. Entry!ContextRestored
  BY <1>1 DEF Entry!ContextRestored, Entry!Kept, Entry!AllRegs, Entry!CoreRegs, Entry!FpRegs
<1>9. QED
  BY <1>1, <1>7, <1>8 DEF EntryInv

\* An exception is taken.
LEMMA TakeStep == ASSUME EntryTypes, Entry!Take PROVE EntryInv'
<1>1. /\ at' = 1 /\ handler' \in Handlers /\ odd' \in {0, 1}
      /\ thumb' \in (IF handler' = "DAbt" THEN BOOLEAN ELSE {FALSE})
      /\ regs' = [r \in Entry!AllRegs |-> IF r = "lr" THEN Entry!Code(Entry!LinkOnEntry(handler'))
                                          ELSE Entry!User(r)]
      /\ spsr' = Entry!Status /\ stack' = <<>> /\ open' = FALSE
  BY DEF Entry!Take
<1>2. handler' \in Entry!Vectors
  BY <1>1, CoreAssumption DEF Entry!Vectors
<1>3. Entry!LinkOnEntry(handler') \in {4, 8}
  BY DEF Entry!LinkOnEntry
<1>4. /\ Entry!Status \in Entry!Values /\ Entry!Code(Entry!LinkOnEntry(handler')) \in Entry!Values
      /\ \A r \in Entry!CoreRegs \cup Entry!FpRegs : Entry!User(r) \in Entry!Values
  BY <1>3 DEF Entry!Values
<1>5. regs' \in Registers
  BY <1>1, <1>4 DEF Registers, Entry!AllRegs
<1>6. 1 \in 0 .. Len(Entry!Program[handler'])
  BY <1>2, ProgramLength
<1>7. EntryTypes'
  <2>1. <<>> \in Seq(Entry!Values)
    OBVIOUS
  <2>2. thumb' \in BOOLEAN /\ stack' \in Seq(Entry!Values)
    BY <1>1, <2>1
  <2>3. QED
    BY <1>1, <1>2, <1>4, <1>5, <1>6, <2>2 DEF EntryTypes
<1>8. ASSUME handler' = "DAbt" PROVE BriefInv'
  <2>1. Here' = 0
    BY <1>1, <1>8 DEF Here
  <2>2. Entry!LinkOnEntry(handler') = 8
    BY <1>8 DEF Entry!LinkOnEntry
  <2>3. regs' = [Entered' EXCEPT !["r0"] = Entry!User("r0"), !["r1"] = Entry!User("r1"),
                                 !["lr"] = Entry!Code(8)]
    BY <1>1, <1>8, <2>2 DEF Entered, Entry!AllRegs, Entry!CoreRegs
  <2>4. spsr' = Entry!Status /\ stack' = <<>> /\ open' = FALSE
    BY <1>1
  <2>5. /\ Here' # 1 /\ Here' # 2 /\ Here' # 3 /\ Here' # 4 /\ Here' # 5
        /\ Here' \notin {6, 7} /\ Here' # 8 /\ Here' # 9 /\ Here' # 10 /\ Here' # 11
    BY <2>1
  <2>6. QED
    BY <2>3, <2>4, <2>5, Zenon DEF BriefInv
<1>9. ASSUME handler' # "DAbt"
      PROVE  InPlace' /\ FpInPlace' /\ regs'["lr"] = Entry!Code(4)
  <2>1. Entry!LinkOnEntry(handler') = 4
    BY <1>9 DEF Entry!LinkOnEntry
  <2>2. QED
    BY <1>1, <1>9, <2>1
    DEF InPlace, FpInPlace, Entered, Entry!AllRegs, Entry!CoreRegs, Entry!FpRegs
<1>10. ASSUME handler' # "DAbt", handler' # "masterIsr" PROVE BriefInv'
  <2>1. Here' = 1
    BY <1>1, <1>10 DEF Here
  <2>2. Before' = Entry!Code(4)
    BY <1>10 DEF Before, Entry!ResumesAt
  <2>3. QED
    BY <1>1, <1>9, <1>10, <2>1, <2>2 DEF BriefInv
<1>11. ASSUME handler' = "masterIsr" PROVE MasterInv'
  BY <1>1, <1>9, <1>11 DEF MasterInv
<1>12. QED
  BY <1>1, <1>7, <1>8, <1>10, <1>11 DEF EntryInv

\* A handler comes back.
LEMMA Restored ==
  ASSUME EntryInv, at > 0, handler # "masterIsr" => Here = 11, handler = "masterIsr" => at = 22
  PROVE  /\ \A r \in Entry!Kept : regs[r] = Entry!User(r)
         /\ stack = <<>> /\ spsr = Entry!Status /\ regs["lr"] = Entry!Code(Entry!ResumesAt)
<1>1. CASE handler = "masterIsr"
  <2>1. /\ spsr = Entry!Status /\ InPlace /\ FpInPlace /\ stack = <<>>
        /\ regs["lr"] = Entry!Code(0)
    BY <1>1 DEF EntryInv, MasterInv
  <2>2. \A r \in Entry!Kept : regs[r] = Entry!User(r)
    BY <1>1, <2>1
    DEF InPlace, FpInPlace, Entered, Entry!Kept, Entry!AllRegs, Entry!CoreRegs, Entry!FpRegs
  <2>3. QED
    BY <1>1, <2>1, <2>2 DEF Entry!ResumesAt
<1>2. CASE handler # "masterIsr"
  <2>1. /\ spsr = Entry!Status /\ InPlace /\ stack = <<>> /\ regs["lr"] = Back
    BY <1>2 DEF EntryInv, BriefInv
  <2>2. \A r \in Entry!Kept : regs[r] = Entry!User(r)
    BY <1>2, <2>1 DEF InPlace, Entered, Entry!Kept, Entry!AllRegs, Entry!CoreRegs
  <2>3. QED
    BY <2>1, <2>2 DEF Back
<1>3. QED
  BY <1>1, <1>2

LEMMA EntryStep == ASSUME EntryInv, Entry!Next PROVE EntryInv'
<1>1. EntryTypes
  BY DEF EntryInv
<1>2. CASE at = 0
  <2>1. ~(at > 0)
    BY <1>2
  <2>2. Entry!Take
    BY <2>1, Zenon
    DEF Entry!Next, Entry!Nested, Entry!Is, Entry!ExecPush, Entry!ExecPop, Entry!ExecAdjust,
        Entry!ExecAdjustIfThumb, Entry!ExecReadSpsr, Entry!ExecWriteSpsr, Entry!ExecCall,
        Entry!ExecAlign, Entry!ExecUnalign, Entry!ExecMaskIrq, Entry!ExecReadFpscr,
        Entry!ExecWriteFpscr, Entry!ExecReturn
  <2>3. QED
    BY <1>1, <2>2, TakeStep
<1>3. ASSUME EntryTypes', at' = 0, open' = FALSE, at > 0,
             handler # "masterIsr" => Here = 11, handler = "masterIsr" => at = 22,
             UNCHANGED <<handler, thumb, odd, regs, spsr, stack>>
      PROVE  EntryInv'
  <2>1. /\ \A r \in Entry!Kept : regs[r] = Entry!User(r)
        /\ stack = <<>> /\ spsr = Entry!Status /\ regs["lr"] = Entry!Code(Entry!ResumesAt)
    BY <1>3, Restored
  <2>2. Entry!Kept' = Entry!Kept /\ Entry!ResumesAt' = Entry!ResumesAt
    BY <1>3 DEF Entry!Kept, Entry!ResumesAt
  <2>3. Entry!ContextRestored'
    BY <1>3, <2>1, <2>2 DEF Entry!ContextRestored
  <2>4. QED
    BY <1>3, <2>3 DEF EntryInv
<1>4. CASE at > 0 /\ handler # "masterIsr"
  <2>1. BriefInv
    BY <1>4 DEF EntryInv
  <2>2. /\ EntryTypes' /\ UNCHANGED <<handler, thumb, odd>>
        /\ Here # 11 => at' = at + 1 /\ BriefInv'
        /\ Here = 11 => at' = 0 /\ open' = FALSE /\ UNCHANGED <<regs, spsr, stack>>
    BY <1>1, <1>4, <2>1, BriefStep
  <2>3. CASE Here = 11
    BY <1>3, <1>4, <2>2, <2>3
  <2>4. CASE Here # 11
    <3>1. at' # 0 /\ handler' # "masterIsr"
      BY <1>1, <1>4, <2>2, <2>4 DEF EntryTypes
    <3>2. QED
      BY <2>2, <2>4, <3>1 DEF EntryInv
  <2>5. QED
    BY <2>3, <2>4
<1>5. CASE at > 0 /\ handler = "masterIsr"
  <2>1. MasterInv
    BY <1>5 DEF EntryInv
  <2>2. /\ EntryTypes' /\ UNCHANGED <<handler, thumb, odd>>
        /\ at # 22 => at' > 0 /\ MasterInv'
        /\ at = 22 => at' = 0 /\ open' = FALSE /\ UNCHANGED <<regs, spsr, stack>>
    BY <1>1, <1>5, <2>1, MasterStep
  <2>3. CASE at = 22
    BY <1>3, <1>5, <2>2, <2>3
  <2>4. CASE at # 22
    <3>1. at' # 0 /\ handler' = "masterIsr"
      BY <1>5, <2>2, <2>4
    <3>2. QED
      BY <2>2, <2>4, <3>1 DEF EntryInv
  <2>5. QED
    BY <2>3, <2>4
<1>6. at = 0 \/ at > 0
  BY <1>1 DEF EntryTypes
<1>7. QED
  BY <1>2, <1>4, <1>5, <1>6

LEMMA EntryInvNext == EntryInv /\ [MCNext]_mcVars => EntryInv'
<1> SUFFICES ASSUME EntryInv, [MCNext]_mcVars PROVE EntryInv'
  OBVIOUS
<1>1. Entry!Next \/ UNCHANGED entryVars
  BY DEF MCNext, InTimer, InBoot, InEntry, InTrace, mcVars
<1>2. CASE Entry!Next
  BY <1>2, EntryStep
<1>3. CASE UNCHANGED entryVars
  <2>1. /\ handler' = handler /\ thumb' = thumb /\ at' = at /\ regs' = regs /\ spsr' = spsr
        /\ stack' = stack /\ odd' = odd /\ open' = open
    BY <1>3 DEF entryVars
  <2>2. EntryTypes'
    BY <2>1 DEF EntryInv, EntryTypes
  <2>3. Entered' = Entered
    BY <2>1 DEF Entered
  <2>4. Entry!ResumesAt' = Entry!ResumesAt /\ Entry!Kept' = Entry!Kept
    BY <2>1 DEF Entry!ResumesAt, Entry!Kept
  <2>5. /\ Back' = Back /\ Before' = Before /\ Here' = Here
        /\ Saved1' = Saved1 /\ Saved2' = Saved2 /\ Saved3' = Saved3
    BY <2>1, <2>3, <2>4 DEF Back, Before, Here, Saved1, Saved2, Saved3
  <2>6. (InPlace => InPlace') /\ (FpInPlace => FpInPlace')
    BY <2>1, <2>3 DEF InPlace, FpInPlace
  <2>7. BriefInv => BriefInv'
    BY <2>1, <2>3, <2>5, <2>6 DEF BriefInv
  <2>8. /\ Master1' = Master1 /\ Master2' = Master2 /\ Master3' = Master3
        /\ Master4' = Master4 /\ Master5' = Master5 /\ Master6' = Master6
    BY <2>1, <2>3 DEF Master1, Master2, Master3, Master4, Master5, Master6
  <2>9. OnTop => OnTop'
    BY <2>1, <2>8 DEF OnTop
  <2>10. MasterInv => MasterInv'
    BY <2>1, <2>3, <2>6, <2>8, <2>9 DEF MasterInv
  <2>11. Entry!ContextRestored => Entry!ContextRestored'
    BY <2>1, <2>4 DEF Entry!ContextRestored
  <2>12. QED
    BY <2>1, <2>2, <2>7, <2>10, <2>11 DEF EntryInv
<1>4. QED
  BY <1>1, <1>2, <1>3

\* The stack at the call of the C handler.
LEMMA CallIsAligned == EntryInv => Entry!AlignedAtCall
<1> SUFFICES ASSUME EntryInv, Entry!Is("call"), handler = "masterIsr" \/ odd = 0
             PROVE  (Len(stack) + odd) % 2 = 0
  BY DEF Entry!AlignedAtCall, Entry!Aligned
<1> DEFINE i == Entry!Program[handler][at]
<1>1. at > 0 /\ i.op = "call" /\ EntryTypes
  BY DEF Entry!Is, EntryInv
<1>2. /\ Entry!Adjust.op = "adjust" /\ Entry!AdjustIfThumb.op = "adjustT"
      /\ Entry!ReadSpsr.op = "mrs" /\ Entry!WriteSpsr.op = "msr" /\ Entry!Align.op = "align"
      /\ Entry!Unalign.op = "unalign" /\ Entry!MaskIrq.op = "cpsid"
      /\ Entry!ReadFpscr.op = "fmrx" /\ Entry!WriteFpscr.op = "vmsr" /\ Entry!Return.op = "movs"
      /\ \A l : Entry!Push(l).op = "push" /\ Entry!Pop(l).op = "pop"
  BY DEF Entry!Adjust, Entry!AdjustIfThumb, Entry!ReadSpsr, Entry!WriteSpsr, Entry!Align,
         Entry!Unalign, Entry!MaskIrq, Entry!ReadFpscr, Entry!WriteFpscr, Entry!Return,
         Entry!Push, Entry!Pop
<1> HIDE DEF i
<1>3. CASE handler # "masterIsr"
  <2>1. Here = 6
    <3>1. Here \in 0 .. 11
      BY <1>1, <1>3, BriefCode
    <3>2. /\ Here = 0 => i = Entry!AdjustIfThumb
          /\ Here \in {1, 2} => i = Entry!Adjust \/ i = Entry!Push(Entry!Used)
          /\ Here \in {3, 5} => i = Entry!Push(Entry!Lr)
          /\ Here = 4 => i = Entry!ReadSpsr
          /\ Here \in {7, 9} => i = Entry!Pop(Entry!Lr)
          /\ Here = 8 => i = Entry!WriteSpsr
          /\ Here = 10 => i = Entry!Pop(Entry!Used)
          /\ Here = 11 => i = Entry!Return
      BY <1>1, <1>3, BriefCode DEF i
    <3>3. \A l : i # Entry!Push(l) /\ i # Entry!Pop(l)
      BY <1>1, <1>2
    <3>4. i \notin {Entry!AdjustIfThumb, Entry!Adjust, Entry!ReadSpsr, Entry!WriteSpsr,
                    Entry!Return}
      BY <1>1, <1>2
    <3>5. QED
      BY <3>1, <3>2, <3>3, <3>4
  <2>2. stack = Saved3
    BY <1>1, <1>3, <2>1 DEF EntryInv, BriefInv
  <2>3. Len(stack) = 8 /\ odd = 0
    BY <1>1, <1>3, <2>2, SavedTyped
  <2>4. QED
    BY <2>3
<1>4. CASE handler = "masterIsr"
  <2>1. at = 11
    <3>1. at \in 1 .. 22
      BY <1>1, <1>4, MasterCode
    <3>2. /\ at = 1 => i = Entry!Adjust
          /\ at \in {2, 4} => i = Entry!Push(Entry!Lr)
          /\ at = 3 => i = Entry!ReadSpsr
          /\ at = 5 => i = Entry!Push(Entry!Used)
          /\ at = 6 => i = Entry!ReadFpscr
          /\ at = 7 => i = Entry!Push(Entry!Doubles)
          /\ at = 8 => i = Entry!Push(<<"r0">>)
          /\ at = 9 => i = Entry!Align
          /\ at = 10 => i = Entry!Push(Called)
          /\ at = 12 => i = Entry!Pop(Called)
          /\ at = 13 => i = Entry!Unalign
          /\ at = 14 => i = Entry!MaskIrq
          /\ at = 15 => i = Entry!Pop(<<"r0">>)
          /\ at = 16 => i = Entry!Pop(Entry!Doubles)
          /\ at = 17 => i = Entry!WriteFpscr
          /\ at = 18 => i = Entry!Pop(Entry!Used)
          /\ at \in {19, 21} => i = Entry!Pop(Entry!Lr)
          /\ at = 20 => i = Entry!WriteSpsr
          /\ at = 22 => i = Entry!Return
      BY <1>1, <1>4, MasterCode DEF i
    <3>3. \A l : i # Entry!Push(l) /\ i # Entry!Pop(l)
      BY <1>1, <1>2
    <3>4. i \notin {Entry!Adjust, Entry!ReadSpsr, Entry!WriteSpsr, Entry!ReadFpscr, Entry!Align,
                    Entry!Unalign, Entry!MaskIrq, Entry!WriteFpscr, Entry!Return}
      BY <1>1, <1>2
    <3>5. QED
      BY <3>1, <3>2, <3>3, <3>4
  <2>2. PICK v \in Registers : stack = Master6 \o Frame(Called, v)
    BY <1>1, <1>4, <2>1 DEF EntryInv, MasterInv, OnTop
  <2>3. /\ RegList(Called) /\ Len(Called) = 6
        /\ Master6 \in Seq(Entry!Values) /\ Len(Master6) = 12 - odd
    BY <1>1, MasterTyped
  <2>4. Len(stack) = Len(Master6) + Len(Called)
    BY <2>2, <2>3, StackGrows
  <2>5. odd \in {0, 1}
    BY <1>1 DEF EntryTypes
  <2>6. Len(stack) + odd = 18
    BY <2>3, <2>4, <2>5
  <2>7. QED
    BY <2>6
<1>5. QED
  BY <1>3, <1>4

\* Whatever exception is taken and however the interrupted code had its stack, also
\* with other interrupts let in while the C handler of masterIsr runs: every handler
\* returns with the registers it has to keep, the stack, the status and the resume
\* address in place, and calls C code on an aligned stack.
THEOREM ContextIsRestored == MCSpec => []ContextRestored
<1>1. MCInit => EntryInv
  BY EntryInit DEF MCInit
<1>2. EntryInv => ContextRestored
  BY CallIsAligned DEF EntryInv, ContextRestored, Entry!ContextRestored
<1>3. QED
  BY <1>1, <1>2, EntryInvNext, PTL DEF MCSpec

-----------------------------------------------------------------------------
(* Types.                                                                  *)

\* The clock's invariant holds when the layers are put side by side.
LEMMA ClockNext == IInv /\ [MCNext]_mcVars => IInv'
<1>1. [MCNext]_mcVars => [Next]_vars
  BY DEF MCNext, InTimer, InBoot, InEntry, InTrace, mcVars
<1>2. QED
  BY <1>1, NextIInv

\* The deepest stack is that of masterIsr at its call.
LEMMA StackBound == EntryInv => Len(stack) <= 18
<1> SUFFICES ASSUME EntryInv PROVE Len(stack) <= 18
  OBVIOUS
<1>1. EntryTypes /\ Len(<<>>) = 0
  BY DEF EntryInv
<1>2. CASE at = 0
  <2>1. stack = <<>>
    BY <1>2 DEF EntryInv, Entry!ContextRestored
  <2>2. QED
    BY <1>1, <2>1
<1>3. CASE at > 0 /\ handler # "masterIsr"
  <2>1. Here \in 0 .. 11
    BY <1>1, <1>3, BriefCode
  <2>2. stack = <<>> \/ stack = Saved1 \/ stack = Saved2 \/ stack = Saved3
    BY <1>3, <2>1 DEF EntryInv, BriefInv
  <2>3. Len(Saved1) = 6 /\ Len(Saved2) = 7 /\ Len(Saved3) = 8
    BY <1>1, SavedTyped
  <2>4. Len(stack) = 0 \/ Len(stack) = 6 \/ Len(stack) = 7 \/ Len(stack) = 8
    BY <1>1, <2>2, <2>3, Zenon
  <2>5. 0 <= 18 /\ 6 <= 18 /\ 7 <= 18 /\ 8 <= 18
    OBVIOUS
  <2>6. QED
    BY <2>4, <2>5, Zenon
<1>4. CASE at > 0 /\ handler = "masterIsr"
  <2>1. at \in 1 .. 22
    BY <1>1, <1>4, MasterCode
  <2>2. \/ stack \in {<<>>, Master1, Master2, Master3, Master4, Master5, Master6}
        \/ OnTop
    BY <1>4, <2>1 DEF EntryInv, MasterInv
  <2>3. /\ Len(Master1) = 1 /\ Len(Master2) = 2 /\ Len(Master3) = 8 /\ Len(Master4) = 10
        /\ Len(Master5) = 11 /\ Len(Master6) = 12 - odd /\ odd \in {0, 1}
    BY <1>1, MasterTyped DEF EntryTypes
  <2>4. ASSUME OnTop PROVE Len(stack) <= 18
    <3>1. PICK v \in Registers : stack = Master6 \o Frame(Called, v)
      BY <2>4 DEF OnTop
    <3>2. RegList(Called) /\ Len(Called) = 6 /\ Master6 \in Seq(Entry!Values)
      BY <1>1, MasterTyped
    <3>3. Len(stack) = Len(Master6) + Len(Called)
      BY <3>1, <3>2, StackGrows
    <3>4. QED
      BY <2>3, <3>2, <3>3
  <2>5. ASSUME stack \in {<<>>, Master1, Master2, Master3, Master4, Master5, Master6}
        PROVE  Len(stack) <= 18
    <3>1. \/ Len(stack) = 0 \/ Len(stack) = 1 \/ Len(stack) = 2 \/ Len(stack) = 8
          \/ Len(stack) = 10 \/ Len(stack) = 11 \/ Len(stack) = 12 - odd
      BY <1>1, <2>3, <2>5, Zenon
    <3>2. /\ 0 <= 18 /\ 1 <= 18 /\ 2 <= 18 /\ 8 <= 18 /\ 10 <= 18 /\ 11 <= 18
          /\ 12 - odd <= 18
      BY <2>3
    <3>3. QED
      BY <3>1, <3>2, Zenon
  <2>6. QED
    BY <2>2, <2>4, <2>5
<1>5. QED
  BY <1>1, <1>2, <1>3, <1>4 DEF EntryTypes

LEMMA EntryTypesHold == EntryInv => Entry!TypeOK
  BY StackBound DEF EntryInv, EntryTypes, Registers, Entry!TypeOK

\* A firmware that is down has a start left.
StartsLeft == starts <= MaxStarts /\ (~running => starts < MaxStarts)

LEMMA StartsLeftNext == ScriptInv /\ StartsLeft /\ [MCNext]_mcVars => StartsLeft'
<1> SUFFICES ASSUME ScriptInv, StartsLeft, [MCNext]_mcVars PROVE StartsLeft'
  OBVIOUS
<1>1. starts \in Nat /\ running \in BOOLEAN
  BY DEF ScriptInv, ScriptTypes
<1>2. CASE UNCHANGED traceVars
  BY <1>2 DEF traceVars, StartsLeft
<1>3. CASE Trace!Next
  BY <1>1, <1>3
  DEF Trace!Next, Trace!Write, Trace!Stop, Trace!Start, Trace!Poll, Trace!WaitReady, StartsLeft
<1>4. QED
  BY <1>2, <1>3 DEF MCNext, InTimer, InBoot, InEntry, InTrace, mcVars

LEMMA TraceTypes == ScriptInv /\ StartsLeft => Trace!TypeOK
<1> SUFFICES ASSUME ScriptInv, StartsLeft PROVE Trace!TypeOK
  OBVIOUS
<1> DEFINE w == Len(written)
<1>1. w \in Nat /\ w <= 3 * MaxLines /\ core \in {"R5", "PRU"}
  BY DEF ScriptInv, LogInv
<1> HIDE DEF w
<1>2. \A i \in 1 .. w : Trace!Char(i) \in Trace!Chars
  BY <1>1 DEF Trace!Chars, Trace!Newline
<1>3. Trace!Nul \in Trace!Chars
  BY DEF Trace!Chars
<1>4. log.next \in 0 .. Size - 1 /\ log.mem \in [0 .. Size - 1 -> Trace!Chars]
  <2>1. CASE core = "R5"
    <3>1. Ring(log, w)
      BY <2>1 DEF ScriptInv, LogInv, w
    <3>2. log.next = w % Size /\ log.mem = [i \in 0 .. Size - 1 |-> log.mem[i]]
      BY <3>1 DEF Ring
    <3>3. w % Size \in 0 .. Size - 1
      BY <1>1
    <3>4. ASSUME NEW i \in 0 .. Size - 1 PROVE log.mem[i] \in Trace!Chars
      BY <1>1, <1>2, <1>3, <3>1 DEF Ring, Texts
    <3>5. QED
      BY <3>2, <3>3, <3>4
  <2>2. CASE core = "PRU"
    <3>1. Filled(log, w)
      BY <2>2 DEF ScriptInv, LogInv, w
    <3>2. log.next = First(w) /\ log.mem = [i \in 0 .. Size - 1 |-> log.mem[i]]
      BY <3>1 DEF Filled
    <3>3. First(w) \in 0 .. Size - 1 /\ First(w) <= w
      BY <1>1 DEF First
    <3>4. ASSUME NEW i \in 0 .. Size - 1 PROVE log.mem[i] \in Trace!Chars
      <4>1. log.mem[i] = IF i < First(w) THEN Trace!Char(i + 1) ELSE Trace!Nul
        BY <3>1 DEF Filled
      <4>2. i < First(w) => i + 1 \in 1 .. w
        BY <1>1, <3>3
      <4>3. QED
        BY <1>2, <1>3, <4>1, <4>2
    <3>5. QED
      BY <3>2, <3>3, <3>4
  <2>3. QED
    BY <1>1, <2>1, <2>2
<1>5. QED
  BY <1>1, <1>4 DEF ScriptInv, ScriptTypes, StartsLeft, Trace!TypeOK

\* What the layers have in registers, on stacks and in buffers is of its type, for any
\* width of the counter, any number of interrupt lines and any size of a buffer: no
\* index leaves the trace buffer, no entry needs more than 18 words of stack, a tick's
\* halves fit their registers.
THEOREM CoreTypes == MCSpec => []TypesOK
<1> DEFINE Types == IInv /\ MapInv /\ EntryInv /\ ScriptInv /\ StartsLeft
<1>1. MCInit => Types
  <2> SUFFICES ASSUME MCInit PROVE Types
    OBVIOUS
  <2>1. StartsLeft
    BY DEF MCInit, Trace!Init, StartsLeft
  <2>2. QED
    BY <2>1, InitIInv, MapInvInit, EntryInit, ScriptInit DEF MCInit
<1>2. Types /\ [MCNext]_mcVars => Types'
  BY ClockNext, MapInvNext, EntryInvNext, ScriptInvNext, StartsLeftNext
<1>3. Types => TypesOK
  BY BootTypes, EntryTypesHold, TraceTypes DEF IInv, TypesOK
<1>4. QED
  BY <1>1, <1>2, <1>3, PTL DEF MCSpec
=============================================================================
