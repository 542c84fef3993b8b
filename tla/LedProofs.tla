------------------------------ MODULE LedProofs ------------------------------
(***************************************************************************)
(* What the two LED demos keep true: the programs of the two cores and     *)
(* their three shared words implement LedService as long as the cores are  *)
(* restarted together; blink_count.py prints the answer to its own message *)
(* as long as no run has given up; and the firmware reads every number as  *)
(* it is written.                                                          *)
(***************************************************************************)
EXTENDS MCLeds, FiniteSetTheorems, WellFoundedInduction, SequenceTheorems, TLAPS

(* The two-core demo.                                                      *)

Up == {"idle", "post_count", "post_seq", "wait"}
Asked == {"post_count", "post_seq", "wait"}

\* LedMailbox!TypeOK, and what it does not say of the history.
Types == TypeOK /\ blinks \in 0..MaxCount

\* The request is open while the RTU has it in hand.
RequestInv ==
    /\ request = "open" <=> rtu \in Asked
    /\ rtu \in Asked => rtuCount > 0
    /\ rtu \in {"post_seq", "wait"} => blinkCount = rtuCount
    /\ rtu = "wait" => nextSeq = seq /\ seq > 0
    /\ rtu \in {"post_count", "post_seq"} => blinks = 0 /\ seq < MaxSeq

\* done_seq tells of the past: it is the number of a request made before, and
\* that of this one only after all its blinks.
DoneInv ==
    /\ rtu \in Up => doneSeq <= seq
    /\ rtu = "wait" /\ doneSeq = seq => blinks = rtuCount

\* The PRU is at work only on the request the RTU waits for, and once.
PruInv ==
    /\ pru # "off" => rtu \in Up
    /\ pru = "boot_seq" => doneSeq = 0
    /\ pru = "poll" => doneSeq \in {0, lastSeq}
    /\ pru = "poll" /\ rtu \in Up \ {"wait"} => seq = lastSeq
    /\ pru = "poll" /\ seq # lastSeq => blinks = 0
    /\ pru \in {"read_count", "blink"} =>
          rtu = "wait" /\ pruSeq = seq /\ doneSeq # seq
    /\ pru = "read_count" => blinks = 0
    /\ pru = "blink" => blinks + pruLeft = rtuCount /\ lastSeq = seq

IInv == Types /\ RequestInv /\ DoneInv /\ PruInv

LEMMA Bounds == /\ MaxCount \in Nat /\ MaxCount >= 1
                /\ MaxSeq \in Nat /\ MaxSeq >= 1
BY ConstantsAssumption

USE Bounds DEF mailboxVars, rtuVars, pruVars, history

LEMMA InitIInv == Init => IInv
BY DEF Init, IInv, Types, TypeOK, RequestInv, DoneInv, PruInv, Asked, Up

\* A step of the RTU.
LEMMA RtuKeepsIInv == IInv /\ RtuStep => IInv'
<1> SUFFICES ASSUME IInv, RtuStep PROVE IInv'
  OBVIOUS
<1>1. CASE InitSeq
  <2>1. Types'  BY <1>1 DEF InitSeq, IInv, Types, TypeOK, RequestInv, PruInv
  <2>2. RequestInv'  BY <1>1 DEF InitSeq, IInv, Types, TypeOK, RequestInv, Asked
  <2>3. DoneInv'  BY <1>1 DEF InitSeq, IInv, Types, TypeOK, RequestInv, DoneInv, PruInv, Up
  <2>4. PruInv'  BY <1>1 DEF InitSeq, IInv, Types, TypeOK, RequestInv, DoneInv, PruInv, Asked, Up
  <2>5. QED  BY <2>1, <2>2, <2>3, <2>4 DEF IInv
<1>2. CASE InitCount
  <2>1. Types'  BY <1>2 DEF InitCount, IInv, Types, TypeOK, RequestInv, PruInv
  <2>2. RequestInv'  BY <1>2 DEF InitCount, IInv, Types, TypeOK, RequestInv, Asked
  <2>3. DoneInv'  BY <1>2 DEF InitCount, IInv, Types, TypeOK, RequestInv, DoneInv, PruInv, Up
  <2>4. PruInv'  BY <1>2 DEF InitCount, IInv, Types, TypeOK, RequestInv, DoneInv, PruInv, Asked, Up
  <2>5. QED  BY <2>1, <2>2, <2>3, <2>4 DEF IInv
<1>3. CASE InitDone
  <2>1. Types'  BY <1>3 DEF InitDone, IInv, Types, TypeOK, RequestInv, PruInv
  <2>2. RequestInv'  BY <1>3 DEF InitDone, IInv, Types, TypeOK, RequestInv, Asked
  <2>3. DoneInv'  BY <1>3 DEF InitDone, IInv, Types, TypeOK, RequestInv, DoneInv, PruInv, Up
  <2>4. PruInv'  BY <1>3 DEF InitDone, IInv, Types, TypeOK, RequestInv, DoneInv, PruInv, Asked, Up
  <2>5. QED  BY <2>1, <2>2, <2>3, <2>4 DEF IInv
<1>4. CASE Take
  <2>1. Types'  BY <1>4 DEF Take, IInv, Types, TypeOK, RequestInv, PruInv
  <2>2. RequestInv'  BY <1>4 DEF Take, IInv, Types, TypeOK, RequestInv, Asked
  <2>3. DoneInv'  BY <1>4 DEF Take, IInv, Types, TypeOK, RequestInv, DoneInv, PruInv, Up
  <2>4. PruInv'  BY <1>4 DEF Take, IInv, Types, TypeOK, RequestInv, DoneInv, PruInv, Asked, Up
  <2>5. QED  BY <2>1, <2>2, <2>3, <2>4 DEF IInv
<1>5. CASE PostCount
  <2>1. Types'  BY <1>5 DEF PostCount, IInv, Types, TypeOK, RequestInv, PruInv
  <2>2. RequestInv'  BY <1>5 DEF PostCount, IInv, Types, TypeOK, RequestInv, Asked
  <2>3. DoneInv'  BY <1>5 DEF PostCount, IInv, Types, TypeOK, RequestInv, DoneInv, PruInv, Up
  <2>4. PruInv'  BY <1>5 DEF PostCount, IInv, Types, TypeOK, RequestInv, DoneInv, PruInv, Asked, Up
  <2>5. QED  BY <2>1, <2>2, <2>3, <2>4 DEF IInv
<1>6. CASE PostSeq
  <2>1. Types'  BY <1>6 DEF PostSeq, IInv, Types, TypeOK, RequestInv, PruInv
  <2>2. RequestInv'  BY <1>6 DEF PostSeq, IInv, Types, TypeOK, RequestInv, Asked
  <2>3. DoneInv'  BY <1>6 DEF PostSeq, IInv, Types, TypeOK, RequestInv, DoneInv, PruInv, Up
  <2>4. PruInv'  BY <1>6 DEF PostSeq, IInv, Types, TypeOK, RequestInv, DoneInv, PruInv, Asked, Up
  <2>5. QED  BY <2>1, <2>2, <2>3, <2>4 DEF IInv
<1>7. CASE Acknowledge
  <2>1. Types'  BY <1>7 DEF Acknowledge, IInv, Types, TypeOK, RequestInv, PruInv
  <2>2. RequestInv'  BY <1>7 DEF Acknowledge, IInv, Types, TypeOK, RequestInv, Asked
  <2>3. DoneInv'  BY <1>7 DEF Acknowledge, IInv, Types, TypeOK, RequestInv, DoneInv, PruInv, Up
  <2>4. PruInv'  BY <1>7 DEF Acknowledge, IInv, Types, TypeOK, RequestInv, DoneInv, PruInv, Asked, Up
  <2>5. QED  BY <2>1, <2>2, <2>3, <2>4 DEF IInv
<1>8. QED  BY <1>1, <1>2, <1>3, <1>4, <1>5, <1>6, <1>7 DEF RtuStep

\* A step of the PRU.
LEMMA PruKeepsIInv == IInv /\ PruStep => IInv'
<1> SUFFICES ASSUME IInv, PruStep PROVE IInv'
  OBVIOUS
<1>1. CASE BootDone
  <2>1. Types'  BY <1>1 DEF BootDone, IInv, Types, TypeOK, RequestInv, PruInv
  <2>2. RequestInv'  BY <1>1 DEF BootDone, IInv, Types, TypeOK, RequestInv, Asked
  <2>3. DoneInv'  BY <1>1 DEF BootDone, IInv, Types, TypeOK, RequestInv, DoneInv, PruInv, Up
  <2>4. PruInv'  BY <1>1 DEF BootDone, IInv, Types, TypeOK, RequestInv, DoneInv, PruInv, Asked, Up
  <2>5. QED  BY <2>1, <2>2, <2>3, <2>4 DEF IInv
<1>2. CASE BootSeq
  <2>1. Types'  BY <1>2 DEF BootSeq, IInv, Types, TypeOK, RequestInv, PruInv
  <2>2. RequestInv'  BY <1>2 DEF BootSeq, IInv, Types, TypeOK, RequestInv, Asked
  <2>3. DoneInv'  BY <1>2 DEF BootSeq, IInv, Types, TypeOK, RequestInv, DoneInv, PruInv, Up
  <2>4. PruInv'  BY <1>2 DEF BootSeq, IInv, Types, TypeOK, RequestInv, DoneInv, PruInv, Asked, Up
  <2>5. QED  BY <2>1, <2>2, <2>3, <2>4 DEF IInv
<1>3. CASE Notice
  <2>1. Types'  BY <1>3 DEF Notice, IInv, Types, TypeOK, RequestInv, PruInv
  <2>2. RequestInv'  BY <1>3 DEF Notice, IInv, Types, TypeOK, RequestInv, Asked
  <2>3. DoneInv'  BY <1>3 DEF Notice, IInv, Types, TypeOK, RequestInv, DoneInv, PruInv, Up
  <2>4. PruInv'  BY <1>3 DEF Notice, IInv, Types, TypeOK, RequestInv, DoneInv, PruInv, Asked, Up
  <2>5. QED  BY <2>1, <2>2, <2>3, <2>4 DEF IInv
<1>4. CASE ReadCount
  <2>1. Types'  BY <1>4 DEF ReadCount, IInv, Types, TypeOK, RequestInv, PruInv
  <2>2. RequestInv'  BY <1>4 DEF ReadCount, IInv, Types, TypeOK, RequestInv, Asked
  <2>3. DoneInv'  BY <1>4 DEF ReadCount, IInv, Types, TypeOK, RequestInv, DoneInv, PruInv, Up
  <2>4. PruInv'  BY <1>4 DEF ReadCount, IInv, Types, TypeOK, RequestInv, DoneInv, PruInv, Asked, Up
  <2>5. QED  BY <2>1, <2>2, <2>3, <2>4 DEF IInv
<1>5. CASE Blink
  <2>1. Types'  BY <1>5 DEF Blink, IInv, Types, TypeOK, RequestInv, PruInv
  <2>2. RequestInv'  BY <1>5 DEF Blink, IInv, Types, TypeOK, RequestInv, Asked, PruInv
  <2>3. DoneInv'  BY <1>5 DEF Blink, IInv, Types, TypeOK, RequestInv, DoneInv, PruInv, Up
  <2>4. PruInv'  BY <1>5 DEF Blink, IInv, Types, TypeOK, RequestInv, DoneInv, PruInv, Asked, Up
  <2>5. QED  BY <2>1, <2>2, <2>3, <2>4 DEF IInv
<1>6. CASE Finish
  <2>1. Types'  BY <1>6 DEF Finish, IInv, Types, TypeOK, RequestInv, PruInv
  <2>2. RequestInv'  BY <1>6 DEF Finish, IInv, Types, TypeOK, RequestInv, Asked
  <2>3. DoneInv'  BY <1>6 DEF Finish, IInv, Types, TypeOK, RequestInv, DoneInv, PruInv, Up
  <2>4. PruInv'  BY <1>6 DEF Finish, IInv, Types, TypeOK, RequestInv, DoneInv, PruInv, Asked, Up
  <2>5. QED  BY <2>1, <2>2, <2>3, <2>4 DEF IInv
<1>7. QED  BY <1>1, <1>2, <1>3, <1>4, <1>5, <1>6 DEF PruStep

\* Only here does it matter that the cores are restarted together.
LEMMA OperatorKeepsIInv ==
    ASSUME Together
    PROVE  IInv /\ Operator => IInv'
<1> SUFFICES ASSUME IInv, Operator PROVE IInv'
  OBVIOUS
<1>1. CASE StartRtu
  <2>1. Types'  BY <1>1 DEF StartRtu, IInv, Types, TypeOK, RequestInv, PruInv
  <2>2. RequestInv'  BY <1>1 DEF StartRtu, IInv, Types, TypeOK, RequestInv, Asked
  <2>3. DoneInv'  BY <1>1 DEF StartRtu, IInv, Types, TypeOK, RequestInv, DoneInv, PruInv, Up
  <2>4. PruInv'  BY <1>1 DEF StartRtu, IInv, Types, TypeOK, RequestInv, DoneInv, PruInv, Asked, Up
  <2>5. QED  BY <2>1, <2>2, <2>3, <2>4 DEF IInv
<1>2. CASE StartPru
  <2>1. Types'  BY <1>2 DEF StartPru, IInv, Types, TypeOK, RequestInv, PruInv
  <2>2. RequestInv'  BY <1>2 DEF StartPru, IInv, Types, TypeOK, RequestInv, Asked
  <2>3. DoneInv'  BY <1>2 DEF StartPru, IInv, Types, TypeOK, RequestInv, DoneInv, PruInv, Up
  <2>4. PruInv'  BY <1>2 DEF StartPru, IInv, Types, TypeOK, RequestInv, DoneInv, PruInv, Asked, Up
  <2>5. QED  BY <2>1, <2>2, <2>3, <2>4 DEF IInv
<1>3. CASE StopPru
  <2>1. Types'  BY <1>3 DEF StopPru, IInv, Types, TypeOK, RequestInv, PruInv
  <2>2. RequestInv'  BY <1>3 DEF StopPru, IInv, Types, TypeOK, RequestInv, Asked
  <2>3. DoneInv'  BY <1>3 DEF StopPru, IInv, Types, TypeOK, RequestInv, DoneInv, PruInv, Up
  <2>4. PruInv'  BY <1>3 DEF StopPru, IInv, Types, TypeOK, RequestInv, DoneInv, PruInv, Asked, Up
  <2>5. QED  BY <2>1, <2>2, <2>3, <2>4 DEF IInv
<1>4. CASE StopRtu
  <2>1. Types'  BY <1>4 DEF StopRtu, IInv, Types, TypeOK, RequestInv, PruInv
  <2>2. RequestInv'  BY <1>4 DEF StopRtu, IInv, Types, TypeOK, RequestInv, Asked
  <2>3. DoneInv'  BY <1>4 DEF StopRtu, IInv, Types, TypeOK, RequestInv, DoneInv, PruInv, Up
  <2>4. PruInv'  BY <1>4 DEF StopRtu, IInv, Types, TypeOK, RequestInv, DoneInv, PruInv, Asked, Up
  <2>5. QED  BY <2>1, <2>2, <2>3, <2>4 DEF IInv
<1>5. QED  BY <1>1, <1>2, <1>3, <1>4 DEF Operator

LEMMA NextKeepsIInv ==
    ASSUME Together
    PROVE  IInv /\ [Next]_vars => IInv'
<1>1. IInv /\ UNCHANGED vars => IInv'
  BY DEF vars, IInv, Types, TypeOK, RequestInv, DoneInv, PruInv, Asked, Up
<1>2. QED
  BY <1>1, RtuKeepsIInv, PruKeepsIInv, OperatorKeepsIInv DEF Next

\* All variables keep their types; blinks never exceed what anybody asks for.
THEOREM TypeCorrect ==
    ASSUME Together
    PROVE  Spec => []TypeOK
<1>1. IInv => TypeOK
  BY DEF IInv, Types
<1>2. QED
  <2>1. IInv /\ [Next]_vars => IInv'
    BY NextKeepsIInv
  <2>2. QED
    BY <1>1, <2>1, InitIInv, PTL DEF Spec

-----------------------------------------------------------------------------
(* The refinement *)

LEMMA RtuImplements == IInv /\ RtuStep => [Service!Next]_<<request, rtuCount, blinks>>
<1> USE DEF IInv, Types, TypeOK, RequestInv, DoneInv, PruInv, Asked,
            Service!Next, Service!Ask, Service!Blink, Service!Answer, Service!Drop
<1> SUFFICES ASSUME IInv, RtuStep
             PROVE  [Service!Next]_<<request, rtuCount, blinks>>
  OBVIOUS
<1>1. CASE InitSeq
  BY <1>1 DEF InitSeq
<1>2. CASE InitCount
  BY <1>2 DEF InitCount
<1>3. CASE InitDone
  BY <1>3 DEF InitDone
<1>4. CASE Take
  BY <1>4 DEF Take
<1>5. CASE PostCount
  BY <1>5 DEF PostCount
<1>6. CASE PostSeq
  BY <1>6 DEF PostSeq
<1>7. CASE Acknowledge
  BY <1>7 DEF Acknowledge
<1>8. QED  BY <1>1, <1>2, <1>3, <1>4, <1>5, <1>6, <1>7 DEF RtuStep

LEMMA PruImplements == IInv /\ PruStep => [Service!Next]_<<request, rtuCount, blinks>>
<1> USE DEF IInv, Types, TypeOK, RequestInv, DoneInv, PruInv, Asked,
            Service!Next, Service!Ask, Service!Blink, Service!Answer, Service!Drop
<1> SUFFICES ASSUME IInv, PruStep
             PROVE  [Service!Next]_<<request, rtuCount, blinks>>
  OBVIOUS
<1>1. CASE BootDone
  BY <1>1 DEF BootDone
<1>2. CASE BootSeq
  BY <1>2 DEF BootSeq
<1>3. CASE Notice
  BY <1>3 DEF Notice
<1>4. CASE ReadCount
  BY <1>4 DEF ReadCount
<1>5. CASE Blink
  BY <1>5 DEF Blink
<1>6. CASE Finish
  BY <1>6 DEF Finish
<1>7. QED  BY <1>1, <1>2, <1>3, <1>4, <1>5, <1>6 DEF PruStep

LEMMA OperatorImplements == Operator => [Service!Next]_<<request, rtuCount, blinks>>
BY DEF Operator, StartRtu, StartPru, StopPru, StopRtu, Service!Next, Service!Drop

\* README: RTU0_0 "ACKs after PRU finishes".  Cores that are restarted together
\* answer a request after exactly its blinks, and blink for nothing else,
\* whatever the memory held at power-on.
THEOREM BlinksCorrect ==
    ASSUME Together
    PROVE  Spec => BlinksAsAsked
<1>1. Init => Service!Init
  BY DEF Init, Service!Init
<1>2. IInv /\ [Next]_vars => [Service!Next]_<<request, rtuCount, blinks>>
  BY RtuImplements, PruImplements, OperatorImplements DEF Next, vars
<1>3. IInv /\ [Next]_vars => IInv'
  BY NextKeepsIInv
<1>4. QED
  BY <1>1, <1>2, <1>3, InitIInv, PTL DEF Spec, BlinksAsAsked, Service!Spec

HIDE Bounds DEF mailboxVars, rtuVars, pruVars, history

-----------------------------------------------------------------------------
(* Induction.  The provers cannot instantiate the library's induction theorems, *)
(* so a set of numbers takes the place of the statement.                         *)

\* A set of numbers has a least element.
LEMMA LeastNumber ==
    ASSUME NEW T \in SUBSET Nat, T # {}
    PROVE  \E m \in T : \A k \in T : m <= k
<1> DEFINE F == {1..k : k \in T}
<1>1. F \subseteq FiniteSubsetsOf(Nat) /\ F # {}
  <2>1. \A k \in T : IsFiniteSet(1..k)
    BY FS_Interval
  <2>2. \A k \in T : 1..k \subseteq Nat
    OBVIOUS
  <2>3. QED
    BY <2>1, <2>2 DEF FiniteSubsetsOf
<1>2. PICK s \in F : \A t \in F : ~(<<t, s>> \in StrictSubsetOrdering(Nat))
  <2> HIDE DEF F
  <2> QED
    BY <1>1, FS_StrictSubsetOrderingWellFounded, WFMin
<1>3. PICK m \in T : s = 1..m
  OBVIOUS
<1>4. ASSUME NEW k \in T, k < m PROVE FALSE
  <2>1. k \in Nat /\ m \in Nat
    OBVIOUS
  <2>2. 1..k \subseteq 1..m /\ 1..k # 1..m /\ 1..m \in SUBSET Nat /\ 1..k \in SUBSET Nat
    <3>1. m \in 1..m /\ m \notin 1..k
      BY <2>1, <1>4
    <3>2. QED
      BY <2>1, <1>4, <3>1
  <2>3. <<1..k, 1..m>> \in StrictSubsetOrdering(Nat)
    BY <2>2 DEF StrictSubsetOrdering
  <2>4. QED
    BY <1>2, <1>3, <2>3
<1>5. QED
  <2>1. \A k \in T : ~(k < m) /\ k \in Nat /\ m \in Nat
    BY <1>4
  <2>2. QED
    BY <2>1

\* A set of numbers that has 0 and, with each number, the next one, up to n.
LEMMA UpTo ==
    ASSUME NEW n \in Nat, NEW T, 0 \in T, \A i \in 0..n : i \in T /\ i < n => i + 1 \in T
    PROVE  0..n \subseteq T
<1> SUFFICES ASSUME ~(0..n \subseteq T) PROVE FALSE
  OBVIOUS
<1> DEFINE F == {i \in 0..n : i \notin T}
<1>1. F \in SUBSET Nat /\ F # {}
  OBVIOUS
<1>2. PICK m \in F : \A k \in F : m <= k
  <2> HIDE DEF F
  <2> QED  BY <1>1, LeastNumber
<1>3. m # 0 /\ m \in 0..n /\ m \notin T
  OBVIOUS
<1>4. m - 1 \in 0..n /\ m - 1 < n /\ (m - 1) + 1 = m
  BY <1>3
<1>5. m - 1 \in T
  BY <1>2, <1>4
<1>6. QED
  BY <1>3, <1>4, <1>5

\* What a recursive definition up to n asks for, given the first value and what
\* each step makes of a value.
Recurs(g, n, V, a, step) ==
    g \in [0..n -> V] /\ g[0] = a /\ \A i \in 1..n : g[i] = step[i][g[i - 1]]

\* There is such a function.
LEMMA Recursion ==
    ASSUME NEW n \in Nat, NEW V, NEW a \in V, NEW step \in [1..n -> [V -> V]]
    PROVE  \E g : Recurs(g, n, V, a, step)
<1> DEFINE Is(g, m) == g \in [0..m -> V] /\ g[0] = a
                       /\ \A i \in 1..m : g[i] = step[i][g[i - 1]]
           T == {m \in Nat : \E g : Is(g, m)}
<1>1. 0 \in T
  <2> DEFINE g == [i \in 0..0 |-> a]
  <2>1. Is(g, 0)
    OBVIOUS
  <2>2. QED
    BY <2>1
<1>2. ASSUME NEW m \in 0..n, m \in T, m < n PROVE m + 1 \in T
  <2>1. PICK g : Is(g, m)
    BY <1>2
  <2> DEFINE h == [i \in 0..m + 1 |-> IF i = m + 1 THEN step[m + 1][g[m]] ELSE g[i]]
  <2>2. g[m] \in V /\ m + 1 \in 1..n
    BY <1>2, <2>1
  <2>3. step[m + 1][g[m]] \in V
    BY <2>2
  <2>4. h \in [0..m + 1 -> V] /\ h[0] = a
    BY <2>1, <2>3
  <2>5. ASSUME NEW i \in 1..m + 1 PROVE h[i] = step[i][h[i - 1]]
    <3>1. CASE i = m + 1
      <4>1. h[i] = step[m + 1][g[m]] /\ i - 1 = m /\ h[m] = g[m]
        BY <3>1
      <4>2. QED  BY <3>1, <4>1
    <3>2. CASE i # m + 1
      <4>1. i \in 1..m /\ h[i] = g[i] /\ h[i - 1] = g[i - 1]
        BY <3>2
      <4>2. QED  BY <2>1, <4>1
    <3>3. QED
      BY <3>1, <3>2
  <2> HIDE DEF h
  <2>6. Is(h, m + 1) /\ m + 1 \in Nat
    BY <2>4, <2>5
  <2>7. QED
    BY <2>6
<1>3. 0..n \subseteq T
  <2> HIDE DEF T
  <2> QED  BY <1>1, <1>2, UpTo
<1>4. n \in T
  <2> HIDE DEF T
  <2> QED  BY <1>3
<1>5. QED
  BY <1>4 DEF Recurs

-----------------------------------------------------------------------------
(* The numbers in messages *)

\* The characters of a text, and the states of the loop of parse_uint32.
Char == 0..9 \cup {Blank, Nul, Other}
PState == [val : 0..(Word - 1), found : BOOLEAN, stop : BOOLEAN]
State(v, f, e) == [val |-> v, found |-> f, stop |-> e]

\* Division with a remainder.
LEMMA Divided ==
    ASSUME NEW w \in Nat \ {0}, NEW x \in Int
    PROVE  \E p \in Int, e \in 0..w - 1 : x = w * p + e /\ e = x % w
<1>1. x \div w \in Int /\ x % w \in 0..w - 1
  OBVIOUS
<1>2. x = w * (x \div w) + (x % w)
  OBVIOUS
<1>3. QED
  BY <1>1, <1>2

\* Taking the remainder late is the same as taking it at every digit.
LEMMA RemainderUnique ==
    ASSUME NEW w \in Nat \ {0}, NEW q \in Int, NEW d \in 0..w - 1
    PROVE  (w * q + d) % w = d
<1>1. PICK x \in Int : x = w * q + d
  OBVIOUS
<1>2. PICK p \in Int, e \in 0..w - 1 : x = w * p + e /\ e = x % w
  BY <1>1, Divided
<1>3. ~(p < q)
  <2>1. SUFFICES ASSUME p < q PROVE FALSE
    OBVIOUS
  <2>2. PICK k \in Nat : q = p + 1 + k
    <3>1. q - p - 1 \in Nat
      BY <2>1
    <3>2. QED
      BY <3>1
  <2>3. w * q = w * p + w + w * k
    BY <2>2
  <2>4. w * k \in Nat
    OBVIOUS
  <2>5. QED
    BY <1>1, <1>2, <2>3, <2>4
<1>4. ~(q < p)
  <2>1. SUFFICES ASSUME q < p PROVE FALSE
    OBVIOUS
  <2>2. PICK k \in Nat : p = q + 1 + k
    <3>1. p - q - 1 \in Nat
      BY <2>1
    <3>2. QED
      BY <3>1
  <2>3. w * p = w * q + w + w * k
    BY <2>2
  <2>4. w * k \in Nat
    OBVIOUS
  <2>5. QED
    BY <1>1, <1>2, <2>3, <2>4
<1>5. w * p = w * q
  <2>1. p = q
    BY <1>3, <1>4
  <2>2. QED
    BY <2>1
<1>6. w * p \in Int /\ w * q \in Int
  OBVIOUS
<1>7. e = d
  BY <1>1, <1>2, <1>5, <1>6
<1>8. QED
  BY <1>1, <1>2, <1>7

LEMMA LateRemainder ==
    ASSUME NEW w \in Nat \ {0}, NEW x \in Nat, NEW c \in Nat
    PROVE  ((x % w) * 10 + c) % w = (10 * x + c) % w
<1>1. PICK p \in Int, e \in 0..w - 1 : x = w * p + e /\ e = x % w
  <2>1. x \in Int
    OBVIOUS
  <2>2. QED
    BY <2>1, Divided
<1>2. PICK y \in Nat : y = e * 10 + c
  BY <1>1
<1>3. PICK q \in Int, d \in 0..w - 1 : y = w * q + d /\ d = y % w
  <2>1. y \in Int
    OBVIOUS
  <2>2. QED
    BY <2>1, Divided
<1>4. 10 * x + c = w * (10 * p + q) + d
  <2>1. 10 * x + c = 10 * (w * p) + y
    BY <1>1, <1>2
  <2>2. w * (10 * p + q) = 10 * (w * p) + w * q
    OBVIOUS
  <2>3. w * p \in Int /\ w * q \in Int
    OBVIOUS
  <2>4. QED
    BY <1>3, <2>1, <2>2, <2>3
<1>5. (w * (10 * p + q) + d) % w = d
  <2>1. PICK m \in Int : m = 10 * p + q
    OBVIOUS
  <2>2. (w * m + d) % w = d
    BY RemainderUnique
  <2>3. QED
    BY <2>1, <2>2
<1>6. QED
  BY <1>1, <1>2, <1>3, <1>4, <1>5

\* One turn of the loop.
LEMMA Turns ==
    ASSUME NEW v \in 0..Word - 1, NEW f \in BOOLEAN, NEW c \in Char
    PROVE  /\ Numbers!ReadChar(State(v, f, TRUE), c) = State(v, f, TRUE)
           /\ c \in {Nul, Other} => Numbers!ReadChar(State(v, f, FALSE), c) = State(v, f, TRUE)
           /\ c = Blank => Numbers!ReadChar(State(v, TRUE, FALSE), c) = State(v, TRUE, TRUE)
           /\ c = Blank => Numbers!ReadChar(State(v, FALSE, FALSE), c) = State(v, FALSE, FALSE)
           /\ c \in 0..9 => Numbers!ReadChar(State(v, f, FALSE), c)
                              = State((v * 10 + c) % Word, TRUE, FALSE)
<1>1. Numbers!ReadChar(State(v, f, TRUE), c) = State(v, f, TRUE)
  BY DEF Numbers!ReadChar, State
<1>2. c \in {Nul, Other} => Numbers!ReadChar(State(v, f, FALSE), c) = State(v, f, TRUE)
  BY DEF Numbers!ReadChar, State
<1>3. c = Blank => Numbers!ReadChar(State(v, TRUE, FALSE), c) = State(v, TRUE, TRUE)
  BY DEF Numbers!ReadChar, State
<1>4. Blank \notin {Nul, Other}
  BY SingleAssumption
<1>5. c = Blank => Numbers!ReadChar(State(v, FALSE, FALSE), c) = State(v, FALSE, FALSE)
  BY <1>4 DEF Numbers!ReadChar, State
<1>6. c \in 0..9 => c \notin {Nul, Other} /\ c # Blank
  BY SingleAssumption
<1>7. c \in 0..9 => Numbers!ReadChar(State(v, f, FALSE), c)
                      = State((v * 10 + c) % Word, TRUE, FALSE)
  <2>1. SUFFICES ASSUME c \in 0..9 PROVE Numbers!ReadChar(State(v, f, FALSE), c)
                      = State((v * 10 + c) % Word, TRUE, FALSE)
    OBVIOUS
  <2>2. Numbers!ReadChar(State(v, f, FALSE), c)
           = [State(v, f, FALSE) EXCEPT !.val = (@ * 10 + c) % Word, !.found = TRUE]
    <3>1. State(v, f, FALSE).stop = FALSE
      BY DEF State
    <3>2. QED
      BY <1>6, <2>1, <3>1, Zenon DEF Numbers!ReadChar
  <2>3. QED
    BY <2>2 DEF State
<1>8. QED
  BY <1>1, <1>2, <1>3, <1>5, <1>7

\* The states and their types.
LEMMA States == \A r \in PState : \E v \in 0..Word - 1, f, e \in BOOLEAN : r = State(v, f, e)
BY DEF State, PState

LEMMA StatesAre == \A v \in 0..Word - 1, f, e \in BOOLEAN : State(v, f, e) \in PState
BY DEF State, PState

LEMMA WordFacts == Word \in Nat /\ Word > 0 /\ 0 \in 0..Word - 1 /\ \A x \in Nat : x % Word \in 0..Word - 1
BY SingleAssumption

LEMMA TurnType == \A r \in PState, c \in Char : Numbers!ReadChar(r, c) \in PState
<1> SUFFICES ASSUME NEW r \in PState, NEW c \in Char PROVE Numbers!ReadChar(r, c) \in PState
  OBVIOUS
<1>1. PICK v \in 0..Word - 1, f \in BOOLEAN, e \in BOOLEAN : r = State(v, f, e)
  BY States
<1>2. c \in 0..9 => (v * 10 + c) % Word \in 0..Word - 1
  <2>1. v \in Nat
    BY WordFacts
  <2>2. c \in 0..9 => v * 10 + c \in Nat
    BY <2>1
  <2>3. QED
    BY <2>2, WordFacts
<1>3. \/ Numbers!ReadChar(r, c) \in {State(v, f, TRUE), State(v, TRUE, TRUE), State(v, FALSE, FALSE)}
      \/ c \in 0..9 /\ Numbers!ReadChar(r, c) = State((v * 10 + c) % Word, TRUE, FALSE)
  <2>1. e = TRUE \/ e = FALSE
    OBVIOUS
  <2>2. f = TRUE \/ f = FALSE
    OBVIOUS
  <2>3. c \in {Nul, Other} \/ c = Blank \/ c \in 0..9
    BY DEF Char
  <2>4. QED
    BY <1>1, <2>1, <2>2, <2>3, Turns
<1>4. QED
  BY <1>2, <1>3, StatesAre

\* The states the loop goes through.
LEMMA ParseStates ==
    ASSUME NEW s \in Seq(Char)
    PROVE  \E g \in [0..Len(s) -> PState] :
              /\ g[0] = State(0, FALSE, FALSE)
              /\ \A i \in 1..Len(s) : g[i] = Numbers!ReadChar(g[i - 1], s[i])
              /\ Numbers!ParseUint32(s) = g[Len(s)].val
<1> DEFINE n == Len(s)
           a == State(0, FALSE, FALSE)
           step == [i \in 1..n |-> [r \in PState |-> Numbers!ReadChar(r, s[i])]]
           Turn(g, i) == IF i = 0 THEN a ELSE Numbers!ReadChar(g[i - 1], s[i])
           v == CHOOSE g : g = [i \in 0..n |-> Turn(g, i)]
<1>1. n \in Nat /\ a \in PState /\ \A i \in 1..n : s[i] \in Char
  <2>1. n \in Nat /\ \A i \in 1..n : s[i] \in Char
    OBVIOUS
  <2>2. a \in PState
    BY WordFacts, StatesAre
  <2>3. QED
    BY <2>1, <2>2
<1>2. step \in [1..n -> [PState -> PState]]
  BY <1>1, TurnType
<1>3. PICK g : g \in [0..n -> PState] /\ g[0] = a
               /\ \A i \in 1..n : g[i] = step[i][g[i - 1]]
  <2> HIDE DEF n, a, step
  <2>1. PICK g : Recurs(g, n, PState, a, step)
    BY <1>1, <1>2, Recursion
  <2>2. QED
    BY <2>1 DEF Recurs
<1>4. \A i \in 1..n : i \in 0..n /\ i - 1 \in 0..n /\ i # 0
  BY <1>1
<1>5. \A i \in 1..n : g[i] = Numbers!ReadChar(g[i - 1], s[i])
  <2> HIDE DEF n, a
  <2> QED  BY <1>3, <1>4
<1>6. g = [i \in 0..n |-> Turn(g, i)]
  <2>1. \A i \in 0..n : g[i] = Turn(g, i)
    <3>1. \A i \in 0..n : i = 0 \/ i \in 1..n
      BY <1>1
    <3>2. QED
      BY <1>3, <1>5, <3>1
  <2> HIDE DEF Turn, n
  <2>2. QED
    BY <1>3, <2>1
<1>7. v = [i \in 0..n |-> Turn(v, i)]
  <2> HIDE DEF Turn
  <2> QED  BY <1>6
<1>8. Numbers!ParseUint32(s) = v[n].val
  BY DEF Numbers!ParseUint32, Numbers!NothingRead, State
<1> HIDE DEF v, n, a
<1>9. \A i \in 0..n : v[i] = g[i]
  <2> DEFINE U == {i \in 0..n : v[i] = g[i]}
  <2>1. 0 \in U
    <3>1. 0 \in 0..n
      BY <1>1
    <3>2. QED
      BY <1>3, <1>7, <3>1
  <2>2. ASSUME NEW i \in 0..n, i \in U, i < n PROVE i + 1 \in U
    <3>1. i + 1 \in 1..n /\ (i + 1) - 1 = i /\ i + 1 \in 0..n /\ i + 1 # 0
      BY <1>1, <2>2
    <3>2. v[i + 1] = Numbers!ReadChar(v[i], s[i + 1])
      BY <1>7, <3>1
    <3>3. QED
      BY <1>5, <2>2, <3>1, <3>2
  <2>3. 0..n \subseteq U
    <3> HIDE DEF U
    <3> QED  BY <1>1, <2>1, <2>2, UpTo
  <2>4. QED
    BY <2>3
<1>10. n \in 0..n
  BY <1>1
<1>11. QED
  BY <1>3, <1>5, <1>8, <1>9, <1>10 DEF n, a

\* A text begins with j blanks; its digits from b to e make the numbers h; its
\* first number ends at e and is v, but for the width of the word.
Blanks(s, j) == \A k \in 1..j : s[k] = Blank
Places(s, b, e, h) ==
    /\ h \in [b - 1..e -> Nat] /\ h[b - 1] = 0
    /\ \A k \in b..e : s[k] \in 0..9 /\ h[k] = 10 * h[k - 1] + s[k]
Number(s, e, v) ==
    \E b \in 1..e : Blanks(s, b - 1) /\ \E h : Places(s, b, e, h) /\ v = h[e] % Word

\* What a text begins with: no number, or one.
Reads(s, v) ==
    \/ /\ v = 0
       /\ \E j \in 0..Len(s) : /\ Blanks(s, j)
                               /\ j < Len(s) => s[j + 1] \notin 0..9 \cup {Blank}
    \/ \E e \in 1..Len(s) : Number(s, e, v) /\ (e < Len(s) => s[e + 1] \notin 0..9)

\* What parse_uint32 knows of the first i characters.
After(s, i, r) ==
    \/ r = State(0, FALSE, FALSE) /\ Blanks(s, i)
    \/ \E v \in 0..Word - 1 : r = State(v, TRUE, FALSE) /\ i >= 1 /\ Number(s, i, v)
    \/ \E v \in 0..Word - 1, f \in BOOLEAN : r = State(v, f, TRUE) /\ Reads(s, v)

\* A number begins with its first digit, and grows by one at a time.
LEMMA FirstDigit ==
    ASSUME NEW s \in Seq(Char), NEW b \in 1..Len(s), s[b] \in 0..9, Blanks(s, b - 1)
    PROVE  Number(s, b, s[b] % Word)
<1> DEFINE h == [k \in b - 1..b |-> IF k = b THEN s[b] ELSE 0]
<1>1. b \in Nat /\ b >= 1 /\ s[b] \in Nat
  OBVIOUS
<1>2. h \in [b - 1..b -> Nat] /\ h[b - 1] = 0 /\ h[b] = s[b]
  BY <1>1
<1>3. \A k \in b..b : k = b /\ s[k] \in 0..9 /\ h[k] = 10 * h[k - 1] + s[k]
  <2> HIDE DEF h
  <2> QED  BY <1>1, <1>2
<1> HIDE DEF h
<1>4. Places(s, b, b, h)
  BY <1>2, <1>3 DEF Places
<1>5. QED
  BY <1>1, <1>2, <1>4 DEF Number

\* One more digit makes ten times the number, and the digit.
LEMMA OneMorePlace ==
    ASSUME NEW s, NEW t, NEW b \in Nat, NEW e \in Nat, b >= 1, b <= e, NEW h,
           Places(s, b, e, h), \A k \in b..e : t[k] = s[k], t[e + 1] \in 0..9
    PROVE  \E g : Places(t, b, e + 1, g) /\ g[e + 1] = 10 * h[e] + t[e + 1]
<1>1. h[e] \in Nat /\ t[e + 1] \in Nat
  <2>1. e \in b - 1..e
    OBVIOUS
  <2>2. QED
    BY <2>1 DEF Places
<1> DEFINE x == 10 * h[e] + t[e + 1]
           g == [k \in b - 1..e + 1 |-> IF k = e + 1 THEN x ELSE h[k]]
<1>2. x \in Nat
  BY <1>1
<1>3. g \in [b - 1..e + 1 -> Nat] /\ g[b - 1] = 0 /\ g[e + 1] = x
      /\ \A k \in b - 1..e : g[k] = h[k]
  <2> HIDE DEF x
  <2>1. \A k \in b - 1..e + 1 : k # e + 1 => k \in b - 1..e
    OBVIOUS
  <2>2. \A k \in b - 1..e : h[k] \in Nat
    BY DEF Places
  <2>3. b - 1 \in b - 1..e /\ e + 1 \in b - 1..e + 1 /\ b - 1 # e + 1
    OBVIOUS
  <2>4. g \in [b - 1..e + 1 -> Nat]
    BY <1>2, <2>1, <2>2
  <2>5. \A k \in b - 1..e : k \in b - 1..e + 1 /\ k # e + 1
    OBVIOUS
  <2>6. QED
    BY <2>3, <2>4, <2>5 DEF Places
<1> HIDE DEF g
<1>4. ASSUME NEW k \in b..e + 1 PROVE t[k] \in 0..9 /\ g[k] = 10 * g[k - 1] + t[k]
  <2>1. CASE k = e + 1
    <3>1. k - 1 = e /\ e \in b - 1..e
      BY <2>1
    <3>2. QED
      BY <1>3, <2>1, <3>1
  <2>2. CASE k # e + 1
    <3>1. k \in b..e /\ k \in b - 1..e /\ k - 1 \in b - 1..e
      BY <2>2
    <3>2. QED
      BY <1>3, <3>1 DEF Places
  <2>3. QED
    BY <2>1, <2>2
<1>5. Places(t, b, e + 1, g)
  BY <1>3, <1>4 DEF Places
<1>6. QED
  BY <1>3, <1>5

\* The digits decide the number.
LEMMA SamePlaces ==
    ASSUME NEW s, NEW t, NEW b \in Nat, NEW e \in Nat, b >= 1, b <= e, NEW h, NEW g,
           Places(s, b, e, h), Places(t, b, e, g), \A k \in b..e : t[k] = s[k]
    PROVE  h[e] = g[e]
<1>1. PICK m \in Nat : b = m + 1
  <2>1. b - 1 \in Nat /\ b = (b - 1) + 1
    OBVIOUS
  <2>2. QED
    BY <2>1
<1>2. PICK n \in Nat : e = m + n
  <2>1. e - m \in Nat /\ e = m + (e - m)
    BY <1>1
  <2>2. QED
    BY <2>1
<1> DEFINE T == {i \in 0..n : h[m + i] = g[m + i]}
<1>3. 0 \in T
  <2>1. m + 0 = b - 1
    BY <1>1
  <2>2. QED
    BY <2>1 DEF Places
<1>4. ASSUME NEW i \in 0..n, i \in T, i < n PROVE i + 1 \in T
  <2>1. m + (i + 1) \in b..e /\ (m + (i + 1)) - 1 = m + i /\ i + 1 \in 0..n
    BY <1>1, <1>2, <1>4
  <2>2. h[m + (i + 1)] = 10 * h[m + i] + s[m + (i + 1)]
    BY <2>1 DEF Places
  <2>3. g[m + (i + 1)] = 10 * g[m + i] + t[m + (i + 1)]
    BY <2>1 DEF Places
  <2>4. QED
    BY <1>4, <2>1, <2>2, <2>3
<1>5. 0..n \subseteq T
  <2> HIDE DEF T
  <2> QED  BY <1>3, <1>4, UpTo
<1>6. n \in 0..n
  OBVIOUS
<1>7. QED
  BY <1>2, <1>5, <1>6

LEMMA NextDigit ==
    ASSUME NEW s \in Seq(Char), NEW e \in 1..Len(s) - 1, NEW v, Number(s, e, v),
           s[e + 1] \in 0..9
    PROVE  v \in 0..Word - 1 /\ Number(s, e + 1, (v * 10 + s[e + 1]) % Word)
<1>1. PICK b \in 1..e : Blanks(s, b - 1) /\ \E h : Places(s, b, e, h) /\ v = h[e] % Word
  BY DEF Number
<1>2. PICK h : Places(s, b, e, h) /\ v = h[e] % Word
  BY <1>1
<1>3. /\ e \in Nat /\ b \in Nat /\ b >= 1 /\ b <= e /\ s[e + 1] \in Nat
      /\ e \in b - 1..e /\ b \in 1..e + 1
  OBVIOUS
<1>4. h[e] \in Nat
  BY <1>2, <1>3 DEF Places
<1>5. PICK g : Places(s, b, e + 1, g) /\ g[e + 1] = 10 * h[e] + s[e + 1]
  BY <1>2, <1>3, OneMorePlace
<1>6. (v * 10 + s[e + 1]) % Word = g[e + 1] % Word
  <2>1. Word \in Nat \ {0} /\ h[e] \in Nat /\ s[e + 1] \in Nat
    BY <1>3, <1>4, WordFacts
  <2>2. ((h[e] % Word) * 10 + s[e + 1]) % Word = (10 * h[e] + s[e + 1]) % Word
    BY ONLY <2>1, LateRemainder
  <2>3. QED
    BY <1>2, <1>5, <2>2, Zenon
<1>7. Number(s, e + 1, (v * 10 + s[e + 1]) % Word)
  BY <1>1, <1>3, <1>5, <1>6, Zenon DEF Number
<1>8. v \in 0..Word - 1
  BY <1>2, <1>4, WordFacts
<1>9. QED
  BY <1>7, <1>8

\* Each turn keeps what is known.
LEMMA TurnReads ==
    ASSUME NEW s \in Seq(Char), NEW i \in 0..Len(s) - 1, NEW r, After(s, i, r)
    PROVE  After(s, i + 1, Numbers!ReadChar(r, s[i + 1]))
<1> DEFINE c == s[i + 1]
<1>1. i \in Nat /\ Len(s) \in Nat /\ i + 1 \in 1..Len(s) /\ i < Len(s) /\ i \in 0..Len(s)
      /\ c \in Char /\ i + 1 >= 1 /\ (i + 1) - 1 = i
  OBVIOUS
<1>2. c \in {Nul, Other} \/ c = Blank \/ c \in 0..9
  BY <1>1 DEF Char
<1>3. c \in 0..9 => c # Blank /\ c \notin {Nul, Other}
  BY SingleAssumption
<1>4. c \in {Nul, Other} => c # Blank /\ c \notin 0..9
  BY SingleAssumption
<1>5. CASE r = State(0, FALSE, FALSE) /\ Blanks(s, i)
  <2>1. CASE c \in {Nul, Other}
    <3>1. Numbers!ReadChar(r, c) = State(0, FALSE, TRUE)
      BY <1>1, <1>5, <2>1, Turns, WordFacts
    <3>2. Reads(s, 0)
      BY <1>1, <1>4, <1>5, <2>1 DEF Reads
    <3>3. QED
      BY <3>1, <3>2, WordFacts DEF After
  <2>2. CASE c = Blank
    <3>1. Numbers!ReadChar(r, c) = State(0, FALSE, FALSE)
      BY <1>1, <1>5, <2>2, Turns, WordFacts
    <3>2. Blanks(s, i + 1)
      <4>1. \A k \in 1..i + 1 : k = i + 1 \/ k \in 1..i
        BY <1>1
      <4>2. QED
        BY <1>5, <2>2, <4>1 DEF Blanks
    <3>3. QED
      BY <3>1, <3>2 DEF After
  <2>3. CASE c \in 0..9
    <3>1. Numbers!ReadChar(r, c) = State((0 * 10 + c) % Word, TRUE, FALSE)
      BY <1>1, <1>5, <2>3, Turns, WordFacts
    <3>2. 0 * 10 + c = c /\ c \in Nat
      BY <2>3
    <3>3. Number(s, i + 1, c % Word)
      <4>1. Blanks(s, (i + 1) - 1)
        BY <1>1, <1>5
      <4>2. QED
        BY <1>1, <2>3, <4>1, FirstDigit
    <3>4. c % Word \in 0..Word - 1
      BY <3>2, WordFacts
    <3>5. Numbers!ReadChar(r, c) = State(c % Word, TRUE, FALSE)
      BY <3>1, <3>2
    <3>6. QED
      BY <1>1, <3>3, <3>4, <3>5 DEF After
  <2>4. QED
    BY <1>2, <2>1, <2>2, <2>3
<1>6. ASSUME NEW v \in 0..Word - 1, r = State(v, TRUE, FALSE), i >= 1, Number(s, i, v)
      PROVE  After(s, i + 1, Numbers!ReadChar(r, c))
  <2>1. i \in 1..Len(s) /\ i \in 1..Len(s) - 1
    BY <1>1, <1>6
  <2>2. CASE c \notin 0..9
    <3>1. Numbers!ReadChar(r, c) = State(v, TRUE, TRUE)
      BY <1>1, <1>2, <1>6, <2>2, Turns
    <3>2. Reads(s, v)
      BY <1>6, <2>1, <2>2 DEF Reads
    <3>3. QED
      BY <3>1, <3>2 DEF After
  <2>3. CASE c \in 0..9
    <3>1. Numbers!ReadChar(r, c) = State((v * 10 + c) % Word, TRUE, FALSE)
      BY <1>1, <1>6, <2>3, Turns
    <3>2. Number(s, i + 1, (v * 10 + c) % Word)
      BY <1>6, <2>1, <2>3, NextDigit
    <3>3. (v * 10 + c) % Word \in 0..Word - 1
      <4>1. v * 10 + c \in Nat
        BY <2>3, WordFacts
      <4>2. QED
        BY <4>1, WordFacts
    <3>4. QED
      BY <1>1, <3>1, <3>2, <3>3 DEF After
  <2>4. QED
    BY <2>2, <2>3
<1>7. ASSUME NEW v \in 0..Word - 1, NEW f \in BOOLEAN, r = State(v, f, TRUE), Reads(s, v)
      PROVE  After(s, i + 1, Numbers!ReadChar(r, c))
  BY <1>1, <1>7, Turns DEF After
<1>8. QED
  BY <1>5, <1>6, <1>7 DEF After

LEMMA ValOfState == \A r, v, f, e : r = State(v, f, e) => r.val = v
BY DEF State

\* parse_uint32 takes the number a text begins with, or 0.
LEMMA ParseReads == ASSUME NEW s \in Seq(Char) PROVE Reads(s, Numbers!ParseUint32(s))
<1>1. PICK g \in [0..Len(s) -> PState] :
              /\ g[0] = State(0, FALSE, FALSE)
              /\ \A i \in 1..Len(s) : g[i] = Numbers!ReadChar(g[i - 1], s[i])
              /\ Numbers!ParseUint32(s) = g[Len(s)].val
  BY ParseStates
<1>2. Len(s) \in Nat
  OBVIOUS
<1> DEFINE T == {i \in 0..Len(s) : After(s, i, g[i])}
<1>3. 0 \in T
  <2>1. Blanks(s, 0)
    BY DEF Blanks
  <2>2. QED
    BY <1>1, <1>2, <2>1 DEF After
<1>4. ASSUME NEW i \in 0..Len(s), i \in T, i < Len(s) PROVE i + 1 \in T
  <2>1. i \in 0..Len(s) - 1 /\ i + 1 \in 1..Len(s) /\ (i + 1) - 1 = i /\ i + 1 \in 0..Len(s)
    BY <1>2, <1>4
  <2>2. g[i + 1] = Numbers!ReadChar(g[i], s[i + 1])
    BY <1>1, <2>1
  <2>3. After(s, i, g[i])
    BY <1>4
  <2>4. After(s, i + 1, Numbers!ReadChar(g[i], s[i + 1]))
    BY <2>1, <2>3, TurnReads
  <2>5. QED
    BY <2>1, <2>2, <2>4
<1>5. 0..Len(s) \subseteq T
  <2> HIDE DEF T
  <2> QED  BY <1>2, <1>3, <1>4, UpTo
<1>6. After(s, Len(s), g[Len(s)])
  BY <1>2, <1>5
<1> HIDE DEF T
<1>7. CASE g[Len(s)] = State(0, FALSE, FALSE) /\ Blanks(s, Len(s))
  <2>1. Len(s) \in 0..Len(s) /\ ~(Len(s) < Len(s))
    BY <1>2
  <2>2. Reads(s, 0)
    BY <1>7, <2>1 DEF Reads
  <2>3. QED
    BY <1>1, <1>7, <2>2, ValOfState
<1>8. ASSUME NEW v \in 0..Word - 1, g[Len(s)] = State(v, TRUE, FALSE), Len(s) >= 1, Number(s, Len(s), v)
      PROVE  Reads(s, Numbers!ParseUint32(s))
  <2>1. Len(s) \in 1..Len(s) /\ ~(Len(s) < Len(s))
    BY <1>2, <1>8
  <2>2. Reads(s, v)
    BY <1>8, <2>1 DEF Reads
  <2>3. QED
    BY <1>1, <1>8, <2>2, ValOfState
<1>9. ASSUME NEW v \in 0..Word - 1, NEW f \in BOOLEAN, g[Len(s)] = State(v, f, TRUE), Reads(s, v)
      PROVE  Reads(s, Numbers!ParseUint32(s))
  BY <1>1, <1>9, ValOfState
<1>10. QED
  BY <1>6, <1>7, <1>8, <1>9 DEF After

\* Numbers that fit the word.
LEMMA SmallRemainder == \A x \in 0..Word - 1 : x % Word = x
<1> SUFFICES ASSUME NEW x \in 0..Word - 1 PROVE x % Word = x
  OBVIOUS
<1>1. Word \in Nat \ {0} /\ 0 \in Int
  BY WordFacts
<1>2. (Word * 0 + x) % Word = x
  BY <1>1, RemainderUnique
<1>3. Word * 0 + x = x
  BY <1>1
<1>4. QED
  BY <1>2, <1>3

\* What the reference definition makes of the digits.
LEMMA DecimalIs ==
    ASSUME text \in Seq(Char), NEW b \in Nat, NEW e \in Nat, b >= 1, b <= e, NEW h,
           Places(text, b, e, h)
    PROVE  Numbers!Decimal(b, e) = h[e]
<1> DEFINE Turn(f, k) == IF k < b THEN 0 ELSE 10 * f[k - 1] + text[k]
           v == CHOOSE f : f = [k \in b - 1..e |-> Turn(f, k)]
<1>1. h = [k \in b - 1..e |-> Turn(h, k)]
  <2>1. ASSUME NEW k \in b - 1..e PROVE h[k] = Turn(h, k)
    <3>1. CASE k < b
      <4>1. k = b - 1
        BY <3>1
      <4>2. QED
        BY <3>1, <4>1 DEF Places
    <3>2. CASE ~(k < b)
      <4>1. k \in b..e
        BY <3>2
      <4>2. QED
        BY <3>2, <4>1 DEF Places
    <3>3. QED
      BY <3>1, <3>2
  <2> HIDE DEF Turn
  <2>2. QED
    BY <2>1 DEF Places
<1>2. v = [k \in b - 1..e |-> Turn(v, k)]
  <2> HIDE DEF Turn
  <2> QED  BY <1>1
<1>3. Numbers!Decimal(b, e) = v[e]
  BY DEF Numbers!Decimal
<1> HIDE DEF v
<1>4. v[b - 1] = 0 /\ \A k \in b..e : v[k] = 10 * v[k - 1] + text[k]
  <2>1. b - 1 \in b - 1..e /\ b - 1 < b
    OBVIOUS
  <2>2. \A k \in b..e : k \in b - 1..e /\ ~(k < b)
    OBVIOUS
  <2>3. QED
    BY <1>2, <2>1, <2>2
<1>5. PICK m \in Nat : b = m + 1
  <2>1. b - 1 \in Nat /\ b = (b - 1) + 1
    OBVIOUS
  <2>2. QED
    BY <2>1
<1>6. PICK n \in Nat : e = m + n
  <2>1. e - m \in Nat /\ e = m + (e - m)
    BY <1>5
  <2>2. QED
    BY <2>1
<1> DEFINE T == {i \in 0..n : h[m + i] = v[m + i]}
<1>7. 0 \in T
  <2>1. m + 0 = b - 1
    BY <1>5
  <2>2. h[b - 1] = 0
    BY DEF Places
  <2>3. QED
    <3>1. h[m + 0] = v[m + 0]
      BY <1>4, <2>1, <2>2, Zenon
    <3>2. 0 \in 0..n
      OBVIOUS
    <3>3. QED
      BY <3>1, <3>2
<1>8. ASSUME NEW i \in 0..n, i \in T, i < n PROVE i + 1 \in T
  <2>1. m + (i + 1) \in b..e /\ (m + (i + 1)) - 1 = m + i /\ i + 1 \in 0..n
    BY <1>5, <1>6, <1>8
  <2>2. h[m + (i + 1)] = 10 * h[m + i] + text[m + (i + 1)]
    BY <2>1 DEF Places
  <2>3. v[m + (i + 1)] = 10 * v[m + i] + text[m + (i + 1)]
    BY <1>4, <2>1
  <2>4. QED
    BY <1>8, <2>1, <2>2, <2>3
<1>9. 0..n \subseteq T
  <2> HIDE DEF T
  <2> QED  BY <1>7, <1>8, UpTo
<1>10. n \in 0..n
  OBVIOUS
<1>11. QED
  BY <1>3, <1>6, <1>9, <1>10

\* The ends of intervals.
LEMMA SmallestOfOne == \A b \in Nat : Numbers!Min({b}) = b
BY DEF Numbers!Min

LEMMA LargestOfInterval == \A b, e \in Nat : b <= e => Numbers!Max(b..e) = e
<1> SUFFICES ASSUME NEW b \in Nat, NEW e \in Nat, b <= e PROVE Numbers!Max(b..e) = e
  OBVIOUS
<1>1. e \in b..e /\ \A y \in b..e : e >= y
  OBVIOUS
<1>2. \A x \in b..e : (\A y \in b..e : x >= y) => x = e
  BY <1>1
<1>3. QED
  BY <1>1, <1>2 DEF Numbers!Max

\* Two ways to say what a text begins with.
LEMMA LeadingNumberIs ==
    ASSUME text \in Seq(Char), NEW v, Reads(text, v)
    PROVE  v = Numbers!LeadingNumber % Word
<1> DEFINE starts == {i \in DOMAIN text : /\ text[i] \in Numbers!Digit
                                          /\ \A k \in 1..(i - 1) : text[k] = Blank}
           ends(i) == {j \in i..Len(text) : \A k \in i..j : text[k] \in Numbers!Digit}
<1>1. Len(text) \in Nat /\ DOMAIN text = 1..Len(text) /\ Blank \notin 0..9
  <2>1. Len(text) \in Nat /\ DOMAIN text = 1..Len(text)
    OBVIOUS
  <2>2. Blank \notin 0..9
    BY SingleAssumption
  <2>3. QED
    BY <2>1, <2>2
<1>2. Numbers!LeadingNumber = IF starts = {} THEN 0
         ELSE Numbers!Decimal(Numbers!Min(starts), Numbers!Max(ends(Numbers!Min(starts))))
  BY DEF Numbers!LeadingNumber
<1>3. ASSUME v = 0, NEW j \in 0..Len(text), Blanks(text, j),
             j < Len(text) => text[j + 1] \notin 0..9 \cup {Blank}
      PROVE  v = Numbers!LeadingNumber % Word
  <2>1. ASSUME NEW i \in 1..Len(text), text[i] \in 0..9, \A k \in 1..(i - 1) : text[k] = Blank
        PROVE  FALSE
    <3>1. CASE i <= j
      BY <1>1, <1>3, <2>1, <3>1 DEF Blanks
    <3>2. CASE i = j + 1
      BY <1>1, <1>3, <2>1, <3>2
    <3>3. CASE i > j + 1
      <4>1. j + 1 \in 1..(i - 1) /\ j < Len(text)
        BY <1>1, <3>3
      <4>2. QED
        BY <1>3, <2>1, <4>1
    <3>4. QED
      BY <1>1, <3>1, <3>2, <3>3
  <2>2. starts = {}
    BY <1>1, <2>1 DEF Numbers!Digit
  <2>3. 0 % Word = 0
    BY SmallRemainder, WordFacts
  <2>4. QED
    BY <1>2, <1>3, <2>2, <2>3
<1>4. ASSUME NEW e \in 1..Len(text), Number(text, e, v), e < Len(text) => text[e + 1] \notin 0..9
      PROVE  v = Numbers!LeadingNumber % Word
  <2>1. PICK b \in 1..e : Blanks(text, b - 1)
                          /\ \E h : Places(text, b, e, h) /\ v = h[e] % Word
    BY <1>4 DEF Number
  <2>2. PICK h : Places(text, b, e, h) /\ v = h[e] % Word
    BY <2>1
  <2>3. /\ b \in Nat /\ e \in Nat /\ b >= 1 /\ b <= e /\ e <= Len(text) /\ b \in 1..Len(text)
        /\ \A k \in b..e : text[k] \in 0..9
    BY <1>1, <2>2 DEF Places
  <2>4. starts = {b}
    <3>1. b \in starts
      BY <1>1, <2>1, <2>3 DEF Numbers!Digit, Blanks
    <3>2. ASSUME NEW i \in starts, i # b PROVE FALSE
      <4>1. i \in 1..Len(text) /\ text[i] \in 0..9 /\ \A k \in 1..(i - 1) : text[k] = Blank
        BY <1>1 DEF Numbers!Digit
      <4>2. CASE i < b
        <5>1. i \in 1..b - 1
          BY <2>3, <4>1, <4>2
        <5>2. QED
          BY <1>1, <2>1, <4>1, <5>1 DEF Blanks
      <4>3. CASE i > b
        <5>1. b \in 1..(i - 1) /\ b \in b..e
          BY <2>3, <4>1, <4>3
        <5>2. QED
          BY <1>1, <2>3, <4>1, <5>1
      <4>4. QED
        BY <2>3, <3>2, <4>1, <4>2, <4>3
    <3> HIDE DEF starts
    <3>3. QED
      BY <3>1, <3>2
  <2>5. ends(b) = b..e
    <3>1. \A j \in b..e : j \in b..Len(text) /\ \A k \in b..j : text[k] \in 0..9
      BY <1>1, <2>3
    <3>2. ASSUME NEW j \in b..Len(text), \A k \in b..j : text[k] \in 0..9 PROVE j \in b..e
      <4>1. SUFFICES ASSUME j > e PROVE FALSE
        BY <2>3
      <4>2. e + 1 \in b..j /\ e < Len(text)
        BY <1>1, <2>3, <4>1
      <4>3. QED
        BY <1>4, <3>2, <4>2
    <3>3. QED
      BY <3>1, <3>2 DEF Numbers!Digit
  <2> HIDE DEF starts, ends
  <2>6. Numbers!Min(starts) = b
    BY <2>3, <2>4, SmallestOfOne
  <2>7. Numbers!Max(ends(b)) = e
    BY <2>3, <2>5, LargestOfInterval
  <2>8. Numbers!Decimal(b, e) = h[e]
    BY <2>2, <2>3, DecimalIs
  <2>9. starts # {}
    BY <2>4
  <2>10. Numbers!LeadingNumber = h[e]
    BY <1>2, <2>6, <2>7, <2>8, <2>9, Zenon
  <2>11. QED
    BY <2>2, <2>10
<1> HIDE DEF starts, ends
<1>5. QED
  BY <1>3, <1>4 DEF Reads

\* The digits d are those of x.
DigitsOf(d, x) ==
    /\ d \in Seq(0..9) /\ Len(d) >= 1
    /\ \E h : Places(d, 1, Len(d), h) /\ h[Len(d)] = x

\* One digit is its own number, and each more makes ten times it and the digit.
LEMMA OneDigit == \A x \in 0..9 : DigitsOf(<<x>>, x)
<1> SUFFICES ASSUME NEW x \in 0..9 PROVE DigitsOf(<<x>>, x)
  OBVIOUS
<1> DEFINE d == <<x>>
           h == [k \in 0..1 |-> IF k = 1 THEN x ELSE 0]
<1>1. d \in Seq(0..9) /\ Len(d) = 1 /\ d[1] = x
  OBVIOUS
<1>2. h \in [0..1 -> Nat] /\ h[0] = 0 /\ h[1] = x
  OBVIOUS
<1> HIDE DEF d, h
<1>3. \A k \in 1..1 : d[k] \in 0..9 /\ h[k] = 10 * h[k - 1] + d[k]
  <2>1. \A k \in 1..1 : k = 1 /\ k - 1 = 0
    OBVIOUS
  <2>2. 10 * h[0] + d[1] = x
    BY <1>1, <1>2
  <2>3. QED
    BY <1>1, <1>2, <2>1, <2>2
<1>4. Places(d, 1, 1, h)
  <2>1. 1 - 1 = 0
    OBVIOUS
  <2>2. QED
    BY <1>2, <1>3, <2>1 DEF Places
<1>5. DigitsOf(d, x)
  BY <1>1, <1>2, <1>4 DEF DigitsOf
<1>6. QED
  BY <1>5 DEF d

LEMMA MoreDigits ==
    ASSUME NEW x \in Nat, NEW d, DigitsOf(d, x \div 10)
    PROVE  DigitsOf(Append(d, x % 10), x)
<1>1. d \in Seq(0..9) /\ Len(d) \in Nat /\ Len(d) >= 1
  BY DEF DigitsOf
<1>2. PICK h : Places(d, 1, Len(d), h) /\ h[Len(d)] = x \div 10
  BY DEF DigitsOf
<1>3. x % 10 \in 0..9 /\ x \div 10 \in Nat /\ 10 * (x \div 10) + (x % 10) = x
  OBVIOUS
<1> DEFINE a == Append(d, x % 10)
<1>4. /\ a \in Seq(0..9) /\ Len(a) = Len(d) + 1 /\ a[Len(d) + 1] = x % 10
      /\ \A k \in 1..Len(d) : a[k] = d[k]
  BY <1>1, <1>3
<1> HIDE DEF a
<1>5. PICK g : Places(a, 1, Len(d) + 1, g) /\ g[Len(d) + 1] = 10 * h[Len(d)] + a[Len(d) + 1]
  <2>1. /\ 1 \in Nat /\ Len(d) \in Nat /\ 1 >= 1 /\ 1 <= Len(d)
        /\ a[Len(d) + 1] \in 0..9
    BY <1>1, <1>3, <1>4
  <2>2. PICK z \in Nat : z = 1
    OBVIOUS
  <2>3. PICK e \in Nat : e = Len(d)
    BY <1>1
  <2>4. /\ z >= 1 /\ z <= e /\ a[e + 1] \in 0..9
        /\ Places(d, z, e, h) /\ \A k \in z..e : a[k] = d[k]
    BY <1>2, <1>4, <2>1, <2>2, <2>3
  <2>5. \E g : Places(a, z, e + 1, g) /\ g[e + 1] = 10 * h[e] + a[e + 1]
    BY ONLY <2>4, z \in Nat, e \in Nat, OneMorePlace
  <2>6. QED
    BY <2>2, <2>3, <2>5
<1>6. g[Len(a)] = x
  BY <1>2, <1>3, <1>4, <1>5
<1>7. DigitsOf(a, x)
  BY <1>1, <1>4, <1>5, <1>6 DEF DigitsOf
<1>8. QED
  BY <1>7 DEF a

\* write_uint32_str writes the digits of its number.
LEMMA WritesDigits == ASSUME NEW n \in Nat PROVE DigitsOf(Numbers!WriteUint32(n), n)
<1> DEFINE Turn(g, x) == IF x < 10 THEN <<x>> ELSE Append(g[x \div 10], x % 10)
           Is(g, m) == g \in [0..m -> Seq(0..9)] /\ \A x \in 0..m : g[x] = Turn(g, x)
           T == {m \in 0..n : \E g : Is(g, m)}
           v == CHOOSE g : g = [x \in 0..n |-> Turn(g, x)]
<1>1. \A x \in Nat : x >= 10 => x \div 10 \in 0..x - 1 /\ x % 10 \in 0..9
  OBVIOUS
<1>2. 0 \in T
  <2> DEFINE g == [x \in 0..0 |-> <<0>>]
  <2>1. g \in [0..0 -> Seq(0..9)] /\ \A x \in 0..0 : x = 0 /\ x < 10 /\ g[x] = <<0>>
    OBVIOUS
  <2> HIDE DEF g
  <2>2. Is(g, 0)
    BY <2>1
  <2>3. QED
    BY <2>2
<1>3. ASSUME NEW m \in 0..n, m \in T, m < n PROVE m + 1 \in T
  <2>1. PICK g : Is(g, m)
    BY <1>3
  <2>2. m \in Nat /\ m + 1 \in 0..n
    BY <1>3
  <2> DEFINE c == Turn(g, m + 1)
             h == [x \in 0..m + 1 |-> IF x = m + 1 THEN c ELSE g[x]]
  <2>3. m + 1 >= 10 => (m + 1) \div 10 \in 0..m /\ (m + 1) % 10 \in 0..9
    BY <1>1, <2>2
  <2>4. c \in Seq(0..9)
    <3>1. CASE m + 1 < 10
      <4>1. m + 1 \in 0..9
        BY <2>2, <3>1
      <4>2. QED
        BY <3>1, <4>1
    <3>2. CASE ~(m + 1 < 10)
      <4>1. (m + 1) \div 10 \in 0..m /\ (m + 1) % 10 \in 0..9
        BY <2>2, <2>3, <3>2
      <4>2. g[(m + 1) \div 10] \in Seq(0..9)
        BY <2>1, <4>1
      <4>3. Append(g[(m + 1) \div 10], (m + 1) % 10) \in Seq(0..9)
        BY <4>1, <4>2
      <4>4. QED
        BY <3>2, <4>3
    <3>3. QED
      BY <3>1, <3>2
  <2>5. h \in [0..m + 1 -> Seq(0..9)] /\ h[m + 1] = c /\ \A x \in 0..m : h[x] = g[x]
    <3> HIDE DEF c, Turn
    <3>1. \A x \in 0..m + 1 : x # m + 1 => x \in 0..m
      BY <2>2
    <3>2. \A x \in 0..m : x \in 0..m + 1 /\ x # m + 1
      BY <2>2
    <3>3. m + 1 \in 0..m + 1
      BY <2>2
    <3>4. \A x \in 0..m : g[x] \in Seq(0..9)
      BY <2>1
    <3>5. QED
      BY <2>4, <3>1, <3>2, <3>3, <3>4
  <2> HIDE DEF h
  <2>6. ASSUME NEW x \in 0..m + 1 PROVE h[x] = Turn(h, x)
    <3>1. x < 10 \/ h[x \div 10] = g[x \div 10]
      <4>1. ~(x < 10) => x \div 10 \in 0..m
        BY <1>1, <2>2
      <4>2. QED
        BY <2>5, <4>1
    <3>2. Turn(h, x) = Turn(g, x)
      BY <3>1
    <3>3. h[x] = Turn(g, x)
      <4> HIDE DEF Turn
      <4>1. x = m + 1 \/ x \in 0..m
        BY <2>2
      <4>2. QED
        BY <2>1, <2>5, <4>1
    <3>4. QED
      BY <3>2, <3>3
  <2>7. Is(h, m + 1)
    <3> HIDE DEF Turn
    <3> QED  BY <2>5, <2>6
  <2>8. QED
    BY <2>2, <2>7
<1>4. PICK g : Is(g, n)
  <2>1. 0..n \subseteq T
    <3> HIDE DEF T
    <3> QED  BY <1>2, <1>3, UpTo
  <2>2. n \in 0..n
    OBVIOUS
  <2>3. QED
    BY <2>1, <2>2
<1>5. g = [x \in 0..n |-> Turn(g, x)]
  <2> HIDE DEF Turn
  <2> QED  BY <1>4
<1>6. v = [x \in 0..n |-> Turn(v, x)]
  <2> HIDE DEF Turn
  <2> QED  BY <1>5
<1>7. Numbers!WriteUint32(n) = v[n]
  BY DEF Numbers!WriteUint32
<1> HIDE DEF v
<1>8. \A x \in 0..n : v[x] = Turn(v, x)
  <2> HIDE DEF Turn
  <2> QED  BY <1>6
<1> DEFINE U == {m \in 0..n : \A x \in 0..m : DigitsOf(v[x], x)}
<1>9. ASSUME NEW x \in 0..n, \A y \in 0..x - 1 : DigitsOf(v[y], y) PROVE DigitsOf(v[x], x)
  <2>1. CASE x < 10
    <3>1. x \in 0..9
      BY <2>1
    <3>2. v[x] = <<x>>
      BY <1>8, <2>1, Zenon
    <3>3. QED
      BY <3>1, <3>2, OneDigit
  <2>2. CASE ~(x < 10)
    <3>1. x \in Nat /\ x \div 10 \in 0..x - 1
      BY <1>1, <2>2
    <3>2. v[x] = Append(v[x \div 10], x % 10)
      BY <1>8, <2>2
    <3>3. DigitsOf(v[x \div 10], x \div 10)
      BY <1>9, <3>1
    <3>4. QED
      BY <3>1, <3>2, <3>3, MoreDigits
  <2>3. QED
    BY <2>1, <2>2
<1>10. 0 \in U
  <2>1. 0 \in 0..n /\ 0..0 - 1 = {} /\ \A x \in 0..0 : x = 0
    OBVIOUS
  <2>2. DigitsOf(v[0], 0)
    BY <1>9, <2>1
  <2>3. QED
    BY <2>1, <2>2
<1>11. ASSUME NEW m \in 0..n, m \in U, m < n PROVE m + 1 \in U
  <2>1. m + 1 \in 0..n /\ (m + 1) - 1 = m /\ \A x \in 0..m + 1 : x = m + 1 \/ x \in 0..m
    BY <1>11
  <2>2. \A x \in 0..m : DigitsOf(v[x], x)
    BY <1>11
  <2>3. DigitsOf(v[m + 1], m + 1)
    BY <1>9, <2>1, <2>2
  <2>4. QED
    BY <2>1, <2>2, <2>3
<1>12. n \in U /\ n \in 0..n
  <2>1. 0..n \subseteq U
    <3> HIDE DEF U
    <3> QED  BY <1>10, <1>11, UpTo
  <2>2. n \in 0..n
    OBVIOUS
  <2>3. QED
    BY <2>1, <2>2
<1>13. QED
  BY <1>7, <1>12

\* PruLed and PruTexts use the same operators.
LEMMA SameParser == \A s : Single!ParseUint32(s) = Numbers!ParseUint32(s)
BY DEF Single!ParseUint32, Numbers!ParseUint32, Single!ReadChar, Numbers!ReadChar,
       Single!NothingRead, Numbers!NothingRead

LEMMA SameMessage == \A n : Single!Message(n) = Numbers!WriteUint32(n) \o <<Blank>>
BY DEF Single!Message, Single!WriteUint32, Numbers!WriteUint32

\* parse_uint32 reads back what the script writes.
LEMMA ReadsBack ==
    ASSUME NEW n \in 0..Word - 1
    PROVE  Single!ParseUint32(Single!Message(n)) = n
<1>1. n \in Nat /\ Blank \notin 0..9 /\ n % Word = n
  <2>1. n \in Nat /\ n % Word = n
    BY WordFacts, SmallRemainder
  <2>2. Blank \notin 0..9
    BY SingleAssumption
  <2>3. QED
    BY <2>1, <2>2
<1> DEFINE d == Numbers!WriteUint32(n)
           s == d \o <<Blank>>
<1>2. d \in Seq(0..9) /\ Len(d) >= 1 /\ \E h : Places(d, 1, Len(d), h) /\ h[Len(d)] = n
  BY <1>1, WritesDigits DEF DigitsOf
<1> HIDE DEF d
<1>3. /\ s \in Seq(Char) /\ Len(d) \in Nat /\ Len(s) = Len(d) + 1 /\ s[Len(d) + 1] = Blank
      /\ \A k \in 1..Len(d) : s[k] = d[k] /\ d[k] \in 0..9
  <2>1. d \in Seq(Char) /\ <<Blank>> \in Seq(Char) /\ Len(<<Blank>>) = 1
    BY <1>2 DEF Char
  <2>2. s \in Seq(Char) /\ Len(s) = Len(d) + 1
    BY <2>1
  <2>3. \A k \in 1..Len(d) : s[k] = d[k] /\ d[k] \in 0..9
    BY <1>2, <2>1
  <2>4. s[Len(d) + 1] = Blank
    BY <2>1
  <2>5. Len(d) \in Nat
    BY <1>2
  <2>6. QED
    BY <2>2, <2>3, <2>4, <2>5
<1>4. Single!ParseUint32(Single!Message(n)) = Numbers!ParseUint32(s)
  BY SameParser, SameMessage DEF d
<1> HIDE DEF s
<1> DEFINE v == Numbers!ParseUint32(s)
<1>5. Reads(s, v)
  BY <1>3, ParseReads
<1> HIDE DEF v
<1>6. s[1] \in 0..9 /\ s[1] # Blank
  BY <1>1, <1>2, <1>3
<1>7. ASSUME NEW j \in 0..Len(s), Blanks(s, j),
             j < Len(s) => s[j + 1] \notin 0..9 \cup {Blank}
      PROVE  FALSE
  <2>1. CASE j = 0
    <3>1. j < Len(s) /\ j + 1 = 1
      BY <1>2, <1>3, <2>1
    <3>2. QED
      BY <1>6, <1>7, <3>1
  <2>2. CASE j # 0
    <3>1. 1 \in 1..j
      BY <1>3, <2>2
    <3>2. QED
      BY <1>6, <1>7, <3>1 DEF Blanks
  <2>3. QED
    BY <2>1, <2>2
<1>8. ASSUME NEW e \in 1..Len(s), Number(s, e, v), e < Len(s) => s[e + 1] \notin 0..9
      PROVE  v = n
  <2>1. PICK b \in 1..e : Blanks(s, b - 1) /\ \E h : Places(s, b, e, h) /\ v = h[e] % Word
    BY <1>8 DEF Number
  <2>2. PICK h : Places(s, b, e, h) /\ v = h[e] % Word
    BY <2>1
  <2>3. b = 1
    <3>1. SUFFICES ASSUME b # 1 PROVE FALSE
      OBVIOUS
    <3>2. 1 \in 1..b - 1
      BY <2>1, <3>1
    <3>3. QED
      BY <1>6, <2>1, <3>2 DEF Blanks
  <2>4. e = Len(d)
    <3>1. CASE e > Len(d)
      <4>1. e = Len(d) + 1 /\ e \in b..e
        BY <1>3, <3>1
      <4>2. s[e] \in 0..9
        BY <2>2, <4>1 DEF Places
      <4>3. QED
        BY <1>1, <1>3, <4>1, <4>2
    <3>2. CASE e < Len(d)
      <4>1. e + 1 \in 1..Len(d) /\ e < Len(s)
        BY <1>3, <3>2
      <4>2. s[e + 1] \in 0..9
        BY <1>3, <4>1
      <4>3. QED
        BY <1>8, <4>1, <4>2
    <3>3. QED
      BY <1>3, <3>1, <3>2
  <2>5. PICK g : Places(d, 1, Len(d), g) /\ g[Len(d)] = n
    BY <1>2
  <2>6. h[e] = g[e]
    <3>1. b \in Nat /\ e \in Nat /\ b >= 1 /\ b <= e /\ Places(s, b, e, h)
          /\ Places(d, b, e, g) /\ \A k \in b..e : d[k] = s[k]
      BY <1>3, <2>2, <2>3, <2>4, <2>5
    <3>2. QED
      BY ONLY <3>1, SamePlaces
  <2>7. QED
    BY <1>1, <2>2, <2>4, <2>5, <2>6
<1>9. v = n
  BY <1>5, <1>7, <1>8 DEF Reads
<1>10. QED
  BY <1>4, <1>9 DEF v


-----------------------------------------------------------------------------
(* The single-core demo.                                                   *)

\* What a queue holds.
Members(q) == {q[i] : i \in 1..Len(q)}
Working == fw \in {"blink", "send"}

\* Where the script has a device, and what it asks for.
ScriptInv ==
    /\ host \in {"idle", "resolve"} => dev = "none"
    /\ host \in {"write", "kick", "wait"} => dev # "none"
    /\ host # "idle" => asked \in Counts
    /\ dev = "channel" => announced

\* A message says what its run asked for; so do the work on it and the answer to
\* it, as long as that run has not ended.
AnswerInv ==
    /\ \A m \in Members(vring) :
          /\ m.asked \in Counts /\ m.run <= run
          /\ m.run = run => m.asked = asked
    /\ Working => /\ msg.run <= run /\ (msg.run = run => msg.asked = asked)
                  /\ count = msg.asked /\ left + pruBlinks = count
                  /\ fw = "send" => left = 0
    /\ \A a \in Members(queue) \cup Members(inbox) :
          /\ a.run <= run
          /\ a.run = run => a.count = asked /\ a.blinks = asked

\* The endpoint of a created device has answers only while the script has it, that
\* of the channel only while there is a channel that the script could have found.
DeviceInv ==
    /\ inbox # <<>> => dev = "created"
    /\ ~announced \/ dev = "created" =>
          /\ queue = <<>> /\ ~(Working /\ msg.dev = "channel")
          /\ \A m \in Members(vring) : m.dev # "channel"
    /\ dev = "gone" => vring = <<>> /\ ~Working /\ queue = <<>> /\ inbox = <<>>

\* Until a run gives up, there is at most one message, or the work on it, or its
\* answer, and it is of the run in progress.
OneInv == ~gaveUp =>
    /\ host \notin {"kick", "wait"} =>
          vring = <<>> /\ ~Working /\ queue = <<>> /\ inbox = <<>>
    /\ vring # <<>> => Len(vring) = 1 /\ ~Working
    /\ queue # <<>> \/ inbox # <<>> => vring = <<>> /\ ~Working
    /\ Working => msg.run = run
    /\ \A m \in Members(vring) : m.run = run
    /\ \A a \in Members(queue) \cup Members(inbox) : a.run = run

SingleInv == Single!TypeOK /\ ScriptInv /\ AnswerInv /\ DeviceInv /\ OneInv

\* What the invariant needs of the constants.
LEMMA SingleBounds ==
    /\ Word \in Nat \ {0} /\ Counts \subseteq 0..(Word - 1)
    /\ MaxRuns \in Nat /\ MaxStops \in Nat
BY SingleAssumption

LEMMA CountsAreNumbers == Counts \subseteq Nat
BY SingleBounds

\* How the members change with the queue.
LEMMA MembersEmpty == Members(<<>>) = {}
BY DEF Members

LEMMA MembersAppend ==
    ASSUME NEW S, NEW q \in Seq(S), NEW e
    PROVE  /\ Members(Append(q, e)) = Members(q) \cup {e}
           /\ Append(q, e) # <<>>
           /\ Len(Append(q, e)) = Len(q) + 1
<1> DEFINE r == Append(q, e)
<1>1. /\ Len(q) \in Nat /\ Len(r) = Len(q) + 1 /\ r[Len(q) + 1] = e
      /\ \A i \in 1..Len(q) : r[i] = q[i]
  OBVIOUS
<1>2. Members(r) \subseteq Members(q) \cup {e}
  BY <1>1 DEF Members
<1>3. Members(q) \subseteq Members(r)
  <2> SUFFICES ASSUME NEW i \in 1..Len(q) PROVE q[i] \in Members(r)
    BY DEF Members
  <2>1. i \in 1..Len(r) /\ r[i] = q[i]
    BY <1>1
  <2>2. QED
    BY <2>1 DEF Members
<1>4. e \in Members(r)
  <2>1. Len(r) \in 1..Len(r) /\ r[Len(r)] = e
    BY <1>1
  <2>2. QED
    BY <2>1 DEF Members
<1>5. r # <<>>
  BY <1>1
<1>6. QED
  BY <1>1, <1>2, <1>3, <1>4, <1>5

LEMMA MembersTail ==
    ASSUME NEW S, NEW q \in Seq(S), q # <<>>
    PROVE  /\ Head(q) \in Members(q) /\ Head(q) \in S
           /\ Tail(q) \in Seq(S) /\ Members(Tail(q)) \subseteq Members(q)
           /\ Len(q) = 1 => Tail(q) = <<>>
<1>1. Len(q) \in Nat \ {0} /\ Head(q) = q[1] /\ q[1] \in S /\ 1 \in 1..Len(q)
  OBVIOUS
<1>2. Tail(q) \in Seq(S) /\ Len(Tail(q)) = Len(q) - 1
  OBVIOUS
<1>3. \A i \in 1..Len(Tail(q)) : i + 1 \in 1..Len(q) /\ Tail(q)[i] = q[i + 1]
  BY <1>1, <1>2
<1>4. Members(Tail(q)) \subseteq Members(q)
  <2> SUFFICES ASSUME NEW i \in 1..Len(Tail(q)) PROVE Tail(q)[i] \in Members(q)
    BY DEF Members
  <2>1. i + 1 \in 1..Len(q) /\ Tail(q)[i] = q[i + 1]
    BY <1>3
  <2>2. QED
    BY <2>1 DEF Members
<1>5. Head(q) \in Members(q)
  BY <1>1 DEF Members
<1>6. ASSUME Len(q) = 1 PROVE Tail(q) = <<>>
  <2>1. Len(Tail(q)) = 0
    BY <1>2, <1>6
  <2>2. QED
    BY <1>2, <2>1, EmptySeq
<1>7. QED
  BY <1>1, <1>2, <1>4, <1>5, <1>6

LEMMA MembersTyped == ASSUME NEW S, NEW q \in Seq(S) PROVE Members(q) \subseteq S
BY DEF Members

\* What the program starts from and goes back to.
LEMMA Defaults ==
    /\ 0 \in 0..MaxRuns /\ 0 \in 0..(Word - 1) /\ 0 \in 0..MaxStops
    /\ Single!NoMsg \in Single!Messages /\ Single!NoAck \in Single!Acks
    /\ <<>> \in Seq(Single!Messages) /\ <<>> \in Seq(Single!Acks)
<1>1. 0 \in 0..MaxRuns /\ 0 \in 0..(Word - 1) /\ 0 \in 0..MaxStops
  BY SingleBounds
<1>2. Single!NoMsg \in Single!Messages /\ Single!NoAck \in Single!Acks
  BY <1>1 DEF Single!Messages, Single!Acks, Single!NoMsg, Single!NoAck
<1>3. <<>> \in Seq(Single!Messages) /\ <<>> \in Seq(Single!Acks)
  OBVIOUS
<1>4. QED
  BY <1>1, <1>2, <1>3

LEMMA SingleInit == Single!Init => SingleInv
<1> SUFFICES ASSUME Single!Init PROVE SingleInv
  OBVIOUS
<1> USE SingleBounds, MembersEmpty DEF Single!Init, Single!NoMsg, Single!NoAck
<1>1. Single!TypeOK
  BY Defaults DEF Single!TypeOK
<1>2. ScriptInv /\ AnswerInv /\ DeviceInv /\ OneInv
  BY DEF ScriptInv, AnswerInv, DeviceInv, OneInv, Working
<1>3. QED
  BY <1>1, <1>2 DEF SingleInv

\* Each step keeps the invariant.
LEMMA StepKeepsBoot == SingleInv /\ Single!Boot => SingleInv'
<1> SUFFICES ASSUME SingleInv, Single!Boot PROVE SingleInv'
  OBVIOUS
<1> USE SingleBounds DEF SingleInv, Single!Boot, Single!coreVars, Single!hostVars,
        Working
<1>1. Single!TypeOK'
  BY DEF Single!TypeOK
<1>2. ScriptInv'
  BY DEF ScriptInv, Single!TypeOK
<1>3. AnswerInv'
  BY DEF AnswerInv, ScriptInv, DeviceInv, Single!TypeOK
<1>4. DeviceInv'
  BY DEF DeviceInv, ScriptInv, Single!TypeOK
<1>5. OneInv'
  BY DEF OneInv, AnswerInv, DeviceInv, ScriptInv, Single!TypeOK
<1>6. QED
  BY <1>1, <1>2, <1>3, <1>4, <1>5

LEMMA StepKeepsAnnounce == SingleInv /\ Single!Announce => SingleInv'
<1> SUFFICES ASSUME SingleInv, Single!Announce PROVE SingleInv'
  OBVIOUS
<1> USE SingleBounds DEF SingleInv, Single!Announce, Single!linkVars,
     Single!hostVars,
        Working
<1>1. Single!TypeOK'
  BY DEF Single!TypeOK
<1>2. ScriptInv'
  BY DEF ScriptInv, Single!TypeOK
<1>3. AnswerInv'
  BY DEF AnswerInv, ScriptInv, DeviceInv, Single!TypeOK
<1>4. DeviceInv'
  BY DEF DeviceInv, ScriptInv, Single!TypeOK
<1>5. OneInv'
  BY DEF OneInv, AnswerInv, DeviceInv, ScriptInv, Single!TypeOK
<1>6. QED
  BY <1>1, <1>2, <1>3, <1>4, <1>5

LEMMA StepKeepsPoll == SingleInv /\ Single!Poll => SingleInv'
<1> SUFFICES ASSUME SingleInv, Single!Poll PROVE SingleInv'
  OBVIOUS
<1> USE SingleBounds DEF SingleInv, Single!Poll, Single!coreVars, Single!hostVars,
        Working
<1>1. Single!TypeOK'
  BY DEF Single!TypeOK
<1>2. ScriptInv'
  BY DEF ScriptInv, Single!TypeOK
<1>3. AnswerInv'
  BY DEF AnswerInv, ScriptInv, DeviceInv, Single!TypeOK
<1>4. DeviceInv'
  BY DEF DeviceInv, ScriptInv, Single!TypeOK
<1>5. OneInv'
  BY DEF OneInv, AnswerInv, DeviceInv, ScriptInv, Single!TypeOK
<1>6. QED
  BY <1>1, <1>2, <1>3, <1>4, <1>5

LEMMA StepKeepsReceive == SingleInv /\ Single!Receive => SingleInv'
<1> SUFFICES ASSUME SingleInv, Single!Receive PROVE SingleInv'
  OBVIOUS
<1> USE SingleBounds DEF SingleInv, Single!coreVars, Single!hostVars, Working
<1>1. CASE vring = <<>>
  BY <1>1 DEF Single!Receive, Single!TypeOK, ScriptInv, AnswerInv, DeviceInv, OneInv
<1>2. CASE vring # <<>>
  <2> DEFINE m == Head(vring)
  <2>1. /\ m \in Members(vring) /\ m \in Single!Messages
        /\ Tail(vring) \in Seq(Single!Messages) /\ Members(Tail(vring)) \subseteq Members(vring)
        /\ Len(vring) = 1 => Tail(vring) = <<>>
    BY <1>2, MembersTail DEF Single!TypeOK
  <2>2. m.asked \in Counts /\ m.run <= run /\ (m.run = run => m.asked = asked)
    <3> HIDE DEF m
    <3> QED  BY <2>1 DEF AnswerInv
  <2>3. /\ fw = "receive" /\ fw' = "blink"
        /\ msg' = m /\ vring' = Tail(vring)
        /\ count' = m.asked /\ left' = m.asked /\ pruBlinks' = 0
        /\ UNCHANGED <<event, queue, inbox, driverOk, announced, stops, host, dev, run,
                       asked, printed, gaveUp>>
    <3>1. Single!ParseUint32(Single!Message(m.asked)) = m.asked
      BY <2>2, ReadsBack
    <3>2. QED
      BY <1>2, <2>2, <3>1 DEF Single!Receive
  <2> HIDE DEF m
  <2>4. Single!TypeOK'
    BY <2>1, <2>2, <2>3 DEF Single!TypeOK
  <2>5. ScriptInv'
    BY <2>3 DEF ScriptInv
  <2>6. AnswerInv'
    <3>1. m.asked \in Nat
      BY <2>2, CountsAreNumbers
    <3>2. left' + pruBlinks' = count'
      BY <2>3, <3>1
    <3>3. QED
      BY <2>1, <2>2, <2>3, <3>2 DEF AnswerInv
  <2>7. DeviceInv'
    BY <1>2, <2>1, <2>3, MembersEmpty DEF DeviceInv
  <2>8. OneInv'
    BY <1>2, <2>1, <2>3, MembersEmpty DEF OneInv
  <2>9. QED
    BY <2>4, <2>5, <2>6, <2>7, <2>8
<1>3. QED
  BY <1>1, <1>2

LEMMA StepKeepsBlink == SingleInv /\ Single!Blink => SingleInv'
<1> SUFFICES ASSUME SingleInv, Single!Blink PROVE SingleInv'
  OBVIOUS
<1> USE SingleBounds DEF SingleInv, Single!Blink, Single!linkVars, Single!coreVars,
        Single!hostVars, Working
<1>1. Single!TypeOK'
  BY DEF Single!TypeOK
<1>2. ScriptInv'
  BY DEF ScriptInv, Single!TypeOK
<1>3. AnswerInv'
  <2>1. left' + pruBlinks' = count' /\ (fw' = "send" => left' = 0)
    BY DEF AnswerInv, Single!TypeOK
  <2>2. QED
    BY <2>1 DEF AnswerInv
<1>4. DeviceInv'
  BY DEF DeviceInv, ScriptInv, Single!TypeOK
<1>5. OneInv'
  BY DEF OneInv, AnswerInv, DeviceInv, ScriptInv, Single!TypeOK
<1>6. QED
  BY <1>1, <1>2, <1>3, <1>4, <1>5

LEMMA StepKeepsSend == SingleInv /\ Single!Send => SingleInv'
<1> SUFFICES ASSUME SingleInv, Single!Send PROVE SingleInv'
  OBVIOUS
<1> USE SingleBounds DEF SingleInv, Single!coreVars, Single!hostVars, Working
<1> DEFINE ack == [run |-> msg.run, count |-> count, blinks |-> pruBlinks]
<1>1. /\ fw = "send" /\ fw' = "receive"
      /\ UNCHANGED <<msg, count, left, pruBlinks, event, vring, driverOk, announced, stops,
                     host, dev, run, asked, printed, gaveUp>>
  BY DEF Single!Send
<1>2. \/ msg.dev = "channel" /\ queue' = Append(queue, ack) /\ inbox' = inbox
      \/ /\ msg.dev # "channel" /\ dev = "created" /\ run = msg.run
         /\ inbox' = Append(inbox, ack) /\ queue' = queue
      \/ queue' = queue /\ inbox' = inbox
  BY DEF Single!Send
<1>3. ack \in Single!Acks
  BY DEF Single!TypeOK, Single!Messages, Single!Acks
<1>4. /\ ack.run = msg.run /\ ack.run <= run
      /\ ack.run = run => ack.count = asked /\ ack.blinks = asked
  BY <1>1 DEF AnswerInv, Single!TypeOK
<1>5. \A q \in Seq(Single!Acks) :
         /\ Append(q, ack) \in Seq(Single!Acks) /\ Append(q, ack) # <<>>
         /\ Members(Append(q, ack)) = Members(q) \cup {ack}
  BY <1>3, MembersAppend
<1> HIDE DEF ack
<1>6. Single!TypeOK'
  BY <1>1, <1>2, <1>5 DEF Single!TypeOK
<1>7. ScriptInv'
  BY <1>1 DEF ScriptInv
<1>8. /\ Members(queue)' \cup Members(inbox)'
            \subseteq Members(queue) \cup Members(inbox) \cup {ack}
      /\ Members(vring)' = Members(vring)
  <2>1. CASE queue' = queue /\ inbox' = inbox
    BY <1>1, <2>1
  <2>2. CASE queue' = Append(queue, ack) /\ inbox' = inbox
    BY <1>1, <1>5, <2>2 DEF Single!TypeOK
  <2>3. CASE inbox' = Append(inbox, ack) /\ queue' = queue
    BY <1>1, <1>5, <2>3 DEF Single!TypeOK
  <2>4. QED
    BY <1>2, <2>1, <2>2, <2>3
<1>9. AnswerInv'
  BY <1>1, <1>4, <1>8 DEF AnswerInv
<1>10. DeviceInv'
  BY <1>1, <1>2, <1>8 DEF DeviceInv
<1>11. OneInv'
  BY <1>1, <1>2, <1>4, <1>8 DEF OneInv
<1>12. QED
  BY <1>6, <1>7, <1>9, <1>10, <1>11

LEMMA StepKeepsStart == SingleInv /\ Single!Start => SingleInv'
<1> SUFFICES ASSUME SingleInv, Single!Start PROVE SingleInv'
  OBVIOUS
<1> USE SingleBounds DEF SingleInv, Single!Start, Single!linkVars, Single!coreVars,
        Single!hostVars, Working
<1>1. Single!TypeOK'
  BY DEF Single!TypeOK
<1>2. ScriptInv'
  BY DEF ScriptInv, Single!TypeOK
<1>3. AnswerInv'
  BY DEF AnswerInv, ScriptInv, DeviceInv, Single!TypeOK
<1>4. DeviceInv'
  BY DEF DeviceInv, ScriptInv, Single!TypeOK
<1>5. OneInv'
  BY DEF OneInv, AnswerInv, DeviceInv, ScriptInv, Single!TypeOK
<1>6. QED
  BY <1>1, <1>2, <1>3, <1>4, <1>5

LEMMA StepKeepsDriverOk == SingleInv /\ Single!DriverOk => SingleInv'
<1> SUFFICES ASSUME SingleInv, Single!DriverOk PROVE SingleInv'
  OBVIOUS
<1> USE SingleBounds DEF SingleInv, Single!DriverOk, Single!fwVars, Single!linkVars,
        Single!hostVars, Working
<1>1. Single!TypeOK'
  BY DEF Single!TypeOK
<1>2. ScriptInv'
  BY DEF ScriptInv, Single!TypeOK
<1>3. AnswerInv'
  BY DEF AnswerInv, ScriptInv, DeviceInv, Single!TypeOK
<1>4. DeviceInv'
  BY DEF DeviceInv, ScriptInv, Single!TypeOK
<1>5. OneInv'
  BY DEF OneInv, AnswerInv, DeviceInv, ScriptInv, Single!TypeOK
<1>6. QED
  BY <1>1, <1>2, <1>3, <1>4, <1>5

LEMMA StepKeepsStop == SingleInv /\ Single!Stop => SingleInv'
<1> SUFFICES ASSUME SingleInv, Single!Stop PROVE SingleInv'
  OBVIOUS
<1> USE SingleBounds, MembersEmpty DEF SingleInv, Single!Stop, Working
<1>1. Single!TypeOK'
  <2>1. stops' \in 0..MaxStops /\ dev' \in {"none", "channel", "created", "gone"}
    BY DEF Single!TypeOK
  <2>2. QED
    BY <2>1, Defaults DEF Single!TypeOK
<1>2. ScriptInv'
  BY DEF ScriptInv, Single!TypeOK
<1>3. AnswerInv'
  BY DEF AnswerInv, ScriptInv, DeviceInv, Single!TypeOK
<1>4. DeviceInv'
  BY DEF DeviceInv, ScriptInv, Single!TypeOK
<1>5. OneInv'
  BY DEF OneInv, AnswerInv, DeviceInv, ScriptInv, Single!TypeOK
<1>6. QED
  BY <1>1, <1>2, <1>3, <1>4, <1>5

LEMMA StepKeepsBegin == SingleInv /\ Single!Begin => SingleInv'
<1> SUFFICES ASSUME SingleInv, Single!Begin PROVE SingleInv'
  OBVIOUS
<1> USE SingleBounds DEF SingleInv, Single!Begin, Single!fwVars, Single!linkVars,
        Single!coreVars, Working
<1>1. Single!TypeOK'
  BY Defaults DEF Single!TypeOK
<1>2. ScriptInv'
  BY DEF ScriptInv, Single!TypeOK
<1>3. AnswerInv'
  <2>1. /\ Members(vring) \subseteq Single!Messages
        /\ Members(queue) \cup Members(inbox) \subseteq Single!Acks
    BY MembersTyped DEF Single!TypeOK
  <2>2. /\ \A m \in Single!Messages : m.run \in Nat
        /\ \A a \in Single!Acks : a.run \in Nat
        /\ run \in Nat
    BY DEF Single!TypeOK, Single!Messages, Single!Acks
  <2>3. QED
    BY <2>1, <2>2 DEF AnswerInv, ScriptInv, DeviceInv, Single!TypeOK
<1>4. DeviceInv'
  BY DEF DeviceInv, ScriptInv, Single!TypeOK
<1>5. OneInv'
  BY MembersEmpty DEF OneInv
<1>6. QED
  BY <1>1, <1>2, <1>3, <1>4, <1>5

LEMMA StepKeepsResolve == SingleInv /\ Single!Resolve => SingleInv'
<1> SUFFICES ASSUME SingleInv, Single!Resolve PROVE SingleInv'
  OBVIOUS
<1> USE SingleBounds DEF SingleInv, Single!Resolve, Single!fwVars, Single!linkVars,
        Single!coreVars, Working
<1>1. Single!TypeOK'
  BY DEF Single!TypeOK
<1>2. ScriptInv'
  BY DEF ScriptInv, Single!TypeOK
<1>3. AnswerInv'
  BY DEF AnswerInv, ScriptInv, DeviceInv, Single!TypeOK
<1>4. DeviceInv'
  BY DEF DeviceInv, ScriptInv, Single!TypeOK
<1>5. OneInv'
  BY DEF OneInv, AnswerInv, DeviceInv, ScriptInv, Single!TypeOK
<1>6. QED
  BY <1>1, <1>2, <1>3, <1>4, <1>5

LEMMA StepKeepsWrite == SingleInv /\ Single!Write => SingleInv'
<1> SUFFICES ASSUME SingleInv, Single!Write PROVE SingleInv'
  OBVIOUS
<1> USE SingleBounds DEF SingleInv, Single!fwVars, Single!coreVars, Working
<1>1. CASE dev = "gone"
  BY <1>1, Defaults, MembersEmpty
     DEF Single!Write, Single!Close, Single!TypeOK, ScriptInv, AnswerInv, DeviceInv, OneInv
<1>2. CASE dev # "gone"
  <2> DEFINE m == [run |-> run, asked |-> asked, dev |-> dev]
  <2>1. /\ host = "write" /\ host' = "kick" /\ vring' = Append(vring, m)
        /\ UNCHANGED <<fw, msg, count, left, pruBlinks, event, dev, queue, inbox, driverOk,
                       announced, stops, run, asked, printed, gaveUp>>
    BY <1>2 DEF Single!Write
  <2>2. m \in Single!Messages
    BY <1>2, <2>1 DEF Single!TypeOK, Single!Messages, ScriptInv
  <2>3. m.run = run /\ m.asked = asked /\ m.dev = dev /\ asked \in Counts /\ run <= run
    BY <2>1 DEF ScriptInv, Single!TypeOK
  <2>4. /\ vring' \in Seq(Single!Messages) /\ vring' # <<>>
        /\ Members(vring)' = Members(vring) \cup {m}
        /\ vring = <<>> => Len(vring') = 1
    <3> HIDE DEF m
    <3>1. vring \in Seq(Single!Messages)
      BY DEF Single!TypeOK
    <3>2. Append(vring, m) \in Seq(Single!Messages) /\ (vring = <<>> => Len(vring) = 0)
      BY <2>2, <3>1
    <3>3. /\ Members(Append(vring, m)) = Members(vring) \cup {m}
          /\ Append(vring, m) # <<>> /\ Len(Append(vring, m)) = Len(vring) + 1
      BY <2>2, <3>1, MembersAppend
    <3>4. QED
      BY <2>1, <3>2, <3>3
  <2>5. Members(queue)' = Members(queue) /\ Members(inbox)' = Members(inbox)
    BY <2>1
  <2> HIDE DEF m
  <2>6. Single!TypeOK'
    BY <2>1, <2>4 DEF Single!TypeOK
  <2>7. ScriptInv'
    BY <2>1 DEF ScriptInv
  <2>8. AnswerInv'
    BY <2>1, <2>3, <2>4, <2>5 DEF AnswerInv
  <2>9. DeviceInv'
    BY <1>2, <2>1, <2>3, <2>4, <2>5 DEF DeviceInv, ScriptInv
  <2>10. OneInv'
    BY <2>1, <2>3, <2>4, <2>5, MembersEmpty DEF OneInv
  <2>11. QED
    BY <2>6, <2>7, <2>8, <2>9, <2>10
<1>3. QED
  BY <1>1, <1>2

LEMMA StepKeepsKick == SingleInv /\ Single!Kick => SingleInv'
<1> SUFFICES ASSUME SingleInv, Single!Kick PROVE SingleInv'
  OBVIOUS
<1> USE SingleBounds DEF SingleInv, Single!Kick, Single!fwVars, Single!coreVars,
     Working
<1>1. Single!TypeOK'
  BY DEF Single!TypeOK
<1>2. ScriptInv'
  BY DEF ScriptInv, Single!TypeOK
<1>3. AnswerInv'
  BY DEF AnswerInv, ScriptInv, DeviceInv, Single!TypeOK
<1>4. DeviceInv'
  BY DEF DeviceInv, ScriptInv, Single!TypeOK
<1>5. OneInv'
  BY DEF OneInv, AnswerInv, DeviceInv, ScriptInv, Single!TypeOK
<1>6. QED
  BY <1>1, <1>2, <1>3, <1>4, <1>5

LEMMA StepKeepsRead == SingleInv /\ Single!Read => SingleInv'
<1> SUFFICES ASSUME SingleInv, Single!Read PROVE SingleInv'
  OBVIOUS
<1> USE SingleBounds, MembersEmpty DEF SingleInv, Single!Read, Single!Close,
        Single!fwVars, Single!coreVars, Working
<1>1. Single!TypeOK'
  <2>1. printed' \in Single!Acks
    <3>1. CASE dev = "channel" /\ queue # <<>>
      BY <3>1, MembersTail DEF Single!TypeOK
    <3>2. CASE dev # "channel" /\ inbox # <<>>
      BY <3>2, MembersTail DEF Single!TypeOK
    <3>3. queue \o inbox # <<>> => queue # <<>> \/ inbox # <<>>
      OBVIOUS
    <3>4. QED
      BY <3>1, <3>2, <3>3 DEF DeviceInv, ScriptInv, Single!TypeOK
  <2>2. QED
    BY <2>1, Defaults DEF Single!TypeOK
<1>2. ScriptInv'
  BY DEF ScriptInv, Single!TypeOK
<1>3. AnswerInv'
  BY DEF AnswerInv, ScriptInv, DeviceInv, Single!TypeOK
<1>4. DeviceInv'
  BY DEF DeviceInv, ScriptInv, Single!TypeOK
<1>5. OneInv'
  BY DEF OneInv, AnswerInv, DeviceInv, ScriptInv, Single!TypeOK
<1>6. QED
  BY <1>1, <1>2, <1>3, <1>4, <1>5

LEMMA StepKeepsDeviceGone == SingleInv /\ Single!DeviceGone => SingleInv'
<1> SUFFICES ASSUME SingleInv, Single!DeviceGone PROVE SingleInv'
  OBVIOUS
<1> USE SingleBounds, MembersEmpty DEF SingleInv, Single!DeviceGone, Single!Close,
        Single!fwVars, Single!coreVars, Working
<1>1. Single!TypeOK'
  BY DEF Single!TypeOK
<1>2. ScriptInv'
  BY DEF ScriptInv, Single!TypeOK
<1>3. AnswerInv'
  BY DEF AnswerInv, ScriptInv, DeviceInv, Single!TypeOK
<1>4. DeviceInv'
  BY DEF DeviceInv, ScriptInv, Single!TypeOK
<1>5. OneInv'
  BY DEF OneInv, AnswerInv, DeviceInv, ScriptInv, Single!TypeOK
<1>6. QED
  BY <1>1, <1>2, <1>3, <1>4, <1>5

LEMMA StepKeepsGiveUp == SingleInv /\ Single!GiveUp => SingleInv'
<1> SUFFICES ASSUME SingleInv, Single!GiveUp PROVE SingleInv'
  OBVIOUS
<1> USE SingleBounds, MembersEmpty DEF SingleInv, Single!GiveUp, Single!Close,
        Single!fwVars, Single!coreVars, Working
<1>1. Single!TypeOK'
  BY DEF Single!TypeOK
<1>2. ScriptInv'
  BY DEF ScriptInv, Single!TypeOK
<1>3. AnswerInv'
  BY DEF AnswerInv, ScriptInv, DeviceInv, Single!TypeOK
<1>4. DeviceInv'
  BY DEF DeviceInv, ScriptInv, Single!TypeOK
<1>5. OneInv'
  BY DEF OneInv, AnswerInv, DeviceInv, ScriptInv, Single!TypeOK
<1>6. QED
  BY <1>1, <1>2, <1>3, <1>4, <1>5

\* A step of the firmware, of the script or of the operator.
LEMMA SingleStep == SingleInv /\ Single!Next => SingleInv'
BY StepKeepsBoot, StepKeepsAnnounce, StepKeepsPoll, StepKeepsReceive, StepKeepsBlink,
   StepKeepsSend, StepKeepsStart, StepKeepsDriverOk, StepKeepsStop, StepKeepsBegin,
   StepKeepsResolve, StepKeepsWrite, StepKeepsKick, StepKeepsRead, StepKeepsDeviceGone,
   StepKeepsGiveUp
   DEF Single!Next, Single!Firmware, Single!Script

\* Steps of the other parts.
LEMMA SingleRests == SingleInv /\ UNCHANGED singleVars => SingleInv'
BY DEF singleVars, SingleInv, Single!TypeOK, ScriptInv, AnswerInv, DeviceInv, OneInv,
     Working

LEMMA SingleKept == SingleInv /\ [MCNext]_mcVars => SingleInv'
BY SingleStep, SingleRests DEF MCNext, InMailbox, InSingle, InNumbers, mcVars

\* What Read prints.
LEMMA ReadPrintsOwn ==
    SingleInv /\ Single!Read =>
        /\ ~gaveUp => printed'.run = run
        /\ printed'.run = run => printed'.count = asked /\ printed'.blinks = asked
<1> SUFFICES ASSUME SingleInv, Single!Read
             PROVE  /\ ~gaveUp => printed'.run = run
                    /\ printed'.run = run => printed'.count = asked /\ printed'.blinks = asked
  OBVIOUS
<1>1. printed' \in Members(queue) \cup Members(inbox)
  <2>1. queue \in Seq(Single!Acks) /\ inbox \in Seq(Single!Acks)
    BY DEF SingleInv, Single!TypeOK
  <2>2. queue \o inbox # <<>> => queue # <<>> \/ inbox # <<>>
    OBVIOUS
  <2>3. CASE dev = "channel"
    <3>1. queue # <<>>
      BY <2>2, <2>3 DEF Single!Read, SingleInv, DeviceInv
    <3>2. QED
      BY <2>1, <2>3, <3>1, MembersTail DEF Single!Read
  <2>4. CASE dev # "channel"
    <3>1. inbox # <<>>
      BY <2>2, <2>4 DEF Single!Read, SingleInv, DeviceInv, ScriptInv, Single!TypeOK
    <3>2. QED
      BY <2>1, <2>4, <3>1, MembersTail DEF Single!Read
  <2>5. QED
    BY <2>3, <2>4
<1>2. QED
  BY <1>1 DEF SingleInv, AnswerInv, OneInv

LEMMA SingleStart == MCInit => SingleInv
BY SingleInit DEF MCInit

\* blink_count.py: "Send a blink count to PRU0_0 over rpmsg_char and print the ACK".
THEOREM OwnAckPrinted == MCSpec => PrintsOwnAck
<1>1. SingleInv /\ [MCNext]_mcVars =>
        [Single!Read => /\ ~gaveUp => printed'.run = run
                        /\ printed'.run = run => /\ printed'.count = asked
                                                 /\ printed'.blinks = asked]_Single!vars
  BY ReadPrintsOwn
<1>2. QED
  BY <1>1, SingleStart, SingleKept, PTL DEF MCSpec, PrintsOwnAck, Single!PrintsOwnAck

-----------------------------------------------------------------------------
(* What is read *)

\* A text is one that occurs, and what has been read of it is what parse_uint32
\* makes of it.
TextInv == text \in Seq(Char) /\ (val # Numbers!Unread => val = Numbers!ParseUint32(text))

\* The parts that are not about numbers have the empty text.
LEMMA NothingIsZero == Numbers!ParseUint32(<<>>) = 0
<1>1. <<>> \in Seq(Char) /\ Len(<<>>) = 0
  OBVIOUS
<1>2. Reads(<<>>, Numbers!ParseUint32(<<>>))
  BY <1>1, ParseReads
<1>3. 1..Len(<<>>) = {}
  BY <1>1
<1>4. QED
  BY <1>2, <1>3 DEF Reads

LEMMA TextInit == MCInit => TextInv
<1>1. SUFFICES ASSUME MCInit PROVE TextInv
  OBVIOUS
<1>2. CASE text = <<>> /\ val = 0
  BY <1>2, NothingIsZero DEF TextInv
<1>3. CASE Numbers!Init
  <2>1. Digits \cup {Blank, Nul, Other} \subseteq Char
    BY SingleAssumption DEF Char
  <2>2. PICK m \in 0..MaxLen : text \in [1..m -> Digits \cup {Blank, Nul, Other}]
    BY <1>3 DEF Numbers!Init, Numbers!Texts, Numbers!BoundedSeq, Numbers!SeqOf
  <2>3. m \in Nat
    BY <2>2
  <2>4. text \in Seq(Char)
    BY <2>1, <2>2, <2>3
  <2>5. val = Numbers!Unread
    BY <1>3 DEF Numbers!Init
  <2>6. QED
    BY <2>4, <2>5 DEF TextInv
<1>4. QED
  BY <1>1, <1>2, <1>3 DEF MCInit

LEMMA TextKept == TextInv /\ [MCNext]_mcVars => TextInv'
<1>1. SUFFICES ASSUME TextInv, [MCNext]_mcVars PROVE TextInv'
  OBVIOUS
<1>2. CASE Numbers!Next
  BY <1>1, <1>2 DEF TextInv, Numbers!Next
<1>3. CASE UNCHANGED textVars
  BY <1>1, <1>3 DEF TextInv, textVars
<1>4. QED
  BY <1>1, <1>2, <1>3 DEF MCNext, InMailbox, InSingle, InNumbers, mcVars

\* parse_uint32 takes the number any text begins with, however long, modulo 2^32,
\* and 0 when it begins with none.
THEOREM LeadingNumberRead == MCSpec => []ReadsLeadingNumber
<1>1. TextInv => ReadsLeadingNumber
  <2>1. SUFFICES ASSUME TextInv, val # Numbers!Unread PROVE val = Numbers!LeadingNumber % Word
    BY DEF ReadsLeadingNumber, Numbers!ReadsLeadingNumber
  <2>2. text \in Seq(Char) /\ val = Numbers!ParseUint32(text)
    BY <2>1 DEF TextInv
  <2>3. Reads(text, val)
    BY <2>2, ParseReads
  <2>4. QED
    BY <2>2, <2>3, LeadingNumberIs
<1>2. QED
  BY <1>1, TextInit, TextKept, PTL DEF MCSpec

-----------------------------------------------------------------------------
(* Both *)

LEMMA MailboxKept ==
    ASSUME Together
    PROVE  IInv /\ [MCNext]_mcVars => IInv'
<1>1. [MCNext]_mcVars => [Next]_vars
  BY DEF MCNext, InMailbox, InSingle, InNumbers, mcVars
<1>2. QED
  BY <1>1, NextKeepsIInv

\* All variables of the two demos keep their types, if the two cores are restarted
\* together: neither blinks more than was asked for.
THEOREM TypesCorrect ==
    ASSUME Together
    PROVE  MCSpec => []TypesOK
<1>1. MCInit => IInv /\ SingleInv
  BY InitIInv, SingleStart DEF MCInit
<1>2. IInv /\ SingleInv => TypesOK
  BY DEF IInv, Types, SingleInv, TypesOK
<1>3. QED
  BY <1>1, <1>2, MailboxKept, SingleKept, PTL DEF MCSpec
=============================================================================
