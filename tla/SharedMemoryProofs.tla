------------------------- MODULE SharedMemoryProofs -------------------------
(***************************************************************************)
(* The memory Linux and the R5 cores share.  On ARM, with any number of    *)
(* processes and of calls: units of the semaphore are lost or taken twice  *)
(* only by a store over another store, and the value never becomes         *)
(* negative, not even then.  For memories, strings and copies of any       *)
(* length: lengths, copies and the size of mappings are exact.             *)
(***************************************************************************)
EXTENDS MCSharedMemory, FiniteSetTheorems, WellFoundedInduction, TLAPS

(* The semaphore.                                                          *)

\* Whoever is about to store has compared with the value there is, unless
\* another store has come between.
ComparedWithValue == \A p \in Procs : pc[p] = "store" => p \in late \/ old[p] = value

\* A process past its test that does not post has read a positive value.
TestedPositive ==
    \A p \in Procs : pc[p] \in {"swap", "store"} => op[p] = "post" \/ old[p] > 0

IInv == TypeOK /\ UnitsAccounted /\ ComparedWithValue /\ TestedPositive

\* sem_init establishes it.
LEMMA InitIInv == Init => IInv
  <1> SUFFICES ASSUME Init PROVE IInv
    OBVIOUS
  <1>1. TypeOK
    <2>1. /\ value \in Nat /\ calls \in 0..MaxCalls /\ given \in Nat /\ taken \in Nat
          /\ old \in [Procs -> Nat]
      BY ConstantsAssumption, SMT DEF Init
    <2>2. /\ pc \in [Procs -> {"idle", "read", "swap", "store"}]
          /\ op \in [Procs -> {"wait", "post", "trywait"}]
          /\ result \in [Procs -> {"none", "done", "failed"}]
      BY SMT DEF Init
    <2>3. /\ late \subseteq Procs /\ raced \in BOOLEAN
      BY Zenon DEF Init
    <2> QED
      BY <2>1, <2>2, <2>3 DEF TypeOK
  <1>2. UnitsAccounted
    BY ConstantsAssumption, SMT DEF Init, UnitsAccounted
  <1>3. ComparedWithValue /\ TestedPositive
    BY SMT DEF Init, ComparedWithValue, TestedPositive
  <1> QED
    BY <1>1, <1>2, <1>3 DEF IInv

\* Every access keeps it.
LEMMA StepIInv == ASSUME Arm, IInv, [Next]_vars PROVE IInv'
  <1> USE DEF IInv, TypeOK, UnitsAccounted, ComparedWithValue, TestedPositive
  <1>1. ASSUME NEW p \in Procs, NEW o \in {"wait", "post", "trywait"}, Call(p, o)
        PROVE  IInv'
    BY <1>1, ConstantsAssumption, SMT DEF Call, histVars
  <1>2. ASSUME NEW p \in Procs, Read(p)
        PROVE  IInv'
    BY <1>2, SMT DEF Read, Goto, Return, histVars
  <1>3. ASSUME NEW p \in Procs, Swap(p)
        PROVE  IInv'
    BY <1>3, SMT DEF Swap, Refused, Goto, Return, histVars
  <1>4. ASSUME NEW p \in Procs, Store(p)
        PROVE  IInv'
    <2>1. New(p) \in Nat
      BY <1>4, SMT DEF Store, New
    <2>2. TypeOK'
      BY <1>4, <2>1, SMT DEF Store, Succeeds, Return
    <2>3. UnitsAccounted'
      <3>1. CASE raced'
        BY <3>1
      <3>2. CASE ~raced'
        <4>1. ~raced /\ p \notin late
          BY <1>4, <3>2, Zenon DEF Store
        <4>2. old[p] = value /\ value = (Initial + given) - taken
          BY <1>4, <4>1 DEF Store
        <4> QED
          BY <1>4, <4>2, ConstantsAssumption, SMT DEF Store, Succeeds, New
      <3> QED
        BY <3>1, <3>2
    <2>4. ComparedWithValue'
      BY <1>4, SMT DEF Store, Succeeds, Return
    <2>5. TestedPositive'
      BY <1>4, SMT DEF Store, Succeeds, Return
    <2> QED
      BY <2>2, <2>3, <2>4, <2>5
  <1>5. CASE UNCHANGED vars
    BY <1>5, SMT DEF vars, histVars
  <1> QED
    BY <1>1, <1>2, <1>3, <1>4, <1>5 DEF Next, Step

\* A unit is lost or taken twice only where one store has overwritten another
\* (bbai64_atomic.h: the load, the test and the store of the compare-exchange).
THEOREM SemaphoreAccounts == ASSUME Arm PROVE Spec => []UnitsAccounted
  <1>1. IInv /\ [Next]_vars => IInv'
    BY StepIInv
  <1>2. IInv => UnitsAccounted
    BY DEF IInv
  <1> QED
    BY InitIInv, <1>1, <1>2, PTL DEF Spec

\* The value stays a natural number through every race.
THEOREM SemaphoreTypeOK == ASSUME Arm PROVE Spec => []TypeOK
  <1>1. IInv /\ [Next]_vars => IInv'
    BY StepIInv
  <1>2. IInv => TypeOK
    BY DEF IInv
  <1> QED
    BY InitIInv, <1>1, <1>2, PTL DEF Spec

-----------------------------------------------------------------------------
(* Induction.  The provers cannot instantiate the library's induction theorems, *)
(* so a set of numbers takes the place of the statement.                         *)

\* A set of numbers has a least element.
LEMMA LeastNumber ==
    ASSUME NEW T \in SUBSET Nat, T # {}
    PROVE  \E m \in T : \A k \in T : m <= k
<1> DEFINE F == {1..k : k \in T}
<1>1. F \subseteq FiniteSubsetsOf(Nat) /\ F # {}
  <2>1. \A k \in T : IsFiniteSet(1..k)
    BY FS_Interval
  <2>2. \A k \in T : 1..k \subseteq Nat
    OBVIOUS
  <2>3. QED
    BY <2>1, <2>2 DEF FiniteSubsetsOf
<1>2. PICK s \in F : \A t \in F : ~(<<t, s>> \in StrictSubsetOrdering(Nat))
  <2> HIDE DEF F
  <2> QED
    BY <1>1, FS_StrictSubsetOrderingWellFounded, WFMin
<1>3. PICK m \in T : s = 1..m
  OBVIOUS
<1>4. ASSUME NEW k \in T, k < m PROVE FALSE
  <2>1. k \in Nat /\ m \in Nat
    OBVIOUS
  <2>2. 1..k \subseteq 1..m /\ 1..k # 1..m /\ 1..m \in SUBSET Nat /\ 1..k \in SUBSET Nat
    <3>1. m \in 1..m /\ m \notin 1..k
      BY <2>1, <1>4
    <3>2. QED
      BY <2>1, <1>4, <3>1
  <2>3. <<1..k, 1..m>> \in StrictSubsetOrdering(Nat)
    BY <2>2 DEF StrictSubsetOrdering
  <2>4. QED
    BY <1>2, <1>3, <2>3
<1>5. QED
  <2>1. \A k \in T : ~(k < m) /\ k \in Nat /\ m \in Nat
    BY <1>4
  <2>2. QED
    BY <2>1

\* A set of numbers that has 0 and, with each number, the next one, up to n.
LEMMA UpTo ==
    ASSUME NEW n \in Nat, NEW T, 0 \in T, \A i \in 0..n : i \in T /\ i < n => i + 1 \in T
    PROVE  0..n \subseteq T
<1> SUFFICES ASSUME ~(0..n \subseteq T) PROVE FALSE
  OBVIOUS
<1> DEFINE F == {i \in 0..n : i \notin T}
<1>1. F \in SUBSET Nat /\ F # {}
  OBVIOUS
<1>2. PICK m \in F : \A k \in F : m <= k
  <2> HIDE DEF F
  <2> QED  BY <1>1, LeastNumber
<1>3. m # 0 /\ m \in 0..n /\ m \notin T
  OBVIOUS
<1>4. m - 1 \in 0..n /\ m - 1 < n /\ (m - 1) + 1 = m
  BY <1>3
<1>5. m - 1 \in T
  BY <1>2, <1>4
<1>6. QED
  BY <1>3, <1>4, <1>5

\* What a recursive definition up to n asks for, given the first value and what
\* each step makes of a value.
Recurs(g, n, V, a, step) ==
    g \in [0..n -> V] /\ g[0] = a /\ \A i \in 1..n : g[i] = step[i][g[i - 1]]

\* There is such a function.
LEMMA Recursion ==
    ASSUME NEW n \in Nat, NEW V, NEW a \in V, NEW step \in [1..n -> [V -> V]]
    PROVE  \E g : Recurs(g, n, V, a, step)
<1> DEFINE Is(g, m) == g \in [0..m -> V] /\ g[0] = a
                       /\ \A i \in 1..m : g[i] = step[i][g[i - 1]]
           T == {m \in Nat : \E g : Is(g, m)}
<1>1. 0 \in T
  <2> DEFINE g == [i \in 0..0 |-> a]
  <2>1. Is(g, 0)
    OBVIOUS
  <2>2. QED
    BY <2>1
<1>2. ASSUME NEW m \in 0..n, m \in T, m < n PROVE m + 1 \in T
  <2>1. PICK g : Is(g, m)
    BY <1>2
  <2> DEFINE h == [i \in 0..m + 1 |-> IF i = m + 1 THEN step[m + 1][g[m]] ELSE g[i]]
  <2>2. g[m] \in V /\ m + 1 \in 1..n
    BY <1>2, <2>1
  <2>3. step[m + 1][g[m]] \in V
    BY <2>2
  <2>4. h \in [0..m + 1 -> V] /\ h[0] = a
    BY <2>1, <2>3
  <2>5. ASSUME NEW i \in 1..m + 1 PROVE h[i] = step[i][h[i - 1]]
    <3>1. CASE i = m + 1
      <4>1. h[i] = step[m + 1][g[m]] /\ i - 1 = m /\ h[m] = g[m]
        BY <3>1
      <4>2. QED  BY <3>1, <4>1
    <3>2. CASE i # m + 1
      <4>1. i \in 1..m /\ h[i] = g[i] /\ h[i - 1] = g[i - 1]
        BY <3>2
      <4>2. QED  BY <2>1, <4>1
    <3>3. QED
      BY <3>1, <3>2
  <2> HIDE DEF h
  <2>6. Is(h, m + 1) /\ m + 1 \in Nat
    BY <2>4, <2>5
  <2>7. QED
    BY <2>6
<1>3. 0..n \subseteq T
  <2> HIDE DEF T
  <2> QED  BY <1>1, <1>2, UpTo
<1>4. n \in T
  <2> HIDE DEF T
  <2> QED  BY <1>3
<1>5. QED
  BY <1>4 DEF Recurs

\* Division with a remainder.
LEMMA Divided ==
    ASSUME NEW w \in Nat \ {0}, NEW x \in Int
    PROVE  \E p \in Int, e \in 0..w - 1 : x = w * p + e /\ e = x % w
<1>1. x \div w \in Int /\ x % w \in 0..w - 1
  OBVIOUS
<1>2. x = w * (x \div w) + (x % w)
  OBVIOUS
<1>3. QED
  BY <1>1, <1>2

\* The remainder is the only one.
LEMMA RemainderUnique ==
    ASSUME NEW w \in Nat \ {0}, NEW q \in Int, NEW d \in 0..w - 1
    PROVE  (w * q + d) % w = d
<1>1. PICK x \in Int : x = w * q + d
  OBVIOUS
<1>2. PICK p \in Int, e \in 0..w - 1 : x = w * p + e /\ e = x % w
  BY <1>1, Divided
<1>3. ~(p < q)
  <2>1. SUFFICES ASSUME p < q PROVE FALSE
    OBVIOUS
  <2>2. PICK k \in Nat : q = p + 1 + k
    <3>1. q - p - 1 \in Nat
      BY <2>1
    <3>2. QED
      BY <3>1
  <2>3. w * q = w * p + w + w * k
    BY <2>2
  <2>4. w * k \in Nat
    OBVIOUS
  <2>5. QED
    BY <1>1, <1>2, <2>3, <2>4
<1>4. ~(q < p)
  <2>1. SUFFICES ASSUME q < p PROVE FALSE
    OBVIOUS
  <2>2. PICK k \in Nat : p = q + 1 + k
    <3>1. p - q - 1 \in Nat
      BY <2>1
    <3>2. QED
      BY <3>1
  <2>3. w * p = w * q + w + w * k
    BY <2>2
  <2>4. w * k \in Nat
    OBVIOUS
  <2>5. QED
    BY <1>1, <1>2, <2>3, <2>4
<1>5. w * p = w * q
  <2>1. p = q
    BY <1>3, <1>4
  <2>2. QED
    BY <2>1
<1>6. w * p \in Int /\ w * q \in Int
  OBVIOUS
<1>7. e = d
  BY <1>1, <1>2, <1>5, <1>6
<1>8. QED
  BY <1>1, <1>2, <1>7

-----------------------------------------------------------------------------
(* The words of the memory.                                                *)

Memory == [Words!Addresses -> Chars]

\* Two bytes of a word.
LEMMA WordOf ==
    ASSUME NEW a \in Words!Addresses, a % 2 = 0
    PROVE  a + 1 \in Words!Addresses
BY WordsAssumption DEF Words!Addresses

\* The least element of a set is what Min takes.
LEMMA MinIsLeast ==
    ASSUME NEW T \in SUBSET Nat, T # {}
    PROVE  Words!Min(T) \in T /\ \A k \in T : Words!Min(T) <= k
BY LeastNumber DEF Words!Min

\* Every address is in a word that begins at an even one.
LEMMA WordBefore ==
    ASSUME NEW s \in Nat, s % 2 = 0, NEW a \in s..Bytes - 1
    PROVE  \E w \in s..Bytes - 1 : w % 2 = 0 /\ (a = w \/ a = w + 1)
<1>1. CASE a % 2 = 0
  BY <1>1
<1>2. CASE a % 2 = 1
  <2>1. a - 1 \in s..Bytes - 1 /\ (a - 1) % 2 = 0 /\ a = (a - 1) + 1
    BY <1>2, WordsAssumption
  <2>2. QED
    BY <2>1
<1>3. QED
  BY <1>1, <1>2, WordsAssumption

\* strlen_aligned16, from an even address, finds the first NUL.
LEMMA LengthIsFirstNul ==
    ASSUME mem \in Memory, NEW s \in Nat, s % 2 = 0,
           \E a \in s..Bytes - 1 : mem[a] = 0
    PROVE  LET n == Words!StrlenAligned16(s)
           IN /\ n \in Words!Addresses /\ s + n \in Words!Addresses
              /\ mem[s + n] = 0
              /\ \A a \in s..s + n - 1 : mem[a] # 0
<1> DEFINE words == {a \in s..Bytes - 1 : a % 2 = 0 /\ 0 \in {mem[a], mem[a + 1]}}
           w == Words!Min(words)
           n == Words!StrlenAligned16(s)
<1>1. words # {} /\ words \in SUBSET Nat
  <2>1. PICK a \in s..Bytes - 1 : mem[a] = 0
    OBVIOUS
  <2>2. PICK b \in s..Bytes - 1 : b % 2 = 0 /\ (a = b \/ a = b + 1)
    BY WordBefore
  <2>3. b \in words
    BY <2>1, <2>2
  <2>4. QED
    BY <2>3, WordsAssumption
<1>2. w \in words /\ \A k \in words : w <= k
  <2> HIDE DEF words
  <2> QED  BY <1>1, MinIsLeast
<1>3. n = Words!ZeroIn(w) - s
  <2>1. s % 2 = 0 /\ s + (s % 2) = s
    OBVIOUS
  <2>2. Words!StrlenAligned16(s) =
          Words!ZeroIn(Words!Min({a \in s + (s % 2)..Bytes - 1 :
                                    a % 2 = 0 /\ 0 \in {mem[a], mem[a + 1]}}))
            - (s + (s % 2))
    BY <2>1 DEF Words!StrlenAligned16
  <2>3. QED
    BY <2>1, <2>2
<1>4. PICK z : z = Words!ZeroIn(w)
  OBVIOUS
<1>5. /\ w \in Nat /\ w >= s /\ w <= Bytes - 1 /\ w % 2 = 0
      /\ mem[w] = 0 \/ mem[w + 1] = 0
      /\ z = IF mem[w] = 0 THEN w ELSE w + 1
  <2> HIDE DEF w
  <2>1. w \in s..Bytes - 1 /\ w % 2 = 0 /\ 0 \in {mem[w], mem[w + 1]}
    BY <1>2
  <2>2. z = IF mem[w] = 0 THEN w ELSE w + 1
    BY <1>4 DEF Words!ZeroIn
  <2>3. QED
    BY <2>1, <2>2, WordsAssumption
<1> HIDE DEF w
<1>6. z \in s..Bytes - 1 /\ mem[z] = 0
  BY <1>5, WordsAssumption
<1>7. ASSUME NEW a \in s..z - 1, mem[a] = 0 PROVE FALSE
  <2>1. a \in s..Bytes - 1
    BY <1>6, WordsAssumption
  <2>2. PICK b \in s..Bytes - 1 : b % 2 = 0 /\ (a = b \/ a = b + 1)
    BY <2>1, WordBefore
  <2>3. b \in words
    BY <1>7, <2>2
  <2>4. w <= b
    BY <1>2, <2>3
  <2>5. a \in Nat /\ a <= z - 1
    BY <1>6
  <2>6. a = w
    BY <1>5, <2>2, <2>4, <2>5
  <2>7. QED
    BY <1>5, <1>7, <2>5, <2>6
<1>8. n = z - s
  BY <1>3, <1>4
<1> HIDE DEF n
<1>9. n \in 0..Bytes - 1 /\ s + n = z
  BY <1>6, <1>8, WordsAssumption
<1>10. QED
  <2>1. n \in Words!Addresses /\ s + n \in Words!Addresses /\ mem[s + n] = 0
        /\ \A a \in s..s + n - 1 : mem[a] # 0
    BY <1>6, <1>7, <1>9, WordsAssumption DEF Words!Addresses
  <2>2. QED
    BY <2>1 DEF n

\* What the memory holds when n words have been copied.
Copied(m, n, dest, src) ==
    \A a \in Words!Addresses :
        m[a] = IF dest <= a /\ a < dest + 2 * n THEN mem[src + (a - dest)] ELSE mem[a]

\* One word more, upwards, of regions of which dest does not lie inside the
\* source: the word read has not been written.
LEMMA WordCopied ==
    ASSUME mem \in Memory, NEW m \in Memory, NEW n \in Nat,
           NEW dest \in Nat, NEW src \in Nat,
           dest + 2 * n + 2 <= Bytes, src + 2 * n + 2 <= Bytes,
           ~(src < dest /\ dest < src + 2 * n + 2),
           Copied(m, n, dest, src)
    PROVE  LET m1 == Words!CopyWord(m, dest + 2 * n, src + 2 * n)
           IN m1 \in Memory /\ Copied(m1, n + 1, dest, src)
<1> DEFINE d == dest + 2 * n
           s == src + 2 * n
           m1 == Words!CopyWord(m, d, s)
<1>1. /\ d \in Words!Addresses /\ d + 1 \in Words!Addresses
      /\ s \in Words!Addresses /\ s + 1 \in Words!Addresses
  BY WordsAssumption DEF Words!Addresses
<1>2. m[s] = mem[s] /\ m[s + 1] = mem[s + 1]
  <2>1. ~(dest <= s /\ s < d) /\ ~(dest <= s + 1 /\ s + 1 < d)
    OBVIOUS
  <2> HIDE DEF d, s
  <2>2. \A a \in Words!Addresses : ~(dest <= a /\ a < d) => m[a] = mem[a]
    BY DEF Copied, d
  <2>3. QED
    BY <1>1, <2>1, <2>2
<1>3. m1 = [m EXCEPT ![d] = mem[s], ![d + 1] = mem[s + 1]]
  <2> HIDE DEF d, s
  <2> QED  BY <1>2 DEF Words!CopyWord
<1>4. m1 \in Memory
  <2> HIDE DEF d, s, m1
  <2>1. mem[s] \in Chars /\ mem[s + 1] \in Chars
    BY <1>1 DEF Memory
  <2>2. QED
    BY <1>3, <2>1 DEF Memory
<1>5. ASSUME NEW a \in Words!Addresses
      PROVE  m1[a] = IF dest <= a /\ a < dest + 2 * (n + 1)
                     THEN mem[src + (a - dest)] ELSE mem[a]
  <2>1. a \in Int
    BY WordsAssumption DEF Words!Addresses
  <2>2. CASE a = d
    <3>1. src + (a - dest) = s /\ dest <= a /\ a < dest + 2 * (n + 1)
      BY <2>2
    <3>2. m1[a] = mem[s]
      <4> HIDE DEF d, s, m1
      <4>1. d # d + 1
        BY <1>1, WordsAssumption DEF Words!Addresses
      <4>2. QED
        BY <1>1, <1>3, <2>2, <4>1 DEF Memory
    <3>3. QED
      BY <3>1, <3>2
  <2>3. CASE a = d + 1
    <3>1. src + (a - dest) = s + 1 /\ dest <= a /\ a < dest + 2 * (n + 1)
      BY <2>3
    <3>2. m1[a] = mem[s + 1]
      <4> HIDE DEF d, s, m1
      <4>1. QED
        BY <1>1, <1>3, <2>3 DEF Memory
    <3>3. QED
      BY <3>1, <3>2
  <2>4. CASE a # d /\ a # d + 1
    <3>1. m1[a] = m[a]
      <4> HIDE DEF d, s, m1
      <4>1. QED
        BY <1>1, <1>3, <2>4 DEF Memory
    <3>2. (dest <= a /\ a < dest + 2 * (n + 1)) <=> (dest <= a /\ a < dest + 2 * n)
      BY <2>1, <2>4
    <3>3. QED
      BY <3>1, <3>2 DEF Copied
  <2>5. QED
    BY <2>2, <2>3, <2>4
<1>6. Copied(m1, n + 1, dest, src)
  <2> HIDE DEF m1
  <2> QED  BY <1>5 DEF Copied
<1>7. QED
  BY <1>4, <1>6

LEMMA CopyWordType ==
    ASSUME NEW m \in Memory, NEW d \in Words!Addresses, NEW s \in Words!Addresses,
           d + 1 \in Words!Addresses, s + 1 \in Words!Addresses
    PROVE  Words!CopyWord(m, d, s) \in Memory
<1>1. m[s] \in Chars /\ m[s + 1] \in Chars
  BY DEF Memory
<1>2. QED
  BY <1>1 DEF Words!CopyWord, Memory

\* The contents of the memory after each word of the loop of memcpy_aligned16.
LEMMA CopyStates ==
    ASSUME mem \in Memory, NEW dest \in Nat, NEW src \in Nat, NEW size \in Nat,
           size % 2 = 0, dest + size <= Bytes, src + size <= Bytes
    PROVE  \E g \in [0..size \div 2 -> Memory] :
              /\ g[0] = mem
              /\ \A i \in 1..size \div 2 :
                    g[i] = Words!CopyWord(g[i - 1], dest + 2 * (i - 1), src + 2 * (i - 1))
              /\ Words!CopyWords(dest, src, size) = g[size \div 2]
<1> DEFINE n == size \div 2
           Turn(g, i) ==
             IF i = 0 THEN mem
             ELSE Words!CopyWord(g[i - 1], dest + (2 * (i - 1)), src + (2 * (i - 1)))
           step == [i \in 1..n |-> [m \in Memory |->
                      Words!CopyWord(m, dest + 2 * (i - 1), src + 2 * (i - 1))]]
           v == CHOOSE g : g = [i \in 0..n |-> Turn(g, i)]
<1>1. n \in Nat /\ 2 * n = size
  OBVIOUS
<1>2. step \in [1..n -> [Memory -> Memory]]
  <2>1. ASSUME NEW i \in 1..n, NEW m \in Memory
        PROVE  Words!CopyWord(m, dest + 2 * (i - 1), src + 2 * (i - 1)) \in Memory
    <3> DEFINE d == dest + 2 * (i - 1)
               s == src + 2 * (i - 1)
    <3>1. /\ d \in Words!Addresses /\ d + 1 \in Words!Addresses
          /\ s \in Words!Addresses /\ s + 1 \in Words!Addresses
      <4> HIDE DEF n
      <4>1. 2 * i <= size /\ i \in Nat /\ i >= 1
        BY <1>1
      <4>2. QED
        BY <4>1, WordsAssumption DEF Words!Addresses
    <3> HIDE DEF d, s
    <3>2. Words!CopyWord(m, d, s) \in Memory
      BY <3>1, CopyWordType
    <3>3. QED
      BY <3>2 DEF d, s
  <2> HIDE DEF n
  <2>2. QED
    BY <2>1
<1>3. PICK g : g \in [0..n -> Memory] /\ g[0] = mem
               /\ \A i \in 1..n : g[i] = step[i][g[i - 1]]
  <2> HIDE DEF n, step
  <2>1. PICK g : Recurs(g, n, Memory, mem, step)
    BY <1>1, <1>2, Recursion
  <2>2. QED
    BY <2>1 DEF Recurs
<1>4. \A i \in 1..n : i \in 0..n /\ i - 1 \in 0..n /\ i # 0
  BY <1>1
<1>5. \A i \in 1..n : g[i] = Words!CopyWord(g[i - 1], dest + 2 * (i - 1), src + 2 * (i - 1))
  <2> HIDE DEF n
  <2> QED  BY <1>3, <1>4
<1>6. g = [i \in 0..n |-> Turn(g, i)]
  <2>1. \A i \in 0..n : g[i] = Turn(g, i)
    <3>1. \A i \in 0..n : i = 0 \/ i \in 1..n
      BY <1>1
    <3>2. QED
      BY <1>3, <1>5, <3>1
  <2> HIDE DEF Turn, n
  <2>2. QED
    BY <1>3, <2>1
<1>7. v = [i \in 0..n |-> Turn(v, i)]
  <2> HIDE DEF Turn
  <2> QED  BY <1>6
<1>8. Words!CopyWords(dest, src, size) = v[n]
  BY DEF Words!CopyWords
<1> HIDE DEF v, n
<1>9. 0..n \subseteq {i \in 0..n : v[i] = g[i]}
  <2> DEFINE U == {i \in 0..n : v[i] = g[i]}
  <2>1. 0 \in U
    <3>1. 0 \in 0..n
      BY <1>1
    <3>2. v[0] = mem
      BY <1>7, <3>1
    <3>3. QED
      BY <1>3, <3>1, <3>2
  <2>2. ASSUME NEW i \in 0..n, i \in U, i < n PROVE i + 1 \in U
    <3>1. i + 1 \in 0..n /\ i + 1 \in 1..n /\ i + 1 # 0 /\ (i + 1) - 1 = i
      BY <1>1, <2>2
    <3>2. v[i + 1] = Turn(v, i + 1)
      <4> HIDE DEF Turn
      <4> QED  BY <1>7, <3>1
    <3>3. g[i + 1] = Turn(g, i + 1)
      <4> HIDE DEF Turn
      <4> QED  BY <1>6, <3>1
    <3>4. Turn(v, i + 1) = Turn(g, i + 1)
      BY <2>2, <3>1
    <3>5. QED
      BY <3>1, <3>2, <3>3, <3>4
  <2> HIDE DEF U
  <2>3. 0..n \subseteq U
    BY <1>1, <2>1, <2>2, UpTo
  <2>4. QED
    BY <2>3 DEF U
<1>10. v[n] = g[n]
  BY <1>1, <1>9
<1>11. QED
  BY <1>3, <1>5, <1>8, <1>10 DEF n

\* memcpy_aligned16 writes what it is asked to write and nothing else.
LEMMA CopyIsExact ==
    ASSUME mem \in Memory, NEW dest \in Nat, NEW src \in Nat, NEW size \in Nat,
           size % 2 = 0, dest + size <= Bytes, src + size <= Bytes
    PROVE  LET m == Words!CopyWords(dest, src, size)
           IN /\ m \in Memory
              /\ ~(src < dest /\ dest < src + size) => Copied(m, size \div 2, dest, src)
<1> DEFINE m == Words!CopyWords(dest, src, size)
<1>1. PICK n : n = size \div 2
  OBVIOUS
<1>2. n \in Nat /\ 2 * n = size
  BY <1>1
<1>3. PICK g \in [0..n -> Memory] :
         /\ g[0] = mem
         /\ \A i \in 1..n :
               g[i] = Words!CopyWord(g[i - 1], dest + 2 * (i - 1), src + 2 * (i - 1))
         /\ m = g[n]
  <2> HIDE DEF m
  <2>1. \E g \in [0..size \div 2 -> Memory] :
              /\ g[0] = mem
              /\ \A i \in 1..size \div 2 :
                    g[i] = Words!CopyWord(g[i - 1], dest + 2 * (i - 1), src + 2 * (i - 1))
              /\ m = g[size \div 2]
    BY CopyStates DEF m
  <2>2. QED
    BY <1>1, <2>1
<1> HIDE DEF m
<1>4. m \in Memory
  BY <1>2, <1>3
<1>5. ASSUME ~(src < dest /\ dest < src + size) PROVE Copied(m, n, dest, src)
  <2> DEFINE U == {i \in 0..n : Copied(g[i], i, dest, src)}
  <2>1. 0 \in U
    <3>1. Copied(mem, 0, dest, src)
      <4>1. \A a \in Words!Addresses : ~(dest <= a /\ a < dest + 2 * 0)
        BY WordsAssumption DEF Words!Addresses
      <4>2. QED
        BY <4>1 DEF Copied
    <3>2. 0 \in 0..n
      BY <1>2
    <3>3. QED
      BY <1>3, <3>1, <3>2
  <2>2. ASSUME NEW i \in 0..n, i \in U, i < n PROVE i + 1 \in U
    <3>1. i + 1 \in 1..n /\ i + 1 \in 0..n /\ (i + 1) - 1 = i /\ i \in Nat
      BY <1>2, <2>2
    <3>2. g[i + 1] = Words!CopyWord(g[i], dest + 2 * i, src + 2 * i)
      BY <1>3, <3>1
    <3>3. /\ dest + 2 * i + 2 <= Bytes /\ src + 2 * i + 2 <= Bytes
          /\ ~(src < dest /\ dest < src + 2 * i + 2)
      <4>1. 2 * i + 2 <= size
        BY <1>2, <2>2, <3>1
      <4>2. QED
        BY <1>5, <4>1, <3>1, WordsAssumption
    <3>4. g[i] \in Memory /\ Copied(g[i], i, dest, src)
      BY <1>3, <2>2
    <3>5. Copied(g[i + 1], i + 1, dest, src)
      <4> HIDE DEF U
      <4> QED  BY <3>1, <3>2, <3>3, <3>4, WordCopied
    <3>6. QED
      BY <3>1, <3>5
  <2> HIDE DEF U
  <2>3. 0..n \subseteq U
    BY <1>2, <2>1, <2>2, UpTo
  <2>4. n \in U
    BY <1>2, <2>3
  <2>5. QED
    BY <1>3, <2>4 DEF U
<1>6. QED
  BY <1>1, <1>4, <1>5 DEF m

\* Whole pages, and no fewer than are needed.
LEMMA PagesAreLeast ==
    ASSUME NEW size \in Nat
    PROVE  LET full == Words!FullPages(size)
           IN /\ full \in Nat \ {0} /\ full % Page = 0 /\ full >= size /\ full >= Page
              /\ \A n \in 1..MaxSize : n * Page >= size => full <= n * Page
<1> DEFINE full == Words!FullPages(size)
           Fewest(k) == /\ full = Page * k /\ full >= size
                        /\ \A n \in Nat \ {0} : n < k => n * Page < size
<1>1. Page \in Nat \ {0} /\ MaxSize \in Nat
  BY WordsAssumption
<1>2. PICK q \in Int, r \in 0..Page - 1 : size = Page * q + r /\ r = size % Page
  <2>1. size \in Int
    OBVIOUS
  <2>2. QED
    BY <1>1, <2>1, Divided
<1>3. q \in Nat
  <2>1. SUFFICES ASSUME q <= -1 PROVE FALSE
    OBVIOUS
  <2>2. PICK k \in Nat : q = -1 - k
    <3>1. -1 - q \in Nat
      BY <2>1
    <3>2. QED
      BY <3>1
  <2>3. Page * q = -Page - Page * k /\ Page * k \in Nat
    BY <1>1, <2>2
  <2>4. QED
    BY <1>1, <1>2, <2>3
<1>4. \E k \in Nat \ {0} : Fewest(k)
  <2>1. CASE size < Page
    <3>1. full = Page /\ Page = Page * 1 /\ full >= size
      BY <1>1, <2>1 DEF Words!FullPages
    <3>2. \A n \in Nat \ {0} : ~(n < 1)
      OBVIOUS
    <3> HIDE DEF full
    <3>3. Fewest(1)
      BY <3>1, <3>2
    <3>4. QED
      BY <3>3
  <2>2. ASSUME ~(size < Page), r # 0 PROVE \E k \in Nat \ {0} : Fewest(k)
    <3>1. full = size + Page - r
      BY <1>2, <2>2 DEF Words!FullPages
    <3>2. Page * (q + 1) = Page * q + Page
      BY <1>1
    <3>3. full = Page * (q + 1) /\ full >= size /\ q + 1 \in Nat \ {0}
      BY <1>1, <1>2, <1>3, <2>2, <3>1, <3>2
    <3>4. ASSUME NEW n \in Nat \ {0}, n < q + 1 PROVE n * Page < size
      <4>1. PICK k \in Nat : q = n + k
        <5>1. q - n \in Nat
          BY <1>3, <3>4
        <5>2. QED
          BY <5>1
      <4>2. Page * q = n * Page + k * Page /\ k * Page \in Nat /\ n * Page \in Nat
        BY <1>1, <4>1
      <4>3. QED
        BY <1>1, <1>2, <2>2, <4>2
    <3> HIDE DEF full
    <3>5. Fewest(q + 1)
      BY <3>3, <3>4
    <3>6. QED
      BY <3>3, <3>5
  <2>3. ASSUME ~(size < Page), r = 0 PROVE \E k \in Nat \ {0} : Fewest(k)
    <3>1. full = size /\ size = Page * q
      <4>1. full = size
        BY <1>2, <2>3 DEF Words!FullPages
      <4>2. PICK x \in Int : x = Page * q
        BY <1>1
      <4>3. size = x + r
        BY <1>2, <4>2
      <4>4. size = x
        BY <2>3, <4>2, <4>3
      <4>5. QED
        BY <4>1, <4>2, <4>4
    <3>2. q # 0
      <4>1. SUFFICES ASSUME q = 0 PROVE FALSE
        OBVIOUS
      <4>2. Page * q = 0
        BY <1>1, <4>1
      <4>3. QED
        BY <1>1, <2>3, <3>1, <4>2
    <3>3. ASSUME NEW n \in Nat \ {0}, n < q PROVE n * Page < size
      <4>1. PICK k \in Nat : q = n + 1 + k
        <5>1. q - n - 1 \in Nat
          BY <1>3, <3>3
        <5>2. QED
          BY <5>1
      <4>2. Page * q = n * Page + Page + k * Page /\ k * Page \in Nat /\ n * Page \in Nat
        BY <1>1, <4>1
      <4>3. QED
        BY <1>1, <3>1, <4>2
    <3> HIDE DEF full
    <3>4. full >= size
      BY <3>1
    <3>5. Fewest(q)
      BY <3>1, <3>3, <3>4
    <3>6. QED
      BY <1>3, <3>2, <3>5
  <2>4. QED
    BY <2>1, <2>2, <2>3
<1>5. PICK k \in Nat \ {0} :
         /\ full = Page * k /\ full >= size
         /\ \A n \in Nat \ {0} : n < k => n * Page < size
  <2> HIDE DEF full
  <2> QED  BY <1>4
<1> HIDE DEF full, Fewest
<1>6. full \in Nat \ {0} /\ full >= Page
  <2>1. PICK j \in Nat : k = j + 1
    <3>1. k - 1 \in Nat
      OBVIOUS
    <3>2. QED
      BY <3>1
  <2>2. Page * k = Page * j + Page /\ Page * j \in Nat
    BY <1>1, <2>1
  <2>3. QED
    BY <1>1, <1>5, <2>2
<1>7. full % Page = 0
  <2>1. (Page * k + 0) % Page = 0
    <3>1. 0 \in 0..Page - 1 /\ k \in Int
      BY <1>1
    <3>2. QED
      BY <1>1, <3>1, RemainderUnique
  <2>2. Page * k + 0 = full
    BY <1>1, <1>5, <1>6
  <2>3. QED
    BY <2>1, <2>2
<1>8. ASSUME NEW n \in 1..MaxSize, n * Page >= size PROVE full <= n * Page
  <2>1. n \in Nat \ {0} /\ n * Page \in Nat
    BY <1>1
  <2>2. ~(n < k)
    BY <1>5, <1>8, <2>1
  <2>3. PICK j \in Nat : n = k + j
    <3>1. n - k \in Nat
      BY <2>1, <2>2
    <3>2. QED
      BY <3>1
  <2>4. n * Page = Page * k + j * Page /\ j * Page \in Nat /\ Page * k \in Nat
    BY <1>1, <2>3
  <2>5. QED
    BY <1>5, <2>4
<1>9. QED
  BY <1>5, <1>6, <1>7, <1>8 DEF full

-----------------------------------------------------------------------------
(* The calls.                                                              *)

CallsInv == Words!TypeOK /\ Words!LengthFound /\ Words!RoundsUp

LEMMA CallsInit == Words!Init => CallsInv
<1> SUFFICES ASSUME Words!Init PROVE CallsInv
  OBVIOUS
<1>1. mem \in Memory /\ last.call = "none"
  BY DEF Words!Init, Memory
<1>2. QED
  BY <1>1 DEF CallsInv, Words!TypeOK, Words!LengthFound, Words!RoundsUp, Memory

LEMMA StrlenKeeps ==
    ASSUME CallsInv, NEW s \in Starts, Words!Strlen(s)
    PROVE  CallsInv' /\ Words!ReturnsExact
<1>1. mem \in Memory
  BY DEF CallsInv, Words!TypeOK, Memory
<1>2. s \in Nat /\ s % 2 = 0 /\ \E a \in s..Bytes - 1 : mem[a] = 0
  BY WordsAssumption DEF Words!Strlen
<1>3. PICK n : n = Words!StrlenAligned16(s)
  OBVIOUS
<1>4. /\ n \in Words!Addresses /\ mem[s + n] = 0
      /\ \A a \in s..s + n - 1 : mem[a] # 0
  BY <1>1, <1>2, <1>3, LengthIsFirstNul
<1>5. last' = [call |-> "strlen", str |-> s, ret |-> n] /\ mem' = mem
  BY <1>3 DEF Words!Strlen
<1>6. last'.call = "strlen" /\ last'.str = s /\ last'.ret = n
  BY <1>5
<1>7. Words!TypeOK'
  BY <1>1, <1>4, <1>5, <1>6 DEF Words!TypeOK, Memory, Words!Addresses
<1>8. Words!LengthFound'
  BY <1>4, <1>5, <1>6 DEF Words!LengthFound
<1>9. Words!RoundsUp' /\ Words!ReturnsExact
  BY <1>6 DEF Words!RoundsUp, Words!ReturnsExact
<1>10. QED
  BY <1>7, <1>8, <1>9 DEF CallsInv

LEMMA CopyKeeps ==
    ASSUME CallsInv, NEW dest \in Words!Addresses, NEW src \in Words!Addresses,
           NEW size \in 0..Bytes, Words!Copy(dest, src, size)
    PROVE  CallsInv' /\ Words!ReturnsExact
<1>1. mem \in Memory
  BY DEF CallsInv, Words!TypeOK, Memory
<1>2. dest \in Nat /\ src \in Nat /\ size \in Nat /\ dest + size <= Bytes /\ src + size <= Bytes
  BY WordsAssumption DEF Words!Addresses, Words!Copy
<1>3. PICK refused \in BOOLEAN : refused <=> Words!Refused(dest, src, size)
  OBVIOUS
<1>4. /\ last' = [call |-> "memcpy", dest |-> dest, src |-> src, size |-> size,
                  ret |-> IF refused THEN -1 ELSE 0]
      /\ refused => mem' = mem
      /\ ~refused => mem' = Words!CopyWords(dest, src, size)
  BY <1>3 DEF Words!Copy
<1>5. /\ last'.call = "memcpy" /\ last'.dest = dest /\ last'.src = src
      /\ last'.size = size /\ last'.ret = IF refused THEN -1 ELSE 0
  BY <1>4
<1>6. refused => 1 \in {dest % 2, src % 2, size % 2}
  BY <1>2, <1>3 DEF Words!Refused
<1>7. ~refused => size % 2 = 0
  BY <1>3 DEF Words!Refused
<1>8. ASSUME ~refused
      PROVE  /\ mem' \in Memory
             /\ ~(src < dest /\ dest < src + size) => Copied(mem', size \div 2, dest, src)
  BY <1>1, <1>2, <1>4, <1>7, <1>8, CopyIsExact
<1>9. mem' \in Memory
  BY <1>1, <1>4, <1>8
<1>10. Words!TypeOK'
  BY <1>5, <1>9 DEF Words!TypeOK, Memory, Words!Addresses
<1>11. Words!LengthFound' /\ Words!RoundsUp'
  BY <1>5 DEF Words!LengthFound, Words!RoundsUp
<1>12. Words!ReturnsExact
  <2> DEFINE moved == {a \in Words!Addresses : a >= dest /\ a < dest + size}
  <2>1. \/ src < dest /\ dest < src + size
        \/ /\ ~refused
           /\ \A a \in Words!Addresses :
                mem'[a] = IF a \in moved THEN mem[src + (a - dest)] ELSE mem[a]
        \/ refused /\ mem' = mem /\ 1 \in {dest % 2, src % 2, size % 2}
    <3>1. CASE refused
      BY <1>4, <1>6, <3>1
    <3>2. CASE ~refused /\ ~(src < dest /\ dest < src + size)
      <4>1. Copied(mem', size \div 2, dest, src)
        BY <1>8, <3>2
      <4>2. 2 * (size \div 2) = size
        BY <1>2, <1>7, <3>2
      <4>3. \A a \in Words!Addresses : a \in Int
        BY WordsAssumption DEF Words!Addresses
      <4>4. \A a \in Words!Addresses :
                mem'[a] = IF dest <= a /\ a < dest + size
                          THEN mem[src + (a - dest)] ELSE mem[a]
        BY <4>1, <4>2 DEF Copied
      <4>5. \A a \in Words!Addresses : a \in moved <=> dest <= a /\ a < dest + size
        BY <1>2, <4>3
      <4> HIDE DEF moved
      <4>6. QED
        BY <3>2, <4>4, <4>5
    <3>3. QED
      BY <3>1, <3>2
  <2>2. QED
    BY <1>5, <2>1 DEF Words!ReturnsExact
<1>13. QED
  BY <1>10, <1>11, <1>12 DEF CallsInv

LEMMA PagesKeeps ==
    ASSUME CallsInv, NEW size \in 0..MaxSize, Words!Pages(size)
    PROVE  CallsInv' /\ Words!ReturnsExact
<1>1. size \in Nat
  BY WordsAssumption
<1>2. PICK full : full = Words!FullPages(size)
  OBVIOUS
<1>3. /\ full \in Nat \ {0} /\ full % Page = 0 /\ full >= size /\ full >= Page
      /\ \A n \in 1..MaxSize : n * Page >= size => full <= n * Page
  BY <1>1, <1>2, PagesAreLeast
<1>4. last' = [call |-> "pages", size |-> size, ret |-> full] /\ mem' = mem
  BY <1>2 DEF Words!Pages
<1>5. last'.call = "pages" /\ last'.size = size /\ last'.ret = full
  BY <1>4
<1>6. Words!TypeOK'
  BY <1>3, <1>4, <1>5 DEF CallsInv, Words!TypeOK, Words!Addresses
<1>7. Words!RoundsUp'
  <2> SUFFICES
        /\ last'.ret % Page = 0 /\ last'.ret >= last'.size /\ last'.ret >= Page
        /\ \A n \in 1..MaxSize : n * Page >= last'.size => last'.ret <= n * Page
    BY DEF Words!RoundsUp
  <2> QED
    BY ONLY <1>3, <1>5, Zenon
<1>8. Words!LengthFound' /\ Words!ReturnsExact
  BY <1>5 DEF Words!LengthFound, Words!ReturnsExact
<1>9. QED
  BY <1>6, <1>7, <1>8 DEF CallsInv

\* strlen_aligned16 of a string at an even address, memcpy_aligned16 of any
\* regions that do not overlap with the destination above the source, and
\* full_pages of any size do exactly what they are called for, in memories of
\* any length: every NUL is seen in whichever half of a word it stands, no byte
\* is copied after it has been overwritten, and no page is mapped in vain.
THEOREM CallsAreExact == MCSpec => CallsExact
<1>1. MCInit => CallsInv
  BY CallsInit DEF MCInit
<1>2. CallsInv /\ [MCNext]_mcVars => CallsInv' /\ [Words!ReturnsExact]_(Words!vars)
  <2>1. SUFFICES ASSUME CallsInv, [MCNext]_mcVars
                 PROVE  CallsInv' /\ [Words!ReturnsExact]_(Words!vars)
    OBVIOUS
  <2>2. CASE UNCHANGED copyVars
    BY <2>1, <2>2 DEF copyVars, Words!vars, CallsInv, Words!TypeOK, Words!LengthFound,
       Words!RoundsUp, Words!Addresses
  <2>3. CASE Words!Next
    BY <2>1, <2>3, StrlenKeeps, CopyKeeps, PagesKeeps DEF Words!Next
  <2>4. QED
    BY <2>1, <2>2, <2>3 DEF MCNext, InSemaphore, InWords, mcVars
<1>3. QED
  BY <1>1, <1>2, PTL DEF MCSpec, CallsExact, CallsInv, Words!CopyExact
=============================================================================
