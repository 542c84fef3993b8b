------------------------ MODULE LinuxClientProofs ------------------------
(***************************************************************************)
(* What the Linux client keeps true, for all times, and for any number of  *)
(* handles, devices and descriptors: the list of the rpmsg_char library    *)
(* and the walk along it are sound whatever the process is interrupted in, *)
(* no device outlives the process but those that failed to open, and the   *)
(* client never loses an open endpoint.                                    *)
(***************************************************************************)
EXTENDS MCLinuxClient, TLAPS, SequenceTheorems, FiniteSetTheorems

(* The list of endpoints, by the handles on it. *)

On(h, s) == \E i \in 1..Len(s) : s[i] = h
Once(s) == \A i, j \in 1..Len(s) : s[i] = s[j] => i = j
\* h is on s, not before n
From(n, h, s) == \E i, j \in 1..Len(s) : i <= j /\ s[i] = n /\ s[j] = h
At(h, s) == CHOOSE i \in DOMAIN s : s[i] = h

\* The position of a handle on the list.
LEMMA AtIsThere ==
    ASSUME NEW S, NEW s \in Seq(S), NEW h, On(h, s)
    PROVE  At(h, s) \in 1..Len(s) /\ s[At(h, s)] = h
<1>1. DOMAIN s = 1..Len(s)
  BY LenProperties
<1>2. \E i \in DOMAIN s : s[i] = h
  BY <1>1 DEF On
<1>3. QED
  BY <1>1, <1>2 DEF At

\* _list_add: a handle that is not on the list joins it.
LEMMA ListAdd ==
    ASSUME NEW S, NEW s \in Seq(S), NEW e \in S, ~On(e, s), Once(s)
    PROVE  /\ Append(s, e) \in Seq(S) /\ Once(Append(s, e))
           /\ \A h : On(h, Append(s, e)) <=> On(h, s) \/ h = e
<1> DEFINE t == Append(s, e)
<1>1. /\ t \in Seq(S) /\ Len(t) = Len(s) + 1 /\ Len(s) \in Nat
      /\ \A i \in 1..Len(s) : t[i] = s[i]
      /\ t[Len(s) + 1] = e
  BY AppendProperties, LenProperties
<1> HIDE DEF t
<1>2. 1..Len(t) = 1..Len(s) \cup {Len(s) + 1}
  BY <1>1
<1>3. Once(t)
  BY <1>1, <1>2 DEF Once, On
<1>4. ASSUME NEW h PROVE On(h, t) <=> On(h, s) \/ h = e
  BY <1>1, <1>2 DEF On
<1>5. QED
  BY <1>1, <1>3, <1>4 DEF t

\* _list_remove takes one handle off and keeps the order of the others.
LEMMA ListRemove ==
    ASSUME NEW S, NEW s \in Seq(S), NEW e, On(e, s), Once(s)
    PROVE  LET t == Lib!RemoveAt(s, At(e, s))
           IN  /\ t \in Seq(S) /\ Once(t)
               /\ \A h : On(h, t) <=> On(h, s) /\ h # e
               /\ \A n, h : From(n, h, s) /\ n # e /\ h # e => From(n, h, t)
<1> DEFINE p == At(e, s)
           a == SubSeq(s, 1, p - 1)
           b == SubSeq(s, p + 1, Len(s))
           t == Lib!RemoveAt(s, p)
<1>1. p \in 1..Len(s) /\ s[p] = e /\ Len(s) \in Nat
  BY AtIsThere, LenProperties
<1> HIDE DEF p
<1>2. /\ \A i \in 1..(p - 1) : s[i] \in S
      /\ \A i \in (p + 1)..Len(s) : s[i] \in S
  BY <1>1, ElementOfSeq
<1>3. /\ a \in Seq(S) /\ Len(a) = p - 1
      /\ \A i \in 1..(p - 1) : a[i] = s[i]
  <2>1. /\ a \in Seq(S) /\ Len(a) = IF 1 <= p - 1 THEN (p - 1) - 1 + 1 ELSE 0
        /\ \A i \in 1..((p - 1) - 1 + 1) : a[i] = s[1 + i - 1]
    BY <1>1, <1>2, SubSeqProperties
  <2>2. QED
    BY <1>1, <2>1
<1>4. /\ b \in Seq(S) /\ Len(b) = Len(s) - p
      /\ \A i \in 1..(Len(s) - p) : b[i] = s[p + i]
  <2>1. /\ b \in Seq(S) /\ Len(b) = IF p + 1 <= Len(s) THEN Len(s) - (p + 1) + 1 ELSE 0
        /\ \A i \in 1..(Len(s) - (p + 1) + 1) : b[i] = s[(p + 1) + i - 1]
    BY <1>1, <1>2, SubSeqProperties
  <2>2. QED
    BY <1>1, <2>1
<1>5. t = a \o b
  BY DEF Lib!RemoveAt
<1> HIDE DEF a, b, t
<1>6. /\ t \in Seq(S) /\ Len(t) = Len(s) - 1
      /\ \A i \in 1..(Len(s) - 1) : t[i] = IF i < p THEN s[i] ELSE s[i + 1]
  <2>1. /\ t \in Seq(S) /\ Len(t) = Len(a) + Len(b)
        /\ \A i \in 1..(Len(a) + Len(b)) : t[i] = IF i <= Len(a) THEN a[i] ELSE b[i - Len(a)]
    BY <1>3, <1>4, <1>5, ConcatProperties
  <2>2. ASSUME NEW i \in 1..(Len(s) - 1) PROVE t[i] = IF i < p THEN s[i] ELSE s[i + 1]
    <3>1. CASE i < p
      <4>1. i \in 1..(p - 1) /\ i <= Len(a) /\ i \in 1..(Len(a) + Len(b))
        BY <1>1, <1>3, <1>4, <3>1
      <4>2. t[i] = a[i] /\ a[i] = s[i]
        BY <1>3, <2>1, <4>1
      <4>3. QED
        BY <3>1, <4>2
    <3>2. CASE ~(i < p)
      <4>1. i - Len(a) \in 1..(Len(s) - p) /\ p + (i - Len(a)) = i + 1
        BY <1>1, <1>3, <3>2
      <4>2. ~(i <= Len(a)) /\ i \in 1..(Len(a) + Len(b))
        BY <1>1, <1>3, <1>4, <3>2
      <4> t[i] = b[i - Len(a)]
        BY <2>1, <4>2
      <4>3. QED
        BY <1>4, <4>1, <3>2
    <3>3. QED
      BY <3>1, <3>2
  <2>3. QED
    BY <1>1, <1>3, <1>4, <2>1, <2>2
<1>7. Once(t)
  BY <1>1, <1>6 DEF Once
<1>8. ASSUME NEW i \in 1..Len(s), i # p
      PROVE  LET k == IF i < p THEN i ELSE i - 1
             IN  k \in 1..Len(t) /\ t[k] = s[i]
  <2>1. CASE i < p
    BY <1>1, <1>6, <1>8, <2>1
  <2>2. CASE ~(i < p)
    <3>1. i - 1 \in 1..(Len(s) - 1) /\ ~(i - 1 < p) /\ (i - 1) + 1 = i
      BY <1>1, <1>8, <2>2
    <3>2. t[i - 1] = s[i]
      BY <1>6, <3>1
    <3>3. QED
      BY <1>6, <2>2, <3>1, <3>2
  <2>3. QED
    BY <2>1, <2>2
<1>9. ASSUME NEW h PROVE On(h, t) <=> On(h, s) /\ h # e
  <2>1. ASSUME On(h, t) PROVE On(h, s) /\ h # e
    <3>1. PICK i \in 1..(Len(s) - 1) : t[i] = h
      BY <1>6, <2>1 DEF On
    <3>2. PICK k \in 1..Len(s) : k # p /\ s[k] = h
      <4>1. CASE i < p
        <5>1. i \in 1..Len(s) /\ i # p /\ s[i] = h
          BY <1>1, <1>6, <3>1, <4>1
        <5>2. QED
          BY <5>1
      <4>2. CASE ~(i < p)
        <5>1. i + 1 \in 1..Len(s) /\ i + 1 # p
          BY <1>1, <3>1, <4>2
        <5> t[i] = s[i + 1]
          BY <1>1, <1>6, <4>2
        <5> s[i + 1] = h
          BY <3>1
        <5>2. QED
          BY <5>1
      <4>3. QED
        BY <4>1, <4>2
    <3>3. h # e
      BY <1>1, <3>2 DEF Once
    <3>4. QED
      BY <3>2, <3>3 DEF On
  <2>2. ASSUME On(h, s), h # e PROVE On(h, t)
    BY <1>1, <1>8, <2>2 DEF On
  <2>3. QED
    BY <2>1, <2>2
<1>10. ASSUME NEW n, NEW h, From(n, h, s), n # e, h # e PROVE From(n, h, t)
  <2>1. PICK i, j \in 1..Len(s) : i <= j /\ s[i] = n /\ s[j] = h
    BY <1>10 DEF From
  <2>2. i # p /\ j # p
    BY <1>1, <1>10, <2>1
  <2> DEFINE x == IF i < p THEN i ELSE i - 1
             y == IF j < p THEN j ELSE j - 1
  <2>3. x \in 1..Len(t) /\ t[x] = n /\ y \in 1..Len(t) /\ t[y] = h
    BY <1>8, <2>1, <2>2
  <2>4. x <= y
    BY <1>1, <2>1, <2>2
  <2> HIDE DEF x, y
  <2>5. QED
    BY <2>3, <2>4 DEF From
<1>11. QED
  BY <1>6, <1>7, <1>9, <1>10 DEF t, p

\* iter->next: what lies after n lies after its successor, or is it.
LEMMA ListWalk ==
    ASSUME NEW S, NEW s \in Seq(S), NEW n, On(n, s), Once(s)
    PROVE  IF At(n, s) = Len(s)
           THEN \A h : From(n, h, s) => h = n
           ELSE LET m == s[At(n, s) + 1]
                IN  /\ m \in S /\ On(m, s) /\ m # n
                    /\ \A h : From(n, h, s) => h = n \/ From(m, h, s)
<1>1. At(n, s) \in 1..Len(s) /\ s[At(n, s)] = n /\ Len(s) \in Nat
  BY AtIsThere, LenProperties
<1>2. ASSUME NEW i \in 1..Len(s), s[i] = n PROVE i = At(n, s)
  BY <1>1, <1>2 DEF Once
<1>3. CASE At(n, s) = Len(s)
  BY <1>1, <1>2, <1>3 DEF From
<1>4. CASE At(n, s) # Len(s)
  <2>1. At(n, s) + 1 \in 1..Len(s)
    BY <1>1, <1>4
  <2>2. s[At(n, s) + 1] \in S
    BY <2>1, ElementOfSeq
  <2>3. s[At(n, s) + 1] # n
    BY <1>1, <1>2, <2>1
  <2>4. ASSUME NEW h, From(n, h, s), h # n PROVE From(s[At(n, s) + 1], h, s)
    <3>1. PICK i, j \in 1..Len(s) : i <= j /\ s[i] = n /\ s[j] = h
      BY <2>4 DEF From
    <3>2. i = At(n, s) /\ j # i
      BY <1>2, <2>4, <3>1
    <3>3. At(n, s) + 1 <= j
      BY <3>1, <3>2
    <3>4. QED
      BY <2>1, <3>1, <3>3 DEF From
  <2>5. QED
    BY <1>4, <2>1, <2>2, <2>3, <2>4 DEF On
<1>5. QED
  BY <1>3, <1>4

\* Nothing lies before the head.
LEMMA ListHead ==
    ASSUME NEW S, NEW s \in Seq(S), s # <<>>
    PROVE  Head(s) \in S /\ On(Head(s), s) /\ \A h : On(h, s) => From(Head(s), h, s)
<1>1. Len(s) \in Nat /\ Len(s) # 0 /\ Head(s) = s[1] /\ Head(s) \in S
  BY HeadTailProperties, EmptySeq, LenProperties
<1>2. 1 \in 1..Len(s)
  BY <1>1
<1>3. ASSUME NEW h, On(h, s) PROVE From(Head(s), h, s)
  <2>1. PICK j \in 1..Len(s) : s[j] = h
    BY <1>3 DEF On
  <2>2. QED
    BY <1>1, <1>2, <2>1 DEF From
<1>4. QED
  BY <1>1, <1>2, <1>3 DEF On

-----------------------------------------------------------------------------
(* The library: an inductive invariant. *)

OpenCalls == {"find", "ctrldev", "create", "open", "local"}
CloseCalls == {"want_close", "close", "closed"}

\* Where the process can be in each phase, and where it holds the mutex.
Phases ==
    /\ phase = "run" => libPc \in OpenCalls \cup CloseCalls \cup {"loop", "ping"}
    /\ phase = "handler" => libPc \in CloseCalls \cup {"want_exit", "sweep", "want_fini"}
    /\ phase = "atexit" =>
          libPc \in CloseCalls \cup {"want_exit", "cleanup", "cleanup_lib"}
    /\ phase = "done" => libPc = "done"
    /\ libPc \in CloseCalls =>
          \/ phase = "run" /\ ret = "loop"
          \/ phase = "handler" /\ ret = "sweep"
          \/ phase = "atexit" /\ ret = "cleanup_lib"
    /\ libPc \in OpenCalls \cup {"close"} => mutex
    /\ mutex => \/ libPc \in OpenCalls \cup {"close"}
                \/ libPc = "want_exit" /\ phase = "handler"

\* The library is set up with its handlers before anything is opened.
SetUp ==
    /\ ~handler => libPc \in {"loop", "done"} /\ ~initialized /\ devs = {}
    /\ phase \in {"run", "handler"} => (inited <=> handler) /\ (initialized <=> handler)
    /\ phase \in {"atexit", "done"} => ~inited

\* An endpoint that is being opened is not on the list yet, one that is being
\* closed still is, and the walk of _rpmsg_char_cleanup is ahead of it.
OnList ==
    /\ \A h \in Handles : On(h, list) => h \in alive /\ fdOf[h] \in Fds
    /\ Once(list)
    /\ libPc \in OpenCalls => cur \in alive /\ ~On(cur, list) /\ rcdev = "none"
    /\ libPc = "close" => cur \in Handles /\ On(cur, list)
    /\ libPc = "sweep" => next = "none" \/ On(next, list)
    /\ libPc \in CloseCalls /\ ret = "sweep" =>
          next = "none" \/ (On(next, list) /\ next # cur)

\* A device is open at most once, and none is left when the R5 is not running.
Devices ==
    /\ rproc # "running" => devs = {}
    /\ \A f \in Fds : fds[f] \in devs \cup {"closed", "gone"}
    /\ \A f, g \in Fds : fds[f] = fds[g] /\ fds[f] \in devs => f = g

\* The endpoint in use.
InUse ==
    /\ libPc = "local" => fdOf[cur] \in Fds /\ fds[fdOf[cur]] \in devs \cup {"gone"}
    /\ libPc = "ping" => rcdev # "none"
    /\ phase = "run" /\ rcdev # "none" /\ libPc \in {"loop", "ping"} =>
          /\ On(rcdev, list)
          /\ fdOf[rcdev] \in Fds /\ fds[fdOf[rcdev]] \in devs \cup {"gone"}

LibInv == Lib!TypeOK /\ Phases /\ SetUp /\ OnList /\ Devices /\ InUse

\* _list_is_present.
LEMMA ListedIsOn ==
    ASSUME list \in Seq(Handles) PROVE \A h : Lib!Listed(h) <=> On(h, list)
<1>1. DOMAIN list = 1..Len(list)
  BY LenProperties
<1>2. QED
  BY <1>1 DEF Lib!Listed, Lib!ToSet, On

USE NamesAreApart
USE DEF OpenCalls, CloseCalls

\* The process starts with the invariant.
LEMMA LibInvInit == Lib!Init => LibInv
<1> SUFFICES ASSUME Lib!Init PROVE LibInv
  OBVIOUS
<1> USE DEF Lib!Init, Lib!None, Lib!Closed
<1>1. list = <<>> /\ list \in Seq(Handles) /\ Len(list) = 0
  BY EmptySeq
<1>2. Lib!TypeOK
  BY <1>1 DEF Lib!TypeOK, Lib!Calls
<1>3. Phases /\ SetUp
  BY DEF Phases, SetUp
<1>4. OnList
  BY <1>1 DEF OnList, On, Once
<1>5. Devices /\ InUse
  BY DEF Devices, InUse
<1>6. QED
  BY <1>2, <1>3, <1>4, <1>5 DEF LibInv

USE DEF Lib!kernelVars, Lib!libVars, Lib!clientVars, Lib!controlVars,
        Lib!Goto, Lib!None, Lib!Closed, Lib!Gone, Lib!Running

\* rpmsg_char_init, rpmsg_char_open and the client keep it.
LEMMA StepInitLib == LibInv /\ Lib!InitLib => LibInv'
  BY DEF LibInv, Lib!InitLib, Lib!TypeOK, Lib!Calls, Phases, SetUp, OnList, Devices,
       InUse

LEMMA StepOpenEnter == LibInv /\ Lib!OpenEnter => LibInv'
  BY DEF LibInv, Lib!OpenEnter, Lib!TypeOK, Lib!Calls, Phases, SetUp, OnList, Devices,
       InUse

LEMMA StepFindRproc == LibInv /\ Lib!FindRproc => LibInv'
  BY DEF LibInv, Lib!FindRproc, Lib!OpenFails, Lib!TypeOK, Lib!Calls, Phases, SetUp,
       OnList, Devices, InUse

LEMMA StepFindCtrldev == LibInv /\ Lib!FindCtrldev => LibInv'
  BY DEF LibInv, Lib!FindCtrldev, Lib!OpenFails, Lib!TypeOK, Lib!Calls, Phases, SetUp,
       OnList, Devices, InUse

LEMMA StepCreateEptdev == LibInv /\ Lib!CreateEptdev => LibInv'
<1> SUFFICES ASSUME LibInv, Lib!CreateEptdev PROVE LibInv'
  OBVIOUS
<1> USE DEF LibInv, Lib!CreateEptdev, Lib!OpenFails
<1>1. Lib!TypeOK'
  BY DEF Lib!TypeOK, Lib!Calls
<1>2. Phases'
  BY DEF Phases
<1>3. SetUp'
  BY DEF SetUp, Phases, Lib!TypeOK
<1>4. OnList'
  <2>1. UNCHANGED <<list, fdOf, rcdev, cur, next, ret>> /\ libPc = "create"
    BY DEF Lib!TypeOK
  <2>2. \/ libPc' = "open" /\ UNCHANGED alive
        \/ libPc' = "loop" /\ alive' = alive \ {cur}
    BY DEF Lib!TypeOK
  <2> HIDE DEF Lib!CreateEptdev
  <2>3. QED
    BY <2>1, <2>2 DEF OnList
<1>5. Devices'
  BY DEF Devices, Lib!TypeOK, Lib!Calls
<1>6. InUse'
  BY DEF InUse, OnList, Phases, Devices, Lib!TypeOK, Lib!Calls
<1>7. QED
  BY <1>1, <1>2, <1>3, <1>4, <1>5, <1>6

LEMMA StepOpenEptdev == LibInv /\ Lib!OpenEptdev => LibInv'
<1> SUFFICES ASSUME LibInv, Lib!OpenEptdev PROVE LibInv'
  OBVIOUS
<1> USE DEF LibInv
<1>0. libPc = "open" /\ phase = "run" /\ cur \in alive /\ cur \in Handles
  BY DEF Lib!OpenEptdev, Phases, OnList, Lib!TypeOK
<1>1. CASE Lib!OpenFails /\ UNCHANGED <<devs, fds>>
  <2> USE <1>0, <1>1 DEF Lib!OpenFails
  <2>1. Lib!TypeOK'
    BY DEF Lib!TypeOK, Lib!Calls
  <2>2. Phases' /\ SetUp'
    BY DEF SetUp, Phases
  <2>3. OnList'
    BY DEF OnList
  <2>4. Devices' /\ InUse'
    BY DEF Devices, InUse, OnList
  <2>5. QED
    BY <2>1, <2>2, <2>3, <2>4
<1>2. ASSUME NEW d \in devs, NEW f \in Fds,
             fds[f] = Lib!Closed, \A g \in Fds : fds[g] # d,
             fds' = [fds EXCEPT ![f] = d], fdOf' = [fdOf EXCEPT ![cur] = f],
             Lib!Goto("local"),
             UNCHANGED <<rproc, devs, mutex, inited, list, alive, handler, Lib!clientVars>>
      PROVE  LibInv'
  <2>0. /\ fds' \in [Fds -> Devs \cup {"closed", "gone"}]
        /\ fdOf' \in [Handles -> Fds \cup {"none"}]
        /\ fds'[f] = d /\ \A g \in Fds : g # f => fds'[g] = fds[g]
        /\ fdOf'[cur] = f
    BY <1>0, <1>2 DEF Lib!TypeOK
  <2>1. Lib!TypeOK'
    BY <1>0, <1>2, <2>0 DEF Lib!TypeOK, Lib!Calls
  <2>2. Phases' /\ SetUp'
    BY <1>0, <1>2 DEF SetUp, Phases
  <2>3. OnList'
    BY <1>0, <1>2 DEF OnList
  <2>4. Devices'
    BY <1>2, <2>0 DEF Devices
  <2>5. InUse'
    BY <1>0, <1>2, <2>0 DEF InUse
  <2>6. QED
    BY <2>1, <2>2, <2>3, <2>4, <2>5
<1>3. QED
  BY <1>0, <1>1, <1>2 DEF Lib!OpenEptdev

LEMMA StepCloseReturns == LibInv /\ Lib!CloseReturns => LibInv'
  BY DEF LibInv, Lib!CloseReturns, Lib!TypeOK, Lib!Calls, Phases, SetUp, OnList,
       Devices, InUse

LEMMA StepExitFini == LibInv /\ Lib!ExitFini => LibInv'
<1> SUFFICES ASSUME LibInv, Lib!ExitFini PROVE LibInv'
  OBVIOUS
<1> USE DEF LibInv, Lib!ExitFini, Lib!ExitReturns
<1>1. Lib!TypeOK'
  BY DEF Lib!TypeOK, Lib!Calls
<1>2. Phases'
  BY DEF Phases
<1>3. SetUp'
  BY DEF SetUp, Phases, Lib!TypeOK
<1>4. OnList'
  BY DEF OnList, Phases, SetUp, Lib!TypeOK, Lib!Calls
<1>5. Devices'
  BY DEF Devices, Lib!TypeOK, Lib!Calls
<1>6. InUse'
  BY DEF InUse, OnList, Phases, Devices, Lib!TypeOK, Lib!Calls
<1>7. QED
  BY <1>1, <1>2, <1>3, <1>4, <1>5, <1>6

LEMMA StepPing == LibInv /\ Lib!Ping => LibInv'
  BY DEF LibInv, Lib!Ping, Lib!Abandon, Lib!AskToClose, Lib!TypeOK, Lib!Calls, Phases,
       SetUp, OnList, Devices, InUse

LEMMA StepDisconnect == LibInv /\ Lib!Disconnect => LibInv'
<1> SUFFICES ASSUME LibInv, Lib!Disconnect PROVE LibInv'
  OBVIOUS
<1> USE DEF LibInv, Lib!Disconnect, Lib!Abandon
<1>1. Lib!TypeOK'
  BY DEF Lib!TypeOK, Lib!Calls
<1>2. Phases'
  BY DEF Phases
<1>3. SetUp'
  BY DEF SetUp, Phases, Lib!TypeOK
<1>4. OnList'
  BY DEF OnList, Phases, SetUp, Lib!TypeOK, Lib!Calls
<1>5. Devices'
  BY DEF Devices, Lib!TypeOK, Lib!Calls
<1>6. InUse'
  BY DEF InUse, OnList, Phases, Devices, Lib!TypeOK, Lib!Calls
<1>7. QED
  BY <1>1, <1>2, <1>3, <1>4, <1>5, <1>6

LEMMA StepCleanupEndpoint == LibInv /\ Lib!CleanupEndpoint => LibInv'
  BY DEF LibInv, Lib!CleanupEndpoint, Lib!Abandon, Lib!AskToClose, Lib!TypeOK,
       Lib!Calls, Phases, SetUp, OnList, Devices, InUse

LEMMA StepCleanupLib == LibInv /\ Lib!CleanupLib => LibInv'
<1> SUFFICES ASSUME LibInv, Lib!CleanupLib PROVE LibInv'
  OBVIOUS
<1> USE DEF LibInv, Lib!CleanupLib, Lib!ExitReturns
<1>1. Lib!TypeOK'
  BY DEF Lib!TypeOK, Lib!Calls
<1>2. Phases'
  BY DEF Phases
<1>3. SetUp'
  BY DEF SetUp, Phases, Lib!TypeOK
<1>4. OnList'
  BY DEF OnList, Phases, SetUp, Lib!TypeOK, Lib!Calls
<1>5. Devices'
  BY DEF Devices, Lib!TypeOK, Lib!Calls
<1>6. InUse'
  BY DEF InUse, OnList, Phases, Devices, Lib!TypeOK, Lib!Calls
<1>7. QED
  BY <1>1, <1>2, <1>3, <1>4, <1>5, <1>6

LEMMA StepSignal == LibInv /\ Lib!Signal => LibInv'
  BY DEF LibInv, Lib!Signal, Lib!TypeOK, Lib!Calls, Phases, SetUp, OnList, Devices,
       InUse

LEMMA StepR5Stop == LibInv /\ Lib!R5Stop => LibInv'
<1> SUFFICES ASSUME LibInv, Lib!R5Stop PROVE LibInv'
  OBVIOUS
<1> USE DEF LibInv, Lib!R5Stop
<1>1. Lib!TypeOK'
  BY DEF Lib!TypeOK, Lib!Calls
<1>2. Phases'
  BY DEF Phases
<1>3. SetUp'
  BY DEF SetUp, Phases, Lib!TypeOK
<1>4. OnList'
  BY DEF OnList, Phases, SetUp, Lib!TypeOK, Lib!Calls
<1>5. Devices'
  BY DEF Devices, Lib!TypeOK, Lib!Calls
<1>6. InUse'
  BY DEF InUse, OnList, Phases, Devices, Lib!TypeOK, Lib!Calls
<1>7. QED
  BY <1>1, <1>2, <1>3, <1>4, <1>5, <1>6

LEMMA StepR5Off == LibInv /\ Lib!R5Off => LibInv'
  BY DEF LibInv, Lib!R5Off, Lib!TypeOK, Lib!Calls, Phases, SetUp, OnList, Devices, InUse

LEMMA StepR5Start == LibInv /\ Lib!R5Start => LibInv'
  BY DEF LibInv, Lib!R5Start, Lib!TypeOK, Lib!Calls, Phases, SetUp, OnList, Devices,
       InUse

\* The position is the one the library finds.
LEMMA PositionIsAt == \A h : Lib!Position(h) = At(h, list)
  BY DEF Lib!Position, At

\* _rpmsg_char_destroy_eptdev deletes the device of its descriptor, which is
\* open on no other one.
LEMMA StepDestroyEptdev ==
    ASSUME LibInv, NEW f \in Fds, Lib!DestroyEptdev(f)
    PROVE  /\ devs' \subseteq devs /\ fds' \in [Fds -> Devs \cup {"closed", "gone"}]
           /\ \A g \in Fds : fds'[g] = fds[g] \/ (fds'[g] = "closed" /\ g = f)
           /\ \A g \in Fds : fds'[g] \in devs' \cup {"closed", "gone"}
           /\ fds'[f] \notin devs'
<1> USE DEF LibInv, Lib!TypeOK, Devices
<1>1. CASE fds[f] \in devs
  <2>1. devs' = devs \ {fds[f]} /\ fds' = [fds EXCEPT ![f] = "closed"]
    BY <1>1 DEF Lib!DestroyEptdev
  <2>2. \A g \in Fds : fds'[g] = IF g = f THEN "closed" ELSE fds[g]
    BY <2>1
  <2>3. fds' \in [Fds -> Devs \cup {"closed", "gone"}] /\ devs' \subseteq devs
    BY <2>1
  <2>4. ASSUME NEW g \in Fds PROVE fds'[g] \in devs' \cup {"closed", "gone"}
    BY <1>1, <2>1, <2>2
  <2>5. fds'[f] \notin devs'
    BY <2>1, <2>2
  <2>6. QED
    BY <2>2, <2>3, <2>4, <2>5
<1>2. CASE fds[f] \notin devs
  BY <1>2 DEF Lib!DestroyEptdev
<1>3. QED
  BY <1>1, <1>2

\* The end of rpmsg_char_open: the handle joins the list, or is freed.
LEMMA StepGetLocalEndpt == LibInv /\ Lib!GetLocalEndpt => LibInv'
<1> SUFFICES ASSUME LibInv, Lib!GetLocalEndpt PROVE LibInv'
  OBVIOUS
<1>0. /\ libPc = "local" /\ phase = "run" /\ cur \in alive /\ cur \in Handles
      /\ ~On(cur, list) /\ Once(list) /\ list \in Seq(Handles)
      /\ fdOf[cur] \in Fds /\ fds[fdOf[cur]] \in devs \cup {"gone"}
  BY DEF LibInv, Lib!GetLocalEndpt, Phases, OnList, InUse, Lib!TypeOK
<1>1. CASE /\ fds[fdOf[cur]] # "gone"
           /\ list' = Append(list, cur) /\ rcdev' = cur
           /\ mutex' = FALSE /\ Lib!Goto("ping")
           /\ UNCHANGED <<Lib!kernelVars, inited, alive, fdOf, handler, initialized>>
  <2>1. /\ list' \in Seq(Handles) /\ Once(list')
        /\ \A h : On(h, list') <=> On(h, list) \/ h = cur
    BY <1>0, <1>1, ListAdd
  <2>2. Lib!TypeOK'
    BY <1>0, <1>1, <2>1 DEF LibInv, Lib!TypeOK, Lib!Calls
  <2>3. Phases' /\ SetUp'
    BY <1>0, <1>1 DEF LibInv, SetUp, Phases
  <2>4. OnList'
    BY <1>0, <1>1, <2>1 DEF LibInv, OnList
  <2>5. Devices'
    BY <1>1 DEF LibInv, Devices
  <2>6. InUse'
    BY <1>0, <1>1, <2>1 DEF LibInv, InUse, Phases, SetUp
  <2>7. QED
    BY <2>2, <2>3, <2>4, <2>5, <2>6 DEF LibInv
<1>2. CASE Lib!DestroyEptdev(fdOf[cur]) /\ Lib!OpenFails
  <2>1. /\ devs' \subseteq devs /\ fds' \in [Fds -> Devs \cup {"closed", "gone"}]
        /\ \A g \in Fds : fds'[g] = fds[g] \/ fds'[g] = "closed"
        /\ \A g \in Fds : fds'[g] \in devs' \cup {"closed", "gone"}
    BY <1>0, <1>2, StepDestroyEptdev
  <2>2. /\ alive' = alive \ {cur} /\ mutex' = FALSE /\ libPc' = "loop"
        /\ UNCHANGED <<phase, ret, cur, next, rproc, inited, list, fdOf, handler, rcdev, initialized>>
    BY <1>2 DEF Lib!OpenFails
  <2>3. Lib!TypeOK'
    BY <1>0, <2>1, <2>2 DEF LibInv, Lib!TypeOK, Lib!Calls
  <2>4. Phases' /\ SetUp'
    BY <1>0, <2>1, <2>2 DEF LibInv, SetUp, Phases
  <2>5. OnList'
    BY <1>0, <2>2 DEF LibInv, OnList
  <2>6. Devices'
    BY <2>1, <2>2 DEF LibInv, Devices, Lib!TypeOK
  <2>7. InUse'
    BY <1>0, <2>2 DEF LibInv, InUse, OnList
  <2>8. QED
    BY <2>3, <2>4, <2>5, <2>6, <2>7 DEF LibInv
<1>3. QED
  BY <1>1, <1>2 DEF Lib!GetLocalEndpt

\* rpmsg_char_close takes the mutex for a handle on the list.
LEMMA StepCloseEnter == LibInv /\ Lib!CloseEnter => LibInv'
<1> SUFFICES ASSUME LibInv, Lib!CloseEnter PROVE LibInv'
  OBVIOUS
<1>1. list \in Seq(Handles) /\ (Lib!Listed(cur) <=> On(cur, list))
  BY ListedIsOn DEF LibInv, Lib!TypeOK
<1>2. On(cur, list) => cur \in Handles
  BY <1>1, ElementOfSeq DEF On
<1>3. /\ libPc = "want_close" /\ ~mutex
      /\ \/ On(cur, list) /\ mutex' /\ libPc' = "close"
         \/ ~On(cur, list) /\ ~mutex' /\ libPc' = "closed"
      /\ mutex' \in BOOLEAN
      /\ UNCHANGED <<phase, ret, cur, next, Lib!kernelVars, inited, list, alive, fdOf,
                    handler, Lib!clientVars>>
  BY <1>1 DEF LibInv, Lib!TypeOK, Lib!CloseEnter
<1>4. Lib!TypeOK'
  BY <1>3 DEF LibInv, Lib!TypeOK, Lib!Calls
<1>5. Phases' /\ SetUp'
  BY <1>3 DEF LibInv, SetUp, Phases
<1>6. OnList'
  BY <1>2, <1>3 DEF LibInv, OnList
<1>7. Devices' /\ InUse'
  BY <1>3 DEF LibInv, Devices, InUse
<1>8. QED
  BY <1>4, <1>5, <1>6, <1>7 DEF LibInv

\* The handle leaves the list as it is freed; the pointer of the walk along
\* the list is ahead of it.
LEMMA StepDestroy == LibInv /\ Lib!Destroy => LibInv'
<1> SUFFICES ASSUME LibInv, Lib!Destroy PROVE LibInv'
  OBVIOUS
<1>0. /\ libPc = "close" /\ cur \in Handles /\ On(cur, list) /\ Once(list)
      /\ list \in Seq(Handles) /\ fdOf[cur] \in Fds
  BY DEF LibInv, Lib!Destroy, OnList, Lib!TypeOK
<1>1. /\ mutex' = FALSE /\ libPc' = "closed"
      /\ UNCHANGED <<phase, ret, cur, next, rproc, inited, fdOf, handler, rcdev, initialized>>
  BY DEF Lib!Destroy
<1>2. /\ devs' \subseteq devs /\ fds' \in [Fds -> Devs \cup {"closed", "gone"}]
      /\ \A g \in Fds : fds'[g] = fds[g] \/ fds'[g] = "closed"
      /\ \A g \in Fds : fds'[g] \in devs' \cup {"closed", "gone"}
  BY <1>0, StepDestroyEptdev DEF Lib!Destroy
<1>3. /\ list' \in Seq(Handles) /\ Once(list') /\ alive' \subseteq Handles
      /\ \A h \in Handles : On(h, list') => On(h, list) /\ h \in alive'
      /\ \A h \in Handles : On(h, list) /\ h # cur => On(h, list')
  <2>1. CASE fds[fdOf[cur]] \in devs
    <3>1. list' = Lib!RemoveAt(list, At(cur, list)) /\ alive' = alive \ {cur}
      BY <2>1, PositionIsAt DEF Lib!Destroy
    <3>2. /\ list' \in Seq(Handles) /\ Once(list')
          /\ \A h : On(h, list') <=> On(h, list) /\ h # cur
      BY <1>0, <3>1, ListRemove
    <3>3. QED
      BY <3>1, <3>2 DEF LibInv, OnList, Lib!TypeOK
  <2>2. CASE fds[fdOf[cur]] \notin devs
    BY <1>0, <2>2 DEF Lib!Destroy, LibInv, OnList, Lib!TypeOK
  <2>3. QED
    BY <2>1, <2>2
<1>4. Lib!TypeOK'
  BY <1>1, <1>2, <1>3 DEF LibInv, Lib!TypeOK, Lib!Calls
<1>5. Phases' /\ SetUp'
  BY <1>0, <1>1, <1>2 DEF LibInv, SetUp, Phases
<1>6. OnList'
  <2>1. next = "none" \/ next \in Handles
    BY DEF LibInv, Lib!TypeOK
  <2>2. QED
    BY <1>0, <1>1, <1>3, <2>1 DEF LibInv, OnList
<1>7. Devices'
  BY <1>1, <1>2 DEF LibInv, Devices, Lib!TypeOK
<1>8. InUse'
  BY <1>1 DEF InUse
<1>9. QED
  BY <1>4, <1>5, <1>6, <1>7, <1>8 DEF LibInv

\* The walk starts at the head of the list,
LEMMA StepExitCheck == LibInv /\ Lib!ExitCheck => LibInv'
<1> SUFFICES ASSUME LibInv, Lib!ExitCheck PROVE LibInv'
  OBVIOUS
<1>1. /\ libPc = "want_exit" /\ ~mutex /\ list \in Seq(Handles)
      /\ UNCHANGED <<Lib!kernelVars, Lib!libVars, Lib!clientVars, ret, cur>>
  BY DEF LibInv, Lib!ExitCheck, Lib!ExitReturns, Lib!TypeOK
<1>2. \/ inited /\ libPc' = "sweep" /\ phase' = phase
      \/ phase = "handler" /\ ~inited /\ libPc' = "cleanup" /\ phase' = "atexit"
      \/ phase # "handler" /\ libPc' = "done" /\ phase' = "done" /\ ~inited
  BY DEF Lib!ExitCheck, Lib!ExitReturns
<1>3. /\ next' \in Handles \cup {"none"}
      /\ libPc' = "sweep" => next' = "none" \/ On(next', list)
  BY ListHead, <1>1 DEF LibInv, Lib!ExitCheck, Lib!ExitReturns, Lib!TypeOK
<1>4. Lib!TypeOK'
  BY <1>1, <1>2, <1>3 DEF LibInv, Lib!TypeOK, Lib!Calls
<1>5. Phases' /\ SetUp'
  BY <1>1, <1>2 DEF LibInv, SetUp, Phases, Lib!TypeOK
<1>6. OnList'
  BY <1>1, <1>2, <1>3 DEF LibInv, OnList
<1>7. Devices' /\ InUse'
  BY <1>1, <1>2 DEF LibInv, Devices, InUse
<1>8. QED
  BY <1>4, <1>5, <1>6, <1>7 DEF LibInv

\* and reads iter->next before iter is closed.
LEMMA StepSweep == LibInv /\ Lib!Sweep => LibInv'
<1> SUFFICES ASSUME LibInv, Lib!Sweep PROVE LibInv'
  OBVIOUS
<1>1. /\ libPc = "sweep" /\ phase = "handler" /\ list \in Seq(Handles) /\ Once(list)
      /\ next = "none" \/ On(next, list)
      /\ UNCHANGED <<Lib!kernelVars, Lib!libVars, Lib!clientVars, phase>>
  BY DEF LibInv, Lib!Sweep, Lib!TypeOK, Phases, OnList
<1>2. CASE next = "none"
  <2>1. libPc' = "want_fini" /\ UNCHANGED <<ret, cur, next>>
    BY <1>2 DEF Lib!Sweep
  <2>2. QED
    BY <1>1, <2>1 DEF LibInv, Lib!TypeOK, Lib!Calls, Phases, SetUp, OnList, Devices,
         InUse
<1>3. CASE next # "none"
  <2>1. /\ next' = IF At(next, list) = Len(list) THEN "none" ELSE list[At(next, list) + 1]
        /\ libPc' = "want_close" /\ ret' = "sweep" /\ cur' = next
    BY <1>3, PositionIsAt DEF Lib!Sweep
  <2>2. next' = "none" \/ (next' \in Handles /\ On(next', list) /\ next' # next)
    BY <1>1, <1>3, <2>1, ListWalk
  <2>3. Lib!TypeOK'
    BY <1>1, <2>1, <2>2 DEF LibInv, Lib!TypeOK, Lib!Calls
  <2>4. Phases' /\ SetUp'
    BY <1>1, <2>1 DEF LibInv, SetUp, Phases
  <2>5. OnList'
    BY <1>1, <2>1, <2>2 DEF LibInv, OnList
  <2>6. Devices' /\ InUse'
    BY <1>1, <2>1 DEF LibInv, Devices, InUse
  <2>7. QED
    BY <2>3, <2>4, <2>5, <2>6 DEF LibInv
<1>4. QED
  BY <1>2, <1>3

\* Every step keeps the invariant,
LEMMA LibInvNext == LibInv /\ [Lib!Next]_libVars => LibInv'
<1> SUFFICES ASSUME LibInv, [Lib!Next]_libVars PROVE LibInv'
  OBVIOUS
<1>1. CASE UNCHANGED libVars
  BY <1>1 DEF libVars, LibInv, Lib!TypeOK, Lib!Calls, Phases, SetUp, OnList, Devices,
       InUse
<1>2. CASE Lib!Next
  BY <1>2, StepInitLib, StepOpenEnter, StepFindRproc, StepFindCtrldev, StepCreateEptdev,
     StepOpenEptdev, StepGetLocalEndpt, StepCloseEnter, StepDestroy, StepCloseReturns,
     StepExitCheck, StepSweep, StepExitFini, StepPing, StepDisconnect, StepCleanupEndpoint,
     StepCleanupLib, StepSignal, StepR5Stop, StepR5Off, StepR5Start
     DEF Lib!Next, Lib!Process
<1>3. QED
  BY <1>1, <1>2

\* from which the property follows.
LEMMA LibInvSound == LibInv => EndpointsAreSound
<1> SUFFICES ASSUME LibInv PROVE EndpointsAreSound
  OBVIOUS
<1> USE DEF LibInv
<1>1. /\ list \in Seq(Handles) /\ DOMAIN list = 1..Len(list)
      /\ \A h : Lib!Listed(h) <=> On(h, list)
  BY ListedIsOn, LenProperties DEF Lib!TypeOK
<1>2. Lib!ToSet(list) \subseteq alive
  BY <1>1, ElementOfSeq DEF OnList, Lib!ToSet, On
<1>3. Lib!IsInjective(list)
  BY <1>1 DEF OnList, Lib!IsInjective, Once
<1>4. Lib!ListIsSound
  BY <1>1, <1>2, <1>3 DEF OnList, Lib!ListIsSound
<1>5. Lib!CurrentEndpointIsOpen
  BY <1>1 DEF InUse, Lib!CurrentEndpointIsOpen
<1>6. QED
  BY <1>4, <1>5 DEF EndpointsAreSound

\* The library as a part of the client.
LEMMA LibraryInit == MCInit => Lib!Init
  BY DEF MCInit

LEMMA LibraryNext == [MCNext]_mcVars => [Lib!Next]_libVars
  BY DEF MCNext, InLibrary, InReconnect, mcVars, libVars

\* The library's list holds allocated endpoints, each once; the pointer of
\* _rpmsg_char_cleanup is never that of a freed one, although rpmsg_char_close
\* frees the one before it; the endpoint the client works with is on the list
\* and its descriptor is its own, whatever endpoints were abandoned before.
THEOREM EndpointsSound == MCSpec => []EndpointsAreSound
<1>1. MCSpec => []LibInv
  BY LibInvInit, LibInvNext, LibraryInit, LibraryNext, PTL DEF MCSpec
<1>2. QED
  BY <1>1, LibInvSound, PTL

-----------------------------------------------------------------------------
(* What rpmsg_char_exit can reach. *)

OnTheList == {h \in Handles : On(h, list)}
Ahead == {h \in Handles : From(next, h, list)}
ReachedBy(S) == \A f \in Fds : fds[f] \in devs => \E h \in S : fdOf[h] = f

Reached ==
    /\ phase = "run" /\ libPc # "local" => ReachedBy(OnTheList)
    /\ libPc = "local" => ReachedBy(OnTheList \cup {cur})
    /\ phase = "handler" /\ libPc = "want_exit" /\ ~mutex => ReachedBy(OnTheList)
    /\ phase = "handler" /\ libPc \in {"want_close", "close"} =>
          ReachedBy(Ahead \cup {cur}) /\ On(cur, list) /\ cur \in Handles
    /\ phase = "handler" /\ libPc \in {"closed", "sweep"} => ReachedBy(Ahead)
    /\ phase = "handler" /\ libPc = "want_fini" => ReachedBy({})
    /\ phase \in {"atexit", "done"} => ReachedBy({})

\* The steps that touch neither a device nor a descriptor.
Elsewhere ==
    \/ Lib!InitLib \/ Lib!OpenEnter \/ Lib!CloseEnter \/ Lib!CloseReturns
    \/ Lib!ExitCheck \/ Lib!Sweep \/ Lib!ExitFini \/ Lib!CleanupLib \/ Lib!Signal
    \/ Lib!R5Off \/ Lib!R5Start

\* Only rpmsg_char_open opens a device and writes an endpoint's descriptor.
OpensNothing ==
    /\ fdOf' = fdOf
    /\ \A f \in Fds : fds'[f] \in devs' => fds[f] \in devs

\* So what was reached still is.
LEMMA StillReached ==
    ASSUME OpensNothing, NEW S, NEW T, S \subseteq T, ReachedBy(S)
    PROVE  \A f \in Fds : fds'[f] \in devs' => \E h \in T : fdOf'[h] = f
  BY DEF OpensNothing, ReachedBy

\* Every other step only closes.
LEMMA MostOpenNothing == LibInv /\ Lib!Next => Lib!OpenEptdev \/ OpensNothing
<1> SUFFICES ASSUME LibInv, Lib!Next, ~Lib!OpenEptdev PROVE OpensNothing
  OBVIOUS
<1> USE DEF LibInv, Lib!TypeOK, OpensNothing
<1>1. CASE Elsewhere
  <2>1. UNCHANGED <<devs, fds, fdOf>>
    BY <1>1 DEF Elsewhere, Lib!InitLib, Lib!OpenEnter, Lib!CloseEnter,
         Lib!CloseReturns, Lib!ExitCheck, Lib!Sweep, Lib!ExitFini, Lib!CleanupLib, Lib!Signal, Lib!R5Off, Lib!R5Start
  <2>2. QED
    BY <2>1
<1>2. CASE Lib!FindRproc \/ Lib!FindCtrldev
  BY <1>2 DEF Lib!FindRproc, Lib!FindCtrldev, Lib!OpenFails
<1>3. CASE Lib!CreateEptdev
  BY <1>3 DEF Lib!CreateEptdev, Lib!OpenFails, Devices
<1>4. CASE Lib!Ping \/ Lib!Disconnect \/ Lib!CleanupEndpoint
  <2>1. CASE UNCHANGED <<devs, fds, fdOf>>
    BY <2>1
  <2>2. CASE Lib!Abandon
    BY <2>2 DEF Lib!Abandon
  <2>3. QED
    BY <1>4, <2>1, <2>2 DEF Lib!Ping, Lib!Disconnect, Lib!CleanupEndpoint
<1>5. CASE Lib!GetLocalEndpt
  <2>1. CASE UNCHANGED <<devs, fds, fdOf>>
    BY <2>1
  <2>2. CASE Lib!DestroyEptdev(fdOf[cur]) /\ Lib!OpenFails
    <3>1. fdOf[cur] \in Fds
      BY <1>5 DEF Lib!GetLocalEndpt, InUse
    <3>2. QED
      BY <2>2, <3>1, StepDestroyEptdev DEF Lib!OpenFails
  <2>3. QED
    BY <1>5, <2>1, <2>2 DEF Lib!GetLocalEndpt
<1>6. CASE Lib!Destroy
  <2>1. fdOf[cur] \in Fds
    BY <1>6 DEF Lib!Destroy, OnList
  <2>2. QED
    BY <1>6, <2>1, StepDestroyEptdev DEF Lib!Destroy
<1>7. CASE Lib!R5Stop
  BY <1>7 DEF Lib!R5Stop
<1>8. QED
  BY <1>1, <1>2, <1>3, <1>4, <1>5, <1>6, <1>7
     DEF Lib!Next, Lib!Process, Elsewhere

\* At the start nothing is open.
LEMMA ReachedInit == Lib!Init => Reached
  BY DEF Lib!Init, Reached, ReachedBy

\* The steps that leave the list alone keep everything in reach.
LEMMA ReachedInitLib == LibInv /\ Reached /\ OpensNothing /\ Lib!InitLib => Reached'
  BY ListedIsOn DEF LibInv, Lib!TypeOK, Phases, SetUp, Reached, ReachedBy, OpensNothing,
       OnTheList, Ahead, Lib!InitLib

LEMMA ReachedOpenEnter == LibInv /\ Reached /\ OpensNothing /\ Lib!OpenEnter => Reached'
  BY ListedIsOn DEF LibInv, Lib!TypeOK, Phases, SetUp, Reached, ReachedBy, OpensNothing,
       OnTheList, Ahead, Lib!OpenEnter

LEMMA ReachedFindRproc == LibInv /\ Reached /\ OpensNothing /\ Lib!FindRproc => Reached'
<1> SUFFICES ASSUME LibInv, Reached, OpensNothing, Lib!FindRproc PROVE Reached'
  OBVIOUS
<1>1. /\ libPc = "find" /\ libPc' \in {"ctrldev", "create", "open", "loop"}
      /\ UNCHANGED <<phase, list>>
  BY DEF Lib!FindRproc, Lib!OpenFails
<1>2. phase = "run"
  BY <1>1 DEF LibInv, Phases, Lib!TypeOK
<1>3. QED
  BY <1>1, <1>2 DEF Reached, ReachedBy, OpensNothing, OnTheList

LEMMA ReachedFindCtrldev == LibInv /\ Reached /\ OpensNothing /\ Lib!FindCtrldev => Reached'
<1> SUFFICES ASSUME LibInv, Reached, OpensNothing, Lib!FindCtrldev PROVE Reached'
  OBVIOUS
<1>1. /\ libPc = "ctrldev" /\ libPc' \in {"ctrldev", "create", "open", "loop"}
      /\ UNCHANGED <<phase, list>>
  BY DEF Lib!FindCtrldev, Lib!OpenFails
<1>2. phase = "run"
  BY <1>1 DEF LibInv, Phases, Lib!TypeOK
<1>3. QED
  BY <1>1, <1>2 DEF Reached, ReachedBy, OpensNothing, OnTheList

LEMMA ReachedCreateEptdev == LibInv /\ Reached /\ OpensNothing /\ Lib!CreateEptdev => Reached'
<1> SUFFICES ASSUME LibInv, Reached, OpensNothing, Lib!CreateEptdev PROVE Reached'
  OBVIOUS
<1>1. /\ libPc = "create" /\ libPc' \in {"ctrldev", "create", "open", "loop"}
      /\ UNCHANGED <<phase, list>>
  BY DEF Lib!CreateEptdev, Lib!OpenFails
<1>2. phase = "run"
  BY <1>1 DEF LibInv, Phases, Lib!TypeOK
<1>3. QED
  BY <1>1, <1>2 DEF Reached, ReachedBy, OpensNothing, OnTheList

LEMMA ReachedCloseEnter == LibInv /\ Reached /\ OpensNothing /\ Lib!CloseEnter => Reached'
  BY ListedIsOn DEF LibInv, Lib!TypeOK, Phases, SetUp, Reached, ReachedBy, OpensNothing,
       OnTheList, Ahead, Lib!CloseEnter

LEMMA ReachedCloseReturns == LibInv /\ Reached /\ OpensNothing /\ Lib!CloseReturns => Reached'
  BY ListedIsOn DEF LibInv, Lib!TypeOK, Phases, SetUp, Reached, ReachedBy, OpensNothing,
       OnTheList, Ahead, Lib!CloseReturns

LEMMA ReachedExitFini == LibInv /\ Reached /\ OpensNothing /\ Lib!ExitFini => Reached'
  BY ListedIsOn DEF LibInv, Lib!TypeOK, Phases, SetUp, Reached, ReachedBy, OpensNothing,
       OnTheList, Ahead, Lib!ExitFini, Lib!ExitReturns

LEMMA ReachedPing == LibInv /\ Reached /\ OpensNothing /\ Lib!Ping => Reached'
  BY ListedIsOn DEF LibInv, Lib!TypeOK, Phases, SetUp, Reached, ReachedBy, OpensNothing,
       OnTheList, Ahead, Lib!Ping, Lib!Abandon, Lib!AskToClose

LEMMA ReachedDisconnect == LibInv /\ Reached /\ OpensNothing /\ Lib!Disconnect => Reached'
  BY ListedIsOn DEF LibInv, Lib!TypeOK, Phases, SetUp, Reached, ReachedBy, OpensNothing,
       OnTheList, Ahead, Lib!Disconnect, Lib!Abandon

LEMMA ReachedCleanupEndpoint == LibInv /\ Reached /\ OpensNothing /\ Lib!CleanupEndpoint => Reached'
  BY ListedIsOn DEF LibInv, Lib!TypeOK, Phases, SetUp, Reached, ReachedBy, OpensNothing,
       OnTheList, Ahead, Lib!CleanupEndpoint, Lib!Abandon, Lib!AskToClose

LEMMA ReachedCleanupLib == LibInv /\ Reached /\ OpensNothing /\ Lib!CleanupLib => Reached'
  BY ListedIsOn DEF LibInv, Lib!TypeOK, Phases, SetUp, Reached, ReachedBy, OpensNothing,
       OnTheList, Ahead, Lib!CleanupLib, Lib!ExitReturns

LEMMA ReachedSignal == LibInv /\ Reached /\ OpensNothing /\ Lib!Signal => Reached'
  BY ListedIsOn DEF LibInv, Lib!TypeOK, Phases, SetUp, Reached, ReachedBy, OpensNothing,
       OnTheList, Ahead, Lib!Signal

LEMMA ReachedR5Stop == LibInv /\ Reached /\ OpensNothing /\ Lib!R5Stop => Reached'
  BY ListedIsOn DEF LibInv, Lib!TypeOK, Phases, SetUp, Reached, ReachedBy, OpensNothing,
       OnTheList, Ahead, Lib!R5Stop

LEMMA ReachedR5Off == LibInv /\ Reached /\ OpensNothing /\ Lib!R5Off => Reached'
  BY ListedIsOn DEF LibInv, Lib!TypeOK, Phases, SetUp, Reached, ReachedBy, OpensNothing,
       OnTheList, Ahead, Lib!R5Off

LEMMA ReachedR5Start == LibInv /\ Reached /\ OpensNothing /\ Lib!R5Start => Reached'
  BY ListedIsOn DEF LibInv, Lib!TypeOK, Phases, SetUp, Reached, ReachedBy, OpensNothing,
       OnTheList, Ahead, Lib!R5Start

\* The device of an endpoint that is not on the list yet is that of the call.
LEMMA ReachedOpenEptdev == LibInv /\ Reached /\ Lib!OpenEptdev => Reached'
<1> SUFFICES ASSUME LibInv, Reached, Lib!OpenEptdev PROVE Reached'
  OBVIOUS
<1>1. libPc = "open" /\ phase = "run" /\ cur \in Handles /\ ~On(cur, list)
  BY DEF LibInv, Lib!OpenEptdev, Phases, OnList, Lib!TypeOK
<1>2. UNCHANGED <<phase, list, cur, devs>>
  BY DEF Lib!OpenEptdev, Lib!OpenFails
<1>3. CASE libPc' = "loop" /\ UNCHANGED <<fds, fdOf>>
  BY <1>1, <1>2, <1>3 DEF Reached, ReachedBy, OnTheList
<1>4. ASSUME NEW d \in devs, NEW f \in Fds, libPc' = "local",
             fds' = [fds EXCEPT ![f] = d], fdOf' = [fdOf EXCEPT ![cur] = f]
      PROVE  Reached'
  <2>1. ASSUME NEW g \in Fds, fds'[g] \in devs'
        PROVE  \E h \in (OnTheList \cup {cur})' : fdOf'[h] = g
    <3>1. CASE g = f
      <4>1. fdOf'[cur] = f /\ cur' = cur
        BY <1>1, <1>2, <1>4 DEF LibInv, Lib!TypeOK
      <4>2. QED
        BY <3>1, <4>1
    <3>2. CASE g # f
      <4>1. fds[g] \in devs
        BY <1>2, <1>4, <2>1, <3>2 DEF LibInv, Lib!TypeOK
      <4>2. PICK h \in OnTheList : fdOf[h] = g
        BY <1>1, <4>1 DEF Reached, ReachedBy
      <4>3. fdOf'[h] = g /\ h \in OnTheList'
        BY <1>1, <1>2, <1>4, <4>2 DEF OnTheList, LibInv, Lib!TypeOK
      <4>4. QED
        BY <4>3
    <3>3. QED
      BY <3>1, <3>2
  <2>2. QED
    BY <1>1, <1>2, <1>4, <2>1 DEF Reached, ReachedBy
<1>5. QED
  BY <1>2, <1>3, <1>4 DEF Lib!OpenEptdev, Lib!OpenFails

\* It joins the list, or is destroyed.
LEMMA ReachedGetLocalEndpt == LibInv /\ Reached /\ OpensNothing /\ Lib!GetLocalEndpt => Reached'
<1> SUFFICES ASSUME LibInv, Reached, OpensNothing, Lib!GetLocalEndpt PROVE Reached'
  OBVIOUS
<1>0. /\ libPc = "local" /\ phase = "run" /\ cur \in Handles /\ fdOf[cur] \in Fds
      /\ ~On(cur, list) /\ Once(list) /\ list \in Seq(Handles)
      /\ UNCHANGED <<phase, cur>>
  BY DEF LibInv, Lib!GetLocalEndpt, Lib!OpenFails, Phases, OnList, InUse, Lib!TypeOK
<1>1. CASE list' = Append(list, cur) /\ libPc' = "ping"
  <2>1. \A h : On(h, list') <=> On(h, list) \/ h = cur
    BY <1>0, <1>1, ListAdd
  <2>2. OnTheList' = OnTheList \cup {cur}
    BY <1>0, <2>1 DEF OnTheList
  <2>3. ReachedBy(OnTheList)'
    BY <1>0, <2>2 DEF Reached, ReachedBy, OpensNothing
  <2>4. QED
    BY <1>0, <1>1, <2>3 DEF Reached
<1>2. CASE Lib!DestroyEptdev(fdOf[cur]) /\ list' = list /\ libPc' = "loop"
  <2>1. fds'[fdOf[cur]] \notin devs'
    BY <1>0, <1>2, StepDestroyEptdev
  <2>2. OnTheList' = OnTheList
    BY <1>2 DEF OnTheList
  <2>3. ReachedBy(OnTheList)'
    BY <1>0, <2>1, <2>2 DEF Reached, ReachedBy, OpensNothing
  <2>4. QED
    BY <1>0, <1>2, <2>3 DEF Reached
<1>3. QED
  BY <1>1, <1>2 DEF Lib!GetLocalEndpt, Lib!OpenFails

\* The handle that leaves the list has no open device any more.
LEMMA ReachedDestroy == LibInv /\ Reached /\ OpensNothing /\ Lib!Destroy => Reached'
<1> SUFFICES ASSUME LibInv, Reached, OpensNothing, Lib!Destroy PROVE Reached'
  OBVIOUS
<1>0. /\ libPc = "close" /\ cur \in Handles /\ On(cur, list) /\ Once(list)
      /\ list \in Seq(Handles) /\ fdOf[cur] \in Fds
      /\ libPc' = "closed" /\ UNCHANGED <<phase, next, cur>>
      /\ phase = "handler" => ret = "sweep"
  BY DEF LibInv, Lib!Destroy, OnList, Lib!TypeOK, Phases
<1>1. fds'[fdOf[cur]] \notin devs'
  BY <1>0, StepDestroyEptdev DEF Lib!Destroy
<1>2. /\ \A h \in Handles : On(h, list) /\ h # cur => On(h, list')
      /\ next # cur => \A h \in Handles : From(next, h, list) /\ h # cur => From(next, h, list')
  <2>1. CASE list' = Lib!RemoveAt(list, At(cur, list))
    BY <1>0, <2>1, ListRemove
  <2>2. CASE list' = list
    BY <2>2
  <2>3. QED
    BY <2>1, <2>2, PositionIsAt DEF Lib!Destroy
<1>3. CASE phase = "run"
  BY <1>0, <1>1, <1>2, <1>3 DEF Reached, ReachedBy, OpensNothing, OnTheList
<1>4. CASE phase = "handler"
  <2>1. next = "none" \/ next # cur
    BY <1>0, <1>4 DEF LibInv, OnList
  <2>2. next # cur
    BY <1>0, <2>1
  <2>3. QED
    BY <1>0, <1>1, <1>2, <1>4, <2>2 DEF Reached, ReachedBy, OpensNothing, Ahead
<1>5. CASE phase = "atexit"
  BY <1>0, <1>5 DEF Reached, ReachedBy, OpensNothing
<1>6. QED
  BY <1>0, <1>3, <1>4, <1>5 DEF LibInv, Lib!TypeOK, Phases

\* The walk begins at the head, before every handle.
LEMMA ReachedExitCheck == LibInv /\ Reached /\ OpensNothing /\ Lib!ExitCheck => Reached'
<1> SUFFICES ASSUME LibInv, Reached, OpensNothing, Lib!ExitCheck PROVE Reached'
  OBVIOUS
<1>1. /\ libPc = "want_exit" /\ ~mutex /\ list \in Seq(Handles)
      /\ phase \in {"handler", "atexit"}
      /\ UNCHANGED list
  BY DEF LibInv, Lib!ExitCheck, Lib!ExitReturns, Lib!TypeOK, Phases
<1>2. CASE inited
  <2>1. /\ phase = "handler" /\ phase' = "handler" /\ libPc' = "sweep"
        /\ next' = IF list = <<>> THEN "none" ELSE Head(list)
    BY <1>1, <1>2 DEF LibInv, SetUp, Lib!ExitCheck
  <2>2. \A h \in Handles : On(h, list) => From(next', h, list)
    <3>1. list # <<>>  => \A h : On(h, list) => From(Head(list), h, list)
      BY <1>1, ListHead
    <3>2. list = <<>> => \A h : ~On(h, list)
      BY DEF On
    <3>3. QED
      BY <2>1, <3>1, <3>2
  <2>3. QED
    BY <1>1, <2>1, <2>2 DEF Reached, ReachedBy, OpensNothing, OnTheList, Ahead
<1>3. CASE ~inited
  <2>1. phase = "atexit"
    BY <1>1, <1>3 DEF LibInv, SetUp
  <2>2. QED
    BY <1>3, <2>1 DEF Lib!ExitCheck, Lib!ExitReturns, Reached, ReachedBy, OpensNothing
<1>4. QED
  BY <1>2, <1>3

\* It ends when there is nothing ahead.
LEMMA ReachedSweep == LibInv /\ Reached /\ OpensNothing /\ Lib!Sweep => Reached'
<1> SUFFICES ASSUME LibInv, Reached, OpensNothing, Lib!Sweep PROVE Reached'
  OBVIOUS
<1>1. /\ libPc = "sweep" /\ phase = "handler" /\ list \in Seq(Handles) /\ Once(list)
      /\ next = "none" \/ On(next, list)
      /\ UNCHANGED <<list, phase>>
  BY DEF LibInv, Lib!Sweep, Lib!TypeOK, Phases, OnList
<1>2. \A h : On(h, list) => h \in Handles
  BY <1>1, ElementOfSeq DEF On
<1>3. CASE next = "none"
  <2>1. libPc' = "want_fini"
    BY <1>3 DEF Lib!Sweep
  <2>2. Ahead = {}
    BY <1>2, <1>3 DEF Ahead, From, On
  <2>3. QED
    BY <1>1, <2>1, <2>2 DEF Reached, ReachedBy, OpensNothing
<1>4. CASE next # "none"
  <2>1. /\ next' = IF At(next, list) = Len(list) THEN "none" ELSE list[At(next, list) + 1]
        /\ libPc' = "want_close" /\ cur' = next
    BY <1>4, PositionIsAt DEF Lib!Sweep
  <2>2. \A h : From(next, h, list) => h = next \/ From(next', h, list)
    BY <1>1, <1>4, <2>1, ListWalk
  <2>3. \A h \in Ahead : h \in (Ahead \cup {cur})'
    BY <1>1, <2>1, <2>2 DEF Ahead
  <2>4. QED
    BY <1>1, <1>2, <1>4, <2>1, <2>3 DEF Reached, ReachedBy, OpensNothing
<1>5. QED
  BY <1>3, <1>4

\* All steps together.
LEMMA ReachedNext == LibInv /\ Reached /\ [Lib!Next]_libVars => Reached'
<1> SUFFICES ASSUME LibInv, Reached, [Lib!Next]_libVars PROVE Reached'
  OBVIOUS
<1>1. CASE UNCHANGED libVars
  BY <1>1 DEF libVars, Reached, ReachedBy, OnTheList, Ahead
<1>2. CASE Lib!OpenEptdev
  BY <1>2, ReachedOpenEptdev
<1>3. CASE Lib!Next /\ OpensNothing
  BY <1>3, ReachedInitLib, ReachedOpenEnter, ReachedFindRproc, ReachedFindCtrldev,
       ReachedCreateEptdev,
     ReachedOpenEptdev, ReachedGetLocalEndpt, ReachedCloseEnter, ReachedDestroy, ReachedCloseReturns,
     ReachedExitCheck, ReachedSweep, ReachedExitFini, ReachedPing, ReachedDisconnect, ReachedCleanupEndpoint,
     ReachedCleanupLib, ReachedSignal, ReachedR5Stop, ReachedR5Off, ReachedR5Start
     DEF Lib!Next, Lib!Process
<1>4. QED
  BY <1>1, <1>2, <1>3, MostOpenNothing

-----------------------------------------------------------------------------
(* The devices that nothing holds open, counted. *)

Loose == {d \in devs : \A f \in Fds : fds[f] # d}
\* In an open that fails, or that a signal has interrupted for good.
Pending == IF libPc = "open" \/ (libPc = "want_exit" /\ mutex) THEN 1 ELSE 0
Counted ==
    /\ IsFiniteSet(devs) /\ failedOpens \in Nat
    /\ Cardinality(Loose) <= failedOpens + Pending

\* At the start there is none.
LEMMA CountedInit == MCInit => Counted
<1> SUFFICES ASSUME MCInit PROVE Counted
  OBVIOUS
<1>1. devs = {} /\ failedOpens = 0 /\ libPc = "loop"
  BY DEF MCInit, Lib!Init
<1>2. Loose = {}
  BY <1>1 DEF Loose
<1>3. QED
  BY <1>1, <1>2, FS_EmptySet DEF Counted, Pending

\* Apart from what rpmsg_char_open does.
LEMMA FewerLoose ==
    ASSUME LibInv, Lib!Next, ~Lib!OpenEptdev, ~Lib!CreateEptdev
    PROVE  devs' \subseteq devs /\ Loose' \subseteq Loose /\ Pending' >= Pending
                /\ ~(libPc = "open" /\ libPc' = "loop")
<1> USE DEF LibInv, Lib!TypeOK, Loose
<1>1. CASE Elsewhere
  <2>1. UNCHANGED <<devs, fds>> /\ (libPc = "open" => libPc' # "loop")
    BY <1>1 DEF Elsewhere, Lib!InitLib, Lib!OpenEnter, Lib!CloseEnter,
         Lib!CloseReturns, Lib!ExitCheck, Lib!Sweep, Lib!ExitFini, Lib!CleanupLib, Lib!Signal, Lib!R5Off, Lib!R5Start
  <2>2. libPc = "open" \/ (libPc = "want_exit" /\ mutex)
           => libPc' = "open" \/ (libPc' = "want_exit" /\ mutex')
    BY <1>1 DEF Phases, SetUp, Elsewhere, Lib!InitLib, Lib!OpenEnter, Lib!CloseEnter,
           Lib!CloseReturns, Lib!ExitCheck, Lib!Sweep, Lib!ExitFini, Lib!CleanupLib,
           Lib!Signal, Lib!R5Off, Lib!R5Start
  <2>3. QED
    BY <2>1, <2>2 DEF Pending
<1>2. CASE Lib!FindRproc \/ Lib!FindCtrldev
  <2>1. UNCHANGED <<devs, fds>> /\ libPc \notin {"open", "want_exit"}
    BY <1>2 DEF Lib!FindRproc, Lib!FindCtrldev, Lib!OpenFails
  <2>2. QED
    BY <2>1 DEF Pending
<1>3. CASE Lib!Ping \/ Lib!Disconnect \/ Lib!CleanupEndpoint
  <2>1. libPc \notin {"open", "want_exit"}
    BY <1>3 DEF Lib!Ping, Lib!Disconnect, Lib!CleanupEndpoint
  <2>2. CASE UNCHANGED <<devs, fds>>
    BY <2>1, <2>2 DEF Pending
  <2>3. CASE Lib!Abandon /\ (fds[fdOf[rcdev]] = "gone" \/ devs = {})
    <3>1. devs' = devs /\ fds' = [fds EXCEPT ![fdOf[rcdev]] = "closed"]
      BY <2>3 DEF Lib!Abandon
    <3>2. \A d \in devs, f \in Fds : fds[f] = d => fds'[f] = d
      BY <2>3, <3>1
    <3>3. Loose' \subseteq Loose
      BY <3>1, <3>2
    <3>4. QED
      BY <2>1, <3>1, <3>3 DEF Pending
  <2>4. QED
    BY <1>3, <2>2, <2>3 DEF Lib!Ping, Lib!Disconnect, Lib!CleanupEndpoint, Devices
<1>4. ASSUME NEW f \in Fds, Lib!DestroyEptdev(f)
      PROVE  devs' \subseteq devs /\ Loose' \subseteq Loose
  <2>1. CASE fds[f] \in devs
    <3>1. devs' = devs \ {fds[f]} /\ fds' = [fds EXCEPT ![f] = "closed"]
      BY <1>4, <2>1 DEF Lib!DestroyEptdev
    <3>2. \A d \in devs', g \in Fds : fds[g] = d => fds'[g] = d
      BY <3>1
    <3>3. QED
      BY <3>1, <3>2
  <2>2. CASE UNCHANGED <<devs, fds>>
    BY <2>2
  <2>3. QED
    BY <1>4, <2>1, <2>2 DEF Lib!DestroyEptdev
<1>5. CASE Lib!GetLocalEndpt
  <2>1. libPc = "local" /\ fdOf[cur] \in Fds
    BY <1>5 DEF Lib!GetLocalEndpt, InUse
  <2>2. (UNCHANGED <<devs, fds>>) \/ Lib!DestroyEptdev(fdOf[cur])
    BY <1>5 DEF Lib!GetLocalEndpt
  <2>3. QED
    BY <1>4, <2>1, <2>2 DEF Pending
<1>6. CASE Lib!Destroy
  <2>1. libPc = "close" /\ fdOf[cur] \in Fds
    BY <1>6 DEF Lib!Destroy, OnList
  <2>2. QED
    BY <1>4, <1>6, <2>1 DEF Pending, Lib!Destroy
<1>7. CASE Lib!R5Stop
  <2>1. devs' = {} /\ UNCHANGED <<libPc, mutex>>
    BY <1>7 DEF Lib!R5Stop
  <2>2. QED
    BY <2>1 DEF Pending
<1>8. QED
  BY <1>1, <1>2, <1>3, <1>5, <1>6, <1>7 DEF Lib!Next, Lib!Process, Elsewhere

\* A step of the library changes the number as it does failedOpens.
LEMMA CountedStep ==
    ASSUME LibInv, Counted, InLibrary(Lib!Next) PROVE Counted'
<1> USE DEF Loose
<1>0. /\ IsFiniteSet(devs) /\ failedOpens \in Nat /\ Pending \in {0, 1} /\ Pending' \in {0, 1}
      /\ IsFiniteSet(Loose) /\ Cardinality(Loose) \in Nat
      /\ Cardinality(Loose) <= failedOpens + Pending
  <2>1. IsFiniteSet(Loose)
    BY FS_Subset DEF Counted
  <2>2. QED
    BY <2>1, FS_CardinalityType DEF Counted, Pending
<1>1. failedOpens' = IF devs' = {} THEN 0
                     ELSE IF libPc = "open" /\ libPc' = "loop" THEN failedOpens + 1
                     ELSE failedOpens
  BY DEF InLibrary, CountFailedOpens
<1>2. CASE devs' = {}
  <2>1. Loose' = {} /\ failedOpens' = 0
    BY <1>1, <1>2
  <2>2. QED
    BY <1>0, <1>2, <2>1, FS_EmptySet DEF Counted
<1>3. CASE devs' # {} /\ Lib!OpenEptdev
  <2>0. devs' = devs /\ libPc = "open" /\ Pending = 1
    BY <1>3 DEF Lib!OpenEptdev, Lib!OpenFails, Pending
  <2>1. CASE libPc' = "loop" /\ fds' = fds
    <3>1. Loose' = Loose /\ failedOpens' = failedOpens + 1 /\ Pending' = 0
      BY <1>1, <1>3, <2>0, <2>1 DEF Pending
    <3> HIDE DEF Loose
    <3>2. QED
      BY <1>0, <2>0, <3>1 DEF Counted
  <2>2. ASSUME NEW d \in devs, NEW f \in Fds, libPc' = "local",
               fds[f] = "closed", \A g \in Fds : fds[g] # d, fds' = [fds EXCEPT ![f] = d]
        PROVE  Counted'
    <3>1. fds'[f] = d /\ \A g \in Fds : g # f => fds'[g] = fds[g]
      BY <2>2 DEF LibInv, Lib!TypeOK
    <3>2. d \in Loose /\ fds[f] \notin devs
      BY <2>2 DEF LibInv, Lib!TypeOK
    <3>3. Loose' = Loose \ {d}
      BY <2>0, <2>2, <3>1, <3>2
    <3>4. Cardinality(Loose') = Cardinality(Loose) - 1 
      BY <1>0, <3>2, <3>3, FS_RemoveElement
    <3>5. failedOpens' = failedOpens
      BY <1>1, <1>3, <2>2
    <3>6. QED
      BY <1>0, <2>0, <3>4, <3>5 DEF Counted
  <2>3. QED
    BY <1>3, <2>1, <2>2 DEF Lib!OpenEptdev, Lib!OpenFails
<1>4. CASE devs' # {} /\ Lib!CreateEptdev
  <2>1. libPc = "create" /\ failedOpens' = failedOpens /\ Pending = 0 /\ fds' = fds
    BY <1>1, <1>4 DEF Lib!CreateEptdev, Lib!OpenFails, Pending
  <2>2. CASE devs' = devs
    <3>1. Loose' = Loose
      BY <2>1, <2>2
    <3>2. QED
      BY <1>0, <2>1, <2>2, <3>1 DEF Counted
  <2>3. ASSUME NEW d \in Devs \ devs, devs' = devs \cup {d}, libPc' = "open" PROVE Counted'
    <3>1. \A f \in Fds : fds[f] # d
      BY <2>3 DEF LibInv, Devices
    <3>2. Loose' = Loose \cup {d} /\ d \notin Loose
      BY <2>1, <2>3, <3>1
    <3>3. Cardinality(Loose') = Cardinality(Loose) + 1
      BY <1>0, <3>2, FS_AddElement
    <3>4. IsFiniteSet(devs') /\ Pending' = 1
      BY <1>0, <2>3, FS_AddElement DEF Pending
    <3>5. QED
      BY <1>0, <2>1, <3>3, <3>4 DEF Counted
  <2>4. QED
    BY <1>4, <2>2, <2>3 DEF Lib!CreateEptdev, Lib!OpenFails
<1>5. CASE devs' # {} /\ ~Lib!OpenEptdev /\ ~Lib!CreateEptdev
  <2>1. devs' \subseteq devs /\ Loose' \subseteq Loose /\ Pending' >= Pending
                /\ ~(libPc = "open" /\ libPc' = "loop")
    BY <1>5, FewerLoose DEF InLibrary
  <2>2. failedOpens' = failedOpens
    BY <1>1, <1>5, <2>1
  <2>3. /\ IsFiniteSet(devs') /\ Cardinality(Loose') \in Nat
        /\ Cardinality(Loose') <= Cardinality(Loose)
    BY <1>0, <2>1, FS_Subset, FS_CardinalityType
  <2>4. QED
    BY <1>0, <2>1, <2>2, <2>3 DEF Counted
<1>6. QED
  BY <1>2, <1>3, <1>4, <1>5

\* A step of the other part changes nothing.
LEMMA CountedNext == LibInv /\ Counted /\ [MCNext]_mcVars => Counted'
<1> SUFFICES ASSUME LibInv, Counted, [MCNext]_mcVars PROVE Counted'
  OBVIOUS
<1>1. CASE UNCHANGED libVars
  BY <1>1 DEF libVars, Counted, Loose, Pending
<1>2. CASE InLibrary(Lib!Next)
  BY <1>2, CountedStep
<1>3. QED
  BY <1>1, <1>2 DEF MCNext, InReconnect, mcVars, libVars

\* When the process is done, nothing is held open.
LEMMA NoneLeft == LibInv /\ Reached /\ Counted => NoOtherDeviceIsLeft
<1> SUFFICES ASSUME LibInv, Reached, Counted, phase = "done"
             PROVE  Cardinality(devs) <= failedOpens
  <2>1. Lib!Cardinality(devs) = Cardinality(devs)
    BY DEF Cardinality, Lib!Cardinality
  <2>2. QED
    BY <2>1 DEF NoOtherDeviceIsLeft, Lib!NoOtherDeviceIsLeft
<1>1. Loose = devs
  BY DEF Reached, ReachedBy, Loose
<1>2. Pending = 0
  BY DEF LibInv, Phases, Pending
<1>3. QED
  BY <1>1, <1>2 DEF Counted

\* rpmsg_char_exit, from the signal handler or at exit, leaves no endpoint
\* device behind but those that rpmsg_char_open created and failed to open,
\* also when abandoned endpoints share descriptors with later ones.
THEOREM NoDeviceLeft == MCSpec => []NoOtherDeviceIsLeft
<1>1. MCSpec => []LibInv
  BY LibInvInit, LibInvNext, LibraryInit, LibraryNext, PTL DEF MCSpec
<1>2. MCSpec => []Reached
  BY <1>1, ReachedInit, ReachedNext, LibraryInit, LibraryNext, PTL DEF MCSpec
<1>3. MCSpec => []Counted
  BY <1>1, CountedInit, CountedNext, PTL DEF MCSpec
<1>4. QED
  BY <1>1, <1>2, <1>3, NoneLeft, PTL

-----------------------------------------------------------------------------
(* How the client finds the R5 again. *)

\* The constants.
LEMMA Times == Backoff \in Nat /\ Grace \in Nat /\ MaxLate \in 0..Backoff
BY ConstantsAssumption

USE Times DEF r5Vars, clientVars

\* The client starts, or starts again.
LEMMA InitTypeOK == Init => TypeOK
<1> SUFFICES ASSUME Init PROVE TypeOK
  OBVIOUS
<1> USE DEF Init
<1>1. known \in BOOLEAN /\ channel \in BOOLEAN /\ wasRunning \in BOOLEAN /\ sawStop \in BOOLEAN
  BY Zenon
<1>2. /\ backoff \in 0..Backoff /\ late \in 0..MaxLate
      /\ runningFor \in 0..Grace + MaxLate /\ upFor \in 0..Grace
  OBVIOUS
<1>3. /\ state \in {"offline", "running", "stopping"} /\ pc = "top" /\ endpoint = "none"
  BY Zenon
<1>4. QED
  BY <1>1, <1>2, <1>3 DEF TypeOK

\* The client.
LEMMA ClientKeepsTypeOK == TypeOK /\ ClientStep => TypeOK'
<1> SUFFICES ASSUME TypeOK, ClientStep PROVE TypeOK'
  OBVIOUS
<1>1. Running \in BOOLEAN
  BY DEF Running, TypeOK
<1>2. CASE Probe
  BY <1>1, <1>2 DEF Probe, ClientSees, Retry, TypeOK
<1>3. CASE Judge
  BY <1>1, <1>3 DEF Judge, ClientSees, Retry, TypeOK
<1>4. CASE Open
  BY <1>4 DEF Open, Retry, TypeOK
<1>5. CASE PingSucceeds
  BY <1>5 DEF PingSucceeds, TypeOK
<1>6. CASE PingFails
  BY <1>6 DEF PingFails, Retry, TypeOK
<1>7. CASE LoseChannel
  BY <1>7 DEF LoseChannel, TypeOK
<1>8. QED
  BY <1>2, <1>3, <1>4, <1>5, <1>6, <1>7 DEF ClientStep

\* The R5, the kernel and the clock.
LEMMA EnvironmentKeepsTypeOK == TypeOK /\ Environment => TypeOK'
<1> SUFFICES ASSUME TypeOK, Environment PROVE TypeOK'
  OBVIOUS
<1>1. CASE R5Start
  BY <1>1 DEF R5Start, TypeOK
<1>2. CASE Announce
  BY <1>2 DEF Announce, TypeOK
<1>3. CASE R5StopBegins
  BY <1>3 DEF R5StopBegins, TypeOK
<1>4. CASE R5StopEnds
  BY <1>4 DEF R5StopEnds, TypeOK
<1>5. CASE Tick
  BY <1>5 DEF Tick, Smaller, TypeOK
<1>6. QED
  BY <1>1, <1>2, <1>3, <1>4, <1>5 DEF Environment

\* rpmsg_try_connect overwrites rcdev, and every error path resets it: no
\* sequence of failures and restarts makes it overwrite an open endpoint.
THEOREM TypeCorrect == Spec => []TypeOK
<1>1. TypeOK /\ UNCHANGED vars => TypeOK'
  BY DEF vars, TypeOK
<1>2. TypeOK /\ [Next]_vars => TypeOK'
  BY <1>1, ClientKeepsTypeOK, EnvironmentKeepsTypeOK DEF Next
<1>3. QED
  BY <1>2, InitTypeOK, PTL DEF Spec

\* The same of the client that TLC checks.
THEOREM ClientTypeCorrect == MCSpec => []TypeOK
<1>1. MCInit => Init
  BY DEF MCInit
<1>2. [MCNext]_mcVars => [Next]_vars
  BY DEF MCNext, InLibrary, InReconnect, mcVars
<1>3. Spec => []TypeOK
  BY TypeCorrect
<1>4. QED
  BY <1>1, <1>2, <1>3, PTL DEF MCSpec, Spec
=============================================================================
