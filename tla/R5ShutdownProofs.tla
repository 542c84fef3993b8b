-------------------------- MODULE R5ShutdownProofs --------------------------
(***************************************************************************)
(* How long the firmware may take to answer a stop, for every length of    *)
(* its delays: at most one resend, one short burn and one long one (or the *)
(* pause after an error, if that is longer).                               *)
(***************************************************************************)
EXTENDS R5Shutdown, TLAPS

Longer(a, b) == IF a > b THEN a ELSE b

\* What the main thread may still spend in delays once it has got to place with
\* gbShutdown set.
After(place) ==
    CASE place = "demo" -> Resend + Longer(Pause, MaxBurn)
      [] place = "resend" -> Longer(Pause, MaxBurn)
      [] place = "wait" -> Pause
      [] OTHER -> 0

Due == IF pc = "delay" THEN left + After(next) ELSE After(pc)

WorstCase == Resend + ShortBurn + Longer(Pause, MaxBurn)

\* A stop that can be heard and has not been acknowledged.
Heard == kernel = "stopping" /\ ~unheard /\ pc # "returned"

\* The interrupt is enabled from Ipc_init to Deinit, and after the ACK the kernel
\* waits for nothing that could be heard.
PlaceInv ==
    /\ pc = "delay" => next # "tests"
    /\ pc \in {"tests", "init", "wfi"} => ~registered
    /\ pc = "wait" \/ (pc = "delay" /\ next = "wait") => item < 3
    /\ pc = "ack" => gbShutdown
    /\ acks > 0 => pc \in {"deinit", "hung", "wfi"}
    /\ Heard => registered /\ pc \notin {"deinit", "hung"}

\* The delays ahead never exceed the worst case, and a stop that is being waited
\* for has used up as much of it as has passed.
TimeInv ==
    /\ Due <= WorstCase
    /\ Heard /\ gbShutdown => waited + Due <= WorstCase
    /\ Heard /\ ~gbShutdown => mailbox /\ waited = 0

IInv == TypeOK /\ PlaceInv /\ TimeInv

-----------------------------------------------------------------------------
(* The constants *)

LEMMA Delays ==
    /\ CallTimeout \in Nat /\ Resend \in Nat /\ Pause \in Nat /\ ShortBurn \in Nat
    /\ MinBurn \in Nat /\ MaxBurn \in Nat /\ MinBurn <= MaxBurn /\ StopTimeout \in Nat
    /\ Linux # Unset
BY ConstantsAssumption

LEMMA LongerBounds ==
    /\ Longer(Pause, MaxBurn) \in Nat
    /\ Pause <= Longer(Pause, MaxBurn) /\ MaxBurn <= Longer(Pause, MaxBurn)
BY Delays DEF Longer

USE Delays, LongerBounds DEF mainVars, isrVars, kernelVars

LEMMA InitIInv == Init => IInv
<1> SUFFICES ASSUME Init PROVE IInv
  OBVIOUS
<1> USE DEF Init
<1>1. TypeOK
  <2>1. sciReady \in BOOLEAN /\ gbShutdown \in BOOLEAN /\ registered \in BOOLEAN
        /\ mailbox \in BOOLEAN /\ unheard \in BOOLEAN
        /\ gbShutdownRemotecoreID = IF gbShutdown THEN Linux ELSE Unset
    BY Zenon
  <2>2. /\ left \in 0..MaxBurn + ShortBurn + Resend + Pause
        /\ item \in 1..3 /\ callLeft \in 0..CallTimeout
        /\ waited \in 0..StopTimeout /\ acks \in 0..1
    OBVIOUS
  <2>3. pc = "tests" /\ next = "tests" /\ kernel = "up"
    BY Zenon
  <2>4. QED  BY <2>1, <2>2, <2>3 DEF TypeOK
<1>2. PlaceInv  BY DEF PlaceInv, Heard
<1>3. TimeInv  BY DEF TimeInv, Heard, Due, After, WorstCase
<1>4. QED  BY <1>1, <1>2, <1>3 DEF IInv

\* A step of the main thread.
LEMMA MainKeepsIInv == IInv /\ MainStep => IInv'
<1> SUFFICES ASSUME IInv, MainStep PROVE IInv'
  OBVIOUS
<1>1. CASE Delayed
  <2> USE <1>1 DEF Delayed
  <2>1. TypeOK'  BY DEF IInv, TypeOK, PlaceInv
  <2>2. PlaceInv'  BY DEF IInv, TypeOK, PlaceInv, Heard
  <2>3. TimeInv'  BY DEF IInv, TypeOK, PlaceInv, TimeInv, Heard, Due, After, WorstCase
  <2>4. QED  BY <2>1, <2>2, <2>3 DEF IInv
<1>2. CASE Tests
  <2> USE <1>2 DEF Tests, GoTo
  <2>1. TypeOK'  BY DEF IInv, TypeOK, PlaceInv
  <2>2. PlaceInv'  BY DEF IInv, TypeOK, PlaceInv, Heard
  <2>3. TimeInv'  BY DEF IInv, TypeOK, PlaceInv, TimeInv, Heard, Due, After, WorstCase
  <2>4. QED  BY <2>1, <2>2, <2>3 DEF IInv
<1>3. CASE IpcInit
  <2> USE <1>3 DEF IpcInit, GoTo
  <2>1. TypeOK'  BY DEF IInv, TypeOK, PlaceInv
  <2>2. PlaceInv'  BY DEF IInv, TypeOK, PlaceInv, Heard
  <2>3. TimeInv'  BY DEF IInv, TypeOK, PlaceInv, TimeInv, Heard, Due, After, WorstCase
  <2>4. QED  BY <2>1, <2>2, <2>3 DEF IInv
<1>4. CASE VdevAborts
  <2> USE <1>4 DEF VdevAborts, GoTo
  <2>1. TypeOK'  BY DEF IInv, TypeOK, PlaceInv
  <2>2. PlaceInv'  BY DEF IInv, TypeOK, PlaceInv, Heard
  <2>3. TimeInv'  BY DEF IInv, TypeOK, PlaceInv, TimeInv, Heard, Due, After, WorstCase
  <2>4. QED  BY <2>1, <2>2, <2>3 DEF IInv
<1>5. CASE Create
  <2> USE <1>5 DEF Create, GoTo
  <2>1. TypeOK'  BY DEF IInv, TypeOK, PlaceInv
  <2>2. PlaceInv'  BY DEF IInv, TypeOK, PlaceInv, Heard
  <2>3. TimeInv'  BY DEF IInv, TypeOK, PlaceInv, TimeInv, Heard, Due, After, WorstCase
  <2>4. QED  BY <2>1, <2>2, <2>3 DEF IInv
<1>6. CASE SetupFailed
  <2> USE <1>6 DEF SetupFailed, GoTo
  <2>1. TypeOK'  BY DEF IInv, TypeOK, PlaceInv
  <2>2. PlaceInv'  BY DEF IInv, TypeOK, PlaceInv, Heard
  <2>3. TimeInv'  BY DEF IInv, TypeOK, PlaceInv, TimeInv, Heard, Due, After, WorstCase
  <2>4. QED  BY <2>1, <2>2, <2>3 DEF IInv
<1>7. CASE Loop
  <2> USE <1>7 DEF Loop, GoTo
  <2>1. TypeOK'  BY DEF IInv, TypeOK, PlaceInv
  <2>2. PlaceInv'  BY DEF IInv, TypeOK, PlaceInv, Heard
  <2>3. TimeInv'  BY DEF IInv, TypeOK, PlaceInv, TimeInv, Heard, Due, After, WorstCase
  <2>4. QED  BY <2>1, <2>2, <2>3 DEF IInv
<1>8. CASE ProcessResends
  <2> USE <1>8 DEF ProcessResends, Delay
  <2>1. TypeOK'  BY DEF IInv, TypeOK, PlaceInv
  <2>2. PlaceInv'  BY DEF IInv, TypeOK, PlaceInv, Heard
  <2>3. TimeInv'  BY DEF IInv, TypeOK, PlaceInv, TimeInv, Heard, Due, After, WorstCase
  <2>4. QED  BY <2>1, <2>2, <2>3 DEF IInv
<1>9. CASE ProcessReturns
  <2> USE <1>9 DEF ProcessReturns, GoTo, Delay
  <2>1. TypeOK'  BY DEF IInv, TypeOK, PlaceInv
  <2>2. PlaceInv'  BY DEF IInv, TypeOK, PlaceInv, Heard
  <2>3. TimeInv'  BY DEF IInv, TypeOK, PlaceInv, TimeInv, Heard, Due, After, WorstCase
  <2>4. QED  BY <2>1, <2>2, <2>3 DEF IInv
<1>10. CASE Demo
  <2> USE <1>10 DEF Demo, Sent, GoTo, Delay, CycleEnds, CycleFails
  <2>1. TypeOK'  BY DEF IInv, TypeOK, PlaceInv
  <2>2. PlaceInv'  BY DEF IInv, TypeOK, PlaceInv, Heard
  <2>3. TimeInv'  BY DEF IInv, TypeOK, PlaceInv, TimeInv, Heard, Due, After, WorstCase
  <2>4. QED  BY <2>1, <2>2, <2>3 DEF IInv
<1>11. CASE SecondSend
  <2> USE <1>11 DEF SecondSend, Sent, GoTo, Delay, CycleEnds, CycleFails
  <2>1. TypeOK'  BY DEF IInv, TypeOK, PlaceInv
  <2>2. PlaceInv'  BY DEF IInv, TypeOK, PlaceInv, Heard
  <2>3. TimeInv'  BY DEF IInv, TypeOK, PlaceInv, TimeInv, Heard, Due, After, WorstCase
  <2>4. QED  BY <2>1, <2>2, <2>3 DEF IInv
<1>12. CASE WaitResends
  <2> USE <1>12 DEF WaitResends, Delay
  <2>1. TypeOK'  BY DEF IInv, TypeOK, PlaceInv
  <2>2. PlaceInv'  BY DEF IInv, TypeOK, PlaceInv, Heard
  <2>3. TimeInv'  BY DEF IInv, TypeOK, PlaceInv, TimeInv, Heard, Due, After, WorstCase
  <2>4. QED  BY <2>1, <2>2, <2>3 DEF IInv
<1>13. CASE WaitAnswered
  <2> USE <1>13 DEF WaitAnswered, Delay, CycleEnds
  <2>1. TypeOK'  BY DEF IInv, TypeOK, PlaceInv
  <2>2. PlaceInv'  BY DEF IInv, TypeOK, PlaceInv, Heard
  <2>3. TimeInv'  BY DEF IInv, TypeOK, PlaceInv, TimeInv, Heard, Due, After, WorstCase
  <2>4. QED  BY <2>1, <2>2, <2>3 DEF IInv
<1>14. CASE WaitFails
  <2> USE <1>14 DEF WaitFails, Delay, CycleFails
  <2>1. TypeOK'  BY DEF IInv, TypeOK, PlaceInv
  <2>2. PlaceInv'  BY DEF IInv, TypeOK, PlaceInv, Heard
  <2>3. TimeInv'  BY DEF IInv, TypeOK, PlaceInv, TimeInv, Heard, Due, After, WorstCase
  <2>4. QED  BY <2>1, <2>2, <2>3 DEF IInv
<1>15. CASE Ack
  <2> USE <1>15 DEF Ack, GoTo
  <2>1. TypeOK'  BY DEF IInv, TypeOK, PlaceInv
  <2>2. PlaceInv'  BY DEF IInv, TypeOK, PlaceInv, Heard
  <2>3. TimeInv'  BY DEF IInv, TypeOK, PlaceInv, TimeInv, Heard, Due, After, WorstCase
  <2>4. QED  BY <2>1, <2>2, <2>3 DEF IInv
<1>16. CASE Deinit
  <2> USE <1>16 DEF Deinit, GoTo
  <2>1. TypeOK'  BY DEF IInv, TypeOK, PlaceInv
  <2>2. PlaceInv'  BY DEF IInv, TypeOK, PlaceInv, Heard
  <2>3. TimeInv'  BY DEF IInv, TypeOK, PlaceInv, TimeInv, Heard, Due, After, WorstCase
  <2>4. QED  BY <2>1, <2>2, <2>3 DEF IInv
<1>17. QED
  BY <1>1, <1>2, <1>3, <1>4, <1>5, <1>6, <1>7, <1>8, <1>9, <1>10, <1>11, <1>12, <1>13, <1>14, <1>15, <1>16 DEF MainStep

\* A step of the interrupt, the kernel or the clock.
LEMMA EnvironmentKeepsIInv == IInv /\ Environment => IInv'
<1> SUFFICES ASSUME IInv, Environment PROVE IInv'
  OBVIOUS
<1>1. CASE IpcRpMboxCallback
  <2> USE <1>1 DEF IpcRpMboxCallback, InterruptPending
  <2>1. TypeOK'  BY DEF IInv, TypeOK, PlaceInv
  <2>2. PlaceInv'  BY DEF IInv, TypeOK, PlaceInv, Heard
  <2>3. TimeInv'  BY DEF IInv, TypeOK, PlaceInv, TimeInv, Heard, Due, After, WorstCase
  <2>4. QED  BY <2>1, <2>2, <2>3 DEF IInv
<1>2. CASE VdevReady
  <2> USE <1>2 DEF VdevReady, GoTo
  <2>1. TypeOK'  BY DEF IInv, TypeOK, PlaceInv
  <2>2. PlaceInv'  BY DEF IInv, TypeOK, PlaceInv, Heard
  <2>3. TimeInv'  BY DEF IInv, TypeOK, PlaceInv, TimeInv, Heard, Due, After, WorstCase
  <2>4. QED  BY <2>1, <2>2, <2>3 DEF IInv
<1>3. CASE KernelStops
  <2> USE <1>3 DEF KernelStops
  <2>1. TypeOK'  BY DEF IInv, TypeOK, PlaceInv
  <2>2. PlaceInv'  BY DEF IInv, TypeOK, PlaceInv, Heard
  <2>3. TimeInv'  BY DEF IInv, TypeOK, PlaceInv, TimeInv, Heard, Due, After, WorstCase
  <2>4. QED  BY <2>1, <2>2, <2>3 DEF IInv
<1>4. CASE KernelTimesOut
  <2> USE <1>4 DEF KernelTimesOut
  <2>1. TypeOK'  BY DEF IInv, TypeOK, PlaceInv
  <2>2. PlaceInv'  BY DEF IInv, TypeOK, PlaceInv, Heard
  <2>3. TimeInv'  BY DEF IInv, TypeOK, PlaceInv, TimeInv, Heard, Due, After, WorstCase
  <2>4. QED  BY <2>1, <2>2, <2>3 DEF IInv
<1>5. CASE KernelHalts
  <2> USE <1>5 DEF KernelHalts
  <2>1. TypeOK'  BY DEF IInv, TypeOK, PlaceInv
  <2>2. PlaceInv'  BY DEF IInv, TypeOK, PlaceInv, Heard
  <2>3. TimeInv'  BY DEF IInv, TypeOK, PlaceInv, TimeInv, Heard, Due, After, WorstCase
  <2>4. QED  BY <2>1, <2>2, <2>3 DEF IInv
<1>6. CASE KernelStarts
  <2> USE <1>6 DEF KernelStarts
  <2>1. TypeOK'
    <3>1. /\ sciReady' \in BOOLEAN /\ gbShutdown' \in BOOLEAN /\ registered' \in BOOLEAN
          /\ mailbox' \in BOOLEAN /\ unheard' \in BOOLEAN
          /\ gbShutdownRemotecoreID' = IF gbShutdown' THEN Linux ELSE Unset
      BY Zenon
    <3>2. /\ left' \in 0..MaxBurn + ShortBurn + Resend + Pause
          /\ item' \in 1..3 /\ callLeft' \in 0..CallTimeout
          /\ waited' \in 0..StopTimeout /\ acks' \in 0..1
      OBVIOUS
    <3>3. pc' = "tests" /\ next' = "tests" /\ kernel' = "up"
      BY Zenon
    <3>4. QED  BY <3>1, <3>2, <3>3 DEF TypeOK
  <2>2. PlaceInv'  BY DEF IInv, TypeOK, PlaceInv, Heard
  <2>3. TimeInv'  BY DEF IInv, TypeOK, PlaceInv, TimeInv, Heard, Due, After, WorstCase
  <2>4. QED  BY <2>1, <2>2, <2>3 DEF IInv
<1>7. CASE Tick
  <2> USE <1>7 DEF Tick, MainIdle, InterruptPending
  <2>1. TypeOK'  BY DEF IInv, TypeOK, PlaceInv
  <2>2. PlaceInv'  BY DEF IInv, TypeOK, PlaceInv, Heard
  <2>3. TimeInv'  BY DEF IInv, TypeOK, PlaceInv, TimeInv, Heard, Due, After, WorstCase
  <2>4. QED  BY <2>1, <2>2, <2>3 DEF IInv
<1>8. QED
  BY <1>1, <1>2, <1>3, <1>4, <1>5, <1>6, <1>7 DEF Environment

LEMMA NextKeepsIInv == IInv /\ [Next]_vars => IInv'
<1>1. IInv /\ UNCHANGED vars => IInv'
  BY DEF vars, IInv, TypeOK, PlaceInv, TimeInv, Heard, Due, After
<1>2. QED
  BY <1>1, MainKeepsIInv, EnvironmentKeepsIInv DEF Next

\* Types, and with them that the ACK goes to the core that asked: the id of the
\* requester is recorded exactly when gbShutdown is set, also when it is 0.
THEOREM TypeCorrect == Spec => []TypeOK
<1>1. IInv => TypeOK
  BY DEF IInv
<1>2. QED
  BY <1>1, InitIInv, NextKeepsIInv, PTL DEF Spec

-----------------------------------------------------------------------------
(* The kernel's patience *)

LEMMA MainAnswers == IInv /\ AnsweredInTime /\ MainStep => AnsweredInTime'
<1> SUFFICES ASSUME IInv, AnsweredInTime, MainStep PROVE AnsweredInTime'
  OBVIOUS
<1> USE DEF AnsweredInTime
<1>1. CASE Delayed
  BY <1>1 DEF Delayed
<1>2. CASE Tests
  BY <1>2 DEF Tests, GoTo
<1>3. CASE IpcInit
  BY <1>3 DEF IpcInit, GoTo
<1>4. CASE VdevAborts
  BY <1>4 DEF VdevAborts, GoTo
<1>5. CASE Create
  BY <1>5 DEF Create, GoTo
<1>6. CASE SetupFailed
  BY <1>6 DEF SetupFailed, GoTo
<1>7. CASE Loop
  BY <1>7 DEF Loop, GoTo
<1>8. CASE ProcessResends
  BY <1>8 DEF ProcessResends, Delay
<1>9. CASE ProcessReturns
  BY <1>9 DEF ProcessReturns, GoTo, Delay
<1>10. CASE Demo
  BY <1>10 DEF Demo, Sent, GoTo, Delay, CycleEnds, CycleFails
<1>11. CASE SecondSend
  BY <1>11 DEF SecondSend, Sent, GoTo, Delay, CycleEnds, CycleFails
<1>12. CASE WaitResends
  BY <1>12 DEF WaitResends, Delay
<1>13. CASE WaitAnswered
  BY <1>13 DEF WaitAnswered, Delay, CycleEnds
<1>14. CASE WaitFails
  BY <1>14 DEF WaitFails, Delay, CycleFails
<1>15. CASE Ack
  BY <1>15 DEF Ack, GoTo
<1>16. CASE Deinit
  BY <1>16 DEF Deinit, GoTo
<1>17. QED
  BY <1>1, <1>2, <1>3, <1>4, <1>5, <1>6, <1>7, <1>8, <1>9, <1>10, <1>11, <1>12, <1>13, <1>14, <1>15, <1>16 DEF MainStep

LEMMA EnvironmentAnswers ==
    ASSUME WorstCase < StopTimeout
    PROVE  IInv /\ AnsweredInTime /\ Environment => AnsweredInTime'
<1> SUFFICES ASSUME IInv, AnsweredInTime, Environment PROVE AnsweredInTime'
  OBVIOUS
<1> USE DEF AnsweredInTime
<1>1. CASE IpcRpMboxCallback
  BY <1>1 DEF IpcRpMboxCallback, InterruptPending
<1>2. CASE VdevReady
  BY <1>2 DEF VdevReady, GoTo
<1>3. CASE KernelStops
  BY <1>3 DEF KernelStops
<1>4. CASE KernelTimesOut
  \* The kernel has waited for StopTimeout, which is not over for a stop that
  \* was heard.
  <2>1. waited = StopTimeout /\ waited \in Nat /\ kernel = "stopping"
    BY <1>4 DEF KernelTimesOut, IInv, TypeOK
  <2>2. Due \in Nat /\ WorstCase \in Nat
    BY DEF IInv, TypeOK, Due, After, WorstCase
  <2>3. ~Heard
    BY <2>1, <2>2 DEF IInv, TimeInv
  <2>4. QED
    BY <1>4, <2>1, <2>3 DEF KernelTimesOut, Heard
<1>5. CASE KernelHalts
  BY <1>5 DEF KernelHalts
<1>6. CASE KernelStarts
  BY <1>6 DEF KernelStarts
<1>7. CASE Tick
  BY <1>7 DEF Tick, MainIdle, InterruptPending
<1>8. QED
  BY <1>1, <1>2, <1>3, <1>4, <1>5, <1>6, <1>7 DEF Environment

\* A kernel that waits longer than WorstCase never gives up on a firmware that
\* can hear it: no place in the main loop, process_linux_messages or
\* run_demo_cycle, no blocking call and no resend holds the ACK up for longer.
THEOREM InTime ==
    ASSUME WorstCase < StopTimeout
    PROVE  Spec => []AnsweredInTime
<1>1. Init => AnsweredInTime
  BY DEF Init, AnsweredInTime
<1>2. IInv /\ AnsweredInTime /\ [Next]_vars => AnsweredInTime'
  <2>1. AnsweredInTime /\ UNCHANGED vars => AnsweredInTime'
    BY DEF vars, AnsweredInTime
  <2>2. QED
    BY <2>1, MainAnswers, EnvironmentAnswers DEF Next
<1>3. QED
  BY <1>1, <1>2, InitIInv, NextKeepsIInv, PTL DEF Spec
=============================================================================
