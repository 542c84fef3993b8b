--------------------------- MODULE SharedSemaphore ---------------------------
(***************************************************************************)
(* The counting semaphore that Linux and the R5 cores would share in the   *)
(* 16 MB region: every operation reads the value, then swaps it with a     *)
(* compare-exchange that on ARM is a load, a test and a store.  Each       *)
(* memory access is one step.  Elsewhere the compare-exchange is atomic,   *)
(* but what it returns means the opposite.                                 *)
(***************************************************************************)
EXTENDS Integers

CONSTANTS
    Procs,      \* cores and threads that use the semaphore
    Initial,    \* argument of sem_init
    Arm,        \* __arm__ or __aarch64__, or the fallback
    MaxCalls    \* bound: calls that all processes together make

ASSUME ConstantsAssumption ==
    Initial \in Nat /\ Arm \in BOOLEAN /\ MaxCalls \in Nat

VARIABLES
    value,
    pc, op, old,     \* what each process does, and the value it has read
    result,          \* of its last call, "none" during the call
    calls,           \* calls made so far
    given, taken,    \* history: calls that have given or taken a unit
    late, raced      \* history: who would store over another's store; whether one has

histVars == <<given, taken, late, raced>>
vars == <<value, pc, op, old, result, calls, histVars>>

\* sem_init, before any process uses the semaphore.
Init ==
    /\ value = Initial
    /\ pc = [p \in Procs |-> "idle"] /\ op = [p \in Procs |-> "wait"]
    /\ old = [p \in Procs |-> 0] /\ result = [p \in Procs |-> "none"]
    /\ calls = 0 /\ given = 0 /\ taken = 0
    /\ late = {} /\ raced = FALSE

Call(p, o) ==
    /\ pc[p] = "idle" /\ calls < MaxCalls
    /\ pc' = [pc EXCEPT ![p] = "read"] /\ op' = [op EXCEPT ![p] = o]
    /\ calls' = calls + 1 /\ result' = [result EXCEPT ![p] = "none"]
    /\ UNCHANGED <<value, old, histVars>>

Return(p, r) == pc' = [pc EXCEPT ![p] = "idle"] /\ result' = [result EXCEPT ![p] = r]
Goto(p, l) == pc' = [pc EXCEPT ![p] = l] /\ UNCHANGED result

\* Mutant: the test for a positive value is missing.
ReadUntested(p) ==
    /\ pc[p] = "read" /\ old' = [old EXCEPT ![p] = value]
    /\ Goto(p, "swap")
    /\ UNCHANGED <<value, op, calls, histVars>>

\* A process that finds no unit tries again in sem_wait, gives up in
\* sem_trywait.
Read(p) ==
    /\ pc[p] = "read" /\ old' = [old EXCEPT ![p] = value]
    /\ \/ (op[p] = "post" \/ value > 0) /\ Goto(p, "swap")
       \/ op[p] = "wait" /\ value <= 0 /\ Goto(p, "read")
       \/ op[p] = "trywait" /\ value <= 0 /\ Return(p, "failed")
    /\ UNCHANGED <<value, op, calls, histVars>>

New(p) == IF op[p] = "post" THEN old[p] + 1 ELSE old[p] - 1

\* Mutant: sem_wait and sem_post go on with the value they read at first.
RefusedKeepsOld(p) ==
    IF op[p] = "trywait" THEN Return(p, "failed") ELSE Goto(p, "swap")

\* The caller sees a result other than 0.
Refused(p) ==
    IF op[p] = "trywait" THEN Return(p, "failed") ELSE Goto(p, "read")

\* The caller sees 0.
Succeeds(p) ==
    /\ Return(p, "done")
    /\ given' = IF op[p] = "post" THEN given + 1 ELSE given
    /\ taken' = IF op[p] = "post" THEN taken ELSE taken + 1

\* Mutant: the current value is not compared.
SwapUncompared(p) ==
    /\ pc[p] = "swap" /\ Goto(p, "store")
    /\ UNCHANGED <<value, op, old, calls, histVars>>

\* not_actually_atomic_compare_exchange: on ARM up to the test, elsewhere the
\* whole of atomic_compare_exchange_strong, whose result is true after a swap.
Swap(p) ==
    /\ pc[p] = "swap"
    /\ IF Arm
       THEN /\ IF value = old[p] THEN Goto(p, "store") ELSE Refused(p)
            /\ UNCHANGED <<value, histVars>>
       ELSE /\ IF value = old[p]
               THEN value' = New(p) /\ Refused(p) /\ UNCHANGED <<given, taken>>
               ELSE Succeeds(p) /\ UNCHANGED value
            /\ UNCHANGED <<late, raced>>
    /\ UNCHANGED <<op, old, calls>>

\* The rest of it on ARM: whatever has been stored since the test is overwritten.
Store(p) ==
    /\ pc[p] = "store"
    /\ value' = New(p) /\ Succeeds(p)
    /\ late' = (late \cup {q \in Procs : pc[q] = "store"}) \ {p}
    /\ raced' = (raced \/ p \in late)
    /\ UNCHANGED <<op, old, calls>>

Step(p) == Read(p) \/ Swap(p) \/ Store(p)

Next ==
    \E p \in Procs : Step(p) \/ \E o \in {"wait", "post", "trywait"} : Call(p, o)

\* A core that is inside a call runs on; none has to make a call.
Spec == Init /\ [][Next]_vars /\ \A p \in Procs : WF_vars(Step(p))

-----------------------------------------------------------------------------
(* Properties *)

TypeOK ==
    /\ value \in Nat
    /\ pc \in [Procs -> {"idle", "read", "swap", "store"}]
    /\ op \in [Procs -> {"wait", "post", "trywait"}]
    /\ old \in [Procs -> Nat]
    /\ result \in [Procs -> {"none", "done", "failed"}]
    /\ calls \in 0..MaxCalls /\ given \in Nat /\ taken \in Nat
    /\ late \subseteq Procs /\ raced \in BOOLEAN

\* The compare-exchange protects everything but the time between its own load
\* and store: a unit is lost, or taken twice, only after one process has
\* stored over what another stored there.
UnitsAccounted == ~raced => value = (Initial + given) - taken

\* However the calls interleave, and whatever they have lost, at the end of
\* all calls only sem_wait is still running, and only because the value is 0.
NobodySpinsOverAUnit ==
    <>[](\A p \in Procs : pc[p] = "idle" \/ (op[p] = "wait" /\ value = 0))

=============================================================================
