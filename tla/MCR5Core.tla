------------------------------ MODULE MCR5Core ------------------------------
(***************************************************************************)
(* The layers under the R5 firmware for TLC: its clock (GlobalTimer), its  *)
(* start-up (R5Boot), its exception entries (ExceptionEntry) and its trace *)
(* buffer, with that of a PRU (TraceLog).  None of them shares state with  *)
(* another; a behaviour is about one of them from its first state on.      *)
(***************************************************************************)
EXTENDS GlobalTimer

CONSTANTS Lines, Handlers, Size, MaxLines, MaxStarts

ASSUME CoreAssumption ==
    /\ Lines \in Nat
    /\ Handlers \subseteq {"masterIsr", "Undef", "SVC", "PAbt", "DAbt", "IRQ", "FIQ"}
    /\ Size \in Nat /\ Size >= 2
    /\ MaxLines \in Nat /\ MaxStarts \in Nat \ {0}

VARIABLES
    part,
    bootPc, loop, r5, region, vim, early,
    handler, thumb, at, regs, spsr, stack, odd, open,
    core, running, starts, log, written, waiting, lineCount, out, fresh

bootVars == <<bootPc, loop, r5, region, vim, early>>
entryVars == <<handler, thumb, at, regs, spsr, stack, odd, open>>
traceVars == <<core, running, starts, log, written, waiting, lineCount, out, fresh>>
mcVars == <<part, vars, bootVars, entryVars, traceVars>>

Boot == INSTANCE R5Boot WITH pc <- bootPc
Entry == INSTANCE ExceptionEntry
Trace == INSTANCE TraceLog WITH count <- lineCount

\* The parts a behaviour is not about have one state.
MCInit ==
    /\ part \in {"timer", "boot", "entry", "trace"}
    /\ Init /\ Boot!Init /\ Entry!Init /\ Trace!Init
    /\ part # "boot" => vim.enabled = {} /\ vim.pending = {}
    /\ part # "entry" => handler = "IRQ"
    /\ part # "trace" => core = "R5"

InTimer(A) == part = "timer" /\ A /\ UNCHANGED <<part, bootVars, entryVars, traceVars>>
InBoot(A) == part = "boot" /\ A /\ UNCHANGED <<part, vars, entryVars, traceVars>>
InEntry(A) == part = "entry" /\ A /\ UNCHANGED <<part, vars, bootVars, traceVars>>
InTrace(A) == part = "trace" /\ A /\ UNCHANGED <<part, vars, bootVars, entryVars>>

MCNext == InTimer(Next) \/ InBoot(Boot!Next) \/ InEntry(Entry!Next) \/ InTrace(Trace!Next)

MCSpec == MCInit /\ [][MCNext]_mcVars

-----------------------------------------------------------------------------
(* Properties *)

TypesOK == TypeOK /\ Boot!TypeOK /\ Entry!TypeOK /\ Trace!TypeOK

\* Inside Reset_Handler no dirty line of the data cache is discarded and no
\* interrupt is taken.
NothingLostOrEarly == Boot!NothingLost /\ Boot!NoEarlyInterrupt

\* Code in DDR runs with caches and MPU on, and with the memory attributes the
\* link map needs.
MemoryAsLinked == Boot!MemoryAsLinked

\* The interrupted code goes on where it was, in its mode, on its stack and with
\* its registers (what is known to be lost excepted); C handlers are called on an
\* 8-byte boundary.
ContextRestored == Entry!ContextRestored /\ Entry!AlignedAtCall

\* A trace buffer holds the last characters (R5) or the first ones (PRU), and the
\* lines in that of an R5 in its first life have all been printed by a script that
\* has just read it.
TraceIsComplete == Trace!LogKeepsItsEnd /\ Trace!NewLinesPrinted

\* No line of any core is printed twice or after a later one, until the buffer runs
\* over.
PrintsInOrder == Trace!PrintedInOrder
=============================================================================
