--------------------------- MODULE MCSharedMemory ---------------------------
(***************************************************************************)
(* The memory Linux and the R5 cores share, for TLC: the semaphore in it   *)
(* (SharedSemaphore), or the operations Linux has on its words             *)
(* (AlignedCopy).  A behaviour is about one of the two.                    *)
(***************************************************************************)
EXTENDS SharedSemaphore

CONSTANTS Bytes, Chars, Starts, Page, MaxSize

\* Memory is made of whole words, and strings begin at even addresses.
ASSUME WordsAssumption ==
    /\ Bytes \in Nat /\ Bytes % 2 = 0
    /\ \A s \in Starts : s \in Nat /\ s % 2 = 0
    /\ Page \in Nat \ {0} /\ MaxSize \in Nat

VARIABLES part, mem, last

copyVars == <<mem, last>>
mcVars == <<part, vars, copyVars>>

Words == INSTANCE AlignedCopy

MCInit ==
    /\ Init /\ Words!Init
    /\ \/ part = "semaphore" /\ mem = [a \in 0 .. Bytes - 1 |-> 0]
       \/ part = "words"

InSemaphore(A) == part = "semaphore" /\ A /\ UNCHANGED <<part, copyVars>>
InWords(A) == part = "words" /\ A /\ UNCHANGED <<part, vars>>

MCNext == InSemaphore(Next) \/ InWords(Words!Next)

\* The fairness of the processes.
MCSpec ==
    /\ MCInit /\ [][MCNext]_mcVars
    /\ \A p \in Procs : WF_mcVars(InSemaphore(Step(p)))

-----------------------------------------------------------------------------
(* The properties of AlignedCopy. *)

\* strlen_aligned16 of a string at an even address is its length, a mapping has
\* the least whole number of pages that holds its size, and memcpy_aligned16
\* copies exactly what it is asked to copy, or nothing.
CallsExact ==
    /\ [](Words!TypeOK /\ Words!LengthFound /\ Words!RoundsUp)
    /\ Words!CopyExact
=============================================================================
