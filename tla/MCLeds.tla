------------------------------- MODULE MCLeds -------------------------------
(***************************************************************************)
(* The two LED demos for TLC: the mailbox of the two-core demo             *)
(* (LedMailbox), the messages of the single-core demo (PruLed), and the    *)
(* numbers in them (PruTexts).  A behaviour is about one of the parts from *)
(* its first state on, and leaves the others as they are.                  *)
(***************************************************************************)
EXTENDS LedMailbox

CONSTANTS Word, Blank, Nul, Other, Counts, MaxRuns, MaxStops, Digits, MaxLen

VARIABLES
    part,
    fw, msg, count, left, event, driverOk, announced, vring, host, dev, run, asked,
    queue, inbox, printed, pruBlinks, stops, gaveUp,
    text, val

singleVars == <<fw, msg, count, left, event, driverOk, announced, vring, host, dev,
                run, asked, queue, inbox, printed, pruBlinks, stops, gaveUp>>
textVars == <<text, val>>
mcVars == <<part, vars, singleVars, textVars>>

Single == INSTANCE PruLed WITH blinks <- pruBlinks
Numbers == INSTANCE PruTexts

\* Counts fit the word; white space and digits are different characters.
ASSUME SingleAssumption ==
    /\ Word \in Nat \ {0} /\ Counts \subseteq 0..(Word - 1)
    /\ MaxRuns \in Nat /\ MaxStops \in Nat
    /\ Digits \subseteq 0..9 /\ {Blank, Nul, Other} \cap (0..9) = {}
    /\ Blank \notin {Nul, Other}

MCInit ==
    /\ Single!Init
    /\ \/ part = "mailbox" /\ Init /\ text = <<>> /\ val = 0
       \/ /\ \/ part = "single" /\ text = <<>> /\ val = 0
             \/ part = "numbers" /\ Numbers!Init
          /\ Init /\ seq = 0 /\ blinkCount = 0 /\ doneSeq = 0

InMailbox(A) == part = "mailbox" /\ A /\ UNCHANGED <<part, singleVars, textVars>>
InSingle(A) == part = "single" /\ A /\ UNCHANGED <<part, vars, textVars>>
InNumbers(A) == part = "numbers" /\ A /\ UNCHANGED <<part, vars, singleVars>>

MCNext == InMailbox(Next) \/ InSingle(Single!Next) \/ InNumbers(Numbers!Next)

\* The fairness of the two demos.
MCSpec ==
    /\ MCInit /\ [][MCNext]_mcVars
    /\ WF_mcVars(InMailbox(PruStep)) /\ WF_mcVars(InMailbox(RtuStep /\ ~Take))
    /\ WF_mcVars(InSingle(Single!Firmware)) /\ WF_mcVars(InSingle(Single!DriverOk))
    /\ WF_mcVars(InSingle(Single!Script))

-----------------------------------------------------------------------------
(* The properties of PruLed and PruTexts. *)

TypesOK == TypeOK /\ Single!TypeOK

\* As long as no run of blink_count.py gave up, a run prints its own answer, and
\* that is of as many blinks as it asked for and the LED has made.
PrintsOwnAck == Single!PrintsOwnAck

\* A run that waits long enough ends, although a kick may be lost in another, and
\* the firmware takes every message out of the vring, also those of runs that gave
\* up.
MessagesServed == Single!RunEnds /\ Single!VringDrained

\* parse_uint32 takes the number a text begins with, modulo the word.
ReadsLeadingNumber == Numbers!ReadsLeadingNumber
=============================================================================
