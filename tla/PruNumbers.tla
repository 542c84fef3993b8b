----------------------------- MODULE PruNumbers -----------------------------
(***************************************************************************)
(* How the PRU demos read a number from a message and write one into the   *)
(* acknowledgement.  A text is a sequence of digits, Blank, Nul and Other. *)
(***************************************************************************)
EXTENDS Integers, Sequences

CONSTANTS
    Word,              \* 2^32
    Blank, Nul, Other  \* white space; '\0'; any other character

Digit == 0..9

\* Mutant: a blank ends the number even before its first digit.
ReadCharNoLead(r, c) ==
    IF r.stop \/ c \in {Nul, Other, Blank} THEN [r EXCEPT !.stop = TRUE]
    ELSE [r EXCEPT !.val = (@ * 10 + c) % Word, !.found = TRUE]

\* One turn of the loop of parse_uint32.
ReadChar(r, c) ==
    IF r.stop \/ c \in {Nul, Other} \/ (c = Blank /\ r.found) THEN [r EXCEPT !.stop = TRUE]
    ELSE IF c = Blank THEN r
    ELSE [r EXCEPT !.val = (@ * 10 + c) % Word, !.found = TRUE]

\* parse_uint32, given max_len characters.
NothingRead == [val |-> 0, found |-> FALSE, stop |-> FALSE]
ParseUint32(str) ==
    LET after[i \in 0..Len(str)] ==
            IF i = 0 THEN NothingRead ELSE ReadChar(after[i - 1], str[i])
    IN after[Len(str)].val

\* write_uint32_str: the last digit is v % 10, those before it are of v \div 10.
WriteUint32(n) ==
    LET digits[v \in 0..n] ==
            IF v < 10 THEN <<v>> ELSE Append(digits[v \div 10], v % 10)
    IN digits[n]

\* What blink_count.py sends for a count, f"{count}\n": Python's integers have
\* no bound.
Message(count) == WriteUint32(count) \o <<Blank>>
=============================================================================
