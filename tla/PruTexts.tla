------------------------------ MODULE PruTexts ------------------------------
(***************************************************************************)
(* parse_uint32 on every text of up to MaxLen characters, beside what the  *)
(* text says.                                                              *)
(***************************************************************************)
EXTENDS PruNumbers, SequencesExt, FiniteSetsExt

CONSTANTS Digits, MaxLen     \* digits that occur; bound on the length of a text

Unread == -1
Texts == BoundedSeq(Digits \cup {Blank, Nul, Other}, MaxLen)

VARIABLES text, val          \* a payload and what parse_uint32 makes of it
vars == <<text, val>>

Init == text \in Texts /\ val = Unread
Next == val = Unread /\ val' = ParseUint32(text) /\ UNCHANGED text
Spec == Init /\ [][Next]_vars

\* The digits from position i to j, as a number.
Decimal(i, j) ==
    LET upto[k \in (i - 1)..j] == IF k < i THEN 0 ELSE 10 * upto[k - 1] + text[k]
    IN upto[j]

\* What a text begins with: its first digits, if only blanks come before them.
LeadingNumber ==
    LET starts == {i \in DOMAIN text :
                      /\ text[i] \in Digit
                      /\ \A k \in 1..(i - 1) : text[k] = Blank}
        ends(i) == {j \in i..Len(text) : \A k \in i..j : text[k] \in Digit}
    IN IF starts = {} THEN 0 ELSE Decimal(Min(starts), Max(ends(Min(starts))))

\* parse_uint32 takes the number a text begins with, modulo 2^32, and 0 for a
\* text that begins with none: it stops neither early nor late, at no blank
\* before the digits and at every blank, Nul or letter after them.
ReadsLeadingNumber == val # Unread => val = LeadingNumber % Word
=============================================================================
