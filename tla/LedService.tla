----------------------------- MODULE LedService -----------------------------
(***************************************************************************)
(* What the LED demo promises whoever asks for a number of blinks: the     *)
(* answer comes after exactly that many, and the LED does not blink when   *)
(* nobody waits for it.  A request may be dropped, when a core stops.      *)
(***************************************************************************)
EXTENDS Naturals

VARIABLES
    request,   \* "none", "open" or "answered"
    asked,     \* blinks the last request asked for
    shown      \* blinks shown since it was made

Init == request = "none" /\ asked = 0 /\ shown = 0

Ask == request # "open" /\ request' = "open" /\ asked' \in Nat \ {0} /\ shown' = 0

Blink == request = "open" /\ shown < asked /\ shown' = shown + 1 /\ UNCHANGED <<request, asked>>

Answer == request = "open" /\ shown = asked /\ request' = "answered" /\ UNCHANGED <<asked, shown>>

Drop == request' = "none" /\ UNCHANGED <<asked, shown>>

Next == Ask \/ Blink \/ Answer \/ Drop

Spec == Init /\ [][Next]_<<request, asked, shown>>
=============================================================================
