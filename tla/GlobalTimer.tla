----------------------------- MODULE GlobalTimer -----------------------------
(***************************************************************************)
(* The 64-bit global time counter, read as two 32-bit registers, and the   *)
(* waits that are built on it: until a tick (delays and the UART           *)
(* deadlines) and for a number of whole seconds (a blocking call of the    *)
(* R5).  The counter goes on between any two reads.                        *)
(***************************************************************************)
EXTENDS Integers

CONSTANTS Half,         \* 2^32: the numbers one register holds
          GTC_HZ,       \* ticks in a second
          Cycles,       \* ticks in a microsecond
          Times,        \* the times that are waited for
          Last          \* bound of the counter, for model checking

ASSUME TimerAssumption ==
  /\ Half \in Nat \ {0} /\ GTC_HZ \in Nat \ {0} /\ Cycles \in Nat \ {0}
  /\ Times \subseteq Nat /\ Last \in Nat

VARIABLES count,        \* the counter: [hi, lo]
          pc,           \* the next register read of get_current_ticks, or "idle"
          use, time,    \* what is waited for, and how long
          first,        \* the read in progress gives the start of the wait
          hi, lo,       \* what has been read of the counter
          got, limit,   \* the last result; the deadline or the starting second
          begun,        \* the counter when the wait began
          since,        \* the counter when the read in progress began
          seen,         \* the counter when its low half was read
          asked         \* the counter when the last complete read began

waitVars == <<use, time, begun>>
vars == <<count, pc, use, time, first, hi, lo, got, limit, begun, since, seen, asked>>

Uses == {"get", "deadline", "seconds"}
Counter == [hi : Nat, lo : 0 .. Half - 1]

Ticks(c) == (c.hi * Half) + c.lo
Leq(a, b) == a.hi < b.hi \/ (a.hi = b.hi /\ a.lo <= b.lo)

-----------------------------------------------------------------------------
Tick ==
  /\ Ticks(count) < Last
  /\ count' = IF count.lo + 1 < Half THEN [hi |-> count.hi, lo |-> count.lo + 1]
              ELSE [hi |-> count.hi + 1, lo |-> 0]
  /\ UNCHANGED <<pc, first, hi, lo, got, limit, since, seen, asked, waitVars>>

Call ==
  /\ pc = "idle" /\ pc' = "hi"
  /\ use' \in Uses /\ time' \in Times /\ first' = TRUE
  /\ begun' = count /\ since' = count
  /\ UNCHANGED <<count, hi, lo, got, limit, seen, asked>>

ReadHi ==
  /\ pc = "hi" /\ pc' = "lo"
  /\ hi' = count.hi
  /\ UNCHANGED <<count, first, lo, got, limit, since, seen, asked, waitVars>>

\* Mutant: the low half is read as a signed number.
ReadLoSigned ==
  /\ pc = "lo" /\ pc' = "hi2"
  /\ lo' = (IF 2 * count.lo < Half THEN count.lo ELSE count.lo - Half)
  /\ seen' = count
  /\ UNCHANGED <<count, first, hi, got, limit, since, asked, waitVars>>

ReadLo ==
  /\ pc = "lo" /\ pc' = "hi2"
  /\ lo' = count.lo /\ seen' = count
  /\ UNCHANGED <<count, first, hi, got, limit, since, asked, waitVars>>

\* The deadline is computed in 64 bits; a wait for seconds remembers the second.
LimitFrom(t) == IF use = "deadline" THEN (t + (time * Cycles)) % (Half * Half)
                ELSE t \div GTC_HZ

\* Mutant: a wait ends one microsecond early.
OverEarly(t) == IF use = "deadline" THEN t + Cycles >= limit
                ELSE (t \div GTC_HZ) - limit >= time

Over(t) == IF use = "deadline" THEN t >= limit ELSE (t \div GTC_HZ) - limit >= time

Read == [hi |-> hi, lo |-> lo]

\* Mutant: the high half is not read again.
ReadHi2Once ==
  /\ pc = "hi2"
  /\ got' = Read /\ asked' = since
  /\ first' = FALSE /\ since' = count
  /\ limit' = IF first /\ use # "get" THEN LimitFrom(Ticks(Read)) ELSE limit
  /\ pc' = IF use = "get" \/ (~first /\ Over(Ticks(Read))) THEN "idle" ELSE "hi"
  /\ UNCHANGED <<count, hi, lo, seen, waitVars>>

\* A high half that has changed starts the read again; else the wait goes on with
\* the result.
ReadHi2 ==
  /\ pc = "hi2"
  /\ IF hi # count.hi
     THEN pc' = "hi" /\ UNCHANGED <<got, asked, first, since, limit>>
     ELSE /\ got' = Read /\ asked' = since
          /\ first' = FALSE /\ since' = count
          /\ limit' = IF first /\ use # "get" THEN LimitFrom(Ticks(Read)) ELSE limit
          /\ pc' = IF use = "get" \/ (~first /\ Over(Ticks(Read))) THEN "idle" ELSE "hi"
  /\ UNCHANGED <<count, hi, lo, seen, waitVars>>

Next == Tick \/ Call \/ ReadHi \/ ReadLo \/ ReadHi2

Zero == [hi |-> 0, lo |-> 0]

Init ==
  /\ count = Zero /\ pc = "idle" /\ use = "get" /\ time = 0 /\ first = TRUE
  /\ hi = 0 /\ lo = 0 /\ limit = 0
  /\ got = Zero /\ begun = Zero /\ since = Zero /\ seen = Zero /\ asked = Zero

Spec == Init /\ [][Next]_vars

-----------------------------------------------------------------------------
TypeOK ==
  /\ count \in Counter /\ got \in Counter
  /\ begun \in Counter /\ since \in Counter /\ seen \in Counter /\ asked \in Counter
  /\ pc \in {"idle", "hi", "lo", "hi2"} /\ use \in Uses /\ first \in BOOLEAN
  /\ hi \in Nat /\ lo \in 0 .. Half - 1

\* get_current_ticks returns a value the counter has had during the call, however
\* the counter goes on, its low half running over included, between the reads.
NoTornRead == Leq(asked, got) /\ Leq(got, count)

Ends(u) == use = u /\ pc = "hi2" /\ pc' = "idle"

\* A wait until a deadline is never short, unless the deadline has run over the
\* 64 bits it is computed in: then it is less than the time that was asked for.
\* A wait for seconds counts whole seconds, and so lasts longer than one second
\* less than was asked for.
WaitsLongEnough ==
  [][ /\ Ends("deadline") /\ limit >= time * Cycles =>
           Ticks(count) >= Ticks(begun) + (time * Cycles)
      /\ Ends("seconds") =>
           Ticks(count) > Ticks(begun) + ((time - 1) * GTC_HZ) ]_vars
=============================================================================
