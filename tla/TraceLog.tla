------------------------------ MODULE TraceLog ------------------------------
(***************************************************************************)
(* The trace buffer of a core and the scripts that print it.  The R5       *)
(* writes it through _write, around and around, and flushes its cache      *)
(* after each call; a PRU core puts one character after the other and      *)
(* stops when the buffer is full.  The kernel shows the buffer up to its   *)
(* first NUL while the core runs.  The scripts read it every 100 ms and    *)
(* print the lines beyond the number of lines they have seen.  A line is   *)
(* two characters and a newline.                                           *)
(***************************************************************************)
EXTENDS Integers, Sequences, SequencesExt, FiniteSets

CONSTANTS Size,         \* length of the buffer, at least two
          MaxLines,     \* bound: lines written in one life of the firmware
          MaxStarts     \* bound: starts of the firmware

VARIABLES core,         \* an R5, with its _write, or a PRU, with its trace_putc
          running, starts,
          log,          \* the buffer and the index of the next character
          written,      \* all that this life of the firmware has written
          waiting,      \* the script waits for the trace file to appear
          count,        \* last_line_count
          out,          \* what it has printed: lines, each with the life it is of
          fresh         \* nothing has happened since its last read

vars == <<core, running, starts, log, written, waiting, count, out, fresh>>

Nul == <<0, 0>>
Newline == 3
Char(i) == <<((i - 1) \div Newline) + 1, ((i - 1) % Newline) + 1>>
Empty == [mem |-> [i \in 0 .. Size - 1 |-> Nul], next |-> 0]

-----------------------------------------------------------------------------
(* Writing.                                                                *)

\* Mutant: the index goes one too far before it starts again.
PutRoundLate(b, c) ==
  [mem |-> [b.mem EXCEPT ![b.next] = c],
   next |-> IF b.next + 1 > Size THEN 0 ELSE b.next + 1]

PutRound(b, c) ==
  [mem |-> [b.mem EXCEPT ![b.next] = c],
   next |-> IF b.next + 1 >= Size THEN 0 ELSE b.next + 1]

PutUntilFull(b, c) ==
  IF b.next >= Size - 1 THEN b
  ELSE [mem |-> [b.mem EXCEPT ![b.next] = c, ![b.next + 1] = Nul], next |-> b.next + 1]

Put(b, c) == IF core = "R5" THEN PutRound(b, c) ELSE PutUntilFull(b, c)

\* The R5 hands a printed line to _write as a whole.
Write ==
  /\ running /\ Len(written) < Newline * MaxLines
  /\ LET n == IF core = "R5" THEN Newline ELSE 1
         data == [i \in 1..n |-> Char(Len(written) + i)]
     IN  log' = FoldLeft(Put, log, data) /\ written' = written \o data
  /\ fresh' = FALSE
  /\ UNCHANGED <<core, running, starts, waiting, count, out>>

-----------------------------------------------------------------------------
(* The kernel: a stopped core has no trace file, a started one a new image. *)

Stop ==
  /\ running /\ starts < MaxStarts
  /\ running' = FALSE /\ fresh' = FALSE
  /\ UNCHANGED <<core, starts, log, written, waiting, count, out>>

Start ==
  /\ ~running
  /\ running' = TRUE /\ starts' = starts + 1
  /\ log' = Empty /\ written' = <<>> /\ fresh' = FALSE
  /\ UNCHANGED <<core, waiting, count, out>>

Visible ==
  LET nuls == {i \in 0 .. Size - 1 : log.mem[i] = Nul}
      end == IF nuls = {} THEN Size ELSE CHOOSE i \in nuls : \A k \in nuls : i <= k
  IN  [i \in 1..end |-> log.mem[i - 1]]

-----------------------------------------------------------------------------
(* The scripts.                                                            *)

\* splitlines: what stands before each newline, and an unfinished last line.
SplitLines(s) ==
  LET ends == {i \in DOMAIN s : s[i][2] = Newline}
      cuts == ends \cup IF s # <<>> /\ Len(s) \notin ends THEN {Len(s) + 1} ELSE {}
      Cut(k) == CHOOSE i \in {0} \cup cuts : Cardinality({j \in cuts : j <= i}) = k
  IN  [k \in 1 .. Cardinality(cuts) |-> SubSeq(s, Cut(k - 1) + 1, Cut(k) - 1)]

\* Mutant: the lines that have been seen are not left out.
NewLinesAgain(lines) == lines

NewLines(lines) ==
  IF Len(lines) > count THEN SubSeq(lines, count + 1, Len(lines)) ELSE <<>>

Poll ==
  /\ ~waiting
  /\ IF running
     THEN LET lines == SplitLines(Visible)
              new == NewLines(lines)
          IN  /\ out' = out \o [k \in DOMAIN new |-> [life |-> starts, line |-> new[k]]]
              /\ count' = Len(lines) /\ fresh' = TRUE
              /\ UNCHANGED waiting
     ELSE waiting' = TRUE /\ UNCHANGED <<count, out, fresh>>
  /\ UNCHANGED <<core, running, starts, log, written>>

WaitReady ==
  /\ waiting /\ running
  /\ waiting' = FALSE /\ count' = 0
  /\ UNCHANGED <<core, running, starts, log, written, out, fresh>>

Next == Write \/ Stop \/ Start \/ Poll \/ WaitReady

Init ==
  /\ core \in {"R5", "PRU"}
  /\ running = FALSE /\ starts = 0 /\ log = Empty /\ written = <<>>
  /\ waiting = TRUE /\ count = 0 /\ out = <<>> /\ fresh = FALSE

Spec == Init /\ [][Next]_vars

-----------------------------------------------------------------------------
Chars == {Nul} \cup {Char(i) : i \in 1 .. Newline * MaxLines}

TypeOK ==
  /\ core \in {"R5", "PRU"}
  /\ running \in BOOLEAN /\ starts \in 0..MaxStarts /\ waiting \in BOOLEAN
  /\ log.next \in 0 .. Size - 1 /\ log.mem \in [0 .. Size - 1 -> Chars]
  /\ count \in Nat /\ fresh \in BOOLEAN

\* The buffer of the R5 holds the last characters written, each where its number
\* puts it; that of a PRU the first ones, ended by a NUL.
LogKeepsItsEnd ==
  IF core = "R5"
  THEN \A i \in DOMAIN written : Len(written) - i < Size =>
         log.mem[(i - 1) % Size] = written[i]
  ELSE /\ log.mem[Size - 1] = Nul
       /\ IsPrefix(Visible, written)

\* No line is printed twice, and lines are printed in the order of their lives and
\* numbers, until the buffer of the R5 has run over (the scripts do "not handle
\* circular buffer wraparound").
Overrun == Len(written) > Size

Number(o) ==
  (o.life * (MaxLines + 1)) + (IF o.line = <<>> THEN 0 ELSE o.line[1][1])

PrintedInOrder ==
  [][~Overrun =>
       \A k \in DOMAIN out' : k > Len(out) /\ k > 1 => Number(out'[k]) > Number(out'[k - 1])]_vars

\* print_trace0.py "prints new lines as they appear": when the script has just
\* read the trace of an R5 in its first life, each line that is in it has been
\* printed as it is.
NewLinesPrinted ==
  core = "R5" /\ starts = 1 /\ fresh /\ ~Overrun =>
    \A k \in 1 .. Len(Visible) \div Newline :
      [life |-> starts, line |-> <<<<k, 1>>, <<k, 2>>>>] \in ToSet(out)
=============================================================================
