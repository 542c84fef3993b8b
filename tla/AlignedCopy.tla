----------------------------- MODULE AlignedCopy -----------------------------
(***************************************************************************)
(* The operations Linux has on the memory it shares with the R5, which it  *)
(* must read and write in aligned units of 16 bits: the length of a        *)
(* string, copying, and the size of a mapping in whole pages.  mem is that *)
(* memory, byte by byte; the words are little-endian.                      *)
(***************************************************************************)
EXTENDS Integers, FiniteSetsExt

CONSTANTS Bytes,     \* length of the memory, an even number
          Chars,     \* values of a byte; 0 ends a string
          Starts,    \* addresses at which strings are measured
          Page,      \* size of a page
          MaxSize    \* bound: largest size of a mapping

VARIABLES mem,
          last       \* the last call: its arguments and what it returned

vars == <<mem, last>>

Addresses == 0 .. Bytes - 1

-----------------------------------------------------------------------------
(* strlen_aligned16: bytes up to an even address, words from there on.  addr *)
(* moves with str in the first loop, so that the length of what the loop has *)
(* skipped is lost.                                                          *)

ZeroIn(a) == IF mem[a] = 0 THEN a ELSE a + 1

StrlenAligned16(s) ==
  IF s % 2 = 1 /\ mem[s] = 0 THEN 0
  ELSE LET addr == s + (s % 2)
           words == {a \in addr .. Bytes - 1 : a % 2 = 0 /\ 0 \in {mem[a], mem[a + 1]}}
       IN  ZeroIn(Min(words)) - addr

Strlen(s) ==
  /\ \E a \in s .. Bytes - 1 : mem[a] = 0
  /\ last' = [call |-> "strlen", str |-> s, ret |-> StrlenAligned16(s)]
  /\ UNCHANGED mem

-----------------------------------------------------------------------------
(* memcpy_aligned16 and memcpy_aligned16_volatile.                          *)

\* Mutant: the size may be odd.
RefusedNotSize(dest, src, size) == dest % 2 # 0 \/ src % 2 # 0

Refused(dest, src, size) == dest % 2 # 0 \/ src % 2 # 0 \/ size % 2 # 0

CopyWord(m, dest, src) == [m EXCEPT ![dest] = m[src], ![dest + 1] = m[src + 1]]

\* One word after the other, upwards: what has been written may be read again.
CopyWords(dest, src, size) ==
  LET upto[n \in 0 .. size \div 2] ==
        IF n = 0 THEN mem
        ELSE CopyWord(upto[n - 1], dest + (2 * (n - 1)), src + (2 * (n - 1)))
  IN  upto[size \div 2]

Copy(dest, src, size) ==
  /\ dest + size <= Bytes /\ src + size <= Bytes
  /\ mem' = IF Refused(dest, src, size) THEN mem ELSE CopyWords(dest, src, size)
  /\ last' = [call |-> "memcpy", dest |-> dest, src |-> src, size |-> size,
              ret |-> IF Refused(dest, src, size) THEN -1 ELSE 0]

-----------------------------------------------------------------------------
FullPages(size) ==
  IF size < Page THEN Page
  ELSE IF size % Page # 0 THEN size + Page - (size % Page) ELSE size

Pages(size) ==
  /\ last' = [call |-> "pages", size |-> size, ret |-> FullPages(size)]
  /\ UNCHANGED mem

Next ==
  \/ \E s \in Starts : Strlen(s)
  \/ \E dest, src \in Addresses, size \in 0 .. Bytes : Copy(dest, src, size)
  \/ \E size \in 0 .. MaxSize : Pages(size)

Init == mem \in [Addresses -> Chars] /\ last = [call |-> "none"]

Spec == Init /\ [][Next]_vars

-----------------------------------------------------------------------------
\* A length is less than the memory, a copy returns 0 or -1, a mapping is not empty.
TypeOK ==
  /\ mem \in [Addresses -> Chars]
  /\ last.call \in {"none", "strlen", "memcpy", "pages"}
  /\ last.call = "strlen" => last.ret \in Addresses
  /\ last.call = "memcpy" => last.ret \in {0, -1}
  /\ last.call = "pages" => last.ret \in Nat \ {0}

\* strlen_aligned16 returns the number of bytes before the first NUL, whatever
\* stands behind that NUL in the same word.
LengthFound ==
  last.call = "strlen" =>
    /\ mem[last.str + last.ret] = 0
    /\ \A a \in last.str .. last.str + last.ret - 1 : mem[a] # 0

\* memcpy_aligned16 copies every byte it is asked to copy and writes no other, or
\* returns -1 and writes none.  The regions must not overlap with dest above src.
ReturnsExact ==
  last'.call = "memcpy" =>
    LET c == last'
        moved == {a \in Addresses : a >= c.dest /\ a < c.dest + c.size}
    IN  \/ c.src < c.dest /\ c.dest < c.src + c.size
        \/ /\ c.ret = 0
           /\ \A a \in Addresses :
                mem'[a] = IF a \in moved THEN mem[c.src + (a - c.dest)] ELSE mem[a]
        \/ c.ret = -1 /\ mem' = mem /\ 1 \in {c.dest % 2, c.src % 2, c.size % 2}
CopyExact == [][ReturnsExact]_vars

\* A mapping has the least whole number of pages, at least one, that holds its size.
RoundsUp ==
  last.call = "pages" =>
    /\ last.ret % Page = 0 /\ last.ret >= last.size /\ last.ret >= Page
    /\ \A n \in 1 .. MaxSize : n * Page >= last.size => last.ret <= n * Page
=============================================================================
