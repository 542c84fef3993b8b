------------------------------- MODULE R5Boot -------------------------------
(***************************************************************************)
(* Reset_Handler of the R5 core: the memory protection unit and the L1     *)
(* caches are set up by code in tightly coupled memory before any code in  *)
(* DDR runs, then the interrupt controller (VIM) is emptied, interrupts    *)
(* are unmasked and _start is entered.  The core is one record; each call  *)
(* Reset_Handler makes, and each turn of its loops, is one step.  Between  *)
(* two steps the core's own stores may leave dirty lines in an enabled     *)
(* data cache, and devices may raise interrupts.                           *)
(***************************************************************************)
EXTENDS Integers, Sequences, FiniteSets

CONSTANT Lines          \* number of interrupt lines of the VIM, 0 .. Lines - 1

VARIABLES pc,           \* the next call of Reset_Handler
          loop,         \* i of our_MpuP_init, loopCnt of Reset_Handler
          r5,           \* control bits and memory state of the core
          region,       \* the 16 region registers of the MPU
          vim,          \* enabled and pending interrupt lines
          early         \* an interrupt was taken before Intc_Init

vars == <<pc, loop, r5, region, vim, early>>

-----------------------------------------------------------------------------
(* The region table.  Addresses and sizes are in megabytes; a size is the  *)
(* exponent of two.                                                        *)

Row(base, log, c, b, s, xn) ==
  [base |-> base, log |-> log, on |-> TRUE, c |-> c, b |-> b, s |-> s, xn |-> xn]

gMpuRegionConfig ==
  << Row(0,    12, FALSE, TRUE,  FALSE, FALSE),   \* complete 32-bit space
     Row(1792, 3,  TRUE,  TRUE,  FALSE, FALSE),   \* MSRAM, 0x70000000
     Row(2048, 11, TRUE,  TRUE,  FALSE, FALSE),   \* DDR, 0x80000000
     Row(2592, 0,  FALSE, FALSE, TRUE,  FALSE),   \* rpmsg, 0xA2000000
     Row(2594, 1,  TRUE,  TRUE,  FALSE, FALSE),   \* text and data, 0xA2200000
     Row(2304, 4,  FALSE, FALSE, TRUE,  TRUE) >>  \* shared with Linux, 0x90000000

numRegions == Len(gMpuRegionConfig)
RegionIds  == 0..15
Unused     == [base |-> 0, log |-> 0, on |-> FALSE,
               c |-> FALSE, b |-> FALSE, s |-> FALSE, xn |-> FALSE]

\* Mutant: the mask of a region is twice its size.
MasksOneBitLong(log) == {2^(log + 1)}

\* The mask 1 << 32 that setRegion computes for the 4G region is undefined in
\* C: the shift may give 0 (the ARM instruction) or 1 (a shift modulo 32).
Masks(log) == IF log = 12 THEN {0, 1} ELSE {2^log}

Aligned(base, mask) == IF mask = 0 THEN 0 ELSE base - (base % mask)

Covers(g, a) == g.on /\ g.base <= a /\ a < g.base + 2^g.log

\* What the MPU applies to megabyte a: of the regions that cover it, the one
\* with the highest number.
Attributes(a) ==
  LET hits == {n \in RegionIds : Covers(region[n], a)}
      last == CHOOSE n \in hits : \A k \in hits : k <= n
  IN  IF hits = {} THEN Unused ELSE region[last]

-----------------------------------------------------------------------------
(* Caches.  dirty: some line of the data cache is newer than memory; lost: *)
(* such a line was discarded.                                              *)

L1 == {"L1P", "L1D"}

getEnabled(m) == (IF m.i THEN {"L1P"} ELSE {}) \cup (IF m.c THEN {"L1D"} ELSE {})

disableL1d(m) == [m EXCEPT !.c = FALSE, !.dirty = FALSE]
disableL1p(m) == [m EXCEPT !.i = FALSE]
enableL1d(m)  == [m EXCEPT !.c = TRUE, !.lost = @ \/ m.dirty, !.dirty = FALSE]
enableL1p(m)  == [m EXCEPT !.i = TRUE]

CacheDisable(m, type) ==
  LET which == type \cap getEnabled(m)
      d == IF "L1D" \in which THEN disableL1d(m) ELSE m
  IN  IF "L1P" \in which THEN disableL1p(d) ELSE d

\* Mutant: a cache that is on is enabled again.
CacheEnableBlindly(m, type) ==
  LET d == IF "L1D" \in type THEN enableL1d(m) ELSE m
  IN  IF "L1P" \in type THEN enableL1p(d) ELSE d

CacheEnable(m, type) ==
  LET which == type \ getEnabled(m)
      d == IF "L1D" \in which THEN enableL1d(m) ELSE m
  IN  IF "L1P" \in which THEN enableL1p(d) ELSE d

\* our_HwiP_disable returns the status word and our_HwiP_restore writes it back,
\* so that work done between them leaves the mask as it was.
HwiRestore(m, key) == [m EXCEPT !.irqMasked = key]

-----------------------------------------------------------------------------
(* The memory protection unit.                                             *)

MpuEnable(m) ==
  IF m.mpu THEN m
  ELSE LET key  == m.irqMasked
           type == getEnabled(m)
           quiet == CacheDisable([m EXCEPT !.irqMasked = TRUE], type \cap {"L1P"})
       IN  HwiRestore(CacheEnable([quiet EXCEPT !.mpu = TRUE], type), key)

MpuDisable(m) ==
  IF ~m.mpu THEN m
  ELSE LET key  == m.irqMasked
           type == getEnabled(m)
           quiet == CacheDisable([m EXCEPT !.irqMasked = TRUE], type)
       IN  HwiRestore(CacheEnable([quiet EXCEPT !.mpu = FALSE], type), key)

-----------------------------------------------------------------------------
(* Reset_Handler, call by call.                                            *)

Go(from, to) == pc = from /\ pc' = to

MaskInterrupts ==
  /\ Go("mask", "mpu")
  /\ r5' = [r5 EXCEPT !.irqMasked = TRUE, !.fiqMasked = TRUE]
  /\ UNCHANGED <<loop, region, vim, early>>

MpuInitBegin ==
  /\ Go("mpu", "regions")
  /\ r5' = [MpuDisable(r5) EXCEPT !.background = FALSE]
  /\ loop' = 0
  /\ UNCHANGED <<region, vim, early>>

SetRegion ==
  /\ pc = "regions" /\ loop < numRegions
  /\ LET row == gMpuRegionConfig[loop + 1]
         off == MpuDisable(r5)
     IN  /\ \E mask \in Masks(row.log) :
              region' = [region EXCEPT ![loop] =
                           [row EXCEPT !.base = Aligned(row.base, mask)]]
         /\ r5' = IF r5.mpu THEN MpuEnable(off) ELSE off
  /\ loop' = loop + 1
  /\ UNCHANGED <<pc, vim, early>>

MpuInitEnd ==
  /\ Go("regions", "caches") /\ loop = numRegions
  /\ r5' = MpuEnable([r5 EXCEPT !.background = TRUE])
  /\ UNCHANGED <<loop, region, vim, early>>

CacheInit ==
  /\ Go("caches", "vim")
  /\ r5' = CacheEnable([CacheDisable(r5, L1) EXCEPT !.writeThrough = FALSE], L1)
  /\ loop' = 0
  /\ UNCHANGED <<region, vim, early>>

ClearLine ==
  /\ pc = "vim" /\ loop < Lines
  /\ vim' = [enabled |-> vim.enabled \ {loop}, pending |-> vim.pending \ {loop}]
  /\ loop' = loop + 1
  /\ UNCHANGED <<pc, r5, region, early>>

UnmaskInterrupts ==
  /\ Go("vim", "intc") /\ loop = Lines
  /\ r5' = [r5 EXCEPT !.irqMasked = FALSE, !.fiqMasked = FALSE]
  /\ UNCHANGED <<loop, region, vim, early>>

\* From here the vectors of the interrupt controller are known, and _start runs
\* the firmware, which enables the lines it has registered.
IntcInit ==
  /\ Go("intc", "start")
  /\ UNCHANGED <<loop, r5, region, vim, early>>

-----------------------------------------------------------------------------
(* What goes on besides.                                                   *)

Store ==
  /\ r5.c /\ ~r5.writeThrough /\ ~r5.dirty
  /\ r5' = [r5 EXCEPT !.dirty = TRUE]
  /\ UNCHANGED <<pc, loop, region, vim, early>>

RaiseIrq ==
  /\ \E n \in (0 .. Lines - 1) \ vim.pending : vim' = [vim EXCEPT !.pending = @ \cup {n}]
  /\ UNCHANGED <<pc, loop, r5, region, early>>

EnableLine ==
  /\ pc = "start"
  /\ \E n \in (0 .. Lines - 1) \ vim.enabled : vim' = [vim EXCEPT !.enabled = @ \cup {n}]
  /\ UNCHANGED <<pc, loop, r5, region, early>>

TakeIrq ==
  /\ ~r5.irqMasked
  /\ \E n \in vim.enabled \cap vim.pending : vim' = [vim EXCEPT !.pending = @ \ {n}]
  /\ early' = (early \/ pc \notin {"start", "mask"})
  /\ UNCHANGED <<pc, loop, r5, region>>

\* A jump to address 0, where the vectors are, enters Reset_Handler with the core
\* as it is; our_MpuP_init and our_CacheP_init test for this state.
EnterAgain ==
  /\ Go("start", "mask")
  /\ UNCHANGED <<loop, r5, region, vim, early>>

-----------------------------------------------------------------------------
BootStep == \/ MaskInterrupts \/ MpuInitBegin \/ SetRegion \/ MpuInitEnd
            \/ CacheInit \/ ClearLine \/ UnmaskInterrupts \/ IntcInit

Next == BootStep \/ Store \/ RaiseIrq \/ EnableLine \/ TakeIrq \/ EnterAgain

\* The reset state: everything off, no region enabled, interrupts masked; what
\* was pending at the interrupt controller is unknown.
Init ==
  /\ pc = "mask" /\ loop = 0 /\ early = FALSE
  /\ r5 = [mpu |-> FALSE, background |-> FALSE, c |-> FALSE, i |-> FALSE,
           writeThrough |-> FALSE, dirty |-> FALSE, lost |-> FALSE,
           irqMasked |-> TRUE, fiqMasked |-> TRUE]
  /\ region = [n \in RegionIds |-> Unused]
  /\ vim \in [enabled : SUBSET (0 .. Lines - 1), pending : SUBSET (0 .. Lines - 1)]

Spec == Init /\ [][Next]_vars

-----------------------------------------------------------------------------
TypeOK ==
  /\ pc \in {"mask", "mpu", "regions", "caches", "vim", "intc", "start"}
  /\ loop \in 0 .. (IF numRegions > Lines THEN numRegions ELSE Lines)
  /\ r5 \in [mpu : BOOLEAN, background : BOOLEAN, c : BOOLEAN, i : BOOLEAN,
             writeThrough : BOOLEAN, dirty : BOOLEAN, lost : BOOLEAN,
             irqMasked : BOOLEAN, fiqMasked : BOOLEAN]
  /\ \A n \in RegionIds : region[n].base \in 0..4095 /\ region[n].log \in 0..12
  /\ vim \in [enabled : SUBSET (0 .. Lines - 1), pending : SUBSET (0 .. Lines - 1)]
  /\ early \in BOOLEAN

\* No line of the data cache that is newer than memory is ever discarded, though
\* enabling that cache invalidates all of it: our_CacheP_enable leaves alone what
\* is on, and our_CacheP_disable writes everything back.
NothingLost == ~r5.lost

\* No interrupt is taken between the mask at the start of Reset_Handler and the
\* return of Intc_Init, although IRQ and FIQ are unmasked before that call:
\* masks are put back as they were, and no line is left enabled in the VIM.
NoEarlyInterrupt == ~early

\* Whenever code in DDR may run (from the first call out of tightly coupled
\* memory on), both caches and the MPU are on, and it gives each part of the link map what its use
\* needs: vrings and memory shared with Linux uncached, registers uncached,
\* text executable, data and stacks cached.
MemoryAsLinked ==
  pc \in {"vim", "intc", "start"} =>
    /\ getEnabled(r5) = L1 /\ r5.mpu /\ r5.background
    /\ \A a \in {2592} \cup 2304..2319 : ~Attributes(a).c /\ Attributes(a).s
    /\ \A a \in {0, 656, 1791} : ~Attributes(a).c
    /\ ~Attributes(2594).xn /\ ~Attributes(0).xn
    /\ \A a \in 2593..2607 : Attributes(a).c
=============================================================================
