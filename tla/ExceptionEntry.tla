--------------------------- MODULE ExceptionEntry ---------------------------
(***************************************************************************)
(* The exception vectors of the R5: hand-written instruction sequences     *)
(* that save the interrupted context, call a C handler and go back.  Each  *)
(* sequence is a program; one step executes one instruction.  A value is   *)
(* known by where it came from: User(r) is what the interrupted code had   *)
(* in register r, Code(n) the address n bytes after the instruction that   *)
(* was interrupted.  d0-d15 are two words here.                            *)
(***************************************************************************)
EXTENDS Integers, Sequences, SequencesExt

CONSTANT Handlers       \* the exceptions that are taken, some of Vectors

Vectors == {"masterIsr", "Undef", "SVC", "PAbt", "DAbt", "IRQ", "FIQ"}

VARIABLES handler,      \* the exception served now, or the last one
          thumb,        \* T bit of the interrupted code
          at,           \* next instruction of the handler, 0 when it has returned
          regs,         \* registers, the link register and the FP state
          spsr,         \* saved status of the interrupted code
          stack,        \* words pushed since the exception, last on top
          odd,          \* 1 when the stack was only 4-byte aligned on entry
          open          \* the C handler left interrupts unmasked

vars == <<handler, thumb, at, regs, spsr, stack, odd, open>>

-----------------------------------------------------------------------------
(* Programs.                                                               *)

Push(r)  == [op |-> "push",  list |-> r]
Pop(r)   == [op |-> "pop",   list |-> r]
Adjust   == [op |-> "adjust"]           \* SUB lr, lr, #4
AdjustIfThumb == [op |-> "adjustT"]     \* tests T in r0, r1; SUB lr, lr, #2
ReadSpsr == [op |-> "mrs"]              \* MRS lr, SPSR
WriteSpsr == [op |-> "msr"]             \* MSR SPSR_cxsf, lr
Call     == [op |-> "call"]             \* LDR r1, =wrapper; BLX r1
Align    == [op |-> "align"]            \* r2 = sp & 4; sp -= r2
Unalign  == [op |-> "unalign"]          \* sp += r2
MaskIrq  == [op |-> "cpsid"]
ReadFpscr == [op |-> "fmrx"]
WriteFpscr == [op |-> "vmsr"]
Return   == [op |-> "movs"]

Used  == <<"r0", "r1", "r2", "r3", "r4", "r12">>
Doubles == <<"d0_7", "d8_15">>
Lr == <<"lr">>

masterIsr ==
  << Adjust, Push(Lr), ReadSpsr, Push(Lr), Push(Used),
     ReadFpscr, Push(Doubles), Push(<<"r0">>),
     Align, Push(<<"r0", "r1", "r2", "r3", "r4", "lr">>), Call,
     Pop(<<"r0", "r1", "r2", "r3", "r4", "lr">>), Unalign, MaskIrq,
     Pop(<<"r0">>), Pop(Doubles), WriteFpscr,
     Pop(Used), Pop(Lr), WriteSpsr, Pop(Lr), Return >>

Undef_Handler ==
  << Push(Used), Adjust, Push(Lr), ReadSpsr, Push(Lr), Call,
     Pop(Lr), WriteSpsr, Pop(Lr), Pop(Used), Return >>

SVC_Handler == Undef_Handler

PAbt_Handler ==
  << Push(Used), Adjust, Push(Lr), ReadSpsr, Push(Lr), Call,
     Pop(Lr), WriteSpsr, Pop(Lr), Pop(Used), Return >>

DAbt_Handler ==
  << AdjustIfThumb, Adjust, Push(Used), Push(Lr), ReadSpsr, Push(Lr), Call,
     Pop(Lr), WriteSpsr, Pop(Lr), Pop(Used), Return >>

IRQ_Handler ==
  << Push(Used), Adjust, Push(Lr), ReadSpsr, Push(Lr), Call,
     Pop(Lr), WriteSpsr, Pop(Lr), Pop(Used), Return >>

FIQ_Handler == IRQ_Handler

Program == [masterIsr |-> masterIsr, Undef |-> Undef_Handler, SVC |-> SVC_Handler,
            PAbt |-> PAbt_Handler, DAbt |-> DAbt_Handler, IRQ |-> IRQ_Handler,
            FIQ |-> FIQ_Handler]

-----------------------------------------------------------------------------
(* The processor.                                                          *)

CoreRegs == {"r0", "r1", "r2", "r3", "r4", "r12"}
FpRegs   == {"d0_7", "d8_15", "fpscr"}
AllRegs  == CoreRegs \cup FpRegs \cup {"lr"}

User(r) == [from |-> r,      n |-> 0]
Code(n) == [from |-> "code", n |-> n]
Pad(n)  == [from |-> "pad",  n |-> n]
Status  == [from |-> "cpsr", n |-> 0]
Junk    == [from |-> "junk", n |-> 0]

Values == {User(r) : r \in CoreRegs \cup FpRegs} \cup {Code(n) : n \in 0..8}
            \cup {Pad(0), Pad(1), Status, Junk}

\* The link register the processor sets, and where each handler goes back to: the
\* interrupted instruction, except that a data abort is not tried again.
LinkOnEntry(h) == IF h = "DAbt" THEN 8 ELSE 4
ResumesAt == IF handler # "DAbt" THEN 0 ELSE IF thumb THEN 2 ELSE 4

Aligned == (Len(stack) + odd) % 2 = 0

\* The firmware is built for ARM state; only DAbt_Handler looks at the T bit.
Take ==
  /\ at = 0 /\ at' = 1
  /\ handler' \in Handlers
  /\ thumb' \in (IF handler' = "DAbt" THEN BOOLEAN ELSE {FALSE})
  /\ odd' \in {0, 1}
  /\ regs' = [r \in AllRegs |-> IF r = "lr" THEN Code(LinkOnEntry(handler')) ELSE User(r)]
  /\ spsr' = Status /\ stack' = <<>> /\ open' = FALSE

Is(op) == at > 0 /\ Program[handler][at].op = op
Goes   == at' = at + 1 /\ UNCHANGED <<handler, thumb, odd>>
List   == Program[handler][at].list

\* The register named first is stored at the lowest address, on top.
ExecPush ==
  /\ Is("push") /\ Goes
  /\ stack' = stack \o Reverse([i \in 1..Len(List) |-> regs[List[i]]])
  /\ UNCHANGED <<regs, spsr, open>>

ExecPop ==
  /\ Is("pop") /\ Goes
  /\ LET top(i) == IF i <= Len(stack) THEN stack[Len(stack) + 1 - i] ELSE Junk
         place(r) == CHOOSE i \in DOMAIN List : List[i] = r
     IN  regs' = [r \in AllRegs |-> IF r \in ToSet(List) THEN top(place(r)) ELSE regs[r]]
  /\ stack' = SubSeq(stack, 1, Len(stack) - Len(List))
  /\ UNCHANGED <<spsr, open>>

ExecAdjust ==
  /\ Is("adjust") /\ Goes
  /\ regs' = [regs EXCEPT !["lr"].n = @ - 4]
  /\ UNCHANGED <<spsr, stack, open>>

ExecAdjustIfThumb ==
  /\ Is("adjustT") /\ Goes
  /\ regs' = [regs EXCEPT !["r0"] = spsr, !["r1"] = Junk,
                          !["lr"].n = IF thumb THEN @ - 2 ELSE @]
  /\ UNCHANGED <<spsr, stack, open>>

ExecReadSpsr ==
  /\ Is("mrs") /\ Goes
  /\ regs' = [regs EXCEPT !["lr"] = spsr]
  /\ UNCHANGED <<spsr, stack, open>>

ExecWriteSpsr ==
  /\ Is("msr") /\ Goes
  /\ spsr' = regs["lr"]
  /\ UNCHANGED <<regs, stack, open>>

\* A C function keeps r4 and d8-d15 and may change everything else; that of the
\* interrupt controller may unmask interrupts, and so be interrupted itself.
ExecCall ==
  /\ Is("call") /\ Goes
  /\ \E usesFp \in BOOLEAN : regs' = [r \in AllRegs |->
       IF r \in {"r4", "d8_15"} \/ (r \in FpRegs /\ ~usesFp) THEN regs[r] ELSE Junk]
  /\ open' \in (IF handler = "masterIsr" THEN BOOLEAN ELSE {FALSE})
  /\ spsr' = IF open' THEN Junk ELSE spsr
  /\ UNCHANGED stack

ExecAlign ==
  /\ Is("align") /\ Goes
  /\ regs' = [regs EXCEPT !["r2"] = Pad(IF Aligned THEN 0 ELSE 1)]
  /\ stack' = IF Aligned THEN stack ELSE Append(stack, Junk)
  /\ UNCHANGED <<spsr, open>>

\* With anything but the padding in r2 the stack is lost.
ExecUnalign ==
  /\ Is("unalign") /\ Goes
  /\ stack' = IF regs["r2"].from = "pad"
              THEN SubSeq(stack, 1, Len(stack) - regs["r2"].n) ELSE <<>>
  /\ UNCHANGED <<regs, spsr, open>>

\* Mutant: interrupts stay unmasked.
ExecMaskIrqNot ==
  /\ Is("cpsid") /\ Goes
  /\ UNCHANGED <<regs, spsr, stack, open>>

ExecMaskIrq ==
  /\ Is("cpsid") /\ Goes
  /\ open' = FALSE
  /\ UNCHANGED <<regs, spsr, stack>>

ExecReadFpscr ==
  /\ Is("fmrx") /\ Goes
  /\ regs' = [regs EXCEPT !["r0"] = regs["fpscr"]]
  /\ UNCHANGED <<spsr, stack, open>>

ExecWriteFpscr ==
  /\ Is("vmsr") /\ Goes
  /\ regs' = [regs EXCEPT !["fpscr"] = regs["r0"]]
  /\ UNCHANGED <<spsr, stack, open>>

ExecReturn ==
  /\ Is("movs") /\ at' = 0
  /\ open' = FALSE
  /\ UNCHANGED <<handler, thumb, regs, spsr, stack, odd>>

\* Another interrupt in between, while they are unmasked: the processor writes the
\* link register and the saved status, the rest masterIsr itself puts back.
Nested ==
  /\ at > 0 /\ open
  /\ regs' = [regs EXCEPT !["lr"] = Junk]
  /\ spsr' = Junk
  /\ UNCHANGED <<handler, thumb, at, stack, odd, open>>

Next == \/ Take \/ Nested \/ ExecPush \/ ExecPop \/ ExecAdjust \/ ExecAdjustIfThumb
        \/ ExecReadSpsr \/ ExecWriteSpsr \/ ExecCall \/ ExecAlign \/ ExecUnalign
        \/ ExecMaskIrq \/ ExecReadFpscr \/ ExecWriteFpscr \/ ExecReturn

Init ==
  /\ handler \in Handlers /\ thumb = FALSE /\ at = 0 /\ odd = 0
  /\ regs = [r \in AllRegs |-> IF r = "lr" THEN Code(ResumesAt) ELSE User(r)]
  /\ spsr = Status /\ stack = <<>> /\ open = FALSE

Spec == Init /\ [][Next]_vars

-----------------------------------------------------------------------------
TypeOK ==
  /\ handler \in Handlers /\ thumb \in BOOLEAN /\ open \in BOOLEAN
  /\ at \in 0 .. Len(Program[handler]) /\ odd \in {0, 1}
  /\ regs \in [AllRegs -> Values] /\ spsr \in Values
  /\ stack \in Seq(Values) /\ Len(stack) <= 18

\* DAbt_Handler works in r0 and r1 before it saves them; masterIsr alone keeps the
\* floating-point state.
Kept == (IF handler = "DAbt" THEN CoreRegs \ {"r0", "r1"} ELSE CoreRegs)
          \cup (IF handler = "masterIsr" THEN FpRegs ELSE {})

\* Every handler gives the interrupted code its registers back, leaves its stack
\* as it was and goes on in the interrupted mode at the interrupted instruction,
\* after a data abort at the next one, also when an interrupt that masterIsr_c let
\* in has overwritten the link register and the saved status.
ContextRestored ==
  at = 0 => /\ \A r \in Kept : regs[r] = User(r)
            /\ stack = <<>> /\ spsr = Status /\ regs["lr"] = Code(ResumesAt)

\* masterIsr calls C with a stack on an 8-byte boundary wherever it was; the others
\* do so when they are entered with one.
AlignedAtCall == Is("call") /\ (handler = "masterIsr" \/ odd = 0) => Aligned
=============================================================================
