------------------------- MODULE Relocation -------------------------
(* Dobby's assembler with its labels, and GenRelocateCodeAndBranch: the    *)
(* code that does at another address what the displaced instructions of a  *)
(* function did at theirs.                                                 *)
(*                                                                         *)
(* An assembler is the words written so far, the places that wait for a    *)
(* label and the labels of the data at the end.  The code buffer grows on  *)
(* demand and keeps its content, so it is a sequence.  A piece of emitting *)
(* code is the sequence of the assembler calls it makes.                   *)
EXTENDS Arm64

(* PseudoLabels are numbered; 0 and -1 are local labels of an emitter, 1, *)
(* 2, ... the RelocLabelEntries in the order they are appended.           *)
Labels == -1..8

NewAssembler ==
  [code |-> <<>>, links |-> [l \in Labels |-> <<>>], pos |-> [l \in Labels |-> 0],
   data |-> <<>>, aborted |-> FALSE]

Size(a) == 4 * Len(a.code)

(* pos is 0 for a label that is not bound, and -(position) - 1 once it is. *)
IsBound(a, l) == a.pos[l] < 0
PosOf(a, l) == -a.pos[l] - 1

Emit(a, i) == [a EXCEPT !.code = Append(@, i)]

EmitInt64(a, v) == [a EXCEPT !.code = @ \o DataWords(v)]

LdrLiteral(rt, field) == [op |-> "ldrlit", opc |-> 1, simd |-> 0, rt |-> rt, imm |-> field]

(* Ldr: an unbound label remembers where it was used.  (For a bound one the *)
(* byte offset goes into the field unscaled; no caller has a bound label.)  *)
Ldr(a, rt, l) ==
  IF IsBound(a, l)
  THEN Emit(a, LdrLiteral(rt, (PosOf(a, l) - Size(a)) % (2 ^ ImmBits)))
  ELSE Emit([a EXCEPT !.links[l] = Append(@, Size(a))], LdrLiteral(rt, 0))

(* link_confused_instructions: the field of every ldr that waits for l. *)
Linked(a, l) ==
  [a EXCEPT !.code = [k \in DOMAIN @ |->
     IF \E j \in DOMAIN a.links[l] : a.links[l][j] = 4 * (k - 1)
     THEN [@[k] EXCEPT !.imm = Field(PosOf(a, l) - 4 * (k - 1))] ELSE @[k]]]

PseudoBind(a, l) == Linked([a EXCEPT !.pos[l] = -Size(a) - 1], l)

RelocBind(a) ==
  FoldLeft(LAMBDA b, l : EmitInt64(PseudoBind(b, l), a.data[l]), a, [l \in DOMAIN a.data |-> l])

(* One call of the assembler. *)
AsmCall(a, c) ==
  CASE c.fn = "Emit"       -> Emit(a, c.i)
    [] c.fn = "EmitInt64"  -> EmitInt64(a, c.v)
    [] c.fn = "Ldr"        -> Ldr(a, c.rt, c.l)
    [] c.fn = "PseudoBind" -> PseudoBind(a, c.l)
    [] c.fn = "AppendRelocLabelEntry" -> [a EXCEPT !.data = Append(@, c.v)]
    [] c.fn = "UNIMPLEMENTED" -> [a EXCEPT !.aborted = TRUE]

Assemble(a, calls) == FoldLeft(AsmCall, a, calls)

-----------------------------------------------------------------------------
(* The assembler calls by name. *)
_Emit(i) == [fn |-> "Emit", i |-> i]
_EmitInt64(v) == [fn |-> "EmitInt64", v |-> v]
_Ldr(rt, l) == [fn |-> "Ldr", rt |-> rt, l |-> l]
_PseudoBind(l) == [fn |-> "PseudoBind", l |-> l]
_Append(v) == [fn |-> "AppendRelocLabelEntry", v |-> v]

ldr(rt, rn, off) == _Emit([op |-> "ldr", rt |-> rt, rn |-> rn, off |-> off])
str(rt, rn, off) == _Emit([op |-> "str", rt |-> rt, rn |-> rn, off |-> off])
add(rd, rn, off) == _Emit([op |-> "add", rd |-> rd, rn |-> rn, off |-> off])
sub(rd, rn, off) == add(rd, rn, -off)
br(rn) == _Emit([op |-> "br", rn |-> rn])
blr(rn) == _Emit([op |-> "blr", rn |-> rn])

(* Mov: the four halves of a 64-bit value. *)
Mov(rd, v) ==
  [k \in 1..4 |-> _Emit([op |-> IF k = 1 THEN "movz" ELSE "movk", rd |-> rd,
                         v |-> (v \div (Half ^ (k - 1))) % Half, sh |-> k - 1])]

LiteralLdrBranch(address) ==
  <<_Ldr(TMP, 0), br(TMP), _PseudoBind(0), _EmitInt64(address)>>

-----------------------------------------------------------------------------
(* A conditional branch becomes its inverse over the three instructions *)
(* branch, ldr and br.                                                  *)
SkipField == Field(4 * 3)

BugInvertBranch(i) ==         \* mutant: the condition is kept
  [i EXCEPT !.imm = SkipField]

InvertBranch(i) ==
  IF i.op = "bcond"
  THEN [i EXCEPT !.cond = IF @ % 2 = 0 THEN @ + 1 ELSE @ - 1, !.imm = SkipField]
  ELSE [i EXCEPT !.neg = 1 - @, !.imm = SkipField]

(* What replaces the instruction i at pc; l is the label the next          *)
(* RelocLabelEntry gets.  Loads of w and x registers are both emitted as   *)
(* OP_X(LDR) (assembler-arm64.h:472).  The mask that recognises a literal  *)
(* load leaves the bit of the SIMD registers out, so those of 32 and 64    *)
(* bits (opc 00 and 01) become loads of the x register with their number;  *)
(* opc 10 and 11 (ldrsw, prfm, ldr q) end the process.                     *)
RelocateInstr(i, pc, l) ==
  CASE i.op = "ldrlit" ->
         IF i.opc \in {0, 1} THEN Mov(TMP, pc + Distance(i)) \o <<ldr(i.rt, TMP, 0)>>
         ELSE <<[fn |-> "UNIMPLEMENTED"]>>
    [] i.op = "adr"  -> Mov(i.rd, (pc + Distance(i)) % LongMod)
    [] i.op = "adrp" -> Mov(i.rd, (PageOf(pc) + PageBytes * SignExtend(i.imm, ImmBits)) % LongMod)
    [] i.op = "b"    -> <<_Append(pc + Distance(i)), _Ldr(TMP, l), br(TMP)>>
    [] i.op = "bl"   -> <<_Append(pc + Distance(i)), _Ldr(TMP, l), blr(TMP)>>
    [] i.op \in {"tbz", "cbz", "bcond"} ->
         <<_Append(pc + Distance(i)), _Emit(InvertBranch(i)), _Ldr(TMP, l), br(TMP)>>
    [] OTHER         -> <<_Emit(i)>>

(* The relocated copy of the instructions of origin, which start at pc: the *)
(* copies, the branch to the rest of the function, and the literals.        *)
GenRelocateCodeAndBranch(origin, pc) ==
  LET copied == FoldLeft(LAMBDA a, k : Assemble(a,
                    RelocateInstr(origin[k], pc + 4 * (k - 1), Len(a.data) + 1)),
                  NewAssembler, [k \in DOMAIN origin |-> k])
  IN  RelocBind(Assemble(copied, LiteralLdrBranch(pc + 4 * Len(origin))))
=============================================================================
