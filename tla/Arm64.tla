---------------------------- MODULE Arm64 ----------------------------
(* The ARM64 processor that runs the code Dobby generates: registers, the  *)
(* few instructions the library emits or moves, and how each one changes   *)
(* the state.  None of it is code of the repository: it is the meaning of  *)
(* the instructions that the assembler of the repository encodes.          *)
(*                                                                         *)
(* Sizes are scaled: the 16-bit halves of movz and movk have HalfBits      *)
(* bits, so a "64-bit" value has 4*HalfBits bits and a "32-bit" one half   *)
(* of them; the immediate fields have ImmBits bits and the page of adrp    *)
(* PageBytes bytes.  Addresses count bytes, an instruction takes four.     *)
EXTENDS Integers, Sequences, SequencesExt, FiniteSets

CONSTANTS
  HalfBits,     \* bits of a half
  ImmBits,      \* bits of a pc-relative immediate field
  PageBytes     \* bytes of a page

ASSUME ScaleAssumption ==
  /\ HalfBits \in Nat \ {0}
  /\ ImmBits \in Nat \ {0}
  /\ PageBytes \in Nat \ {0} /\ PageBytes % 4 = 0

SP == 31                    \* the stack pointer, beside x0..x30
LR == 30                    \* the link register
TMP == 17                   \* TMP_REG_0, the register the library takes

Half == 2 ^ HalfBits
WordMod == Half * Half      \* one more than the largest 32-bit value
LongMod == WordMod * WordMod

(* Two's complement reading of an M-bit field. *)
SignExtend(v, M) == IF v >= 2 ^ (M - 1) THEN v - 2 ^ M ELSE v

(* The immediate field for a distance of off bytes. *)
Field(off) == (off \div 4) % (2 ^ ImmBits)

(* The distance in bytes that a pc-relative field stands for. *)
Distance(i) == 4 * SignExtend(i.imm, ImmBits)

PageOf(a) == a - (a % PageBytes)

(* The value that a read outside everything the model knows returns. *)
Garbage == LongMod - 1

(* A literal is emitted as two words, the low half first. *)
DataWords(v) == << [op |-> "data", half |-> 0, v |-> v],
                   [op |-> "data", half |-> 1, v |-> v] >>

-----------------------------------------------------------------------------
(* A processor state: x0..x30 and sp, q0..q31 (pairs of 64-bit halves), the *)
(* Z flag, pc, the 64-bit words of memory that are not code, and the calls  *)
(* made so far with the argument each one passed.  "callee" stands for a    *)
(* whole function that is called and returns.                               *)

(* The 64-bit word at a, in memory or in the literals of the code. *)
Load(s, code, a) ==
  IF a \in DOMAIN s.mem THEN s.mem[a]
  ELSE IF /\ {a, a + 4} \subseteq DOMAIN code
          /\ code[a].op = "data" /\ code[a].half = 0
          /\ code[a + 4].op = "data" /\ code[a + 4].half = 1
          /\ code[a].v = code[a + 4].v
       THEN code[a].v
       ELSE Garbage

(* Writes the 64-bit words vs from a upwards. *)
Store(s, a, vs) == [s EXCEPT !.mem = [b \in {a + 8 * k : k \in 0..(Len(vs) - 1)} |->
                                        vs[((b - a) \div 8) + 1]] @@ @]

(* What a C function may leave in the registers it need not preserve. *)
Clobbered(s, junk) ==
  [s EXCEPT !.x = [r \in 0..31 |-> IF r \in 0..18 THEN junk ELSE @[r]],
            !.q = [r \in 0..31 |-> IF r \in 8..15 THEN <<@[r][1], junk>> ELSE <<junk, junk>>],
            !.z = junk % 2]

(* Whether the branch i is taken in s.  Of the conditions there are eq, ne *)
(* and the two that always hold, al and nv.                                *)
Taken(s, i) ==
  CASE i.op = "bcond" -> i.cond \in {14, 15} \/ (i.cond = 0) = (s.z = 1)
    [] i.op = "cbz"   -> (i.neg = 0) = (s.x[i.rt] = 0)
    [] i.op = "tbz"   -> (i.neg = 0) = ((s.x[i.rt] \div (2 ^ i.bit)) % 2 = 0)

(* One step of the instruction i at s.pc. *)
Execute(s, code, i) ==
  LET n == [s EXCEPT !.pc = @ + 4]
      base == IF "rn" \in DOMAIN i THEN s.x[i.rn] ELSE 0
      moved(t) == IF i.post THEN [t EXCEPT !.x[i.rn] = @ + i.off] ELSE t
      at == IF "post" \in DOMAIN i /\ i.post THEN base ELSE base + i.off
  IN
  CASE i.op = "nop"  -> n
    [] i.op = "add"  -> [n EXCEPT !.x[i.rd] = (base + i.off) % LongMod]
    [] i.op = "cmp"  -> [n EXCEPT !.z = IF base = 0 THEN 1 ELSE 0]
    [] i.op = "movz" -> [n EXCEPT !.x[i.rd] = i.v * (Half ^ i.sh)]
    [] i.op = "movk" -> [n EXCEPT !.x[i.rd] =
          (@ - (((@ \div (Half ^ i.sh)) % Half) * (Half ^ i.sh))) + i.v * (Half ^ i.sh)]
    [] i.op = "adr"  -> [n EXCEPT !.x[i.rd] = (s.pc + Distance(i)) % LongMod]
    [] i.op = "adrp" -> [n EXCEPT !.x[i.rd] =
          (PageOf(s.pc) + PageBytes * SignExtend(i.imm, ImmBits)) % LongMod]
    [] i.op = "ldrlit" ->
          LET v == Load(s, code, s.pc + Distance(i)) % (IF i.opc = 0 THEN WordMod ELSE LongMod)
          IN  IF i.simd = 1 THEN [n EXCEPT !.q[i.rt] = <<v, 0>>] ELSE [n EXCEPT !.x[i.rt] = v]
    [] i.op = "ldr"  -> [n EXCEPT !.x[i.rt] = Load(s, code, at)]
    [] i.op = "str"  -> Store(n, at, <<s.x[i.rt]>>)
    [] i.op = "stp"  -> Store(n, at, <<s.x[i.rt], s.x[i.rt2]>>)
    [] i.op = "ldp"  -> moved([n EXCEPT !.x[i.rt] = Load(s, code, at),
                                        !.x[i.rt2] = Load(s, code, at + 8)])
    [] i.op = "stpq" -> Store(n, at, s.q[i.rt] \o s.q[i.rt2])
    [] i.op = "ldpq" -> moved([n EXCEPT
          !.q[i.rt]  = <<Load(s, code, at), Load(s, code, at + 8)>>,
          !.q[i.rt2] = <<Load(s, code, at + 16), Load(s, code, at + 24)>>])
    [] i.op = "b"    -> [s EXCEPT !.pc = @ + Distance(i)]
    [] i.op = "bl"   -> [s EXCEPT !.pc = @ + Distance(i), !.x[LR] = s.pc + 4]
    [] i.op = "br"   -> [s EXCEPT !.pc = base]
    [] i.op = "blr"  -> [s EXCEPT !.pc = base, !.x[LR] = s.pc + 4]
    [] i.op = "callee" -> [Clobbered(s, i.v) EXCEPT !.calls = Append(@, s.x[0]), !.pc = s.x[LR]]
    [] i.op = "ret"  -> [s EXCEPT !.pc = s.x[LR]]
    [] i.op \in {"bcond", "cbz", "tbz"} ->
          IF Taken(s, i) THEN [s EXCEPT !.pc = @ + Distance(i)] ELSE n

(* Executes the code from s until pc leaves it, at most fuel instructions. *)
(* A data word that is reached as an instruction faults: pc becomes -1.    *)
(* (The set with one element makes TLC evaluate the state once.)           *)
RECURSIVE Run(_, _, _)
Run(s, code, fuel) ==
  IF fuel = 0 \/ s.pc \notin DOMAIN code THEN s
  ELSE IF code[s.pc].op = "data" THEN [s EXCEPT !.pc = -1]
  ELSE CHOOSE r \in {Run(t, code, fuel - 1) : t \in {Execute(s, code, code[s.pc])}} : TRUE

(* The words seq placed at address a. *)
Placed(seq, a) == [b \in {a + 4 * (k - 1) : k \in 1..Len(seq)} |-> seq[((b - a) \div 4) + 1]]
=============================================================================
