------------------------ MODULE MCInstrument ------------------------
(* Two instrumented addresses, one displaced word (near branch) or three. *)
EXTENDS Instrument

CONSTANTS t1, t2

AtMC == (t1 :> 1024) @@ (t2 :> 1536)
RelocAtMC == (t1 :> 8192) @@ (t2 :> 9216)
TrampAtMC == (t1 :> 12288) @@ (t2 :> 12544)
EntryAtMC == (t1 :> 60000) @@ (t2 :> 60016)
Literal == 1304                 \* data the displaced code loads
CalleeMC == 1312

Jump(o, pc, to) == [op |-> o, imm |-> Field(to - pc)]
LiteralLoad(pc, c, v) == Jump("ldrlit", pc, Literal) @@ [opc |-> c, simd |-> v, rt |-> 5]
Cmp == [op |-> "cmp", rn |-> 3]
Cond(pc, c, to) == Jump("bcond", pc, to) @@ [cond |-> c]
Cbz(pc, n, to) == Jump("cbz", pc, to) @@ [neg |-> n, rt |-> 3]
Tbz(pc, n, to) == Jump("tbz", pc, to) @@ [neg |-> n, rt |-> 4, bit |-> 1]
Push == [op |-> "add", rd |-> SP, rn |-> SP, off |-> -16]
Spill == [op |-> "str", rt |-> LR, rn |-> SP, off |-> 8]

(* What may stand at pc, with branches back (to 900) and forth (to 1248). *)
Anything(pc) ==
  {Cmp, Cbz(pc, 0, 900), Cbz(pc, 1, 1248), Tbz(pc, 0, 900), Tbz(pc, 1, 1248),
   Jump("b", pc, 900), Jump("bl", pc, CalleeMC), Jump("adr", pc, 900) @@ [rd |-> 7],
   [op |-> "adrp", rd |-> 6, imm |-> Field(-12)], LiteralLoad(pc, 1, 0), LiteralLoad(pc, 2, 0)}

(* Programs that store only to a frame of their own: one word (near branch) *)
(* or three (adrp, add, br).                                               *)
Displaced ==
  {p \in {<<i>> : i \in Anything(1024)}
        \cup {<<i, j, k>> : i \in {Cmp, Push},
              j \in {Cond(1028, 0, 900), Cond(1028, 1, 1248), Cbz(1028, 1, 1248),
                     Jump("bl", 1028, CalleeMC), LiteralLoad(1028, 1, 0)},
              k \in {Tbz(1032, 0, 900), Jump("b", 1032, 1024), Spill}} :
     Relocatable(p, 1024) /\ (p[1] # Push => Spill \notin Range(p))}

ProgramsMC ==
  {(t1 :> p) @@ (t2 :> <<Push, Spill, Jump("bl", 1544, CalleeMC)>>) : p \in Displaced}

(* Literal loads the relocation accepts besides those of x registers: into *)
(* w5, and into d6.                                                        *)
ProgramsLiteral ==
  {(t1 :> <<LiteralLoad(1024, 0, 0), [LiteralLoad(1028, 1, 1) EXCEPT !.rt = 6], Cmp>>)
     @@ (t2 :> <<Push>>)}

(* All registers differ; x3 and x4 decide the branches. *)
State(v) ==
  [x |-> [r \in 0..31 |-> IF r = SP THEN 40000 ELSE IF r = LR THEN 1000
                          ELSE IF r = 3 THEN v ELSE IF r = 4 THEN 2 * v ELSE 300 + r],
   q |-> [r \in 0..31 |-> <<500 + r, 600 + r>>], z |-> 1, pc |-> 0,
   mem |-> (Literal :> 4660) @@ (40000 :> 77) @@ (40008 :> 78), calls |-> <<>>]
MachinesMC == {State(0), State(1)}
WritesMC == {<<CtxX(3), 1>>, <<CtxQ(7), 9>>}
=============================================================================
