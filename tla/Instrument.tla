------------------------- MODULE Instrument -------------------------
(* DobbyInstrument at work: the relocated code, the closure trampoline of  *)
(* each instrumented address, the one closure bridge, the handler that the *)
(* bridge calls with the saved registers, and a thread that runs into the  *)
(* instrumented address, also from inside a handler.                       *)
(*                                                                         *)
(* The thread runs one block of generated code per step (a block reads and *)
(* writes nothing but the thread's own registers and stack).  The branch   *)
(* that replaces the displaced instructions is in InlineHook; here it is   *)
(* its effect, a jump to the closure trampoline through x17.               *)
EXTENDS Relocation

CONSTANTS
  Targets,      \* instrumented addresses
  At,           \* [Targets -> address of the first displaced instruction]
  Programs,     \* the displaced instructions: a set of [Targets -> sequence]
  RelocAt,      \* [Targets -> where the arena puts the relocated code]
  TrampAt,      \* [Targets -> where it puts the closure trampoline]
  EntryAt,      \* [Targets -> address of the ClosureTrampolineEntry]
  BridgeAt,     \* the closure bridge
  HandlerAt,    \* intercept_routing_common_bridge_handler
  Callee,       \* a function that displaced code may call
  Machines,     \* processor states in which a target may be reached
  Writes,       \* what a handler may do to its context: <<offset, value>>
  FullPacks,    \* the builds: with FULL_FLOATING_POINT_REGISTER_PACK or without
  MaxDepth      \* activations at once

VARIABLES
  full,         \* the build has FULL_FLOATING_POINT_REGISTER_PACK
  prog,         \* [Targets -> the displaced instructions]
  relo,         \* [Targets -> the relocated code, or NotYet]
  cpu,          \* the thread's processor state
  acts,         \* the activations of instrumented addresses, innermost first
  ended         \* UNIMPLEMENTED was reached: the process is gone

vars == <<full, prog, relo, cpu, acts, ended>>

NotYet == <<>>
Junk == 3                   \* what C code leaves in scratch registers
HandlerFrame == 32          \* stack the handler itself uses
Fuel == 80                  \* more instructions than any block has

Idle == CHOOSE m \in Machines : TRUE

(* The displaced instructions p at address a need the flags only from one of *)
(* their own: a handler may leave any flags, and the bridge does not keep     *)
(* them.  They do not use x17, which the hook itself takes, and nothing       *)
(* branches between them, where the trampoline's words lie.  After a call the *)
(* link register, which then points into the copy, is not looked at.          *)
Relocatable(p, a) ==
  \A k \in DOMAIN p :
    /\ p[k].op = "bcond" => \E j \in 1..(k - 1) : p[j].op = "cmp"
    /\ \A f \in {"rd", "rt", "rn"} \cap DOMAIN p[k] : p[k][f] # TMP
    /\ \A f \in {"rt", "rn"} \cap DOMAIN p[k] :
         p[k][f] = LR => \A j \in 1..(k - 1) : p[j].op # "bl"
    /\ p[k].op \in {"b", "bl", "bcond", "cbz", "tbz"} =>
         LET to == a + 4 * (k - 1) + Distance(p[k]) IN to <= a \/ to >= a + 4 * Len(p)

-----------------------------------------------------------------------------
(* RegisterContext of dobby.h. *)
CtxSP == 8
CtxX(n) == 24 + 8 * n
CtxQ(n) == 272 + 16 * n
SizeofRegisterContext == CtxQ(32)
PackedQ(f) == IF f THEN 0..31 ELSE 0..7
REGISTER_CONTEXT_SIZE(f) == SizeofRegisterContext - (IF f THEN 0 ELSE 24 * 16)

stp(a, b, off) == _Emit([op |-> "stp", rt |-> a, rt2 |-> b, rn |-> SP, off |-> off, post |-> FALSE])
ldp(a, b, off) == _Emit([op |-> "ldp", rt |-> a, rt2 |-> b, rn |-> SP, off |-> off, post |-> TRUE])
stpq(a, b, off) == _Emit([op |-> "stpq", rt |-> a, rt2 |-> b, rn |-> SP, off |-> off, post |-> FALSE])
ldpq(a, b, off) == _Emit([op |-> "ldpq", rt |-> a, rt2 |-> b, rn |-> SP, off |-> off, post |-> TRUE])

(* stp of q(first) .. q(first + 2*pairs - 1), the last pair first. *)
SaveQ(first, pairs) ==
  [k \in 1..pairs |-> LET r == 2 * (pairs - k) IN stpq(first + r, first + r + 1, 16 * r)]
RestoreQ(first, pairs) ==
  [k \in 1..pairs |-> LET r == 2 * (k - 1) IN ldpq(first + r, first + r + 1, 32)]

(* x1..x30, the last pair first. *)
SaveX == [k \in 1..15 |-> LET r == 2 * (15 - k) IN stp(r + 1, r + 2, 8 * r)]
RestoreX == [k \in 1..15 |-> LET r == 2 * (k - 1) IN ldp(r + 1, r + 2, 16)]

BugSaveContext(f) ==          \* mutant: one slot for x0 instead of two
  (IF f THEN <<sub(SP, SP, 24 * 16)>> \o SaveQ(8, 12) ELSE <<>>)
  \o <<sub(SP, SP, 8 * 16)>> \o SaveQ(0, 4)
  \o <<sub(SP, SP, 30 * 8)>> \o SaveX
  \o <<sub(SP, SP, 8), str(0, SP, 0)>>

SaveContext(f) ==
  (IF f THEN <<sub(SP, SP, 24 * 16)>> \o SaveQ(8, 12) ELSE <<>>)
  \o <<sub(SP, SP, 8 * 16)>> \o SaveQ(0, 4)
  \o <<sub(SP, SP, 30 * 8)>> \o SaveX
  \o <<sub(SP, SP, 2 * 8), str(0, SP, 8)>>

BugOriginalSP(f) ==           \* mutant: the trampoline's own slots forgotten
  <<add(TMP, SP, 2 * 8 + 30 * 8 + 8 * 16)>>
  \o (IF f THEN <<add(TMP, TMP, 24 * 16)>> ELSE <<>>)
  \o <<sub(SP, SP, 2 * 8), str(TMP, SP, 8)>>

(* sp as it was before the closure trampoline and the bridge took theirs. *)
OriginalSP(f) ==
  <<add(TMP, SP, 2 * 8), add(TMP, TMP, 2 * 8 + 30 * 8 + 8 * 16)>>
  \o (IF f THEN <<add(TMP, TMP, 24 * 16)>> ELSE <<>>)
  \o <<sub(SP, SP, 2 * 8), str(TMP, SP, 8)>>

CallHandler(f) ==
  <<add(0, SP, 0), ldr(1, SP, REGISTER_CONTEXT_SIZE(f))>> \o Mov(TMP, HandlerAt) \o <<blr(TMP)>>

RestoreContext(f) ==
  <<add(SP, SP, 2 * 8), ldr(0, SP, 8), add(SP, SP, 2 * 8)>>
  \o RestoreX \o RestoreQ(0, 4) \o (IF f THEN RestoreQ(8, 12) ELSE <<>>)
  \o <<_Emit([op |-> "ret"])>>

closure_bridge(f) == SaveContext(f) \o OriginalSP(f) \o CallHandler(f) \o RestoreContext(f)

BugClosureTrampoline(t) ==    \* mutant: stores before it takes the stack
  <<str(LR, SP, 8), sub(SP, SP, 2 * 8), _Ldr(TMP, 0), str(TMP, SP, 0),
    _Ldr(TMP, -1), blr(TMP), add(SP, SP, 2 * 8), ldr(LR, SP, 8), br(TMP),
    _PseudoBind(0), _EmitInt64(EntryAt[t]), _PseudoBind(-1), _EmitInt64(BridgeAt)>>

(* CreateClosureTrampoline; label 0 is entry_label, -1 forward_bridge_label. *)
ClosureTrampoline(t) ==
  <<sub(SP, SP, 2 * 8), str(LR, SP, 8), _Ldr(TMP, 0), str(TMP, SP, 0),
    _Ldr(TMP, -1), blr(TMP), ldr(LR, SP, 8), add(SP, SP, 2 * 8), br(TMP),
    _PseudoBind(0), _EmitInt64(EntryAt[t]), _PseudoBind(-1), _EmitInt64(BridgeAt)>>

Built(calls, a) == Placed(Assemble(NewAssembler, calls).code, a)

BridgeCodes == [f \in BOOLEAN |-> Built(closure_bridge(f), BridgeAt)]
BridgeCode == BridgeCodes[full]
TrampCode == [t \in Targets |-> Built(ClosureTrampoline(t), TrampAt[t])]
CalleeCode == Placed(<<[op |-> "callee", v |-> 5]>>, Callee)

-----------------------------------------------------------------------------
Init ==
  /\ full \in FullPacks
  /\ prog \in Programs
  /\ relo = [t \in Targets |-> NotYet]
  /\ cpu = Idle
  /\ acts = <<>>
  /\ ended = FALSE

Top == Head(acts)
Running == ~ended /\ acts # <<>>

(* DobbyInstrument(At[t]): relocates the displaced instructions; the        *)
(* process ends at a literal load the relocation does not know.             *)
DobbyInstrument(t) ==
  LET a == GenRelocateCodeAndBranch(prog[t], At[t]) IN
  /\ ~ended /\ acts = <<>>
  /\ relo[t] = NotYet
  /\ ended' = a.aborted
  /\ relo' = IF a.aborted THEN relo ELSE [relo EXCEPT ![t] = Placed(a.code, RelocAt[t])]
  /\ UNCHANGED <<full, prog, cpu, acts>>

(* The state m arrives at At[t], inside the activations outer: the patched *)
(* words jump through x17.                                                 *)
Arrive(t, m, outer) ==
  /\ relo[t] # NotYet
  /\ cpu' = [m EXCEPT !.x[TMP] = TrampAt[t], !.pc = TrampAt[t]]
  /\ acts' = <<[t |-> t, entry |-> [m EXCEPT !.pc = At[t]], caller |-> cpu,
                wrote |-> <<>>, nested |-> FALSE]>> \o outer
  /\ UNCHANGED <<full, prog, relo, ended>>

(* The program reaches an instrumented address. *)
Reach(t) ==
  /\ ~ended /\ acts = <<>>
  /\ \E m \in Machines : Arrive(t, m, <<>>)

(* Executes the block that pc is in. *)
RunBlock(code) ==
  /\ Running
  /\ cpu.pc \in DOMAIN code
  /\ cpu' = Run(cpu, code, Fuel)
  /\ UNCHANGED <<full, prog, relo, acts, ended>>

RunTrampoline == \E t \in Targets : RunBlock(TrampCode[t])
RunBridge == RunBlock(BridgeCode)
RunRelocated == \E t \in Targets : relo[t] # NotYet /\ RunBlock(relo[t])
RunCallee == RunBlock(CalleeCode)

AtHandler == Running /\ cpu.pc = HandlerAt

(* The ClosureTrampolineEntry that the handler was given, and its entry. *)
Carried == {t \in Targets : EntryAt[t] = cpu.x[1]}

(* The user's handler writes to the register context. *)
HandlerWrites ==
  /\ AtHandler /\ Carried # {}
  /\ \A k \in DOMAIN acts : acts[k].wrote = <<>>      \* bound: one of those active writes
  /\ \E w \in Writes :
       /\ cpu' = Store(cpu, cpu.x[0] + w[1], <<w[2]>>)
       /\ acts' = [acts EXCEPT ![1].wrote = w]
  /\ UNCHANGED <<full, prog, relo, ended>>

(* The user's handler itself calls an instrumented function. *)
HandlerCalls(t) ==
  /\ AtHandler /\ Carried # {} /\ Len(acts) < MaxDepth /\ ~Top.nested
  /\ LET inC == Clobbered(cpu, Junk) IN
       Arrive(t, [inC EXCEPT !.x[SP] = @ - HandlerFrame, !.x[LR] = HandlerAt, !.calls = <<>>],
              <<[Top EXCEPT !.nested = TRUE]>> \o Tail(acts))

BugHandlerForwards ==         \* mutant: the next hop is the trampoline itself
  /\ AtHandler /\ Carried # {}
  /\ \E t \in Carried :
       cpu' = LET s == Store(cpu, cpu.x[0] + CtxX(TMP), <<TrampAt[t]>>)
              IN  [Clobbered(s, Junk) EXCEPT !.pc = s.x[LR]]
  /\ UNCHANGED <<full, prog, relo, acts, ended>>

(* instrument_call_forward_handler after the user's handler: the next hop is *)
(* the relocated code of the entry that was carried; then C code returns.    *)
HandlerForwards ==
  /\ AtHandler /\ Carried # {}
  /\ \E t \in Carried :
       cpu' = LET s == Store(cpu, cpu.x[0] + CtxX(TMP), <<RelocAt[t]>>)
              IN  [Clobbered(s, Junk) EXCEPT !.pc = s.x[LR]]
  /\ UNCHANGED <<full, prog, relo, acts, ended>>

Blocks == DOMAIN BridgeCode \cup DOMAIN CalleeCode \cup {HandlerAt, -1}
            \cup UNION {DOMAIN TrampCode[t] \cup DOMAIN relo[t] : t \in Targets}

(* The thread has left the relocated code for the program. *)
Left == Running /\ cpu.pc \notin Blocks

(* The rest of the function runs and returns to whoever called it. *)
Leave ==
  /\ Left
  /\ cpu' = IF Tail(acts) = <<>> THEN Idle
            ELSE [Top.caller EXCEPT !.mem = cpu.mem]
  /\ acts' = Tail(acts)
  /\ UNCHANGED <<full, prog, relo, ended>>

Machine == RunTrampoline \/ RunBridge \/ RunRelocated \/ RunCallee \/ HandlerForwards \/ Leave

Next ==
  \/ \E t \in Targets : DobbyInstrument(t) \/ Reach(t) \/ HandlerCalls(t)
  \/ HandlerWrites
  \/ Machine

(* A processor goes on, and handlers return. *)
Spec == Init /\ [][Next]_vars /\ WF_vars(Machine)

-----------------------------------------------------------------------------
(* Handler and displaced code, as the program would have executed them.      *)

Written(m, w) ==
  IF w = <<>> THEN m
  ELSE IF w[1] \in {CtxX(n) : n \in 0..28}
       THEN [m EXCEPT !.x[(w[1] - CtxX(0)) \div 8] = w[2]]
       ELSE [m EXCEPT !.q[(w[1] - CtxQ(0)) \div 16][1] = w[2]]

DeadFlag == 2

(* The displaced instructions executed where they stood, from the state the  *)
(* handler left, until they are left or begun again; the flags are those of  *)
(* the displaced instructions.                                               *)
Expected ==
  LET origin == Placed(prog[Top.t], At[Top.t])
      later == [a \in (DOMAIN origin \ {At[Top.t]}) \cup {Callee} |->
                  IF a = Callee THEN CalleeCode[a] ELSE origin[a]]
      start == [Written(Top.entry, Top.wrote) EXCEPT !.z = DeadFlag]
  IN  Run(Execute(start, later, Head(prog[Top.t])), later, Fuel)

(* The state and the context have the shapes the code gives them: sp is a  *)
(* multiple of 16 at every block boundary, as the ABI demands, and every   *)
(* address a block stores to is a whole slot.                              *)
InstrumentTypeOK ==
  /\ DOMAIN cpu.x = 0..31 /\ DOMAIN cpu.q = 0..31
  /\ Running /\ ~Left => cpu.x[SP] % 16 = 0
  /\ \A a \in DOMAIN cpu.mem : a % 8 = 0
  /\ Len(acts) <= MaxDepth

(* The context the handler is given holds the registers with which the       *)
(* program reached the address (x17 and lr, which the hook itself uses,      *)
(* excepted), the stack pointer of that moment, and the entry of that very   *)
(* address, in nested activations too (closure-bridge-arm64.cc, dobby.h).    *)
HandlerContext ==
  AtHandler =>
    /\ cpu.x[1] = EntryAt[Top.t]
    /\ Top.wrote = <<>> =>
         LET e == Top.entry  ctx == cpu.x[0] IN
         /\ cpu.mem[ctx + CtxSP] = e.x[SP]
         /\ \A n \in 0..29 \ {TMP} : cpu.mem[ctx + CtxX(n)] = e.x[n]
         /\ \A n \in PackedQ(full) : <<cpu.mem[ctx + CtxQ(n)], cpu.mem[ctx + CtxQ(n) + 8]>> = e.q[n]

(* Instrumentation is transparent: when the thread leaves the relocated code *)
(* it is where the displaced instructions would have taken it, with the same *)
(* registers, the same flags if they set any, the same memory above sp and   *)
(* the same calls made, from the registers as the handler changed them       *)
(* (GenRelocateCodeAndBranch, closure bridge).  x17, the link register after *)
(* a displaced call, and the q registers outside the pack are free.          *)
Transparent ==
  Left =>
    LET e == Expected IN
    /\ cpu.pc = e.pc
    /\ \A r \in 0..31 \ {TMP} : cpu.x[r] = e.x[r] \/ (r = LR /\ e.calls # <<>>)
    /\ \A r \in PackedQ(full) : cpu.q[r] = e.q[r]
    /\ \A r \in 8..15 : cpu.q[r][1] = e.q[r][1]
    /\ e.z # DeadFlag => cpu.z = e.z
    /\ cpu.calls = e.calls
    /\ \A a \in DOMAIN e.mem : a >= e.x[SP] => cpu.mem[a] = e.mem[a]

(* No activation ever writes to what lies above the stack pointer with which *)
(* any enclosing one began: not the caller's frame, and for a nested one not *)
(* the context the outer bridge still has to restore.                        *)
FramesKept ==
  \A k \in DOMAIN acts : \A a \in DOMAIN acts[k].entry.mem :
    a >= acts[k].entry.x[SP] =>
      cpu.mem[a] = acts[k].entry.mem[a]

(* Every activation comes to its end: the thread passes the trampoline, the *)
(* bridge, the handler, the bridge again and the relocated code, and leaves *)
(* them (it neither faults nor circles).                                    *)
ActivationEnds == (acts # <<>>) ~> (acts = <<>>)
=============================================================================
