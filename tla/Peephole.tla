------------------------------ MODULE Peephole ------------------------------
(***************************************************************************)
(* peephole.c: within a block, what the registers of the machine and the   *)
(* slots of the frame are known to hold makes copies, reloads and address  *)
(* arithmetic unnecessary.  What is known is a record s:                   *)
(*   alias    the register each register is a copy of, itself if of none   *)
(*   size     reg_size                                                     *)
(*   const    <<value>> if it is known, else <<>>                          *)
(*   addr     the register as base + index * scale + disp, or NoAddress    *)
(*   slots    stack_slots, those that are valid                             *)
(*   part     history: the registers that hold less of what their alias    *)
(*            holds, or an extension of it                                 *)
(* A register is 0 for REG_NONE.  Fewer than PEEPHOLE_MAX_STACK_TRACK      *)
(* slots are known at a time, and displacements fit 32 bits.               *)
(***************************************************************************)
EXTENDS KIR

\* For its liveness.
Allocator == INSTANCE RegAlloc WITH CallerSavedFree <- <<>>, CalleeSaved <- <<>>

Registers == 1 .. 16
Rax == 1
Rsp == 7
MaxRounds == 8
MaxJumps == 16

IsReg(o) == o.kind = "reg"

\* exact: all of it was computed in eight bytes.
NoAddress == [base |-> 0, index |-> 0, scale |-> 0, disp |-> 0, exact |-> TRUE]
IndexOnly(address) == address.index # 0 /\ address.base = 0

PerRegister(Of(_)) == MapSeq([q \in Registers |-> q], Of)
state_reset ==
  [alias |-> PerRegister(LAMBDA q : q), size |-> PerRegister(LAMBDA q : 8), const |-> PerRegister(LAMBDA q : <<>>),
   addr |-> PerRegister(LAMBDA q : NoAddress), slots |-> {}, part |-> {}]

-----------------------------------------------------------------------------
(* What is known. *)

HeldBy(s, slot, gone) == slot.reg # 0 /\ {slot.reg, s.alias[slot.reg]} \cap gone # {}
Forgotten(s, gone) ==
  {IF HeldBy(s, slot, gone) THEN [slot EXCEPT !.reg = 0] ELSE slot :
     slot \in {t \in s.slots : HeldBy(s, t, gone) => t.const # <<>>}}

\* `gone` are the register and what it was a copy of: their copies are forgotten.
Invalidated(s, r, gone) ==
  [alias |-> PerRegister(LAMBDA q : IF s.alias[q] \in gone THEN q ELSE s.alias[q]),
   size |-> [s.size EXCEPT ![r] = 8],
   const |-> PerRegister(LAMBDA q : IF s.alias[q] \in gone THEN <<>> ELSE s.const[q]),
   addr |-> PerRegister(LAMBDA q : IF q = r \/ {s.addr[q].base, s.addr[q].index} \cap gone # {}
                                   THEN NoAddress ELSE s.addr[q]),
   slots |-> Forgotten(s, gone),
   part |-> {q \in s.part : s.alias[q] \notin gone}]
invalidate_register(s, r) == Invalidated(s, r, {r, s.alias[r]})

invalidate_caller_saved(s) == FoldLeft(invalidate_register, s, CallerSaved)
invalidate_all_memory(s) == [s EXCEPT !.slots = {}]

Copied(s, dst, from, size, part) ==
  [s EXCEPT !.alias[dst] = from, !.size[dst] = size, !.const[dst] = s.const[from],
            !.addr[dst] = IF dst \in {s.addr[from].base, s.addr[from].index} THEN @ ELSE s.addr[from],
            !.part = IF part THEN @ \cup {dst} ELSE @]
CopiedFrom(s, dst, src, size, part) == Copied(s, dst, s.alias[src], size, part \/ src \in s.part)
record_reg_copy(s, dst, src, size, from) ==
  IF dst = src THEN s ELSE CopiedFrom(invalidate_register(s, dst), dst, src, size, size # 8 \/ from # 8)

record_reg_const(s, dst, val, size) ==
  [invalidate_register(s, dst) EXCEPT !.const[dst] = <<val>>, !.size[dst] = size]

\* A slot that is written takes the place of those that share a byte with it.
Overlaps(slot, o) == slot.at + slot.size > o.id /\ slot.at < o.id + o.size
Stored(s, o, reg, val) ==
  [s EXCEPT !.slots = {slot \in @ : slot.at # o.id /\ ~Overlaps(slot, o)}
                        \cup {[at |-> o.id, size |-> o.size, signed |-> o.signed, reg |-> reg, const |-> val]}]
record_stack_store_reg(s, o, src) == Stored(s, o, s.alias[src], s.const[s.alias[src]])
record_stack_store_const(s, o, val) == Stored(s, o, 0, <<val>>)

NoSlot == [at |-> 0, size |-> 0, signed |-> FALSE, reg |-> 0, const |-> <<>>]
find_stack_slot(s, o) ==
  LET found == {slot \in s.slots : slot.at = o.id /\ slot.size = o.size /\ slot.signed = o.signed}
  IN IF found = {} THEN NoSlot ELSE CHOOSE slot \in found : TRUE

-----------------------------------------------------------------------------
(* Definitions nobody reads. *)

is_pure_register_def(inst) ==
  IsReg(inst.dst) /\ \/ inst.op \in {"ADDR", "ADD", "SUB", "MUL", "AND", "OR", "XOR", "SHL", "SHR", "NOT", "NEG"}
                     \/ inst.op = "MOV" /\ inst.src1.kind \in {"reg", "const"}

inst_reads_reg(inst, r) == \E o \in ToSet(Uses(inst)) : IsReg(o) /\ o.id = r
inst_overwrites_reg(inst, r) == inst.op \notin ReadsDst /\ IsReg(inst.dst) /\ inst.dst.id = r
Forgets(inst, r) == inst.op = "CALL" /\ r \in ToSet(CallerSaved)
Leaves(inst) == inst.op \in {"JMP", "BR", "RET"} \cup TailCalls

\* The first instruction that reads the register, writes it, or leaves the block
\* decides.
is_reg_def_dead(behind, r) ==
  LET deciding == SelectSeq(behind, LAMBDA inst : ~IsNop(inst) /\
                    (inst_reads_reg(inst, r) \/ inst_overwrites_reg(inst, r) \/ Forgets(inst, r) \/ Leaves(inst)))
  IN deciding # <<>> /\ ~inst_reads_reg(Head(deciding), r)
       /\ (inst_overwrites_reg(Head(deciding), r) \/ Forgets(Head(deciding), r)
             \/ (Head(deciding).op = "RET" /\ r # Rax))

-----------------------------------------------------------------------------
(* One instruction.  `a` is what has been made of a block so far: s, code,    *)
(* flawed.                                                                   *)

Drop(a, i) == [a EXCEPT !.code[i] = Nop]
Know(a, s) == [a EXCEPT !.s = s]
Replace(a, i, inst, s) == [a EXCEPT !.code[i] = inst, !.s = s]

MoveRegister(a, i, s, dst, src) ==
  IF /\ dst.size = src.size
     /\ \/ dst.id = src.id
        \/ s.alias[dst.id] = s.alias[src.id] /\ s.size[dst.id] >= dst.size /\ s.size[src.id] >= dst.size
  THEN Drop(a, i)
  ELSE Know(a, record_reg_copy(s, dst.id, src.id, dst.size, src.size))

MoveConstant(a, i, s, dst, val) ==
  IF s.const[dst.id] = <<val>> /\ s.size[dst.id] = dst.size THEN Drop(a, i)
  ELSE Know(a, record_reg_const(s, dst.id, val, dst.size))

Reload(a, i, s, dst, src, slot) ==
  IF slot.reg # 0 THEN
    IF dst.id = s.alias[slot.reg] THEN Drop(a, i)
    ELSE Replace(a, i, MOV(dst, ir_op_reg(s.alias[slot.reg], src.size, src.signed)),
                 record_reg_copy(s, dst.id, s.alias[slot.reg], dst.size, src.size))
  ELSE IF slot.const # <<>> THEN
    Replace(a, i, MOV(dst, ir_op_const(slot.const[1], src.size, src.signed)),
            record_reg_const(s, dst.id, slot.const[1], dst.size))
  ELSE Know(a, record_stack_store_reg(invalidate_register(s, dst.id), src, dst.id))

SaveRegister(a, i, s, dst, src, slot) ==
  IF slot.reg # 0 /\ s.alias[slot.reg] = s.alias[src.id] THEN Drop(a, i)
  ELSE Know(a, record_stack_store_reg(s, dst, src.id))

SaveConstant(a, i, s, dst, val, slot) ==
  IF slot.const = <<val>> THEN Drop(a, i) ELSE Know(a, record_stack_store_const(s, dst, val))

\* What dst is written with is at this address.
At(s, dst, address) == [invalidate_register(s, dst) EXCEPT !.addr[dst] = address]

\* Computed in eight bytes, from all of what the registers are copies of.
Exact(s, inst) ==
  inst.dst.size = 8 /\ \A o \in ToSet(<<inst.src1, inst.src2>>) : IsReg(o) => o.size = 8 /\ o.id \notin s.part

Scaled(s, inst, o, scale) ==
  [base |-> 0, index |-> s.alias[o.id], scale |-> scale, disp |-> 0, exact |-> Exact(s, inst)]
Multiplied(s, inst, o, factor) ==
  IF factor \in {1, 2, 4, 8} /\ s.alias[o.id] \notin {inst.dst.id, Rsp}
  THEN At(s, inst.dst.id, Scaled(s, inst, o, factor))
  ELSE invalidate_register(s, inst.dst.id)
MultiplyKnown(s, inst) ==
  IF IsReg(inst.src1) /\ IsConst(inst.src2) THEN Multiplied(s, inst, inst.src1, inst.src2.id)
  ELSE IF IsConst(inst.src1) /\ IsReg(inst.src2) THEN Multiplied(s, inst, inst.src2, inst.src1.id)
  ELSE invalidate_register(s, inst.dst.id)
ShiftKnown(s, inst) ==
  IF inst.src2.id \in 1 .. 3 THEN Multiplied(s, inst, inst.src1, 2 ^ inst.src2.id)
  ELSE invalidate_register(s, inst.dst.id)

\* `t` is what is known once dst has been written.
Displaced(t, inst, from, exact) ==
  LET known == t.addr[from] IN
  IF inst.dst.id = from \/ (known = NoAddress /\ from = Rsp) THEN t
  ELSE [t EXCEPT !.addr[inst.dst.id] =
          IF known = NoAddress
          THEN [base |-> from, index |-> 0, scale |-> 0, disp |-> inst.src2.id, exact |-> exact]
          ELSE [known EXCEPT !.disp = @ + inst.src2.id, !.exact = @ /\ exact]]
AddConstant(s, inst) ==
  Displaced(invalidate_register(s, inst.dst.id), inst, s.alias[inst.src1.id], Exact(s, inst))

Indexed(t, dst, base, address, exact) ==
  [t EXCEPT !.addr[dst] = [address EXCEPT !.base = base, !.exact = @ /\ exact]]
Summed(t, dst, r, q, exact) ==
  CASE IndexOnly(t.addr[r]) /\ t.addr[q] = NoAddress /\ q # Rsp -> Indexed(t, dst, q, t.addr[r], exact)
    [] IndexOnly(t.addr[q]) /\ t.addr[r] = NoAddress /\ r # Rsp -> Indexed(t, dst, r, t.addr[q], exact)
    [] t.addr[r] = NoAddress /\ t.addr[q] = NoAddress /\ Rsp \notin {r, q} ->
         Indexed(t, dst, r, [NoAddress EXCEPT !.index = q, !.scale = 1], exact)
    [] OTHER -> t
AddUnlessInPlace(t, dst, r, q, exact) == IF dst \in {r, q} THEN t ELSE Summed(t, dst, r, q, exact)
AddRegisters(s, inst) ==
  AddUnlessInPlace(invalidate_register(s, inst.dst.id), inst.dst.id,
                   s.alias[inst.src1.id], s.alias[inst.src2.id], Exact(s, inst))

\* The operand a LOAD or STORE takes its address from becomes the base; the index
\* and its scale are kept in the arguments.
AddressIn(inst) == IF inst.op = "LOAD" THEN inst.src1 ELSE inst.dst
Displacement(address, o) == address.disp + (IF IsConst(o) THEN o.id ELSE 0)
FoldedInto(inst, address, base, disp) ==
  [inst EXCEPT !.src1 = IF inst.op = "LOAD" THEN base ELSE @,
               !.dst = IF inst.op = "LOAD" THEN @ ELSE base,
               !.src2 = IF disp = 0 THEN ir_op_none ELSE ir_op_const(disp, 8, TRUE),
               !.args = IF address.index = 0 THEN <<>>
                        ELSE <<ir_op_reg(address.index, 8, FALSE), ir_op_const(address.scale, 8, FALSE)>>]
Folded(a, i, inst, address) ==
  [a EXCEPT !.code[i] = FoldedInto(inst, address, ir_op_reg(address.base, 8, FALSE), Displacement(address, inst.src2)),
            !.flawed = IF address.exact /\ AddressIn(inst).id \notin a.s.part THEN @
                       ELSE @ \cup {"address folded from narrower arithmetic"}]
\* Nothing is folded into an address without a base.
try_fold_mem_sib(a, i, inst) ==
  IF IsReg(AddressIn(inst)) /\ a.s.addr[a.s.alias[AddressIn(inst).id]].base # 0
  THEN Folded(a, i, inst, a.s.addr[a.s.alias[AddressIn(inst).id]]) ELSE a

Written(inst) == inst.op \notin ReadsDst /\ IsReg(inst.dst)
Wrote(a, inst) == IF Written(inst) THEN Know(a, invalidate_register(a.s, inst.dst.id)) ELSE a

\* t := r op x; r := t becomes r := r op x, whoever else reads t.
SecondMove(code, i) ==
  LET later == {j \in i + 1 .. Len(code) : ~IsNop(code[j])}
  IN IF later = {} THEN 0 ELSE CHOOSE j \in later : \A m \in later : j <= m
Foldable(inst, move) ==
  /\ inst.op \in Arithmetic \cup {"NEG"} /\ IsReg(inst.dst) /\ IsReg(inst.src1)
  /\ move.op = "MOV" /\ IsReg(move.dst) /\ IsReg(move.src1)
  /\ move.src1.id = inst.dst.id /\ move.dst.id = inst.src1.id /\ move.dst.size = inst.dst.size
FoldMove(a, i, j, inst, live) ==
  [a EXCEPT !.code[i].dst = a.code[j].dst, !.code[j] = Nop,
            !.flawed = IF inst.dst.id \in Allocator!LiveAtStart(SubSeq(a.code, j + 1, Len(a.code)), live)
                       THEN @ \cup {"result moved although it is read again"} ELSE @]
FoldIfMoved(a, i, j, inst, live) ==
  IF j # 0 /\ Foldable(inst, a.code[j]) THEN FoldMove(a, i, j, inst, live) ELSE a
Compute(a, i, inst, live) == FoldIfMoved(a, i, SecondMove(a.code, i), inst, live)

\* The block jumped to and where what begins with another jump leads in the end.
FirstReal(code) == LET real == SelectSeq(code, LAMBDA inst : ~IsNop(inst)) IN IF real = <<>> THEN Nop ELSE Head(real)
RECURSIVE Resolved(_, _, _)
Resolved(f, b, depth) ==
  LET first == FirstReal(f.code[b])
  IN IF depth < MaxJumps /\ first.op = "JMP" /\ first.dst.id # b THEN Resolved(f, first.dst.id, depth + 1) ELSE b
resolve_jump_target(f, b) == Resolved(f, b, 0)

JumpTo(a, i, b, next) == [a EXCEPT !.code[i] = IF b = next THEN Nop ELSE JMP(b)]
Branch(a, i, inst, t1, t2, next) ==
  IF t1 = t2 THEN JumpTo(a, i, t1, next) ELSE [a EXCEPT !.code[i] = BR(inst.dst, t1, t2)]

MoveStep(a, i, dst, src) ==
  CASE IsReg(dst) /\ IsReg(src) -> MoveRegister(a, i, a.s, dst, src)
    [] IsReg(dst) /\ IsConst(src) -> MoveConstant(a, i, a.s, dst, src.id)
    [] IsReg(dst) /\ src.kind = "stack" -> Reload(a, i, a.s, dst, src, find_stack_slot(a.s, src))
    [] dst.kind = "stack" /\ IsReg(src) -> SaveRegister(a, i, a.s, dst, src, find_stack_slot(a.s, dst))
    [] dst.kind = "stack" /\ IsConst(src) -> SaveConstant(a, i, a.s, dst, src.id, find_stack_slot(a.s, dst))
    [] OTHER -> Wrote(a, MOV(dst, src))

AddsConstant(inst) == inst.op = "ADD" /\ IsReg(inst.dst) /\ IsReg(inst.src1) /\ IsConst(inst.src2)
AddsRegisters(inst) == inst.op = "ADD" /\ IsReg(inst.dst) /\ IsReg(inst.src1) /\ IsReg(inst.src2)
ShiftsByConstant(inst) == inst.op = "SHL" /\ IsReg(inst.dst) /\ IsReg(inst.src1) /\ IsConst(inst.src2)
Multiplies(inst) == inst.op = "MUL" /\ IsReg(inst.dst)
OtherArithmetic(inst) ==
  inst.op \in Arithmetic \cup {"NEG"} /\ ~AddsConstant(inst) /\ ~AddsRegisters(inst) /\ ~ShiftsByConstant(inst) /\ ~Multiplies(inst)

\* WroteAt: what has become of instruction i is then known to have written.
WroteAt(a, i) == Wrote(a, a.code[i])

SoFar(f, b, a) == [f EXCEPT !.code[b] = a.code]
Kept(f, b, live, a, i, inst) ==
  CASE inst.op = "MOV" -> MoveStep(a, i, inst.dst, inst.src1)
    [] ShiftsByConstant(inst) -> Know(a, ShiftKnown(a.s, inst))
    [] Multiplies(inst) -> Know(a, MultiplyKnown(a.s, inst))
    [] AddsConstant(inst) -> Know(a, AddConstant(a.s, inst))
    [] AddsRegisters(inst) -> Know(a, AddRegisters(a.s, inst))
    [] OtherArithmetic(inst) -> WroteAt(Compute(a, i, inst, live), i)
    [] inst.op = "LOAD" -> Wrote(try_fold_mem_sib(a, i, inst), inst)
    [] inst.op = "STORE" -> Know(try_fold_mem_sib(a, i, inst), invalidate_all_memory(a.s))
    [] inst.op = "MEMCPY" -> Know(a, invalidate_all_memory(a.s))
    [] inst.op \in {"CALL"} \cup TailCalls ->
         Wrote(Know(a, invalidate_all_memory(invalidate_caller_saved(a.s))), inst)
    [] inst.op = "JMP" -> JumpTo(a, i, resolve_jump_target(SoFar(f, b, a), inst.dst.id), NextBlock(f, b))
    [] inst.op = "BR" ->
         Branch(a, i, inst, resolve_jump_target(SoFar(f, b, a), inst.src1.id),
                resolve_jump_target(SoFar(f, b, a), inst.src2.id), NextBlock(f, b))
    [] OTHER -> Wrote(a, inst)

Step(f, b, live, a, i, inst) ==
  CASE IsNop(inst) -> a
    [] is_pure_register_def(inst) /\ is_reg_def_dead(SubSeq(a.code, i + 1, Len(a.code)), inst.dst.id) -> Drop(a, i)
    [] OTHER -> Kept(f, b, live, a, i, inst)

-----------------------------------------------------------------------------
\* `F` is the function and what went wrong.
BlockDone(F, b, a) == [f |-> [F.f EXCEPT !.code[b] = a.code], flawed |-> F.flawed \cup a.flawed]
RECURSIVE StepsFrom(_, _, _, _, _)
StepsFrom(f, b, live, a, i) ==
  IF i > Len(a.code) THEN a ELSE StepsFrom(f, b, live, Step(f, b, live, a, i, a.code[i]), i + 1)
InBlock(F, b) ==
  BlockDone(F, b, StepsFrom(F.f, b, Allocator!LiveOut(F.f, Allocator!compute_liveness(F.f), b),
                            [s |-> state_reset, code |-> F.f.code[b], flawed |-> {}], 1))

Round(F) == FoldLeft(InBlock, F, F.f.order)

RECURSIVE Rounds(_, _)
AgainIfChanged(F, G, n) == IF G.f = F.f \/ n = MaxRounds THEN G ELSE Rounds(G, n + 1)
Rounds(F, n) == AgainIfChanged(F, Round(F), n)

peephole_run_on_function(f) ==
  LET done == Rounds([f |-> f, flawed |-> {}], 1)
  IN [done EXCEPT !.f = ir_eliminate_nops(@)]
=============================================================================
