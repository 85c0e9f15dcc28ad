------------------------------ MODULE Codegen ------------------------------
(***************************************************************************)
(* codegen.c: the code of a function whose operands are registers, slots,  *)
(* globals and constants.  rax, rcx, rdx, r10 and r11 are free for what an *)
(* instruction needs on its way.  A procedure has no more parameters than  *)
(* are passed in registers, no call tells a variadic callee how many       *)
(* vector registers are used, and a MEMCPY's size is a constant.           *)
(***************************************************************************)
EXTENDS X86

\* For its liveness.
Allocator == INSTANCE RegAlloc WITH CallerSavedFree <- <<>>, CalleeSaved <- <<>>

CalleeSavedRegs == <<4, 13, 14, 15, 16>>       \* rbx, r12 to r15

IsReg(o) == o.kind = "reg"
Size(o) == IF o.size = 0 THEN 8 ELSE o.size
RegOf(o) == Reg(o.id, Size(o))
is_signed_imm32(v) == 2 * v >= -Width(4) /\ 2 * v < Width(4)
IsImm32(o) == IsConst(o) /\ is_signed_imm32(o.id)

-----------------------------------------------------------------------------
(* The frame. *)

Saved(f) == SelectSeq(CalleeSavedRegs, LAMBDA q : q \in f.saved)
OddSaved(f) == Len(Saved(f)) % 2 = 1
\* What the caller has pushed is behind the saved registers.
get_effective_stack_offset(f, offset) == IF offset > 0 THEN offset + 8 * Len(Saved(f)) ELSE offset
RoundUp16(n) == ((n + 15) \div 16) * 16
get_total_function_stack_size(f) == IF OddSaved(f) THEN RoundUp16(f.frame + 8) - 8 ELSE RoundUp16(f.frame)

InstsOf(f) == UNION {ToSet(f.code[b]) : b \in Blocks(f)}
func_needs_frame_pointer(f) ==
  \/ f.frame > 0
  \/ \E inst \in InstsOf(f) : \E o \in {inst.dst, inst.src1, inst.src2} \cup ToSet(inst.args) : o.kind = "stack"
func_makes_call(f) == \E inst \in InstsOf(f) : inst.op = "CALL"
get_stack_alignment_padding(f) ==
  IF func_needs_frame_pointer(f) \/ ~func_makes_call(f) \/ OddSaved(f) THEN 0 ELSE 8

If(condition, code) == IF condition THEN code ELSE <<>>
emit_callee_saved_push(f) == MapSeq(Saved(f), LAMBDA q : Asm("push", None, Reg(q, 8)))
emit_callee_saved_pop(f) == MapSeq(Reverse(Saved(f)), LAMBDA q : Asm("pop", Reg(q, 8), None))
Grow(op, bytes) == If(bytes > 0, <<Asm(op, Reg(Rsp, 8), Imm(bytes))>>)
Entry(f) ==
  emit_callee_saved_push(f) \o Grow("SUB", get_stack_alignment_padding(f))
    \o If(func_needs_frame_pointer(f),
          <<Asm("push", None, Reg(Rbp, 8)), Asm("mov", Reg(Rbp, 8), Reg(Rsp, 8))>>
            \o Grow("SUB", get_total_function_stack_size(f)))
Exit(f) ==
  If(func_needs_frame_pointer(f), <<Plain("leave")>>) \o Grow("ADD", get_stack_alignment_padding(f))
    \o emit_callee_saved_pop(f)

-----------------------------------------------------------------------------
(* Operands. *)

Place(f, o, size) ==
  IF o.kind = "stack" THEN Mem(Rbp, 0, 0, get_effective_stack_offset(f, o.id), size)
  ELSE Mem(0, 0, 0, GlobalBase + 8 * o.id, size)

Move(dst, src) == If(dst # src, <<Asm("mov", dst, src)>>)
Extending(signed) == IF signed THEN "movsx" ELSE "movzx"
\* Two bytes are extended to four, four to eight if they are signed.
Widened(t, src, signed) ==
  CASE src.size < 4 -> <<Asm(Extending(signed), Reg(t, 4), src)>>
    [] src.size = 4 -> <<IF signed THEN Asm("movsx", Reg(t, 8), src) ELSE Asm("mov", Reg(t, 4), src)>>
    [] src.size = 8 -> <<Asm("mov", Reg(t, 8), src)>>

\* A register that is where it should be is left as it is.
emit_load_operand(f, o, t) ==
  CASE IsConst(o) -> <<Asm("mov", Reg(t, 8), Imm(o.id))>>
    [] IsReg(o) -> If(o.id # t, Widened(t, RegOf(o), o.signed))
    [] InMemory(o) -> Widened(t, Place(f, o, Size(o)), o.signed)
    [] OTHER -> <<>>

emit_store_from_rax(f, o) ==
  CASE IsReg(o) /\ Size(o) < 4 -> <<Asm(Extending(o.signed), Reg(o.id, 4), Reg(Rax, Size(o)))>>
    [] IsReg(o) /\ Size(o) = 4 -> <<Asm("mov", Reg(o.id, 4), Reg(Rax, 4))>>
    [] IsReg(o) /\ Size(o) = 8 -> Move(Reg(o.id, 8), Reg(Rax, 8))
    [] InMemory(o) -> <<Asm("mov", Place(f, o, Size(o)), Reg(Rax, Size(o)))>>
    [] OTHER -> <<>>

emit_load_address(f, o, t) ==
  CASE IsReg(o) -> Move(Reg(t, 8), Reg(o.id, 8))
    [] InMemory(o) -> <<Asm("lea", Reg(t, 8), Place(f, o, 8))>>
    [] IsConst(o) -> <<Asm("mov", Reg(t, 8), Imm(o.id))>>
    [] OTHER -> <<>>

Index(inst) == IF inst.args = <<>> THEN 0 ELSE inst.args[1].id
Scale(inst) == IF inst.args = <<>> THEN 0 ELSE inst.args[2].id
Disp(inst) == IF IsConst(inst.src2) THEN inst.src2.id ELSE 0
Indexed(inst, base, size) == Mem(base, Index(inst), Scale(inst), Disp(inst), size)
\* A slot or a global stands for itself here, and a slot takes no index.
format_memory_address(f, inst, o, size) ==
  CASE IsReg(o) -> Indexed(inst, o.id, size)
    [] o.kind = "stack" -> Mem(Rbp, 0, 0, get_effective_stack_offset(f, o.id) + Disp(inst), size)
    [] o.kind = "global" -> Mem(0, Index(inst), Scale(inst), GlobalBase + 8 * o.id + Disp(inst), size)

-----------------------------------------------------------------------------
(* Moves, loads and stores. *)

MovRegisters(dst, src) ==
  CASE Size(dst) > Size(src) /\ Size(src) = 4 -> Widened(dst.id, RegOf(src), src.signed)
    [] Size(dst) > Size(src) /\ Size(src) < 4 ->
         <<Asm(Extending(src.signed), Reg(dst.id, IF Size(dst) <= 4 THEN 4 ELSE 8), RegOf(src))>>
    [] Size(dst) <= Size(src) /\ Size(dst) < 4 -> <<Asm("movzx", Reg(dst.id, 4), Reg(src.id, Size(dst)))>>
    [] Size(dst) <= Size(src) /\ Size(dst) >= 4 -> Move(RegOf(dst), Reg(src.id, Size(dst)))

\* Zero is written to all of a register.
MovConstant(dst, v) == <<Asm("mov", IF v = 0 THEN Reg(dst.id, 8) ELSE RegOf(dst), Imm(v))>>

\* As many bytes are read as are written.
MovFromSlot(f, dst, src) ==
  IF Size(dst) < 4 THEN <<Asm(Extending(src.signed), Reg(dst.id, 4), Place(f, src, Size(dst)))>>
  ELSE <<Asm("mov", RegOf(dst), Place(f, src, Size(dst)))>>

Cut(dst, src) == int_truncate_to_width(src.id, Size(dst), dst.signed)
EmitMov(f, dst, src) ==
  CASE IsReg(dst) /\ IsReg(src) -> MovRegisters(dst, src)
    [] IsReg(dst) /\ IsConst(src) -> MovConstant(dst, Cut(dst, src))
    [] IsReg(dst) /\ src.kind = "stack" -> MovFromSlot(f, dst, src)
    [] dst.kind = "stack" /\ IsReg(src) -> <<Asm("mov", Place(f, dst, Size(dst)), Reg(src.id, Size(dst)))>>
    [] InMemory(dst) /\ IsImm32(src) -> <<Asm("mov", Place(f, dst, Size(dst)), Imm(Cut(dst, src)))>>
    [] OTHER -> emit_load_operand(f, src, Rax) \o emit_store_from_rax(f, dst)

\* An address that is no register is taken to r11.
Based(f, o) == If(~IsReg(o), emit_load_operand(f, o, R11))
BaseOf(o) == IF IsReg(o) THEN o.id ELSE R11

LoadInto(f, inst, mem) ==
  IF IsReg(inst.dst) THEN Widened(inst.dst.id, mem, inst.dst.signed)
  ELSE Widened(Rax, mem, inst.dst.signed) \o emit_store_from_rax(f, inst.dst)
EmitLoad(f, inst) == Based(f, inst.src1) \o LoadInto(f, inst, Indexed(inst, BaseOf(inst.src1), Size(inst.dst)))

StoreTo(f, o, mem) ==
  CASE IsReg(o) /\ o.id # R11 -> <<Asm("mov", mem, RegOf(o))>>
    [] IsImm32(o) -> <<Asm("mov", mem, Imm(o.id))>>
    [] OTHER -> emit_load_operand(f, o, Rax) \o <<Asm("mov", mem, Reg(Rax, Size(o)))>>
EmitStore(f, inst) == Based(f, inst.dst) \o StoreTo(f, inst.src1, Indexed(inst, BaseOf(inst.dst), Size(inst.src1)))

EmitAddr(f, inst) ==
  IF IsReg(inst.dst) THEN <<Asm("lea", Reg(inst.dst.id, 8), Place(f, inst.src1, 8))>>
  ELSE <<Asm("lea", Reg(Rax, 8), Place(f, inst.src1, 8))>> \o emit_store_from_rax(f, inst.dst)

\* By eights, then a four, a two and a one.
CopyAt(offset, size) ==
  <<Asm("mov", Reg(Rax, size), Mem(R11, 0, 0, offset, size)), Asm("mov", Mem(R10, 0, 0, offset, size), Reg(Rax, size))>>
RECURSIVE CopyBytes(_, _)
CopyBytes(offset, bytes) ==
  LET size == CHOOSE s \in {8, 4, 2, 1} : s <= bytes /\ \A t \in {8, 4, 2, 1} : t <= bytes => t <= s
  IN IF bytes <= 0 THEN <<>> ELSE CopyAt(offset, size) \o CopyBytes(offset + size, bytes - size)
EmitMemcpy(f, inst) ==
  emit_load_address(f, inst.dst, R10) \o emit_load_address(f, inst.src1, R11) \o CopyBytes(0, inst.src2.id)

-----------------------------------------------------------------------------
(* Arithmetic. *)

\* The quotient of bytes is in al, the remainder in ah.
Remainder(size) == Asm("mov", Reg(Rax, size), IF size = 1 THEN High ELSE Reg(Rdx, size))
emit_div_mod(f, inst) ==
  emit_load_operand(f, inst.src2, R10) \o emit_load_operand(f, inst.src1, Rax)
    \o <<Divide(inst.src1.signed, Size(inst.dst))>> \o If(inst.op = "MOD", <<Remainder(Size(inst.dst))>>)
    \o emit_store_from_rax(f, inst.dst)

\* A sum of whole registers, or of one and a constant, in a third.
AsAddress(inst) ==
  /\ inst.op = "ADD" /\ Size(inst.dst) = 8 /\ IsReg(inst.src1) /\ inst.dst.id # inst.src1.id
  /\ IsImm32(inst.src2) \/ (IsReg(inst.src2) /\ inst.dst.id # inst.src2.id)
Sum(inst) ==
  IF IsReg(inst.src2) THEN Mem(inst.src1.id, inst.src2.id, 1, 0, 8) ELSE Mem(inst.src1.id, 0, 0, inst.src2.id, 8)

\* An operand as wide as the result is used where it is.
Wide(o, inst) == IsReg(o) /\ o.size >= Size(inst.dst)
Replaced(inst) == inst.src2.id = inst.dst.id /\ ~(IsReg(inst.src1) /\ inst.src1.id = inst.dst.id)
FirstOperand(f, inst) ==
  IF Wide(inst.src1, inst) THEN Move(RegOf(inst.dst), Reg(inst.src1.id, Size(inst.dst)))
  ELSE emit_load_operand(f, inst.src1, Rax) \o <<Asm("mov", RegOf(inst.dst), Reg(Rax, Size(inst.dst)))>>
InPlace(f, inst, size) ==
  CASE IsImm32(inst.src2) -> FirstOperand(f, inst) \o <<Asm(inst.op, RegOf(inst.dst), Imm(inst.src2.id))>>
    [] ~IsImm32(inst.src2) /\ Wide(inst.src2, inst) /\ ~Replaced(inst) ->
         FirstOperand(f, inst) \o <<Asm(inst.op, RegOf(inst.dst), Reg(inst.src2.id, size))>>
    [] ~IsImm32(inst.src2) /\ Wide(inst.src2, inst) /\ Replaced(inst) ->
         <<Asm("mov", Reg(R10, size), Reg(inst.src2.id, size))>> \o FirstOperand(f, inst)
           \o <<Asm(inst.op, RegOf(inst.dst), Reg(R10, size))>>
    [] OTHER ->
         emit_load_operand(f, inst.src2, R10) \o FirstOperand(f, inst) \o <<Asm(inst.op, RegOf(inst.dst), Reg(R10, size))>>
ThroughRax(f, inst) ==
  emit_load_operand(f, inst.src2, R10) \o emit_load_operand(f, inst.src1, Rax)
    \o <<Asm(inst.op, Reg(Rax, 8), Reg(R10, 8))>> \o emit_store_from_rax(f, inst.dst)
emit_binary_op(f, inst) ==
  CASE IsReg(inst.dst) /\ AsAddress(inst) -> <<Asm("lea", RegOf(inst.dst), Sum(inst))>>
    [] IsReg(inst.dst) /\ ~AsAddress(inst) -> InPlace(f, inst, Size(inst.dst))
    [] ~IsReg(inst.dst) -> ThroughRax(f, inst)

EmitUnary(f, inst, op) ==
  IF IsReg(inst.dst) /\ IsReg(inst.src1)
  THEN Move(RegOf(inst.dst), Reg(inst.src1.id, Size(inst.dst))) \o <<Asm(op, RegOf(inst.dst), None)>>
  ELSE emit_load_operand(f, inst.src1, Rax) \o <<Asm(op, Reg(Rax, 8), None)>> \o emit_store_from_rax(f, inst.dst)

\* Of the count, no more than its low byte counts: reading rcx is as good as cl.
Shift(inst) == IF inst.op = "SHR" /\ inst.src1.signed THEN "SAR" ELSE inst.op
EmitShift(f, inst) ==
  CASE IsReg(inst.dst) /\ IsConst(inst.src2) ->
         FirstOperand(f, inst) \o <<Asm(Shift(inst), RegOf(inst.dst), Imm(inst.src2.id))>>
    [] IsReg(inst.dst) /\ ~IsConst(inst.src2) ->
         emit_load_operand(f, inst.src2, Rcx) \o FirstOperand(f, inst) \o <<Asm(Shift(inst), RegOf(inst.dst), Reg(Rcx, 8))>>
    [] ~IsReg(inst.dst) ->
         emit_load_operand(f, inst.src2, Rcx) \o emit_load_operand(f, inst.src1, Rax)
           \o <<Asm(Shift(inst), Reg(Rax, 8), Reg(Rcx, 8))>> \o emit_store_from_rax(f, inst.dst)

\* Both operands are compared at the size of the first.
Zero(inst) == IsConst(inst.src2) /\ inst.src2.id = 0 /\ inst.op \in {"CMP_EQ", "CMP_NE"}
Comparing(f, inst, x) ==
  IF Zero(inst) /\ x.kind = "reg" THEN <<Asm("test", x, x)>> ELSE <<Asm("cmp", x, Imm(inst.src2.id))>>
emit_cmp_operands(f, inst, size) ==
  CASE IsImm32(inst.src2) /\ IsReg(inst.src1) -> Comparing(f, inst, Reg(inst.src1.id, size))
    [] IsImm32(inst.src2) /\ inst.src1.kind = "stack" -> Comparing(f, inst, Place(f, inst.src1, size))
    [] IsReg(inst.src1) /\ IsReg(inst.src2) -> <<Asm("cmp", Reg(inst.src1.id, size), Reg(inst.src2.id, size))>>
    [] IsReg(inst.src1) /\ inst.src2.kind = "stack" -> <<Asm("cmp", Reg(inst.src1.id, size), Place(f, inst.src2, size))>>
    [] IsImm32(inst.src2) /\ ~IsReg(inst.src1) /\ inst.src1.kind # "stack" ->
         emit_load_operand(f, inst.src1, Rax) \o Comparing(f, inst, Reg(Rax, size))
    [] OTHER ->
         emit_load_operand(f, inst.src2, R10) \o emit_load_operand(f, inst.src1, Rax)
           \o <<Asm("cmp", Reg(Rax, size), Reg(R10, size))>>
Condition(inst) == [op |-> inst.op, signed |-> inst.src1.signed]
WholeOf(o) == Reg(o.id, IF Size(o) <= 4 THEN 4 ELSE 8)
EmitCompare(f, inst) ==
  emit_cmp_operands(f, inst, Size(inst.src1)) \o
    IF IsReg(inst.dst)
    THEN <<Set(Condition(inst), Reg(inst.dst.id, 1))>>
           \o If(Size(inst.dst) > 1, <<Asm("movzx", WholeOf(inst.dst), Reg(inst.dst.id, 1))>>)
    ELSE <<Set(Condition(inst), Reg(Rax, 1)), Asm("movzx", Reg(Rax, 4), Reg(Rax, 1))>> \o emit_store_from_rax(f, inst.dst)

-----------------------------------------------------------------------------
(* Calls. *)

\* `moves` are the arguments still to be moved: records with dst and src.
Busy(moves, i) == \E j \in DOMAIN moves : j # i /\ IsReg(moves[j].src) /\ moves[j].src.id = moves[i].dst
FirstOf(S) == CHOOSE i \in S : \A j \in S : i <= j
FromR10(moves, q) ==
  MapSeq(moves, LAMBDA mv : IF IsReg(mv.src) /\ mv.src.id = q THEN [mv EXCEPT !.src.id = R10] ELSE mv)
RECURSIVE MovesFrom(_, _)
EmitMove(f, moves, i) == emit_load_operand(f, moves[i].src, moves[i].dst) \o MovesFrom(f, RemoveAt(moves, i))
\* Every register still to be written is still to be read: the first is set aside.
BreakCycle(f, moves) ==
  <<Asm("mov", Reg(R10, 8), Reg(moves[1].dst, 8))>> \o EmitMove(f, FromR10(moves, moves[1].dst), 1)
MovesFrom(f, moves) ==
  LET ready == {i \in DOMAIN moves : ~Busy(moves, i)}
  IN CASE moves = <<>> -> <<>>
       [] moves # <<>> /\ ready # {} -> EmitMove(f, moves, FirstOf(ready))
       [] OTHER -> BreakCycle(f, moves)
emit_parallel_register_moves(f, moves) ==
  MovesFrom(f, SelectSeq(moves, LAMBDA mv : ~(IsReg(mv.src) /\ mv.src.id = mv.dst)))

InRegisters(args) == SubSeq(args, 1, IF Len(args) < 6 THEN Len(args) ELSE 6)
OnStack(args) == SubSeq(args, 7, Len(args))
ArgMoves(args) == MapSeq([i \in DOMAIN args |-> i], LAMBDA i : [dst |-> ArgumentRegisters[i], src |-> args[i]])
Padding(args) == 8 * (Len(OnStack(args)) % 2)
PushArgument(f, o) == emit_load_operand(f, o, Rax) \o <<Asm("push", None, Reg(Rax, 8))>>
emit_call_arguments(f, args) ==
  Grow("SUB", Padding(args)) \o FoldRight(LAMBDA o, code : code \o PushArgument(f, o), OnStack(args), <<>>)
    \o emit_parallel_register_moves(f, ArgMoves(InRegisters(args)))
EmitCall(f, inst) ==
  emit_call_arguments(f, inst.args) \o <<CallTo("call", inst.sym, Len(inst.args))>>
    \o Grow("ADD", 8 * Len(OnStack(inst.args)) + Padding(inst.args)) \o emit_store_from_rax(f, inst.dst)
EmitTailCall(f, inst) ==
  emit_call_arguments(f, inst.args) \o Exit(f) \o <<CallTo("tail", inst.sym, Len(inst.args))>>

EmitParam(f, inst, q) ==
  CASE IsReg(inst.dst) /\ Size(inst.dst) < 4 ->
         <<Asm(Extending(inst.dst.signed), Reg(inst.dst.id, 4), Reg(q, Size(inst.dst)))>>
    [] IsReg(inst.dst) /\ Size(inst.dst) = 4 -> <<Asm("mov", Reg(inst.dst.id, 4), Reg(q, 4))>>
    [] IsReg(inst.dst) /\ Size(inst.dst) = 8 -> Move(Reg(inst.dst.id, 8), Reg(q, 8))
    [] inst.dst.kind = "stack" -> <<Asm("mov", Place(f, inst.dst, Size(inst.dst)), Reg(q, Size(inst.dst)))>>

ElseTo(f, b, to) == If(NextBlock(f, b) # to, <<Jump(to)>>)
EmitBranch(f, b, inst) ==
  emit_load_operand(f, inst.dst, Rax) \o <<Asm("test", Reg(Rax, 8), Reg(Rax, 8)),
    JumpIf([op |-> "CMP_NE", signed |-> FALSE], inst.src1.id)>> \o ElseTo(f, b, inst.src2.id)

emit_instruction(f, b, inst) ==
  CASE inst.op \in {"NOP", "PHI"} -> <<>>
    [] inst.op = "MOV" -> EmitMov(f, inst.dst, inst.src1)
    [] inst.op = "LOAD" -> EmitLoad(f, inst)
    [] inst.op = "STORE" -> EmitStore(f, inst)
    [] inst.op = "ADDR" -> EmitAddr(f, inst)
    [] inst.op = "MEMCPY" -> EmitMemcpy(f, inst)
    [] inst.op \in {"ADD", "SUB", "MUL", "AND", "OR", "XOR"} -> emit_binary_op(f, inst)
    [] inst.op \in {"DIV", "MOD"} -> emit_div_mod(f, inst)
    [] inst.op = "NEG" -> EmitUnary(f, inst, "neg")
    [] inst.op = "NOT" -> EmitUnary(f, inst, "not")
    [] inst.op \in {"SHL", "SHR"} -> EmitShift(f, inst)
    [] inst.op \in Comparisons -> EmitCompare(f, inst)
    [] inst.op = "JMP" -> <<Jump(inst.dst.id)>>
    [] inst.op = "BR" -> EmitBranch(f, b, inst)
    [] inst.op = "RET" -> emit_load_operand(f, inst.dst, Rax) \o Exit(f) \o <<Plain("ret")>>
    [] inst.op = "TAIL_CALL" -> EmitTailCall(f, inst)
    [] inst.op = "CALL" -> EmitCall(f, inst)
    [] inst.op = "PARAM" -> EmitParam(f, inst, ArgumentRegisters[inst.src1.id + 1])

-----------------------------------------------------------------------------
(* Instructions that are emitted together. *)

Unsigned(o) == [o EXCEPT !.signed = FALSE]
operand_equals(o, p) == Unsigned(o) = Unsigned(p)
is_same_memory_location(load, store) ==
  /\ load.dst.size = store.src1.size
  /\ operand_equals(load.src1, store.dst) /\ operand_equals(load.src2, store.src2)
  /\ Index(load) = Index(store) /\ Scale(load) = Scale(store)

Reading(inst, q) == \E o \in ToSet(Uses(inst)) : IsReg(o) /\ o.id = q
Writing(inst, q) == inst.op \notin ReadsDst /\ IsReg(inst.dst) /\ inst.dst.id = q
\* Nothing is said of what other blocks read.
is_reg_read_later_in_block(code, q) ==
  LET deciding == SelectSeq(code, LAMBDA inst : Reading(inst, q) \/ Writing(inst, q))
  IN deciding # <<>> /\ Reading(Head(deciding), q)

\* q is read from memory, changed and written back.
From(o, q) == IsReg(o) /\ o.id = q
Changes(inst, q) ==
  \/ inst.op \in {"NOT", "NEG", "SHL", "SHR"} /\ From(inst.src1, q)
  \/ inst.op \in {"ADD", "SUB", "AND", "OR", "XOR"} /\ From(inst.src1, q)
  \/ inst.op \in {"ADD", "AND", "OR", "XOR"} /\ From(inst.src2, q)
Other(inst, q) == IF From(inst.src1, q) THEN inst.src2 ELSE inst.src1

Fusible(load, op, store, behind) ==
  /\ load.op = "LOAD" /\ store.op = "STORE" /\ IsReg(load.dst) /\ IsReg(op.dst) /\ IsReg(store.src1)
  /\ is_same_memory_location(load, store)
  /\ op.dst.id = store.src1.id
  /\ ~From(load.src1, op.dst.id) /\ Index(load) # op.dst.id
  /\ ~is_reg_read_later_in_block(behind, load.dst.id)
  /\ load.dst.id # op.dst.id => ~is_reg_read_later_in_block(behind, op.dst.id)
  /\ Changes(op, load.dst.id)

OnMemory(f, inst, mem, other) ==
  CASE inst.op = "NOT" -> <<Asm("not", mem, None)>>
    [] inst.op = "NEG" -> <<Asm("neg", mem, None)>>
    [] inst.op \in {"SHL", "SHR"} /\ IsConst(other) -> <<Asm(Shift(inst), mem, Imm(other.id))>>
    [] inst.op \in {"SHL", "SHR"} /\ ~IsConst(other) ->
         emit_load_operand(f, other, Rcx) \o <<Asm(Shift(inst), mem, Reg(Rcx, 8))>>
    [] inst.op \in {"ADD", "SUB", "AND", "OR", "XOR"} /\ IsImm32(other) -> <<Asm(inst.op, mem, Imm(other.id))>>
    [] inst.op \in {"ADD", "SUB", "AND", "OR", "XOR"} /\ IsReg(other) -> <<Asm(inst.op, mem, Reg(other.id, mem.size))>>
    [] OTHER -> emit_load_operand(f, other, R10) \o <<Asm(inst.op, mem, Reg(R10, mem.size))>>
try_emit_fused_mem_op(f, load, op) ==
  OnMemory(f, op, format_memory_address(f, load, load.src1, Size(load.dst)), Other(op, load.dst.id))

\* The flags are tested at once and the flag is not written to its register.
Decides(inst, next) ==
  inst.op \in Comparisons /\ next.op = "BR" /\ IsReg(inst.dst) /\ IsReg(next.dst) /\ inst.dst.id = next.dst.id
try_emit_fused_cmp_branch(f, b, inst, next) ==
  emit_cmp_operands(f, inst, Size(inst.src1)) \o <<JumpIf(Condition(inst), next.src1.id)>> \o ElseTo(f, b, next.src2.id)

-----------------------------------------------------------------------------
(* What goes wrong.  `live` are the registers other blocks, or the rest of    *)
(* this one, still read.                                                     *)

\* A register keeps in its upper part what was there before.
Narrow(o, size) == IsReg(o) /\ o.size < size
Careless(inst) ==
  \/ inst.op = "ADD" /\ IsReg(inst.dst) /\ AsAddress(inst) /\ (Narrow(inst.src1, 8) \/ Narrow(inst.src2, 8))
  \/ inst.op \in Unaries /\ IsReg(inst.dst) /\ Narrow(inst.src1, Size(inst.dst))
  \/ inst.op \in Comparisons /\ IsReg(inst.src1) /\ Narrow(inst.src2, Size(inst.src1))
FlawOf(inst) == IF Careless(inst) THEN {"narrow operand read in full"} ELSE {}

FusedFlaw(load, op, live) ==
  IF {load.dst.id, op.dst.id} \cap live # {} \/ From(Other(op, load.dst.id), load.dst.id)
  THEN {"value changed in memory is not in its register"} ELSE {}
FlagFlaw(inst, live) == IF inst.dst.id \in live THEN {"flag of a branch is not in its register"} ELSE {}

-----------------------------------------------------------------------------
\* A block is cut into groups of instructions; they begin here.
Second(insts, i) == IF i + 1 <= Len(insts) THEN insts[i + 1] ELSE Nop
Third(insts, i) == IF i + 2 <= Len(insts) THEN insts[i + 2] ELSE Nop
Behind(insts, i) == SubSeq(insts, i, Len(insts))
Together(insts, i) == Fusible(insts[i], Second(insts, i), Third(insts, i), Behind(insts, i + 3))
Taken(insts, i) ==
  CASE Together(insts, i) -> 3
    [] ~Together(insts, i) /\ Decides(insts[i], Second(insts, i)) -> 2
    [] OTHER -> 1
RECURSIVE Groups(_, _)
Groups(insts, i) == IF i > Len(insts) THEN <<>> ELSE <<i>> \o Groups(insts, i + Taken(insts, i))

Emitted(code, flawed) == [code |-> code, flawed |-> flawed]
EmitGroup(f, b, insts, i, live) ==
  CASE Taken(insts, i) = 3 ->
         Emitted(try_emit_fused_mem_op(f, insts[i], insts[i + 1]), FusedFlaw(insts[i], insts[i + 1], live))
    [] Taken(insts, i) = 2 ->
         Emitted(try_emit_fused_cmp_branch(f, b, insts[i], insts[i + 1]), FlawOf(insts[i]) \cup FlagFlaw(insts[i], live))
    [] Taken(insts, i) = 1 -> Emitted(emit_instruction(f, b, insts[i]), FlawOf(insts[i]))
LiveBehind(insts, i, out) == Allocator!LiveAtStart(Behind(insts, i + Taken(insts, i)), out)
Grouped(f, b, insts, out) == MapSeq(Groups(insts, 1), LAMBDA i : EmitGroup(f, b, insts, i, LiveBehind(insts, i, out)))
Joined(groups) ==
  Emitted(FlattenSeq(MapSeq(groups, LAMBDA g : g.code)), UNION {groups[i].flawed : i \in DOMAIN groups})
EmitBlock(f, in, b) == Joined(Grouped(f, b, f.code[b], Allocator!LiveOut(f, in, b)))
EmitBlocks(f, in) == [b \in Blocks(f) |-> EmitBlock(f, in, b)]
Program(f, emitted) ==
  [entry |-> Entry(f), blocks |-> [b \in Blocks(f) |-> emitted[b].code], order |-> f.order, ret |-> f.ret]
Assembled(f, emitted) ==
  [program |-> Program(f, emitted), flawed |-> UNION {emitted[b].flawed : b \in Blocks(f)}]
emit_function(f) == Assembled(f, EmitBlocks(f, Allocator!compute_liveness(f)))
=============================================================================
