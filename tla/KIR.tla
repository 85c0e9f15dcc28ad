-------------------------------- MODULE KIR --------------------------------
(***************************************************************************)
(* The intermediate representation of the bootstrap compiler (src/ir.h)    *)
(* and the procedures of ir_lower.c that build it.                         *)
(*                                                                         *)
(* An operand says what is read or written, its size in bytes and whether  *)
(* it is signed.  An instruction has an opcode, up to three operands and,   *)
(* for a CALL or a PHI, a list of arguments.  A function is                *)
(*   code     for every block its list of instructions                    *)
(*   order    the blocks in layout order (first_block, next_block, ...)    *)
(*   vregs    next_vreg_id                                                 *)
(*   slots    its stack slots: offset from rbp, size                       *)
(*   frame    stack_frame_size                                             *)
(*   saved    the callee's registers it has been given (callee_saved_mask) *)
(*   ret      the size of what it returns, 0 for nothing                   *)
(* Blocks are numbered in the order they are made; the entry block is 1.   *)
(***************************************************************************)
EXTENDS Integers, Sequences, SequencesExt

CONSTANT ByteBits        \* the bits of a byte, 8 on the machine

ASSUME ByteBitsAssumption == ByteBits \in 1..2

NoBlock == 0

\* The words of `size` bytes, and v cut to one and extended as its sign says.
Width(size) == 2 ^ (ByteBits * size)
Low(v, size) == v % Width(size)
Extended(v, size, signed) ==
  LET u == Low(v, size) IN IF signed /\ 2 * u >= Width(size) THEN u - Width(size) ELSE u

\* A constant is kept in an int64_t.
int_truncate_to_width(v, size, signed) == Extended(v, size, signed \/ size = 8)

\* The list of what Op makes of the members of s.  (The `\o` has TLC build it.)
MapSeq(s, Op(_)) == [i \in DOMAIN s |-> Op(s[i])] \o <<>>

\* The constructors of operands.
Operand(kind, id, size, signed) == [kind |-> kind, id |-> id, size |-> size, signed |-> signed]
ir_op_none == Operand("none", 0, 0, FALSE)
ir_op_const(v, size, signed) == Operand("const", int_truncate_to_width(v, size, signed), size, signed)
ir_op_vreg(v, size, signed) == Operand("vreg", v, size, signed)
ir_op_reg(r, size, signed) == Operand("reg", r, size, signed)
ir_op_stack(off, size, signed) == Operand("stack", off, size, signed)
ir_op_global(g, size, signed) == Operand("global", g, size, signed)
ir_op_block(b) == Operand("block", b, 0, FALSE)

IsVReg(o) == o.kind = "vreg"
IsConst(o) == o.kind = "const"
InMemory(o) == o.kind \in {"stack", "global"}

Inst(op, dst, src1, src2) == [op |-> op, dst |-> dst, src1 |-> src1, src2 |-> src2, args |-> <<>>, sym |-> ""]
Nop == Inst("NOP", ir_op_none, ir_op_none, ir_op_none)
MOV(dst, src) == Inst("MOV", dst, src, ir_op_none)
JMP(b) == Inst("JMP", ir_op_block(b), ir_op_none, ir_op_none)
BR(cond, t1, t2) == Inst("BR", cond, ir_op_block(t1), ir_op_block(t2))
RET(o) == Inst("RET", o, ir_op_none, ir_op_none)
CALL(dst, sym, args) == [Inst("CALL", dst, ir_op_none, ir_op_none) EXCEPT !.sym = sym, !.args = args]
\* A PHI's arguments are pairs of an operand and the block it comes from.
PHI(dst, args) == [Inst("PHI", dst, ir_op_none, ir_op_none) EXCEPT !.args = args]

Comparisons == {"CMP_EQ", "CMP_NE", "CMP_LT", "CMP_LE", "CMP_GT", "CMP_GE"}
Arithmetic == {"ADD", "SUB", "MUL", "DIV", "MOD", "AND", "OR", "XOR", "SHL", "SHR"}
Binaries == Arithmetic \cup Comparisons
Unaries == {"NEG", "NOT"}
TailCalls == {"TAIL_CALL"}
\* Instructions whose `dst` is read rather than written.
ReadsDst == {"STORE", "MEMCPY", "BR", "RET"}

IsPhi(inst) == inst.op = "PHI"
IsNop(inst) == inst.op = "NOP"

\* The registers of the machine are numbered: rax 1, rcx, rdx, rbx, rsi, rdi, rsp,
\* rbp 8, r8 9 to r15 16.  Those of the first six parameters, and those a call
\* does not keep.
ArgumentRegisters == <<6, 5, 3, 2, 9, 10>>          \* rdi, rsi, rdx, rcx, r8, r9
CallerSaved == <<1, 2, 3, 5, 6, 9, 10, 11, 12>>     \* rax, rcx, rdx, rsi, rdi, r8 to r11

-----------------------------------------------------------------------------
ir_function_create(ret) ==
  [code |-> <<<<>>>>, order |-> <<1>>, vregs |-> 0, slots |-> <<>>, frame |-> 0, saved |-> {}, ret |-> ret]

\* Faulty: the slot is put where the frame begins.
SlotAtFrameStart(f, size, align) ==
  LET RoundUp(n) == ((n + align - 1) \div align) * align
  IN [f EXCEPT !.frame = RoundUp(@ + RoundUp(size)),
               !.slots = Append(@, [offset |-> -RoundUp(size), size |-> size, align |-> align, spill |-> FALSE])]

\* The slot is the last one of `slots`; its offset is minus the frame size.
ir_func_alloc_stack_slot(f, size, align) ==
  LET RoundUp(n) == ((n + align - 1) \div align) * align
      frame == RoundUp(f.frame + RoundUp(size))
  IN [f EXCEPT !.frame = frame,
               !.slots = Append(@, [offset |-> -frame, size |-> size, align |-> align, spill |-> FALSE])]

ir_vreg_alloc(f) == [f EXCEPT !.vregs = @ + 1]

ir_block_create(f) == [f EXCEPT !.code = Append(@, <<>>)]

\* A block is linked when code is first put in it.
ir_block_place(f, b) == IF b \in ToSet(f.order) THEN f ELSE [f EXCEPT !.order = Append(@, b)]

IsTerminated(f, b) == f.code[b] # <<>> /\ Last(f.code[b]).op \in {"JMP", "BR", "RET"}

\* A block that has its JMP, BR or RET takes no more instructions.
ir_emit(f, b, inst) == IF IsTerminated(f, b) THEN f ELSE [f EXCEPT !.code[b] = Append(@, inst)]

ir_eliminate_nops(f) ==
  [f EXCEPT !.code = MapSeq(@, LAMBDA code : SelectSeq(code, LAMBDA inst : ~IsNop(inst)))]

-----------------------------------------------------------------------------
\* Reading a function.

Blocks(f) == ToSet(f.order)
LastInst(f, b) == IF f.code[b] = <<>> THEN Nop ELSE Last(f.code[b])
FirstInst(f, b) == IF f.code[b] = <<>> THEN Nop ELSE Head(f.code[b])
Position(f, b) == CHOOSE i \in DOMAIN f.order : f.order[i] = b
NextBlock(f, b) == LET i == Position(f, b) IN IF i < Len(f.order) THEN f.order[i + 1] ELSE NoBlock

\* Where control may go from the end of a block, as every pass computes it: a
\* block without a JMP, BR, RET or TAIL_CALL runs into the next one.
Successors(f, b) ==
  LET term == LastInst(f, b) IN
  CASE term.op = "JMP" -> <<term.dst.id>>
    [] term.op = "BR" -> IF term.src1.id = term.src2.id THEN <<term.src1.id>>
                         ELSE <<term.src1.id, term.src2.id>>
    [] term.op \in {"RET"} \cup TailCalls -> <<>>
    [] OTHER -> IF NextBlock(f, b) = NoBlock THEN <<>> ELSE <<NextBlock(f, b)>>

Phis(f, b) == SelectSeq(f.code[b], IsPhi)

\* The operand of a PHI for the edge from p: the first one that names it.
Incoming(phi, p) ==
  LET named == SelectSeq(phi.args, LAMBDA a : a.from = p)
  IN IF named = <<>> THEN ir_op_none ELSE Head(named).val

\* The operands an instruction reads; a PHI's are those of its edges.
Uses(inst) ==
  (IF inst.op \in ReadsDst THEN <<inst.dst>> ELSE <<>>)
    \o <<inst.src1, inst.src2>>
    \o (IF IsPhi(inst) THEN MapSeq(inst.args, LAMBDA a : a.val) ELSE inst.args)

Defines(inst) == inst.op \notin ReadsDst /\ IsVReg(inst.dst)

\* The same instruction with every operand it reads replaced.
MapUses(inst, New(_)) ==
  [inst EXCEPT !.dst = IF inst.op \in ReadsDst THEN New(@) ELSE @,
               !.src1 = New(@), !.src2 = New(@),
               !.args = IF IsPhi(inst) THEN MapSeq(@, LAMBDA a : [a EXCEPT !.val = New(@)]) ELSE MapSeq(@, New)]

\* Op of every instruction of a placed block.
MapInsts(f, Op(_)) ==
  [f EXCEPT !.code = [b \in DOMAIN @ |-> IF b \in Blocks(f) THEN MapSeq(@[b], Op) ELSE @[b]] \o <<>>]
=============================================================================
