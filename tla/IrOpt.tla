------------------------------- MODULE IrOpt -------------------------------
(***************************************************************************)
(* The peephole optimiser of the intermediate representation              *)
(* (src/ir_opt.c): up to 16 rounds that put constants in the place of      *)
(* registers, simplify instructions, turn a call before a return into a    *)
(* tail call and remove what nothing reads.                                *)
(***************************************************************************)
EXTENDS Cfg

IR_OPT_ROUNDS == 16

is_power_of_two(c) == \E e \in 0 .. 8 * ByteBits - 1 : c = 2 ^ e
get_power_of_two_exp(c) == CHOOSE e \in 0 .. 8 * ByteBits - 1 : c = 2 ^ e

inst_has_side_effects(inst) ==
  \/ inst.op \in {"STORE", "MEMCPY", "JMP", "BR", "RET", "CALL", "PARAM"} \cup TailCalls
  \/ inst.op = "MOV" /\ InMemory(inst.dst)

\* Every instruction of the function, by where it is.
Places(f) == UNION {{<<b, i>> : i \in DOMAIN f.code[b]} : b \in Blocks(f)}
At(f, at) == f.code[at[1]][at[2]]

DefsOf(f, v) == {at \in Places(f) : ~IsNop(At(f, at)) /\ Defines(At(f, at)) /\ At(f, at).dst.id = v}

-----------------------------------------------------------------------------
\* Constants.

Truth(c) == IF c THEN 1 ELSE 0
ShiftCount(b, size) == b % (ByteBits * (IF size = 8 THEN 8 ELSE 4))
Quotient(a, b) ==
  LET q == (IF a < 0 THEN -a ELSE a) \div (IF b < 0 THEN -b ELSE b) IN IF (a < 0) # (b < 0) THEN -q ELSE q

CanFold(op, b, a, signed) ==
  /\ op \in Binaries
  /\ op \in {"DIV", "MOD"} => b # 0 /\ ~(signed /\ b = -1 /\ 2 * a = -Width(8))

Bits(op, a, b) ==
  LET Bit(v, i) == (v \div 2 ^ i) % 2
      Of(p, q) == CASE op = "AND" -> p * q [] op = "OR" -> p + q - p * q [] op = "XOR" -> (p + q) % 2
      Sum[i \in 0 .. 8 * ByteBits] ==
        IF i = 8 * ByteBits THEN 0 ELSE Of(Bit(a, i), Bit(b, i)) * 2 ^ i + Sum[i + 1]
  IN Sum[0]

\* On 64-bit words; without a sign they are taken as uint64_t where it matters.
try_fold_constant_binary(op, a64, b64, size, signed) ==
  LET a == IF signed THEN a64 ELSE Low(a64, 8)
      b == IF signed THEN b64 ELSE Low(b64, 8)
  IN CASE op = "ADD" -> a64 + b64
       [] op = "SUB" -> a64 - b64
       [] op = "MUL" -> a64 * b64
       [] op = "DIV" -> Quotient(a, b)
       [] op = "MOD" -> a - b * Quotient(a, b)
       [] op \in {"AND", "OR", "XOR"} -> Bits(op, Low(a64, 8), Low(b64, 8))
       [] op = "SHL" -> Low(a64, 8) * 2 ^ ShiftCount(b64, size)
       [] op = "SHR" -> a \div 2 ^ ShiftCount(b64, size)
       [] op = "CMP_EQ" -> Truth(a64 = b64)
       [] op = "CMP_NE" -> Truth(a64 # b64)
       [] op = "CMP_LT" -> Truth(a < b)
       [] op = "CMP_LE" -> Truth(a <= b)
       [] op = "CMP_GT" -> Truth(a > b)
       [] op = "CMP_GE" -> Truth(a >= b)

-----------------------------------------------------------------------------
\* One instruction.  A rule that does not apply leaves it as it is.

ToMov(inst, src) == [inst EXCEPT !.op = "MOV", !.src1 = src, !.src2 = ir_op_none]
Const(inst, v) == ir_op_const(v, inst.dst.size, inst.dst.signed)

FoldConstants(inst) ==
  LET a == inst.src1  b == inst.src2 IN
  CASE inst.op = "NEG" /\ IsConst(a) -> ToMov(inst, Const(inst, -a.id))
    [] inst.op = "NOT" /\ IsConst(a) -> ToMov(inst, Const(inst, -1 - a.id))
    [] inst.op \in Binaries /\ IsConst(a) /\ IsConst(b) ->
         IF CanFold(inst.op, b.id, a.id, a.signed)
         THEN ToMov(inst, Const(inst, try_fold_constant_binary(inst.op, a.id, b.id, inst.dst.size, a.signed)))
         ELSE inst
    [] OTHER -> inst

SameOperands(inst) ==
  IF ~IsVReg(inst.src1) \/ ~IsVReg(inst.src2) \/ inst.src1.id # inst.src2.id THEN inst
  ELSE CASE inst.op \in {"SUB", "XOR"} -> ToMov(inst, Const(inst, 0))
         [] inst.op \in {"AND", "OR"} -> ToMov(inst, inst.src1)
         [] inst.op \in {"CMP_EQ", "CMP_LE", "CMP_GE"} -> ToMov(inst, ir_op_const(1, 1, FALSE))
         [] inst.op \in {"CMP_NE", "CMP_LT", "CMP_GT"} -> ToMov(inst, ir_op_const(0, 1, FALSE))
         [] OTHER -> inst

RightConstant(inst) ==
  LET c == inst.src2.id
      op == inst.op
      Shift(to) == [inst EXCEPT !.op = to, !.src2 = ir_op_const(get_power_of_two_exp(c), 8, FALSE)]
  IN CASE ~IsConst(inst.src2) -> inst
       [] op \in {"ADD", "SUB", "OR", "XOR", "SHL", "SHR"} /\ c = 0 -> ToMov(inst, inst.src1)
       [] op \in {"MUL", "DIV"} /\ c = 1 -> ToMov(inst, inst.src1)
       [] op \in {"MUL", "AND"} /\ c = 0 -> ToMov(inst, Const(inst, 0))
       [] op = "MUL" /\ c # 1 /\ is_power_of_two(c) -> Shift("SHL")
       [] op = "DIV" /\ c # 1 /\ ~inst.src1.signed /\ is_power_of_two(c) -> Shift("SHR")
       [] op = "MOD" /\ ~inst.src1.signed /\ is_power_of_two(c) ->
            [inst EXCEPT !.op = "AND", !.src2 = ir_op_const(c - 1, inst.dst.size, FALSE)]
       [] OTHER -> inst

LeftConstant(inst) ==
  LET c == inst.src1.id IN
  CASE ~IsConst(inst.src1) -> inst
    [] inst.op \in {"ADD", "OR", "XOR"} /\ c = 0 -> ToMov(inst, inst.src2)
    [] inst.op = "MUL" /\ c = 1 -> ToMov(inst, inst.src2)
    [] inst.op \in {"MUL", "AND"} /\ c = 0 -> ToMov(inst, Const(inst, 0))
    [] OTHER -> inst

\* A PHI of the block no longer jumped to keeps its operand.
FoldBranch(inst) ==
  CASE inst.op = "BR" /\ IsConst(inst.dst) -> JMP(IF inst.dst.id # 0 THEN inst.src1.id ELSE inst.src2.id)
    [] inst.op = "BR" /\ ~IsConst(inst.dst) /\ inst.src1 = inst.src2 -> JMP(inst.src1.id)
    [] OTHER -> inst

SelfMove(inst) ==
  IF inst.op = "MOV" /\ IsVReg(inst.dst) /\ IsVReg(inst.src1) /\ inst.dst.id = inst.src1.id
       /\ inst.dst.size = inst.src1.size
  THEN [inst EXCEPT !.op = "NOP"] ELSE inst

\* The first rule that applies.
optimize_instruction(inst) ==
  LET tried == <<SelfMove(inst), FoldConstants(inst), SameOperands(inst),
                 RightConstant(inst), LeftConstant(inst), FoldBranch(inst)>>
      k == SelectInSeq(tried, LAMBDA r : r # inst)
  IN IF IsNop(inst) \/ k = 0 THEN inst ELSE tried[k]

-----------------------------------------------------------------------------
\* Tail calls.

\* Whether the operand may be an address in the frame, as far as MOVs and ADDs
\* show.
RECURSIVE EscapesFrom(_, _, _)
EscapesFrom(f, o, seen) ==
  \/ o.kind = "stack"
  \/ /\ IsVReg(o) /\ o.id \notin seen
     /\ \E at \in Places(f) :
          LET inst == At(f, at)
              Follow(q) == EscapesFrom(f, q, seen \cup {o.id})
          IN /\ IsVReg(inst.dst) /\ inst.dst.id = o.id
             /\ \/ inst.op = "ADDR" /\ inst.src1.kind = "stack"
                \/ inst.op \in {"MOV", "ADD"} /\ (Follow(inst.src1) \/ Follow(inst.src2))
operand_escapes_caller_stack(f, o) == EscapesFrom(f, o, {})

MAX_REGISTER_ARGS == 6

\* A call whose result is what the RET behind it returns.
TailCall(f, b, i) ==
  LET inst == f.code[b][i]
      later == SelectSeq([j \in 1 .. Len(f.code[b]) |-> j], LAMBDA j : j > i /\ ~IsNop(f.code[b][j]))
      next == Head(later)
      ret == f.code[b][next]
      Returned == \/ inst.dst.kind = "none" /\ ret.dst.kind = "none"
                  \/ IsVReg(inst.dst) /\ IsVReg(ret.dst) /\ inst.dst.id = ret.dst.id
  IN IF /\ inst.op = "CALL" /\ later # <<>> /\ ret.op = "RET" /\ Returned
        /\ Len(inst.args) <= MAX_REGISTER_ARGS
        /\ \A k \in DOMAIN inst.args : ~operand_escapes_caller_stack(f, inst.args[k])
     THEN [f EXCEPT !.code[b][i].op = "TAIL_CALL", !.code[b][next].op = "NOP"] ELSE f

-----------------------------------------------------------------------------
\* A round.  The table has the constant of every register met so far that one
\* MOV, and nothing else, defines.

resolve_operand_from_table(table, o) ==
  IF IsVReg(o) /\ o.id \in DOMAIN table THEN ir_op_const(table[o.id], o.size, o.signed) ELSE o

Rewrite(S, b, i, inst) ==
  LET f1 == TailCall([S.f EXCEPT !.code[b][i] = inst], b, i)
      known == inst.op = "MOV" /\ IsVReg(inst.dst) /\ IsConst(inst.src1) /\ inst.dst.id \in S.single
  IN IF IsNop(S.f.code[b][i]) THEN S
     ELSE [S EXCEPT !.f = f1,
                    !.table = IF ~known THEN @
                              ELSE [v \in DOMAIN @ \cup {inst.dst.id} |-> IF v = inst.dst.id THEN Const(inst, inst.src1.id).id ELSE @[v]]]

OptimizeAt(S, b, i) ==
  Rewrite(S, b, i, optimize_instruction(MapUses(S.f.code[b][i], LAMBDA o : resolve_operand_from_table(S.table, o))))

OptimizeBlock(S, b) == FoldLeft(LAMBDA acc, i : OptimizeAt(acc, b, i), S, [i \in DOMAIN S.f.code[b] |-> i])

\* Nothing reads the register.  A division or a load goes with it.
RemoveUnread(f) ==
  LET insts == {At(f, at) : at \in Places(f)}
      read == {o.id : o \in {q \in UNION {ToSet(Uses(inst)) : inst \in {n \in insts : ~IsNop(n)}} : IsVReg(q)}}
      Dead(inst) == ~IsNop(inst) /\ ~inst_has_side_effects(inst) /\ IsVReg(inst.dst) /\ inst.dst.id \notin read
  IN MapInsts(f, LAMBDA inst : IF Dead(inst) THEN Nop ELSE inst)

OptRound(f) ==
  LET single == {v \in 0 .. f.vregs - 1 : Cardinality(DefsOf(f, v)) = 1}
      S == FoldLeft(OptimizeBlock, [f |-> f, table |-> [v \in {} |-> 0], single |-> single], f.order)
  IN RemoveUnread(S.f)

RECURSIVE OptRounds(_, _)
OptRounds(f, left) ==
  LET Then(f1) == IF f1 = f THEN f ELSE OptRounds(f1, left - 1)
  IN IF left = 0 THEN f ELSE Then(OptRound(f))

\* The registers that may hold an address in the frame, however they came by it.
RECURSIVE MayPoint(_, _)
MayPoint(insts, known) ==
  LET Points(inst) == \/ inst.op = "ADDR" /\ inst.src1.kind = "stack"
                      \/ inst.op \in {"MOV", "ADD", "SUB", "PHI"}
                           /\ \E o \in ToSet(Uses(inst)) : IsVReg(o) /\ o.id \in known
      next == known \cup {inst.dst.id : inst \in {n \in insts : Defines(n) /\ Points(n)}}
  IN IF next = known THEN known ELSE MayPoint(insts, next)

\* A tail call is passed an address that the check could not follow.
Dangles(f) ==
  LET insts == {At(f, at) : at \in Places(f)}
  IN \E inst \in insts : inst.op = "TAIL_CALL" /\ \E o \in ToSet(inst.args) :
       IsVReg(o) /\ o.id \in MayPoint(insts, {}) /\ ~operand_escapes_caller_stack(f, o)

ir_opt_run_on_function(f) ==
  LET Judged(g) == [f |-> g, flawed |-> IF Dangles(g) THEN {"frame given up while its address is passed on"} ELSE {}]
  IN Judged(ir_eliminate_nops(OptRounds(f, IR_OPT_ROUNDS)))
=============================================================================
