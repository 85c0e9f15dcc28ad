-------------------------------- MODULE Sccp --------------------------------
(***************************************************************************)
(* Sparse conditional constant propagation (src/sccp.c): what registers    *)
(* hold, as far as it is known, along the edges that can be taken.         *)
(*                                                                         *)
(* The state S has the value of every register and the executable edges.   *)
(* The code keeps worklists; they decide in which order instructions are   *)
(* evaluated again, not what comes out: values only go up the lattice.      *)
(* Here they are evaluated in rounds, until a round changes nothing.        *)
(***************************************************************************)
EXTENDS Cfg

-----------------------------------------------------------------------------
\* The lattice: undefined, an integer, an address, anything.
Lattice(kind, size, signed, bits, base) ==
  [kind |-> kind, size |-> size, signed |-> signed, bits |-> bits, base |-> base]

NoBase == ir_op_none
sccp_undef == Lattice("undef", 0, FALSE, 0, NoBase)
sccp_overdefined == Lattice("over", 0, FALSE, 0, NoBase)

\* An integer is kept as the bits of its width.
sccp_int_value(v, size, signed) == Lattice("int", size, signed, Low(v, size), NoBase)

\* The address `off` bytes into a slot or global, or one that is just not null.
sccp_ptr_exact(o, off) == Lattice("exact", 8, FALSE, off, o)
sccp_ptr_nonnull == Lattice("nonnull", 8, FALSE, 0, NoBase)

IsInt(v) == v.kind = "int"
IsPtr(v) == v.kind \in {"exact", "nonnull"}

sccp_merge(l, r) ==
  CASE l.kind = "undef" -> r
    [] r.kind = "undef" -> l
    [] l.kind # "undef" /\ l = r -> l
    [] IsPtr(l) /\ IsPtr(r) /\ l # r -> sccp_ptr_nonnull
    [] OTHER -> sccp_overdefined

\* The integer as one of `size` bytes, extended by its own sign.
sccp_int_extend_to(v, size) == Low(Extended(v.bits, v.size, v.signed), size)
Signed(bits, size) == Extended(bits, size, TRUE)

sccp_narrow_to_operand(v, o) ==
  CASE IsInt(v) -> sccp_int_value(sccp_int_extend_to(v, o.size), o.size, o.signed)
    [] IsPtr(v) /\ o.size # 8 -> sccp_overdefined
    [] OTHER -> v

sccp_operand_value(S, o) ==
  CASE IsConst(o) -> sccp_int_value(o.id, o.size, o.signed)
    [] IsVReg(o) -> sccp_narrow_to_operand(S.val[o.id], o)
    [] OTHER -> sccp_overdefined

-----------------------------------------------------------------------------
\* Evaluation.

BitsOf(op, p, q, size) ==
  LET Bit(v, i) == (v \div 2 ^ i) % 2
      Of(x, y) == CASE op = "AND" -> x * y [] op = "OR" -> x + y - x * y [] op = "XOR" -> (x + y) % 2
      Sum[i \in 0 .. ByteBits * size] ==
        IF i = ByteBits * size THEN 0 ELSE Of(Bit(p, i), Bit(q, i)) * 2 ^ i + Sum[i + 1]
  IN Sum[0]

DivTowardsZero(x, y) ==
  LET q == (IF x < 0 THEN -x ELSE x) \div (IF y < 0 THEN -y ELSE y) IN IF (x < 0) # (y < 0) THEN -q ELSE q

\* At the width and with the sign of the result; a count is taken modulo the width.
Evaluated(op, l, r, dst) ==
  LET size == dst.size
      p == sccp_int_extend_to(l, size)
      q == sccp_int_extend_to(r, size)
      x == IF dst.signed THEN Signed(p, size) ELSE p
      y == IF dst.signed THEN Signed(q, size) ELSE q
      count == q % (ByteBits * size)
  IN CASE op = "ADD" -> p + q
       [] op = "SUB" -> p - q
       [] op = "MUL" -> Signed(p, size) * Signed(q, size)
       [] op = "DIV" -> DivTowardsZero(x, y)
       [] op = "MOD" -> x - y * DivTowardsZero(x, y)
       [] op \in {"AND", "OR", "XOR"} -> BitsOf(op, p, q, size)
       [] op = "SHL" -> p * 2 ^ count
       [] op = "SHR" -> x \div 2 ^ count

\* The quotient has no value: by zero, or of the least 64-bit integer by -1.
NotDivisible(l, r, dst) ==
  LET p == sccp_int_extend_to(l, dst.size)
      q == sccp_int_extend_to(r, dst.size)
  IN q = 0 \/ (dst.signed /\ dst.size = 8 /\ Signed(p, 8) * 2 = -Width(8) /\ Signed(q, 8) = -1)

evaluate_integer_binary(op, l, r, dst) ==
  IF "undef" \in {l.kind, r.kind} THEN sccp_undef
  ELSE IF ~IsInt(l) \/ ~IsInt(r) \/ (op \in {"DIV", "MOD"} /\ NotDivisible(l, r, dst)) THEN sccp_overdefined
  ELSE sccp_int_value(Evaluated(op, l, r, dst), dst.size, dst.signed)

Holds(op, x, y) ==
  CASE op = "CMP_EQ" -> x = y [] op = "CMP_NE" -> x # y
    [] op = "CMP_LT" -> x < y [] op = "CMP_LE" -> x <= y
    [] op = "CMP_GT" -> x > y [] op = "CMP_GE" -> x >= y
Boolean(c) == sccp_int_value(IF c THEN 1 ELSE 0, 1, FALSE)

\* Integers of one type; addresses that are known to the byte.
evaluate_compare(op, l, r) ==
  CASE "undef" \in {l.kind, r.kind} -> sccp_undef
    [] l.kind = "exact" /\ r.kind = "exact" /\ op \in {"CMP_EQ", "CMP_NE"} -> Boolean(Holds(op, l, r))
    [] IsInt(l) /\ IsInt(r) /\ l.size = r.size /\ l.signed = r.signed ->
         Boolean(IF l.signed THEN Holds(op, Signed(l.bits, l.size), Signed(r.bits, r.size)) ELSE Holds(op, l.bits, r.bits))
    [] OTHER -> sccp_overdefined

CanAddTo(p, n) == p.kind = "exact" /\ IsInt(n)
pointer_add_constant(p, n, direction) ==
  sccp_ptr_exact(p.base, p.bits + direction * Extended(n.bits, n.size, n.signed))

\* What the PHI holds by the edges found executable so far.
EvaluatePhi(S, inst, b) ==
  LET taken == SelectSeq(inst.args, LAMBDA q : <<q.from, b>> \in S.edges)
  IN FoldLeft(LAMBDA v, q : sccp_merge(v, sccp_operand_value(S, q.val)), sccp_undef, taken)

evaluate_inst(S, inst, b) ==
  LET l == sccp_operand_value(S, inst.src1)
      r == sccp_operand_value(S, inst.src2)
  IN CASE inst.op = "MOV" -> sccp_narrow_to_operand(l, inst.dst)
       [] inst.op = "PHI" -> EvaluatePhi(S, inst, b)
       [] inst.op = "ADDR" -> sccp_ptr_exact(inst.src1, 0)
       [] inst.op = "ADD" /\ CanAddTo(l, r) -> pointer_add_constant(l, r, 1)
       [] inst.op = "ADD" /\ CanAddTo(r, l) -> pointer_add_constant(r, l, 1)
       [] inst.op = "SUB" /\ CanAddTo(l, r) -> pointer_add_constant(l, r, -1)
       [] inst.op \in Arithmetic /\ ~CanAddTo(l, r) /\ ~CanAddTo(r, l) -> evaluate_integer_binary(inst.op, l, r, inst.dst)
       [] inst.op \in Unaries /\ ~IsInt(l) -> IF l.kind = "undef" THEN l ELSE sccp_overdefined
       [] inst.op = "NEG" /\ IsInt(l) ->
            IF l.signed /\ inst.dst.size = 8 /\ 2 * Signed(l.bits, l.size) = -Width(8) THEN sccp_overdefined
            ELSE sccp_int_value(-l.bits, inst.dst.size, inst.dst.signed)
       [] inst.op = "NOT" /\ IsInt(l) -> sccp_int_value(-1 - l.bits, inst.dst.size, inst.dst.signed)
       [] inst.op \in Comparisons -> evaluate_compare(inst.op, l, r)
       [] OTHER -> sccp_overdefined

update_value(S, v, new) == [S EXCEPT !.val[v] = sccp_merge(@, new)]

-----------------------------------------------------------------------------
\* Edges.

\* The condition is known to hold, or known not to.
KnownTrue(v) == IsPtr(v) \/ (IsInt(v) /\ v.bits # 0)
KnownFalse(v) == IsInt(v) /\ v.bits = 0

\* Where control goes from the end of a block.  (One that runs into the next
\* block without a jump, and is not empty, goes nowhere.)
evaluate_terminator(S, f, b) ==
  LET term == LastInst(f, b)
      c == sccp_operand_value(S, term.dst)
      targets == CASE f.code[b] = <<>> -> {NextBlock(f, b)} \ {NoBlock}
                   [] term.op = "JMP" -> {term.dst.id}
                   [] term.op = "BR" -> (IF KnownFalse(c) THEN {} ELSE {term.src1.id})
                                          \cup (IF KnownTrue(c) THEN {} ELSE {term.src2.id})
                   [] OTHER -> {}
  IN [S EXCEPT !.edges = @ \cup {<<b, t>> : t \in targets}]

Executable(S, f, b) == b = Entry(f) \/ \E e \in S.edges : e[2] = b

process_block(S, f, b) ==
  LET Step(acc, inst) == IF Defines(inst) THEN update_value(acc, inst.dst.id, evaluate_inst(acc, inst, b)) ELSE acc
  IN evaluate_terminator(FoldLeft(Step, S, f.code[b]), f, b)

RECURSIVE Propagate(_, _)
Propagate(S, f) ==
  LET S1 == FoldLeft(LAMBDA acc, b : IF Executable(acc, f, b) THEN process_block(acc, f, b) ELSE acc, S, f.order)
  IN IF S1 = S THEN S ELSE Propagate(S1, f)

-----------------------------------------------------------------------------
fold_operand(S, o) ==
  IF IsVReg(o) /\ IsInt(S.val[o.id]) THEN ir_op_const(sccp_int_extend_to(S.val[o.id], o.size), o.size, o.signed) ELSE o

instruction_has_side_effects(inst) ==
  \/ inst.op \in {"STORE", "MEMCPY", "JMP", "BR", "RET", "CALL", "PARAM"} \cup TailCalls
  \/ inst.op = "MOV" /\ InMemory(inst.dst)

\* Constants for the operands, and for a result that is one; a jump for a
\* branch that is decided.  PHIs behind it keep their operands.
Folded(S, old) ==
  LET inst == MapUses(old, LAMBDA o : fold_operand(S, o))
      c == sccp_operand_value(S, inst.dst)
      v == IF IsVReg(inst.dst) THEN S.val[inst.dst.id] ELSE sccp_overdefined
  IN CASE IsNop(old) -> old
       [] inst.op = "BR" -> IF KnownTrue(c) THEN JMP(inst.src1.id) ELSE IF KnownFalse(c) THEN JMP(inst.src2.id) ELSE inst
       [] inst.op # "BR" /\ IsInt(v) /\ ~instruction_has_side_effects(inst) ->
            MOV(inst.dst, ir_op_const(v.bits, inst.dst.size, inst.dst.signed))
       [] OTHER -> inst

\* A block that is never reached is emptied, its jump included.
apply_results(S, f) ==
  [f EXCEPT !.code = [b \in DOMAIN @ |->
     IF b \in Blocks(f) /\ Executable(S, f, b) THEN MapSeq(@[b], LAMBDA inst : Folded(S, inst)) ELSE <<>>] \o <<>>]

sccp_run_on_function(f) ==
  LET S0 == [val |-> [v \in 0 .. f.vregs - 1 |-> sccp_undef], edges |-> {}]
  IN ir_eliminate_nops(apply_results(Propagate(S0, f), f))
=============================================================================
