-------------------------------- MODULE Gvn --------------------------------
(***************************************************************************)
(* Global value numbering (src/gvn.c): registers that are known to hold    *)
(* the same value get the same number, and an instruction that would       *)
(* compute a number again copies the register that has it, its leader.     *)
(*                                                                         *)
(* The walk over the dominator tree carries S:                             *)
(*   f        the function                                                 *)
(*   next     next_value_number                                            *)
(*   vn       value_number of the registers, GVN_INVALID_VN for none       *)
(*   exprs    the numbers of expressions, leaders the registers that have   *)
(*            them (the latest first), as of the way down the tree         *)
(*   mem      what memory was last stored with, since the block began      *)
(*   blurred  history: numbers given to values that may differ             *)
(*   stale    history: whether memory changed behind the back of `mem`     *)
(*   flawed   history: why what it computes may not be what it was         *)
(***************************************************************************)
EXTENDS Cfg

GVN_INVALID_VN == 0

gvn_is_commutative(op) == op \in {"ADD", "MUL", "AND", "OR", "XOR", "CMP_EQ", "CMP_NE"}
gvn_is_pure(op) == op \in Arithmetic \cup Unaries \cup {"ADDR"}
\* Those of them that have one operand.
IsOneSided(op) == op \in Unaries \cup {"ADDR"}

gvn_is_memory_read(inst) ==
  inst.op = "LOAD" \/ (inst.op = "MOV" /\ IsVReg(inst.dst) /\ InMemory(inst.src1))
gvn_is_memory_write(inst) == inst.op = "STORE" \/ (inst.op = "MOV" /\ InMemory(inst.dst))
gvn_is_memory_clobber(inst) == inst.op \in {"MEMCPY", "CALL"} \cup TailCalls

-----------------------------------------------------------------------------
\* Numbers.  A key says how a value comes about; the number of a key that is
\* met for the first time is a new one.

Key(how, from, o) == [how |-> how, from |-> from, size |-> o.size, signed |-> o.signed]

NumberOf(S, key) ==
  IF key \in DOMAIN S.exprs THEN [s |-> S, n |-> S.exprs[key]]
  ELSE [s |-> [S EXCEPT !.next = @ + 1,
                        !.exprs = [k \in DOMAIN @ \cup {key} |-> IF k = key THEN S.next ELSE @[k]]],
        n |-> S.next]

gvn_operand_value_number(S, o) ==
  CASE IsVReg(o) -> [s |-> S, n |-> S.vn[o.id]]
    [] o.kind \in {"const", "stack", "global"} -> NumberOf(S, Key(o.kind, <<o.id>>, o))
    [] OTHER -> [s |-> S, n |-> GVN_INVALID_VN]

\* The operands of a commutative operation in the order of their numbers.
gvn_make_expr_number(S, op, lhs, rhs, dst) ==
  LET swapped == gvn_is_commutative(op) /\ lhs > rhs
  IN IF lhs = GVN_INVALID_VN \/ (rhs = GVN_INVALID_VN /\ ~IsOneSided(op)) THEN [s |-> S, n |-> GVN_INVALID_VN]
     ELSE NumberOf(S, Key(op, IF swapped THEN <<rhs, lhs>> ELSE <<lhs, rhs>>, dst))

Blur(S, n) == [S EXCEPT !.blurred = @ \cup {n}]
Flawed(S, why) == [S EXCEPT !.flawed = @ \cup {why}]

RECURSIVE NumbersOf(_, _, _)
NumbersOf(S, args, ns) ==
  IF args = <<>> THEN [s |-> S, ns |-> ns]
  ELSE LET r == gvn_operand_value_number(S, Head(args).val)
       IN IF Head(args).val.kind \notin {"vreg", "const"} \/ r.n = GVN_INVALID_VN
          THEN [s |-> r.s, ns |-> <<GVN_INVALID_VN>>]
          ELSE NumbersOf(r.s, Tail(args), Append(ns, r.n))

\* A PHI of one value is that value.  Of others the key is the list of their
\* numbers, whichever block the PHI is in.  (The code keeps a hash of it.)
gvn_make_phi_number(S, inst) ==
  LET r == NumbersOf(S, inst.args, <<>>)
      key == Key("PHI", r.ns, inst.dst)
      known == key \in DOMAIN r.s.exprs
      new == NumberOf(r.s, key)
  IN IF r.ns = <<>> \/ GVN_INVALID_VN \in ToSet(r.ns) THEN [s |-> r.s, n |-> GVN_INVALID_VN]
     ELSE IF \A k \in DOMAIN r.ns : r.ns[k] = r.ns[1] THEN [s |-> r.s, n |-> r.ns[1]]
     ELSE [new EXCEPT !.s = IF known THEN Flawed(@, "PHIs of two blocks taken for one") ELSE @]

-----------------------------------------------------------------------------
\* Leaders.

gvn_get_leader(S, n) ==
  LET k == SelectInSeq(S.leaders, LAMBDA l : l.n = n)
  IN IF n = GVN_INVALID_VN \/ k = 0 THEN ir_op_none ELSE S.leaders[k].reg

\* The register d has number n, and is its leader from now on.
gvn_set_leader(S, n, d) ==
  IF n = GVN_INVALID_VN THEN S
  ELSE [S EXCEPT !.vn[d.id] = n, !.leaders = <<[n |-> n, reg |-> d]>> \o @]

\* History: a value that was converted on the way, or is kept in a register too
\* small for it, stands in for another.
Blurs(S, n, d) == n \in S.blurred \/ gvn_get_leader(S, n).size < d.size
Judged(S, n, d) == IF Blurs(S, n, d) THEN Flawed(S, "conversion forgotten") ELSE S

\* Instruction i of block b copies the leader of n.
CopyLeader(S, b, i, n) ==
  LET d == S.f.code[b][i].dst
  IN Judged([S EXCEPT !.f.code[b][i] = MOV(d, ir_op_vreg(gvn_get_leader(S, n).id, d.size, d.signed))], n, d)

HasOtherLeader(S, n, d) == gvn_get_leader(S, n).kind # "none" /\ gvn_get_leader(S, n).id # d.id

-----------------------------------------------------------------------------
\* Memory: what is stored is remembered for the very operand it was stored in.

gvn_invalidate_memory(S) == [S EXCEPT !.mem = <<>>, !.stale = FALSE]

MemKey(o, size, signed) == [base |-> o, size |-> size, signed |-> signed]

gvn_try_forward_load(S, b, i) ==
  LET inst == S.f.code[b][i]
      key == MemKey(inst.src1, inst.dst.size, inst.dst.signed)
      k == SelectInSeq(S.mem, LAMBDA m : m.key = key)
      n == IF k = 0 THEN GVN_INVALID_VN ELSE S.mem[k].n
      seen == IF S.stale THEN Flawed(S, "store through a pointer forgotten") ELSE S
      leader == gvn_get_leader(S, n)
  IN IF InMemory(inst.src1) /\ HasOtherLeader(S, n, inst.dst)
     THEN gvn_set_leader(CopyLeader(seen, b, i, n), S.vn[leader.id], inst.dst)
     ELSE S

\* A store through a register changes nothing of what is remembered; one of
\* a value without a number forgets it all.
gvn_record_store(S, inst) ==
  LET r == gvn_operand_value_number(S, inst.src1)
  IN IF ~InMemory(inst.dst) THEN [S EXCEPT !.stale = TRUE]
     ELSE IF inst.op = "MOV" /\ InMemory(inst.src1) THEN gvn_invalidate_memory(S)
     ELSE IF r.n = GVN_INVALID_VN THEN gvn_invalidate_memory(r.s)
     ELSE [r.s EXCEPT !.mem = <<[key |-> MemKey(inst.dst, inst.src1.size, inst.src1.signed), n |-> r.n]>> \o @]

-----------------------------------------------------------------------------
\* One instruction.

ProcessPhi(S, inst) == LET r == gvn_make_phi_number(S, inst) IN gvn_set_leader(r.s, r.n, inst.dst)

\* A copy reads the leader of its value, with its own size and sign.
ProcessMov(S, b, i) ==
  LET inst == S.f.code[b][i]
      r == gvn_operand_value_number(S, inst.src1)
      converts == IsVReg(inst.src1) /\ (inst.src1.size # inst.dst.size \/ inst.src1.signed # inst.dst.signed)
      blurred == IF converts THEN Blur(r.s, r.n) ELSE r.s
      S1 == IF HasOtherLeader(r.s, r.n, inst.dst) /\ IsVReg(inst.src1) THEN CopyLeader(blurred, b, i, r.n) ELSE blurred
  IN IF r.n = GVN_INVALID_VN THEN r.s ELSE gvn_set_leader(S1, r.n, inst.dst)

ProcessPure(S, b, i) ==
  LET inst == S.f.code[b][i]
      l == gvn_operand_value_number(S, inst.src1)
      r == gvn_operand_value_number(l.s, inst.src2)
      e == gvn_make_expr_number(r.s, inst.op, l.n, r.n, inst.dst)
      S1 == IF {l.n, r.n} \cap S.blurred # {} THEN Blur(e.s, e.n) ELSE e.s
  IN IF e.n = GVN_INVALID_VN THEN e.s
     ELSE gvn_set_leader(IF HasOtherLeader(e.s, e.n, inst.dst) THEN CopyLeader(S1, b, i, e.n) ELSE S1, e.n, inst.dst)

gvn_process_inst(S, b, i) ==
  LET inst == S.f.code[b][i] IN
  CASE gvn_is_memory_clobber(inst) -> gvn_invalidate_memory(S)
    [] gvn_is_memory_read(inst) -> gvn_try_forward_load(S, b, i)
    [] gvn_is_memory_write(inst) -> gvn_record_store(S, inst)
    [] IsPhi(inst) -> ProcessPhi(S, inst)
    [] inst.op = "MOV" /\ ~InMemory(inst.dst) /\ ~InMemory(inst.src1) -> ProcessMov(S, b, i)
    [] gvn_is_pure(inst.op) -> ProcessPure(S, b, i)
    [] OTHER -> S

\* A block, then those it dominates; what was learnt on the way is unlearnt
\* but for the numbers of the registers.
RECURSIVE gvn_dom_walk(_, _, _)
gvn_dom_walk(S, g, b) ==
  LET here == FoldLeft(LAMBDA acc, i : gvn_process_inst(acc, b, i), gvn_invalidate_memory(S),
                       [i \in DOMAIN S.f.code[b] |-> i])
      below == FoldLeft(LAMBDA acc, c : gvn_dom_walk(acc, g, c), here, DomChildren(g, b))
  IN [gvn_invalidate_memory(below) EXCEPT !.exprs = S.exprs, !.leaders = S.leaders]

gvn_run_on_function(f) ==
  LET S0 == [f |-> f, next |-> 1, vn |-> [v \in 0 .. f.vregs - 1 |-> GVN_INVALID_VN],
             exprs |-> [k \in {} |-> 0], leaders |-> <<>>, mem |-> <<>>,
             blurred |-> {}, stale |-> FALSE, flawed |-> {}]
      S == gvn_dom_walk(S0, Graph(f), Entry(f))
  IN [f |-> S.f, flawed |-> S.flawed]
=============================================================================
