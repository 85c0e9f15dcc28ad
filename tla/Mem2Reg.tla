------------------------------- MODULE Mem2Reg -------------------------------
(***************************************************************************)
(* Promotion of stack slots to virtual registers (src/mem2reg.c): a slot   *)
(* whose address is not taken becomes values, PHIs where they meet.        *)
(*                                                                         *)
(* The result of a pass is the function and `flawed`, the set of reasons   *)
(* for which what it computes may not be what it computed before.          *)
(***************************************************************************)
EXTENDS Cfg

OnFrame(o) == o.kind = "stack" /\ o.id < 0

-----------------------------------------------------------------------------
\* Critical edges.

JumpsTo(f, p, b) ==
  \/ LastInst(f, p).op = "JMP" /\ LastInst(f, p).dst.id = b
  \/ LastInst(f, p).op = "BR" /\ b \in {LastInst(f, p).src1.id, LastInst(f, p).src2.id}

\* The edge `side` of a BR at the end of b, to a block others jump to as well.
IsCritical(f, b, side) ==
  /\ LastInst(f, b).op = "BR"
  /\ Cardinality({p \in Blocks(f) : JumpsTo(f, p, LastInst(f, b)[side].id)}) > 1

SplitEdge(f, b, side) ==
  LET n == Len(f.code[b])
      split == Len(f.code) + 1
      to == f.code[b][n][side].id
      with == [f EXCEPT !.code = Append([@ EXCEPT ![b][n][side] = ir_op_block(split)], <<JMP(to)>>)]
  IN ir_block_place(with, split)

\* The first critical edge in layout order, then from the start again.
RECURSIVE split_critical_edges(_)
split_critical_edges(f) ==
  LET critical == SelectSeq(f.order, LAMBDA b : IsCritical(f, b, "src1") \/ IsCritical(f, b, "src2"))
      b == Head(critical)
  IN IF critical = <<>> THEN f
     ELSE split_critical_edges(SplitEdge(f, b, IF IsCritical(f, b, "src1") THEN "src1" ELSE "src2"))

-----------------------------------------------------------------------------
\* Candidates.

EffectiveSize(o) == IF o.size # 0 THEN o.size ELSE 8
ranges_overlap(a, asize, b, bsize) == a < b + bsize /\ b < a + asize

AllInsts(f) == FoldLeft(LAMBDA acc, b : acc \o f.code[b], <<>>, f.order)

\* Every mention of a slot, in the order of the code.
FrameOperands(f) ==
  LET of(inst) == SelectSeq(<<inst.dst, inst.src1, inst.src2>> \o (IF IsPhi(inst) THEN <<>> ELSE inst.args), OnFrame)
  IN FoldLeft(LAMBDA acc, inst : acc \o of(inst), <<>>, AllInsts(f))

\* One per offset: the largest size it is used with, the sign of its first use.
collect_candidates(f) ==
  LET all == FrameOperands(f)
      firsts == SelectSeq([k \in DOMAIN all |-> k], LAMBDA k : \A j \in 1 .. k - 1 : all[j].id # all[k].id)
      SizeOf(off) == CHOOSE n \in {EffectiveSize(o) : o \in ToSet(all)} :
                       /\ \E o \in ToSet(all) : o.id = off /\ EffectiveSize(o) = n
                       /\ \A o \in ToSet(all) : o.id = off => EffectiveSize(o) <= n
  IN [k \in DOMAIN firsts |->
        [off |-> all[firsts[k]].id, size |-> SizeOf(all[firsts[k]].id), signed |-> all[firsts[k]].signed]]

\* The bytes whose address gets about: of an ADDR, of what a MEMCPY names.
EscapedRanges(f) ==
  LET insts == ToSet(AllInsts(f))
      copied(inst) == IF IsConst(inst.src2) /\ inst.src2.id > 0 THEN inst.src2.id ELSE 8
  IN {<<inst.src1.id, EffectiveSize(inst.src1)>> : inst \in {n \in insts : n.op = "ADDR" /\ OnFrame(n.src1)}}
     \cup UNION {{<<o.id, copied(inst)>> : o \in {q \in {inst.dst, inst.src1} : OnFrame(q)}} :
                    inst \in {n \in insts : n.op = "MEMCPY"}}

PromotedVars(f) ==
  LET escaped == EscapedRanges(f)
  IN SelectSeq(collect_candidates(f), LAMBDA c :
       /\ c.size \in {1, 2, 4, 8}
       /\ \A r \in escaped : ~ranges_overlap(c.off, c.size, r[1], r[2]))

VarIndex(vars, o) == IF OnFrame(o) THEN SelectInSeq(vars, LAMBDA v : v.off = o.id) ELSE 0

-----------------------------------------------------------------------------
\* Where a variable is defined and where it is live.

ReadsSlot(inst, v) == inst.op \in {"MOV", "LOAD"} /\ OnFrame(inst.src1) /\ inst.src1.id = v.off
WritesSlot(inst, v) == inst.op \in {"MOV", "PARAM", "STORE"} /\ OnFrame(inst.dst) /\ inst.dst.id = v.off
DefinesSlot(inst, v) == inst.op \in {"MOV", "PARAM"} /\ OnFrame(inst.dst) /\ inst.dst.id = v.off

DefBlocks(f, g, v) ==
  LET defs == SelectSeq(g.rpo, LAMBDA b : \E k \in DOMAIN f.code[b] : DefinesSlot(f.code[b][k], v))
  IN IF Entry(f) \in ToSet(defs) THEN defs ELSE Append(defs, Entry(f))

\* Read before it is written in the block.
ExposedIn(f, b, v) ==
  \E k \in DOMAIN f.code[b] :
    ReadsSlot(f.code[b][k], v) /\ \A j \in 1 .. k - 1 : ~WritesSlot(f.code[b][j], v)

\* The blocks from whose start one of `live` is reached by way of `through`.
RECURSIVE LiveBack(_, _, _)
LiveBack(f, live, through) ==
  LET more == live \cup {b \in through : Succs(f, b) \cap live # {}}
  IN IF more = live THEN live ELSE LiveBack(f, more, through)

\* build_liveness: the blocks the variable is live in at their start.
LiveIn(f, g, v) ==
  LET written == {b \in ToSet(g.rpo) : \E k \in DOMAIN f.code[b] : WritesSlot(f.code[b][k], v)}
  IN LiveBack(f, {b \in ToSet(g.rpo) : ExposedIn(f, b, v)}, ToSet(g.rpo) \ written)

-----------------------------------------------------------------------------
\* PHIs.

\* A PHI names its slot; its operands are filled in by the renaming.
insert_phi(f, g, v, b) ==
  LET d == ir_op_vreg(f.vregs, v.size, v.signed)
      open == MapSeq(g.preds[b], LAMBDA p : [val |-> ir_op_none, from |-> NoBlock])
      phi == [PHI(d, open) EXCEPT !.src1 = ir_op_stack(v.off, v.size, v.signed)]
  IN [ir_vreg_alloc(f) EXCEPT !.code[b] = <<phi>> \o @]

RECURSIVE PlaceFrom(_, _, _, _, _, _)
PlaceFrom(f, g, v, live, queue, has) ==
  IF queue = <<>> THEN f
  ELSE LET here == SelectSeq(Frontier(g, Head(queue)), LAMBDA b : b \notin has /\ b \in live)
           f1 == FoldLeft(LAMBDA acc, b : insert_phi(acc, g, v, b), f, here)
       IN PlaceFrom(f1, g, v, live, Tail(queue) \o here, has \cup ToSet(here))

\* (A block that is in the queue already gains nothing by a second visit.)
place_pruned_phis(f, g, vars) ==
  FoldLeft(LAMBDA acc, v : PlaceFrom(acc, g, v, LiveIn(f, g, v), DefBlocks(f, g, v), {}), f, vars)

-----------------------------------------------------------------------------
\* Renaming.  R has the function, for every variable its value now (NONE
\* where it has none) and for every removed register what it stands for.

resolve_substitution(R, o) == IF IsVReg(o) /\ o.id \in DOMAIN R.subst THEN R.subst[o.id] ELSE o

\* What is not defined is 0.
stack_peek(R, v, k) == IF R.now[k].kind = "none" THEN ir_op_const(0, v.size, v.signed) ELSE R.now[k]

\* The value in a register, looked at with another size than it has.
Retyped(R, value, o) ==
  resolve_substitution(R, IF o.size = 0 THEN value ELSE [value EXCEPT !.size = o.size, !.signed = o.signed])

\* History: a narrow value is read as a wide one, its upper bytes unset.
Widened(R, value, o) ==
  IF IsVReg(value) /\ value.size < EffectiveSize(o) THEN [R EXCEPT !.flawed = @ \cup {"narrow value read wide"}]
  ELSE R

ReadSlot(R, vars, o) ==
  LET k == VarIndex(vars, o)
  IN IF k = 0 THEN resolve_substitution(R, o) ELSE Retyped(R, stack_peek(R, vars[k], k), o)

RenameInst(R, vars, b, i) ==
  LET inst == R.f.code[b][i]
      from == VarIndex(vars, inst.src1)
      to == VarIndex(vars, inst.dst)
      Read(o) == ReadSlot(R, vars, o)
      d == ir_op_vreg(R.f.vregs, vars[to].size, vars[to].signed)
      removed == [R EXCEPT !.f.code[b][i] = Nop]
  IN CASE inst.op = "PHI" ->
            IF from = 0 THEN R ELSE [R EXCEPT !.now[from] = inst.dst]
       [] inst.op = "PARAM" /\ OnFrame(inst.dst) ->
            IF to = 0 THEN R
            ELSE [R EXCEPT !.f = [ir_vreg_alloc(@) EXCEPT !.code[b][i].dst = d], !.now[to] = d]
       [] inst.op \in {"MOV", "LOAD"} /\ from # 0 /\ IsVReg(inst.dst) ->
            LET value == stack_peek(R, vars[from], from)
            IN Widened([removed EXCEPT !.subst = [x \in DOMAIN @ \cup {inst.dst.id} |->
                          IF x = inst.dst.id THEN Retyped(R, value, inst.dst) ELSE @[x]]], value, inst.dst)
       [] inst.op \in {"MOV", "STORE"} /\ to # 0 ->
            [removed EXCEPT !.now[to] = resolve_substitution(R, inst.src1)]
       [] OTHER ->
            [R EXCEPT !.f.code[b][i] =
               [inst EXCEPT !.dst = IF IsVReg(@) THEN resolve_substitution(R, @)
                                    ELSE IF inst.op \in {"PARAM", "STORE"} THEN @ ELSE Read(@),
                            !.src1 = Read(@), !.src2 = Read(@),
                            !.args = MapSeq(@, Read)]]

\* The values at the end of block b, in `R`, go into the PHIs of its successors.
FillPhis(R, g, vars, b, f) ==
  LET Filled(s, inst) ==
        LET v == VarIndex(vars, inst.src1)
            edge == SelectInSeq(g.preds[s], LAMBDA p : p = b)
        IN IF ~IsPhi(inst) \/ v = 0 THEN inst
           ELSE [inst EXCEPT !.args[edge] =
                   [val |-> resolve_substitution(R, stack_peek(R, vars[v], v)), from |-> b]]
  IN [f EXCEPT !.code = [s \in DOMAIN @ |->
        IF s \in Succs(f, b) THEN MapSeq(@[s], LAMBDA inst : Filled(s, inst)) ELSE @[s]] \o <<>>]

RECURSIVE rename_block(_, _, _, _)
rename_block(R, g, vars, b) ==
  LET inside == FoldLeft(LAMBDA acc, i : RenameInst(acc, vars, b, i), R, [i \in DOMAIN R.f.code[b] |-> i])
      filled == [inside EXCEPT !.f = FillPhis(inside, g, vars, b, @)]
      below == FoldLeft(LAMBDA acc, c : rename_block(acc, g, vars, c), filled, DomChildren(g, b))
  IN [below EXCEPT !.now = R.now]

-----------------------------------------------------------------------------
\* What is left resolved once more, also where the renaming never came.
eliminate_promoted_stack_objects(R) ==
  LET Resolved(o) == resolve_substitution(R, o)
      Rest(inst) == [MapUses(inst, Resolved) EXCEPT !.dst = Resolved(@)]
  IN [R EXCEPT !.f = MapInsts(@, LAMBDA inst : IF IsPhi(inst) THEN inst ELSE Rest(inst))]

PromoteIn(f, g, vars) ==
  LET R0 == [f |-> place_pruned_phis(f, g, vars), now |-> [k \in DOMAIN vars |-> ir_op_none],
             subst |-> [x \in {} |-> ir_op_none], flawed |-> {}]
      R == eliminate_promoted_stack_objects(rename_block(R0, g, vars, Entry(f)))
  IN [f |-> ir_eliminate_nops(R.f), flawed |-> R.flawed]

mem2reg_run_on_function(f0) ==
  LET Split(f) == IF PromotedVars(f) = <<>> THEN [f |-> f, flawed |-> {}] ELSE PromoteIn(f, Graph(f), PromotedVars(f))
  IN Split(split_critical_edges(f0))
=============================================================================
