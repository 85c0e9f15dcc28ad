------------------------------ MODULE KOutOfSSA ------------------------------
(***************************************************************************)
(* The end of the SSA form in the bootstrap compiler (src/out_of_ssa.c):   *)
(* PHIs become copies at the end of the blocks they name.  (ParallelCopy    *)
(* is about the loop that orders the copies of one block.)                 *)
(***************************************************************************)
EXTENDS Cfg

\* Of two operands: sizes and signs do not count.
operand_equals(o, q) ==
  o.kind = q.kind /\ o.id = q.id /\ o.kind \in {"vreg", "reg", "stack", "const"}

EndsBlock(inst) == inst.op \in {"JMP", "BR", "RET"} \cup TailCalls

insert_inst_before_terminator(f, b, inst) ==
  LET k == SelectInSeq(f.code[b], EndsBlock)
  IN [f EXCEPT !.code[b] = IF k = 0 THEN Append(@, inst) ELSE InsertAt(@, k, inst)]

\* Faulty: the copies one after the other.
EmitInOrder(f, b, copies) ==
  FoldLeft(LAMBDA g, c : insert_inst_before_terminator(g, b, MOV(c.dst, c.src)), f, copies)

\* A copy whose target no other one still has to read; when there is none, the
\* first one's target is saved in a new register that is read in its place.
RECURSIVE emit_parallel_copies(_, _, _)
emit_parallel_copies(f, b, copies) ==
  LET Blocked(i) == \E j \in DOMAIN copies \ {i} : operand_equals(copies[j].src, copies[i].dst)
      k == SelectInSeq([i \in DOMAIN copies |-> i], LAMBDA i : ~Blocked(i))
      c == copies[IF k = 0 THEN 1 ELSE k]
      tmp == ir_op_vreg(f.vregs, c.dst.size, c.dst.signed)
      saved == insert_inst_before_terminator(ir_vreg_alloc(f), b, MOV(tmp, c.dst))
      Moved(q) == IF operand_equals(q.src, c.dst) THEN [q EXCEPT !.src = tmp] ELSE q
  IN IF copies = <<>> THEN f
     ELSE IF k # 0
     THEN emit_parallel_copies(insert_inst_before_terminator(f, b, MOV(c.dst, c.src)), b, RemoveAt(copies, k))
     ELSE emit_parallel_copies(insert_inst_before_terminator(saved, b, MOV(c.dst, Moved(c).src)), b,
                               MapSeq(Tail(copies), Moved))

\* The blocks the PHIs of b name, in the order they are met.
PhiPreds(f, b) ==
  LET named == FoldLeft(LAMBDA acc, phi : acc \o MapSeq(phi.args, LAMBDA arg : arg.from), <<>>, Phis(f, b))
  IN FoldLeft(LAMBDA acc, p : IF p = NoBlock \/ p \in ToSet(acc) THEN acc ELSE Append(acc, p), <<>>, named)

\* The copies for the edge from p, those of a register to itself left out.
PendingCopies(f, b, p) ==
  SelectSeq(MapSeq(Phis(f, b), LAMBDA phi : [dst |-> phi.dst, src |-> Incoming(phi, p)]),
            LAMBDA c : c.src.kind # "none" /\ ~operand_equals(c.dst, c.src))

\* The block for the copies: that of the edge if p ends in a BR, else p.
get_or_create_split_block(f, p, b) ==
  LET split == Len(f.code) + 1
      Via(o) == IF o = ir_op_block(b) THEN ir_op_block(split) ELSE o
      newBr == [LastInst(f, p) EXCEPT !.src1 = Via(@), !.src2 = Via(@)]
  IN IF LastInst(f, p).op # "BR" THEN [f |-> f, at |-> p]
     ELSE [f |-> ir_block_place([f EXCEPT !.code = Append([@ EXCEPT ![p] = Append(Front(@), newBr)], <<JMP(b)>>)], split),
           at |-> split]

RECURSIVE CopyOnEdges(_, _, _)
CopyOnEdges(f, b, preds) ==
  IF preds = <<>> THEN f
  ELSE LET at == get_or_create_split_block(f, Head(preds), b)
       IN CopyOnEdges(emit_parallel_copies(at.f, at.at, PendingCopies(f, b, Head(preds))), b, Tail(preds))

DropPhis(f, b) == [f EXCEPT !.code[b] = SelectSeq(@, LAMBDA inst : ~IsPhi(inst))]

RECURSIVE OutOfSSAFrom(_, _)
OutOfSSAFrom(f, b) ==
  IF b = NoBlock THEN f
  ELSE LET f1 == IF Phis(f, b) = <<>> THEN f ELSE DropPhis(CopyOnEdges(f, b, PhiPreds(f, b)), b)
       IN OutOfSSAFrom(f1, NextBlock(f1, b))

out_of_ssa_run_on_function(f) == ir_eliminate_nops(OutOfSSAFrom(f, Entry(f)))
=============================================================================
