------------------------------- MODULE KCfgOpt -------------------------------
(***************************************************************************)
(* The control-flow optimiser of the bootstrap compiler (src/cfg_opt.c):   *)
(* up to 16 rounds that shorten and merge, then the loops are laid out     *)
(* anew and what cannot be reached is removed.  (CfgOpt.tla is about the    *)
(* optimiser of the self-hosted compiler.)                                 *)
(***************************************************************************)
EXTENDS Cfg

CFG_ROUNDS == 16

\* analyze_cfg: the edges, those of unreachable blocks included.
PredCount(f, b) == Len(Preds(f, b))

-----------------------------------------------------------------------------
simplify_branch_targets(f) ==
  LET Simple(inst) == IF inst.op = "BR" /\ inst.src1 = inst.src2 THEN JMP(inst.src1.id) ELSE inst
  IN [f EXCEPT !.code = [b \in DOMAIN @ |->
        IF b \in Blocks(f) /\ @[b] # <<>> THEN [@[b] EXCEPT ![Len(@[b])] = Simple(@)] ELSE @[b]] \o <<>>]

\* Nothing but a JMP.  (An empty block is none.)
is_empty_trampoline(f, b) ==
  LET left == SelectSeq(f.code[b], LAMBDA inst : ~IsNop(inst))
  IN Len(left) = 1 /\ left[1].op = "JMP"

TrampolineTarget(f, b) == Last(f.code[b]).dst.id

CanSkip(f, b, reachable) ==
  /\ b # Entry(f) /\ b \in reachable
  /\ is_empty_trampoline(f, b)
  /\ TrampolineTarget(f, b) # b
  /\ ~IsPhi(FirstInst(f, TrampolineTarget(f, b)))

\* A jump to the trampoline goes where the trampoline goes.  (Its target has no
\* PHI, so that none has to learn of it.)
SkipOver(f, b, reachable) ==
  LET to == TrampolineTarget(f, b)
      New(o) == IF o = ir_op_block(b) THEN ir_op_block(to) ELSE o
      Redirected(inst) == CASE inst.op = "JMP" -> [inst EXCEPT !.dst = New(@)]
                            [] inst.op = "BR" -> [inst EXCEPT !.src1 = New(@), !.src2 = New(@)]
                            [] OTHER -> inst
  IN [f EXCEPT !.code = [p \in DOMAIN @ |->
        IF p \in reachable \ {b} /\ @[p] # <<>> THEN [@[p] EXCEPT ![Len(@[p])] = Redirected(@)] ELSE @[p]] \o <<>>]

simplify_trampolines(f, reachable) ==
  FoldLeft(LAMBDA g, b : IF CanSkip(g, b, reachable) THEN SkipOver(g, b, reachable) ELSE g, f, f.order)

-----------------------------------------------------------------------------
\* A PHI of a block that is merged into its only predecessor `a` is a MOV.
PhiToMov(inst, a) ==
  LET val == IF Incoming(inst, a) = ir_op_none /\ inst.args # <<>> THEN inst.args[1].val ELSE Incoming(inst, a)
  IN IF ~IsPhi(inst) THEN inst
     ELSE IF val = ir_op_none THEN [inst EXCEPT !.op = "NOP"]
     ELSE MOV(inst.dst, val)

\* Faulty: PHIs further on still name the block that was merged.
MergeForgetsPhis(f, a, b) ==
  [f EXCEPT !.code[a] = Front(@) \o MapSeq(f.code[b], LAMBDA inst : PhiToMov(inst, a)), !.code[b] = <<>>]

RenameIncoming(inst, from, to) ==
  IF ~IsPhi(inst) THEN inst
  ELSE [inst EXCEPT !.args = MapSeq(@, LAMBDA arg : IF arg.from = from THEN [arg EXCEPT !.from = to] ELSE arg)]

MergeInto(f, a, b) ==
  LET merged == [f EXCEPT !.code[a] = Front(@) \o MapSeq(f.code[b], LAMBDA inst : PhiToMov(inst, a)), !.code[b] = <<>>]
  IN MapInsts(merged, LAMBDA inst : RenameIncoming(inst, b, a))

Mergeable(f, a, reachable) ==
  LET b == LastInst(f, a).dst.id
  IN /\ a \in reachable
     /\ LastInst(f, a).op = "JMP"
     /\ b # a /\ b # Entry(f) /\ b \in reachable
     /\ PredCount(f, b) = 1

\* The first pair that can be merged, one a round.
merge_sequential_blocks(f) ==
  LET reachable == Reachable(f)
      k == SelectInSeq(f.order, LAMBDA a : Mergeable(f, a, reachable))
  IN IF k = 0 THEN f ELSE MergeInto(f, f.order[k], LastInst(f, f.order[k]).dst.id)

RECURSIVE CfgRounds(_, _)
CfgRounds(f, left) ==
  LET f1 == simplify_trampolines(simplify_branch_targets(f), Reachable(f))
      f2 == merge_sequential_blocks(f1)
  IN IF left = 0 \/ f2 = f THEN f ELSE CfgRounds(f2, left - 1)

-----------------------------------------------------------------------------
\* The loop whose latch is b: its test comes right behind the latch.
Rotatable(f, b) ==
  LET t == LastInst(f, b).dst.id
  IN /\ LastInst(f, b).op = "JMP"
     /\ LastInst(f, t).op = "BR"
     /\ b \in {LastInst(f, t).src1.id, LastInst(f, t).src2.id}
     /\ NextBlock(f, b) # t /\ t # Entry(f) /\ NextBlock(f, t) # NoBlock

RotateAt(f, b) ==
  LET t == LastInst(f, b).dst.id
      without == Remove(f.order, t)
  IN [f EXCEPT !.order = InsertAt(without, SelectInSeq(without, LAMBDA c : c = b) + 1, t)]

\* In layout order; the walk goes on with the block that follows by then.
RECURSIVE RotateFrom(_, _)
RotateFrom(f, b) ==
  IF b = NoBlock THEN f
  ELSE LET f1 == IF Rotatable(f, b) THEN RotateAt(f, b) ELSE f IN RotateFrom(f1, NextBlock(f1, b))

rotate_loops_in_function(f) == RotateFrom(f, Entry(f))

\* The incoming values of PHIs from removed blocks stay.
remove_unreachable_blocks(f) ==
  LET reachable == Reachable(f)
  IN [f EXCEPT !.order = SelectSeq(@, LAMBDA b : b \in reachable),
               !.code = [b \in DOMAIN @ |-> IF b \in reachable THEN @[b] ELSE <<>>] \o <<>>]

\* The blocks are numbered anew, as they are laid out.
Number(f, b) == IF b \in Blocks(f) THEN Position(f, b) ELSE NoBlock
Renumbered(f, o) == IF o.kind = "block" THEN ir_op_block(Number(f, o.id)) ELSE o
RenumberTargets(f, inst) ==
  [inst EXCEPT !.dst = Renumbered(f, @), !.src1 = Renumbered(f, @), !.src2 = Renumbered(f, @),
               !.args = IF IsPhi(inst) THEN MapSeq(@, LAMBDA a : [a EXCEPT !.from = Number(f, @)]) ELSE @]
Reindexed(f) ==
  [f EXCEPT !.code = MapSeq(f.order, LAMBDA b : MapSeq(f.code[b], LAMBDA inst : RenumberTargets(f, inst))),
            !.order = MapSeq(f.order, LAMBDA b : Number(f, b))]

cfg_opt_run_on_function(f) ==
  IF Len(f.order) = 1 THEN f
  ELSE ir_eliminate_nops(remove_unreachable_blocks(rotate_loops_in_function(CfgRounds(Reindexed(f), CFG_ROUNDS))))
=============================================================================
