------------------------------- MODULE CfgOpt -------------------------------
(***************************************************************************)
(* The control-flow optimiser of selfhost/opt/cfg_opt.kl, run on one       *)
(* function by the iterating pipeline of selfhost/opt/pipeline.kl.         *)
(*                                                                         *)
(* Each round analyses the function and then applies, in order:            *)
(*   simplify_branch_targets, simplify_trampolines (block by block),       *)
(*   merge_sequential_blocks (at most one merge), fold_selects (block by   *)
(*   block).  Rounds repeat while something changed; then rotate_loops     *)
(* and a clean-up end the pass, and the pipeline starts it again while the *)
(* number of instructions or of blocks went on changing.                   *)
(*                                                                         *)
(* `info` is what analyze() computed: the handlers read it long after they *)
(* have started to change the function it describes.                       *)
(***************************************************************************)
EXTENDS IR, FiniteSets

CONSTANTS
  Programs,        \* the functions the pass is run on
  Environments,    \* register values at entry, as functions on registers
  Inputs,          \* sequences of values the calls of a run return
  Fuel             \* how many times a run is observed to go through its blocks

CFG_MAX_ROUNDS == 16
OPT_ITERATION_LIMIT == 8

VARIABLES
  func,        \* the function being optimised
  info,        \* what analyze() found: pred_count, single_pred, reachable
  pc,          \* the procedure to run next
  at,          \* its block cursor
  changed,     \* did this round change anything?
  round,       \* rounds of this pass so far
  iter,        \* times the pass was run
  measure,     \* instruction and block count when the iteration began
  meaning,     \* history: what the original function does
  misfolded    \* history: how a fold or a merge went wrong, if one did

vars == <<func, info, pc, at, changed, round, iter, measure, meaning, misfolded>>

-----------------------------------------------------------------------------
\* Analysis.

analyze(f) ==
  LET succ == [b \in Blocks(f) |-> Successors(f, b)]
      edges == UNION {{<<p, k>> : k \in DOMAIN succ[p]} : p \in Blocks(f)}
      live == ReachableVia(f, succ)
      Into(b) == {e \in edges : succ[e[1]][e[2]] = b}
  IN [b \in Blocks(f) |->
        LET in == Into(b) IN
        [pred_count |-> Cardinality(in),
         single_pred |-> IF Cardinality(in) = 1 THEN (CHOOSE e \in in : TRUE)[1] ELSE NoBlock,
         reachable |-> b \in live]]

is_only_pred(b, p) == info[b].pred_count = 1 /\ info[b].single_pred = p

measure_ir(f) == <<FoldLeft(LAMBDA n, b : n + Len(f.code[b]), 0, f.order), Len(f.order)>>

-----------------------------------------------------------------------------
\* simplify_branch_targets: a BR to one block is a JMP.

simplify_branch_targets(f) ==
  LET Simpler(inst) == IF inst.op = "br" /\ inst.t1 = inst.t2 THEN Jmp(inst.t1) ELSE inst
  IN [f EXCEPT !.code = [b \in DOMAIN f.code |->
        IF b \in Blocks(f) /\ f.code[b] # <<>>
        THEN Append(Front(f.code[b]), Simpler(Last(f.code[b]))) ELSE f.code[b]]]

\* A block that only jumps on, and where to; NoBlock when it is something else.
cfg_trampoline_target(f, b) ==
  LET work == SelectSeq(f.code[b], LAMBDA inst : ~IsNop(inst)) IN
  IF f.code[b] = <<>> THEN NextBlock(f, b)
  ELSE IF Len(work) = 1 /\ work[1].op = "jmp" THEN work[1].to ELSE NoBlock

\* A terminator that goes to `to` wherever it went to `from`.
Retarget(inst, from, to) ==
  LET New(b) == IF b = from THEN to ELSE b IN
  CASE inst.op = "jmp" -> [inst EXCEPT !.to = New(@)]
    [] inst.op = "br" -> [inst EXCEPT !.t1 = New(@), !.t2 = New(@)]
    [] inst.op = "switch" ->
         [inst EXCEPT !.dflt = New(@), !.table = [i \in DOMAIN @ |-> New(@[i])]]
    [] OTHER -> inst

\* Every reachable predecessor of `from` but `from` itself goes to `target`.
\* (The PHIs redirected beside it are those of `target`, which has none.)
redirect_preds(f, from, target) ==
  [f EXCEPT !.code = [p \in DOMAIN f.code |->
     IF /\ p \in Blocks(f) \ {from} /\ info[p].reachable /\ f.code[p] # <<>>
     THEN Append(Front(f.code[p]), Retarget(Last(f.code[p]), from, target)) ELSE f.code[p]]]

\* Faulty: a PHI of the target loses the predecessor it knew.
SkipTrampolineToPhis(f, b) ==
  LET target == cfg_trampoline_target(f, b) IN
  IF b # f.order[1] /\ info[b].reachable /\ target \notin {NoBlock, b}
  THEN redirect_preds(f, b, target) ELSE f

\* One block of simplify_trampolines.
SkipTrampoline(f, b) ==
  LET target == cfg_trampoline_target(f, b) IN
  IF /\ b # f.order[1] /\ info[b].reachable
     /\ target \notin {NoBlock, b} /\ ~IsPhi(FirstInst(f, target))
  THEN redirect_preds(f, b, target) ELSE f

-----------------------------------------------------------------------------
\* merge_sequential_blocks: a block and the only block it jumps to become one.

\* A PHI of a block whose only predecessor is `from`, as a MOV.
cfg_lower_phi(inst, from) ==
  LET known == Incoming(inst, from)
      incoming == IF known = NoneOp /\ inst.args # <<>> THEN inst.args[1].val ELSE known
  IN IF ~IsPhi(inst) THEN inst
     ELSE IF incoming = NoneOp THEN Nop ELSE Mov(inst.dst, incoming)

cfg_lower_phis_to_moves(f, b, from) ==
  [i \in DOMAIN f.code[b] |->
     cfg_lower_phi(f.code[b][i], from)]

\* Faulty: PHIs go on naming the block that is gone.
MergeNamesForgotten(f, a, b) ==
  [f EXCEPT !.code = [@ EXCEPT ![a] = Front(@) \o cfg_lower_phis_to_moves(f, b, a), ![b] = <<>>]]

\* b's code replaces a's JMP; PHIs that named b name a; b stays, empty.
merge_into(f, a, b) ==
  LET joined == [f.code EXCEPT ![a] = Front(@) \o cfg_lower_phis_to_moves(f, b, a), ![b] = <<>>]
  IN [f EXCEPT !.code = [s \in DOMAIN f.code |-> ir_phi_redirect_incoming(joined[s], b, a)]]

Mergeable(f, a) ==
  LET term == LastInst(f, a) IN
  /\ info[a].reachable
  /\ term.op = "jmp" /\ term.to # a /\ term.to # f.order[1]
  /\ is_only_pred(term.to, a) /\ info[term.to].reachable

merge_sequential_blocks(f) ==
  LET k == SelectInSeq(f.order, LAMBDA a : Mergeable(f, a))
  IN IF k = 0 THEN f ELSE merge_into(f, f.order[k], LastInst(f, f.order[k]).to)

\* The code of p runs into m: nothing but empty blocks lie between the two.
FallsInto(f, p, m) ==
  LET i == Position(f, p)
      j == Position(f, m)
  IN i < j /\ \A k \in i + 1 .. j - 1 : SelectSeq(f.code[f.order[k]], LAMBDA c : ~IsNop(c)) = <<>>

\* How a merge, from f to g, went wrong: the block that moved fell into the one
\* after it, and the code that took it in is not laid out before that one.
Mismerge(f, g) ==
  LET k == SelectInSeq(f.order, LAMBDA a : Mergeable(f, a))
      a == f.order[k]
      b == LastInst(f, a).to
  IN IF /\ k # 0 /\ ~IsTerminator(LastInst(f, b))
        /\ NextBlock(f, b) # NoBlock /\ ~FallsInto(g, a, NextBlock(f, b))
     THEN {"moved fall-through"} ELSE {}

-----------------------------------------------------------------------------
\* fold_selects: "if (c) v = 1; else v = 0;" and the like become v = c.

collect_non_nop(f, b) == SelectSeq(f.code[b], LAMBDA inst : ~IsNop(inst))

select_consts_match(o1, o2) ==
  o1.kind = "const" /\ o2.kind = "const" /\ <<o1.id, o2.id>> \in {<<1, 0>>, <<0, 1>>}

emit_select_value(v, cond, invert) ==
  <<Mov(v, VRegOp(cond))>> \o IF invert THEN <<Flip(v)>> ELSE <<>>

\* Where an arm of at most two instructions goes; NoBlock if it is no arm.
ArmTarget(f, b) ==
  LET insts == collect_non_nop(f, b) IN
  IF insts = <<>> THEN NoBlock
  ELSE IF Len(insts) >= 2 THEN IF insts[2].op = "jmp" THEN insts[2].to ELSE NoBlock
  ELSE IF insts[1].op = "jmp" THEN insts[1].to ELSE NextBlock(f, b)

HasMov(f, b) == collect_non_nop(f, b)[1].op = "mov"

\* The shape both kinds of merge need: two arms that meet in m.
ArmsMeet(f, t, e, m) ==
  m # NoBlock /\ ArmTarget(f, e) = m /\ info[m].pred_count = 2

\* The arms choose a value of m's only PHI.
PhiSelect(f, br, t, e, m) ==
  /\ ArmsMeet(f, t, e, m) /\ Len(Phis(f, m)) = 1
  /\ ~HasMov(f, t) /\ ~HasMov(f, e)
  /\ Phis(f, m)[1].dst # br.cond
  /\ select_consts_match(Incoming(Phis(f, m)[1], t), Incoming(Phis(f, m)[1], e))

\* The arms assign the value themselves.
MovSelect(f, br, t, e, m) ==
  LET tm == collect_non_nop(f, t)[1]
      em == collect_non_nop(f, e)[1]
  IN /\ ArmsMeet(f, t, e, m) /\ Phis(f, m) = <<>>
     /\ HasMov(f, t) /\ HasMov(f, e)
     /\ tm.dst = em.dst /\ tm.dst # br.cond /\ tm.wide
     /\ select_consts_match(tm.src, em.src)

\* The arms return it.
RetSelect(f, t, e) ==
  LET ti == collect_non_nop(f, t)
      ei == collect_non_nop(f, e)
  IN /\ Len(ti) = 1 /\ Len(ei) = 1 /\ ti[1].op = "ret" /\ ei[1].op = "ret"
     /\ select_consts_match(ti[1].val, ei[1].val)

NopOut(code) == [i \in DOMAIN code |-> Nop]

unlink_block(f, b) ==
  LET i == Position(f, b) IN
  [f EXCEPT !.order = RemoveAt(f.order, i),
            !.last = IF @ # b THEN @ ELSE IF i = 1 THEN NoBlock ELSE f.order[i - 1]]

\* Block p computes `select` where its BR was; both arms go.
ReplaceArms(f, p, t, e, select) ==
  LET g == [f EXCEPT !.code[p] = Front(@) \o select \o <<Nop>>,
                     !.code[t] = NopOut(@), !.code[e] = NopOut(@)]
  IN unlink_block(unlink_block(g, t), e)

FoldPhi(f, p, br, t, e, m) ==
  LET phi == Phis(f, m)[1]
      select == emit_select_value(phi.dst, br.cond, Incoming(phi, t).id = 0)
  IN ReplaceArms([f EXCEPT !.code[m][1] = Nop], p, t, e, select)

FoldMov(f, p, br, t, e) ==
  LET mov == collect_non_nop(f, t)[1]
  IN ReplaceArms(f, p, t, e, emit_select_value(mov.dst, br.cond, mov.src.id = 0))

\* Faulty: the BR outlives the fold.
FoldRetKeepsBranch(f, p, br, t, e) ==
  LET nv == Len(f.types) + 1
      select == emit_select_value(nv, br.cond, collect_non_nop(f, t)[1].val.id = 0)
  IN [f EXCEPT !.types = Append(@, "u64"), !.code[p] = Front(@) \o select \o <<br>>]

\* The returned value gets a register of its own.
FoldRet(f, p, br, t, e) ==
  LET nv == Len(f.types) + 1
      select == emit_select_value(nv, br.cond, collect_non_nop(f, t)[1].val.id = 0)
  IN ReplaceArms([f EXCEPT !.types = Append(@, "u64")], p, t, e,
                 select \o <<Ret(VRegOp(nv))>>)

\* A block fold_selects looks at: it branches on a bool to two blocks of its own.
SelectHead(f, b) ==
  LET br == LastInst(f, b) IN
  /\ info[b].reachable /\ br.op = "br" /\ f.types[br.cond] = "bool"
  /\ br.t1 # br.t2 /\ is_only_pred(br.t1, b) /\ is_only_pred(br.t2, b)

\* One block of fold_selects.
FoldSelect(f, b) ==
  LET br == LastInst(f, b)
      t == br.t1
      e == br.t2
      m == ArmTarget(f, t)
  IN IF ~SelectHead(f, b) THEN f
     ELSE IF PhiSelect(f, br, t, e, m) THEN FoldPhi(f, b, br, t, e, m)
     ELSE IF MovSelect(f, br, t, e, m) THEN FoldMov(f, b, br, t, e)
     ELSE IF RetSelect(f, t, e) THEN FoldRet(f, b, br, t, e)
     ELSE f

\* How a fold went wrong: what stood before the JMP of an arm was dropped, or
\* the block that now runs after p is not the one the arms met in.
Dropped(f, b) ==
  LET br == LastInst(f, b) IN
  \E arm \in {br.t1, br.t2} : Len(collect_non_nop(f, arm)) = 2 /\ ~HasMov(f, arm)

Misfold(f, g, b) ==
  IF f = g \/ RetSelect(f, LastInst(f, b).t1, LastInst(f, b).t2) THEN {}
  ELSE LET m == ArmTarget(f, LastInst(f, b).t1) IN
       {why \in {"dropped effect", "wrong fall-through"} :
          \/ why = "dropped effect" /\ Dropped(f, b)
          \/ why = "wrong fall-through" /\ ~FallsInto(g, b, m)}

-----------------------------------------------------------------------------
\* After the rounds.

\* Faulty: any block that is jumped to counts as a header.
RotateAnything(f, latch) ==
  LET term == LastInst(f, latch)
      header == term.to
      others == SelectSeq(f.order, LAMBDA b : b # header)
  IN IF /\ term.op = "jmp" /\ header \in Blocks(f) \ {latch}
        /\ NextBlock(f, latch) # header /\ header # f.order[1] /\ NextBlock(f, header) # NoBlock
     THEN [f EXCEPT !.order = InsertAt(others, SelectInSeq(others, LAMBDA b : b = latch) + 1, header),
                    !.last = IF @ = latch THEN header ELSE @]
     ELSE f

\* One block of rotate_loops: the header of the loop it closes moves behind it.
RotateAt(f, latch) ==
  LET term == LastInst(f, latch)
      header == term.to
      br == LastInst(f, header)
      others == SelectSeq(f.order, LAMBDA b : b # header)
  IN IF /\ term.op = "jmp" /\ header \in Blocks(f)
        /\ br.op = "br" /\ latch \in {br.t1, br.t2}
        /\ NextBlock(f, latch) # header /\ header # f.order[1] /\ NextBlock(f, header) # NoBlock
     THEN [f EXCEPT !.order = InsertAt(others, SelectInSeq(others, LAMBDA b : b = latch) + 1, header),
                    !.last = IF @ = latch THEN header ELSE @]
     ELSE f

remove_unreachable(f) ==
  LET inf == analyze(f)
      Kept(b) == inf[b].reachable \/ b = f.order[1]
      upToLast == SubSeq(f.order, 1, Position(f, f.last))
  IN [f EXCEPT !.order = SelectSeq(@, Kept), !.last = Last(SelectSeq(upToLast, Kept))]

CleanUp(f) == ir_eliminate_nops(remove_unreachable(ir_strip_after_terminator(f)))

-----------------------------------------------------------------------------
\* What the properties compare: the traces of a function on every input that
\* agrees with the types of its parameters.
WellTyped(f, env) == \A r \in DOMAIN env : f.types[r] = "bool" => env[r] \in {0, 1}

Registers(f, env) == [r \in DOMAIN f.types |-> IF r \in DOMAIN env THEN env[r] ELSE 0]

Behaviour(f) ==
  [env \in {env \in Environments : WellTyped(f, env)}, input \in Inputs |->
     Trace(f, Registers(f, env), input, Fuel * Len(f.order))]

Init ==
  /\ func \in Programs
  /\ info = analyze(func)
  /\ pc = "targets" /\ at = NoBlock /\ changed = FALSE /\ round = 0
  /\ iter = 0 /\ measure = measure_ir(func)
  /\ meaning = Behaviour(func)
  /\ misfolded = {}

BranchTargets ==
  /\ pc = "targets"
  /\ info' = analyze(func)
  /\ func' = simplify_branch_targets(func)
  /\ changed' = (func' # func)
  /\ round' = round + 1
  /\ pc' = "trampolines" /\ at' = func.order[1]
  /\ UNCHANGED <<iter, measure, meaning, misfolded>>

Trampolines ==
  /\ pc = "trampolines"
  /\ func' = SkipTrampoline(func, at)
  /\ changed' = (changed \/ func' # func)
  /\ at' = NextBlock(func, at)
  /\ pc' = IF at' = NoBlock THEN "analyze to merge" ELSE pc
  /\ UNCHANGED <<info, round, iter, measure, meaning, misfolded>>

\* The analyses between the transformations: merge_sequential_blocks has one
\* before it, and fold_selects begins with one.
Analyze ==
  /\ pc \in {"analyze to merge", "analyze to fold"}
  /\ info' = analyze(func)
  /\ IF pc = "analyze to merge"
     THEN pc' = "merge" /\ at' = NoBlock
     ELSE pc' = "fold" /\ at' = func.order[1]
  /\ UNCHANGED <<func, changed, round, iter, measure, meaning, misfolded>>

MergeBlocks ==
  /\ pc = "merge"
  /\ func' = merge_sequential_blocks(func)
  /\ changed' = (changed \/ func' # func)
  /\ misfolded' = misfolded \cup Mismerge(func, func')
  /\ pc' = "analyze to fold"
  /\ UNCHANGED <<info, at, round, iter, measure, meaning>>

\* fold_selects visits the blocks that are still linked; the last one ends the
\* round.
FoldSelects ==
  /\ pc = "fold"
  /\ func' = FoldSelect(func, at)
  /\ changed' = (changed \/ func' # func)
  /\ misfolded' = misfolded \cup Misfold(func, func', at)
  /\ IF NextBlock(func', at) # NoBlock
     THEN pc' = pc /\ at' = NextBlock(func', at)
     ELSE /\ pc' = IF changed' /\ round < CFG_MAX_ROUNDS THEN "targets" ELSE "rotate"
          /\ at' = func.order[1]
  /\ UNCHANGED <<info, round, iter, measure, meaning>>

RotateLoops ==
  /\ pc = "rotate"
  /\ func' = RotateAt(func, at)
  /\ at' = NextBlock(func', at)
  /\ pc' = IF at' = NoBlock THEN "finish" ELSE pc
  /\ UNCHANGED <<info, changed, round, iter, measure, meaning, misfolded>>

\* Faulty: the pass is not among those the pipeline runs again.
FinishForGood ==
  /\ pc = "finish"
  /\ func' = CleanUp(func)
  /\ measure' = measure_ir(func')
  /\ iter' = iter + 1
  /\ pc' = "done"
  /\ round' = 0
  /\ UNCHANGED <<info, at, changed, meaning, misfolded>>

\* The end of the pass, and the pipeline's decision to run it again: not when
\* nothing was removed, nor on a function that is down to one block.
Finish ==
  /\ pc = "finish"
  /\ func' = CleanUp(func)
  /\ measure' = measure_ir(func')
  /\ iter' = iter + 1
  /\ pc' = IF \/ measure' = measure \/ iter' = OPT_ITERATION_LIMIT
              \/ func'.order[1] = func'.last
           THEN "done" ELSE "targets"
  /\ round' = 0
  /\ UNCHANGED <<info, at, changed, meaning, misfolded>>

Next == \/ BranchTargets \/ Trampolines \/ Analyze \/ MergeBlocks \/ FoldSelects
        \/ RotateLoops \/ Finish

Spec == Init /\ [][Next]_vars
FairSpec == Spec /\ WF_vars(Next)

-----------------------------------------------------------------------------
(* Properties. *)

\* An optimisation pass changes nothing a run of the program shows: not the
\* calls it makes, nor their order, nor the value it returns.  fold_selects and
\* merge_into break this in the three ways `misfolded` names.
BehaviourPreserved == Behaviour(func) = meaning

\* It breaks in no other way: until fold_selects drops an instruction, or a fold
\* or a merge leaves a block falling into the wrong one, every step of every
\* procedure of the pass keeps the behaviour of the original function.
PreservedUnlessMisfolded == misfolded = {} => BehaviourPreserved

\* Edges and PHIs are kept in step: control that runs along an edge, which only
\* leads to linked blocks, finds an operand for it in every PHI it meets.
PhiInputsKnown ==
  misfolded = {} =>
    LET f == ir_strip_after_terminator(func) IN
    \A edge \in Edges(f) :
      /\ edge[2] \in Blocks(f)
      /\ \A i \in DOMAIN Phis(f, edge[2]) : Incoming(Phis(f, edge[2])[i], edge[1]) # NoneOp

\* What there is to do: the places terminators name, and the blocks control may
\* reach through them.
Targets(inst) ==
  CASE inst.op = "br" -> 2 [] inst.op = "jmp" -> 1
    [] inst.op = "switch" -> 1 + Len(inst.table) [] OTHER -> 0

Work(f) ==
  LET succ == [b \in Blocks(f) |-> Successors(f, b)] IN
  <<FoldLeft(LAMBDA n, b : n + Targets(LastInst(f, b)), 0, f.order),
    Cardinality(ReachableVia(f, succ))>>

\* No rewrite of a round undoes another: each one that changes the function
\* leaves fewer places that are named or, naming as many, reaches fewer blocks.
\* So CFG_MAX_ROUNDS cuts off functions with much to do, never a pass that goes
\* round in circles.
RoundsMakeProgress ==
  [][pc \notin {"rotate", "finish"} /\ func' # func =>
       \/ Work(func')[1] < Work(func)[1]
       \/ Work(func')[1] = Work(func)[1] /\ Work(func')[2] < Work(func)[2]]_vars

\* A round merges at most one pair of blocks, and a pass has 16 rounds: a long
\* function may be left half done.  The pipeline takes it up again, and is through with a function
\* only after a pass whose rounds ended for want of anything to do, unless the
\* function is a single block or the pass was run 8 times.
CutOffIsResumed ==
  pc = "done" /\ changed => Len(func.order) = 1 \/ iter = OPT_ITERATION_LIMIT

\* The pass ends, although rotate_loops moves blocks to where it is about to
\* go and the pipeline starts the pass again after every change.
Terminates == <>(pc = "done")
=============================================================================
