-------------------------------- MODULE Licm --------------------------------
(***************************************************************************)
(* Loop-invariant code motion (src/licm.c): what a loop computes alike in   *)
(* every round is computed in front of it.                                 *)
(***************************************************************************)
EXTENDS Cfg

\* The blocks from which `latch` is reached without the header.  A header that
\* is its own latch is not kept out: the blocks before the loop count as its.
RECURSIVE LoopBody(_, _, _, _)
LoopBody(g, header, body, work) ==
  LET more == UNION {ToSet(g.preds[b]) : b \in work} \ (body \cup {header})
  IN IF more = {} THEN body ELSE LoopBody(g, header, body \cup more, more)

discover_loop_body(g, header, latch) == LoopBody(g, header, {header, latch}, {latch})

BackEdges(g) ==
  FoldLeft(LAMBDA acc, b : acc \o MapSeq(SelectSeq(g.succs[b], LAMBDA h : Dominates(g, h, b)),
                                          LAMBDA h : [header |-> h, latch |-> b]), <<>>, g.rpo)

\* One loop for each header, the last one found first.
find_natural_loops(g) ==
  LET edges == BackEdges(g)
      latches(h) == {e.latch : e \in {d \in ToSet(edges) : d.header = h}}
      headers == FoldLeft(LAMBDA acc, e : IF e.header \in ToSet(acc) THEN acc ELSE <<e.header>> \o acc, <<>>, edges)
  IN MapSeq(headers, LAMBDA h : [header |-> h, latches |-> latches(h),
                                 blocks |-> UNION {discover_loop_body(g, h, l) : l \in latches(h)}])

-----------------------------------------------------------------------------
Outside(g, loop) == SelectSeq(g.preds[loop.header], LAMBDA p : p \notin loop.blocks)

\* A new block in front of the header, at the end of the layout.
NewPreheader(f, g, loop) ==
  LET pre == Len(f.code) + 1
      h == loop.header
      out == ToSet(Outside(g, loop))
      Via(o) == IF o = ir_op_block(h) THEN ir_op_block(pre) ELSE o
      Redirected(inst) == CASE inst.op = "JMP" -> [inst EXCEPT !.dst = Via(@)]
                            [] inst.op = "BR" -> [inst EXCEPT !.src1 = Via(@), !.src2 = Via(@)]
                            [] OTHER -> inst
      Renamed(inst) == IF ~IsPhi(inst) THEN inst
                       ELSE [inst EXCEPT !.args = MapSeq(@, LAMBDA q : IF q.from \in out THEN [q EXCEPT !.from = pre] ELSE q)]
  IN ir_block_place(
       [f EXCEPT !.code = [b \in DOMAIN @ |->
                    LET code == IF b \in out /\ @[b] # <<>> THEN [@[b] EXCEPT ![Len(@[b])] = Redirected(@)] ELSE @[b]
                    IN IF b = h THEN MapSeq(code, Renamed) ELSE code] \o <<<<JMP(h)>>>>], pre)

\* The block in front of the loop: the only one outside that enters it, if it
\* goes nowhere else.
create_loop_preheader(f, g, loop) ==
  LET out == Outside(g, loop)
  IN IF Len(out) = 1 /\ Len(g.succs[out[1]]) = 1 THEN [f |-> f, at |-> out[1]]
     ELSE [f |-> NewPreheader(f, g, loop), at |-> Len(f.code) + 1]

-----------------------------------------------------------------------------
is_licm_candidate(op) == op \in Arithmetic \cup Comparisons \cup Unaries \cup {"MOV", "ADDR"}

Insts(f, blocks) == UNION {ToSet(f.code[b]) : b \in blocks}
InLoop(g, loop) == SelectSeq(g.rpo, LAMBDA b : b \in loop.blocks)

\* Blocks every round goes through.
EveryRound(g, loop) ==
  SelectSeq(InLoop(g, loop), LAMBDA b : \A l \in loop.latches : Dominates(g, b, l))

\* A division only by a constant that is not 0.
Movable(inst) ==
  /\ is_licm_candidate(inst.op) /\ IsVReg(inst.dst)
  /\ inst.op \in {"DIV", "MOD"} => IsConst(inst.src2) /\ inst.src2.id # 0

\* A global is taken to keep its value.
is_operand_loop_invariant(o, varying) ==
  \/ o.kind \in {"const", "global", "none"}
  \/ IsVReg(o) /\ o.id \notin varying

InvariantGiven(f, g, loop, varying) ==
  {inst \in Insts(f, ToSet(EveryRound(g, loop))) :
     /\ Movable(inst)
     /\ is_operand_loop_invariant(inst.src1, varying) /\ is_operand_loop_invariant(inst.src2, varying)}

RECURSIVE Varying(_, _, _, _)
Varying(f, g, loop, varying) ==
  LET fewer == varying \ {inst.dst.id : inst \in InvariantGiven(f, g, loop, varying)}
  IN IF fewer = varying THEN varying ELSE Varying(f, g, loop, fewer)

insert_before_terminator(f, b, inst) ==
  LET k == SelectInSeq(f.code[b], LAMBDA n : n.op \in {"JMP", "BR", "RET"})
  IN [f EXCEPT !.code[b] = IF k = 0 THEN Append(@, inst) ELSE InsertAt(@, k, inst)]

MayWriteGlobals(inst) ==
  inst.op \in {"CALL", "STORE", "MEMCPY"} \/ (inst.op = "MOV" /\ inst.dst.kind = "global")

\* History: the loop may change the global whose value was read before it.
HoistFlaw(f, loop, inst) ==
  IF inst.op # "ADDR" /\ "global" \in {inst.src1.kind, inst.src2.kind} /\ \E n \in Insts(f, loop.blocks) : MayWriteGlobals(n)
  THEN {"global read before its loop"} ELSE {}

optimize_loop_licm(R, g, loop, preheader) ==
  LET f == R.f
      defined == {inst.dst.id : inst \in {n \in Insts(f, ToSet(InLoop(g, loop))) : Defines(n) /\ ~IsNop(n)}}
      varying == Varying(f, g, loop, defined)
      Moves(inst) == is_licm_candidate(inst.op) /\ IsVReg(inst.dst) /\ inst.dst.id \in defined \ varying
      moved == FoldLeft(LAMBDA acc, b : acc \o SelectSeq(f.code[b], Moves), <<>>, EveryRound(g, loop))
      without == [f EXCEPT !.code = [b \in DOMAIN @ |->
                    IF b \in ToSet(EveryRound(g, loop)) THEN SelectSeq(@[b], LAMBDA n : ~Moves(n)) ELSE @[b]] \o <<>>]
  IN [f |-> FoldLeft(LAMBDA acc, inst : insert_before_terminator(acc, preheader, inst), without, moved),
      flawed |-> R.flawed \cup UNION {HoistFlaw(f, loop, inst) : inst \in ToSet(moved)}]

-----------------------------------------------------------------------------
\* The preheaders of all loops first.
RECURSIVE Preheaders(_, _, _, _)
Preheaders(f, g, loops, at) ==
  IF loops = <<>> THEN [f |-> f, at |-> at]
  ELSE LET p == create_loop_preheader(f, g, Head(loops)) IN Preheaders(p.f, g, Tail(loops), Append(at, p.at))

HoistFromLoops(f, g) ==
  LET loops == find_natural_loops(g)
      P == Preheaders(f, g, loops, <<>>)
      R == FoldLeft(LAMBDA acc, k : optimize_loop_licm(acc, g, loops[k], P.at[k]), [f |-> P.f, flawed |-> {}],
                    [k \in DOMAIN loops |-> k])
  IN [R EXCEPT !.f = ir_eliminate_nops(@)]

licm_run_on_function(f) ==
  IF Len(f.order) = 1 THEN [f |-> f, flawed |-> {}] ELSE HoistFromLoops(f, GraphInLayoutOrder(f))
=============================================================================
