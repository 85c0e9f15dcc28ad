--------------------------------- MODULE IR ---------------------------------
(***************************************************************************)
(* The intermediate representation the passes of selfhost/opt/ rewrite     *)
(* (selfhost/ir/ir.kl).                                                    *)
(*                                                                         *)
(* A function is a record                                                  *)
(*   order  the blocks in layout order (first_block, next_block, ...)      *)
(*   last   func.last_block                                                *)
(*   code   for every block its list of instructions, NOPs included        *)
(*   types  the type of every virtual register                             *)
(* Instructions that matter to the control flow are kept; everything else  *)
(* with an effect is a "call": an observable event that may define a       *)
(* register.  Blocks and virtual registers are numbers; 0 is no block, and *)
(* register 0 is no register.                                              *)
(***************************************************************************)
EXTENDS Integers, Sequences, SequencesExt

NoBlock == 0
NoReg == 0

VRegOp(v) == [kind |-> "vreg", id |-> v]
ConstOp(c) == [kind |-> "const", id |-> c]
NoneOp == [kind |-> "none", id |-> 0]

Nop == [op |-> "nop"]
Mov(d, s) == [op |-> "mov", dst |-> d, src |-> s, wide |-> TRUE]     \* 4 or 8 bytes
NarrowMov(d, s) == [op |-> "mov", dst |-> d, src |-> s, wide |-> FALSE]
Flip(d) == [op |-> "xor1", dst |-> d]
CallWith(id, d, arg) == [op |-> "call", id |-> id, dst |-> d, arg |-> arg]
Call(id, d) == CallWith(id, d, NoneOp)
Phi(d, args) == [op |-> "phi", dst |-> d, args |-> args]
Jmp(b) == [op |-> "jmp", to |-> b]
Br(c, t1, t2) == [op |-> "br", cond |-> c, t1 |-> t1, t2 |-> t2]
Switch(c, dflt, table) == [op |-> "switch", cond |-> c, dflt |-> dflt, table |-> table]
Ret(o) == [op |-> "ret", val |-> o]

-----------------------------------------------------------------------------
\* Structure.

IsPhi(inst) == inst.op = "phi"
IsNop(inst) == inst.op = "nop"
IsTerminator(inst) == inst.op \in {"jmp", "br", "switch", "ret"}

\* A function whose blocks are laid out in the order of `code`, with registers
\* 1..Len(types) of the given types ("bool" or "u64").
Function(code, types) ==
  [order |-> [b \in 1..Len(code) |-> b], last |-> Len(code), code |-> code, types |-> types]

\* block->last_inst; an empty list reads as a NOP.
LastInst(f, b) == IF f.code[b] = <<>> THEN Nop ELSE Last(f.code[b])
FirstInst(f, b) == IF f.code[b] = <<>> THEN Nop ELSE Head(f.code[b])

Blocks(f) == ToSet(f.order)
Position(f, b) == CHOOSE i \in 1..Len(f.order) : f.order[i] = b

\* block->next_block
NextBlock(f, b) ==
  LET i == Position(f, b) IN IF i < Len(f.order) THEN f.order[i + 1] ELSE NoBlock

\* The blocks control may reach from the end of b, in the order of the code.
Successors(f, b) ==
  LET term == LastInst(f, b) IN
  CASE term.op = "jmp" -> <<term.to>>
    [] term.op = "br" -> IF term.t1 = term.t2 THEN <<term.t1>> ELSE <<term.t1, term.t2>>
    [] term.op = "switch" -> <<term.dflt>> \o term.table
    [] term.op = "ret" -> <<>>
    [] OTHER -> IF NextBlock(f, b) = NoBlock THEN <<>> ELSE <<NextBlock(f, b)>>

\* The PHIs of a block; they come first in it.
Phis(f, b) == SelectSeq(f.code[b], IsPhi)

\* The operand a PHI takes when control comes from block p: the first match.
Incoming(phi, p) ==
  LET Names(a) == a.from = p
      named == SelectSeq(phi.args, Names)
  IN IF named = <<>> THEN NoneOp ELSE Head(named).val

\* Blocks reachable along `succ`, from the entry block.
ReachableVia(f, succ) ==
  LET Within[k \in 1..Len(f.order)] ==
        IF k = 1 THEN {f.order[1]}
        ELSE UNION {{b} \cup ToSet(succ[b]) : b \in Within[k - 1]}
  IN Within[Len(f.order)]

\* Control-flow edges among reachable blocks.
Edges(f) ==
  LET succ == [b \in Blocks(f) |-> Successors(f, b)]
  IN UNION {{p} \X ToSet(succ[p]) : p \in ReachableVia(f, succ)}

\* Drop the NOPs of every block.
ir_eliminate_nops(f) ==
  [f EXCEPT !.code = [b \in DOMAIN f.code |->
     SelectSeq(f.code[b], LAMBDA inst : ~IsNop(inst))]]

\* Drop what follows the first terminator of a block, then the NOPs.
ir_strip_after_terminator(f) ==
  LET Cut(s) == LET n == SelectInSeq(s, IsTerminator) IN IF n = 0 THEN s ELSE SubSeq(s, 1, n)
  IN ir_eliminate_nops(
       [f EXCEPT !.code = [b \in DOMAIN f.code |-> Cut(f.code[b])]])

\* A block's code in which every PHI names block `to` for block `from`.
ir_phi_redirect_incoming(code, from, to) ==
  LET Renamed(a) == IF a.from = from THEN [a EXCEPT !.from = to] ELSE a
      Moved(inst) == IF ~IsPhi(inst) THEN inst
                     ELSE [inst EXCEPT !.args = [k \in DOMAIN @ |-> Renamed(@[k])]]
  IN [i \in DOMAIN code |-> Moved(code[i])]


-----------------------------------------------------------------------------
(* What a function does when it runs, as selfhost/ir/interp.kl executes it;   *)
(* PHIs, which that interpreter does not meet, read the operand of the edge  *)
(* control came by, and a block without a terminator runs into the next one, *)
(* as the code generator lays blocks out.                                    *)

\* Behaviour.  A run is observed through the calls it makes, in order, and the
\* value it returns.  `input` gives the value each call yields; the run is
\* observed until the inputs are used up.

Undefined == -1   \* what reading a PHI without a matching edge yields

Eval(o, regs) == CASE o.kind = "vreg" -> regs[o.id]
                   [] o.kind = "const" -> o.id
                   [] OTHER -> Undefined

\* The PHIs of block b, entered from block prev: every operand is read before
\* any register is written.
EnterBlock(f, b, prev, regs) ==
  LET phis == Phis(f, b)
      Into(r) == {i \in DOMAIN phis : phis[i].dst = r}
  IN IF phis = <<>> THEN regs
     ELSE [r \in DOMAIN regs |->
             IF Into(r) = {} THEN regs[r]
             ELSE Eval(Incoming(phis[CHOOSE i \in Into(r) : TRUE], prev), regs)]

\* A run in progress: `at` is the block being executed, entered from `prev`;
\* `goto` is where control leaves it for, NoBlock while it has not left.
Start(f, regs, input) ==
  [at |-> f.order[1], prev |-> NoBlock, goto |-> NoBlock, over |-> FALSE,
   regs |-> regs, input |-> input, trace |-> <<>>]

SwitchTarget(inst, v) ==
  IF v \in DOMAIN inst.table THEN inst.table[v] ELSE inst.dflt

\* One instruction.  A call is recorded and uses up one input.
Exec(run, inst) ==
  CASE inst.op = "mov" -> [run EXCEPT !.regs[inst.dst] = Eval(inst.src, run.regs)]
    [] inst.op = "xor1" -> [run EXCEPT !.regs[inst.dst] = IF @ % 2 = 0 THEN @ + 1 ELSE @ - 1]
    [] inst.op = "call" ->
         IF run.input = <<>> THEN [run EXCEPT !.over = TRUE]
         ELSE [run EXCEPT !.trace = Append(@, <<"call", inst.id, Eval(inst.arg, run.regs)>>),
                          !.input = Tail(@),
                          !.regs = IF inst.dst = NoReg THEN @
                                   ELSE [@ EXCEPT ![inst.dst] = Head(run.input)]]
    [] inst.op = "jmp" -> [run EXCEPT !.goto = inst.to]
    [] inst.op = "br" -> [run EXCEPT !.goto = IF run.regs[inst.cond] # 0 THEN inst.t1 ELSE inst.t2]
    [] inst.op = "switch" -> [run EXCEPT !.goto = SwitchTarget(inst, run.regs[inst.cond])]
    [] inst.op = "ret" ->
         [run EXCEPT !.over = TRUE, !.trace = Append(@, <<"ret", Eval(inst.val, run.regs)>>)]
    [] OTHER -> run                                     \* NOP; PHIs ran on entry

\* The rest of a block, from its i-th instruction.
RECURSIVE ExecFrom(_, _, _)
ExecFrom(code, i, run) ==
  IF i > Len(code) \/ run.over \/ run.goto # NoBlock THEN run
  ELSE ExecFrom(code, i + 1, Exec(run, code[i]))

\* One block.  A block that has no terminator continues in the next one.
ExecBlock(f, run) ==
  LET entered == [run EXCEPT !.regs = EnterBlock(f, run.at, run.prev, run.regs)]
      ran == ExecFrom(f.code[run.at], 1, entered)
      to == IF ran.goto # NoBlock THEN ran.goto ELSE NextBlock(f, run.at)
  IN IF ran.over THEN ran
     ELSE IF to = NoBlock
     THEN [ran EXCEPT !.over = TRUE, !.trace = Append(@, <<"fell off the end">>)]
     ELSE [ran EXCEPT !.prev = run.at, !.at = to, !.goto = NoBlock]

\* What a run of at most `fuel` blocks shows.  A run that is still going then is
\* a loop that makes no call any more: it shows what it has shown so far.
RECURSIVE RunBlocks(_, _, _)
RunBlocks(f, run, fuel) ==
  IF fuel = 0 \/ run.over THEN run.trace ELSE RunBlocks(f, ExecBlock(f, run), fuel - 1)

Trace(f, regs, input, fuel) == RunBlocks(f, Start(f, regs, input), fuel)
=============================================================================
