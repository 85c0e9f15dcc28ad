------------------------------- MODULE Lower -------------------------------
(***************************************************************************)
(* The lowering of a procedure to the intermediate representation          *)
(* (src/ir_lower.c).                                                       *)
(*                                                                         *)
(* The state it threads through the tree, struct IRLower with the function  *)
(* it builds:                                                              *)
(*   f        the function                                                 *)
(*   cur      current_block                                                *)
(*   slot     the stack slots of the symbols                               *)
(*   loops    LoopContext's, the innermost first: where `continue` (NoBlock *)
(*            in a switch) and `break` go                                  *)
(*   defers   DeferScope's, the innermost first: the statements deferred,   *)
(*            the latest first, and whether it is a loop's                 *)
(*   inlines  InlineContext's, the innermost first                         *)
(*   flawed   history: what the lowering did that its source does not say  *)
(***************************************************************************)
EXTENDS KIR, Ast, FiniteSets

CONSTANT Inlined        \* the procedures declared inline, by name

MaxInlineDepth == 16

\* ir_op_... of a type.
VRegFor(v, t) == ir_op_vreg(v, t.size, t.signed)
StackFor(off, t) == ir_op_stack(off, t.size, t.signed)

-----------------------------------------------------------------------------
\* Building.

EmitInst(L, inst) == [L EXCEPT !.f = ir_emit(@, L.cur, inst)]
EmitMov(L, dst, src) == EmitInst(L, MOV(dst, src))
EmitJmp(L, b) == EmitInst(L, JMP(b))

\* A new virtual register and the instruction that defines it.
Define(L, op, size, signed, src1, src2) ==
  LET d == ir_op_vreg(L.f.vregs, size, signed)
  IN [l |-> EmitInst([L EXCEPT !.f = ir_vreg_alloc(@)], Inst(op, d, src1, src2)), o |-> d]

\* `n` new blocks; the first is Len(L.f.code) + 1.
NewBlocks(L, n) == [L EXCEPT !.f.code = @ \o [i \in 1..n |-> <<>>]]

ir_block_switch(L, b) == [L EXCEPT !.f = ir_block_place(@, b), !.cur = b]

Terminated(L) == IsTerminated(L.f, L.cur)

\* On to b, unless the block has been left.
GoOn(L, b) == IF Terminated(L) THEN L ELSE EmitJmp(L, b)

NewSlot(L, t) == [L EXCEPT !.f = ir_func_alloc_stack_slot(@, t.size, IF t.kind \in {"struct", "array"} THEN 4 ELSE t.size)]
SlotOffset(L) == Last(L.f.slots).offset

symbol_slot_bind(L, x, off) ==
  [L EXCEPT !.slot = [y \in DOMAIN @ \cup {x} |-> IF y = x THEN off ELSE @[y]]]

\* A declared symbol: its slot is the one allocated last.
Declare(L, x, t) == LET L1 == NewSlot(L, t) IN symbol_slot_bind(L1, x, SlotOffset(L1))

\* An address as a register: the address of a slot or of a global is taken.
InRegister(r) ==
  IF InMemory(r.o) THEN Define(r.l, "ADDR", 8, FALSE, r.o, ir_op_none) ELSE r

Flaw(L, what) == [L EXCEPT !.flawed = @ \cup {what}]

-----------------------------------------------------------------------------
\* Deferred statements.

defer_scope_push(L, is_loop) == [L EXCEPT !.defers = <<[entries |-> <<>>, is_loop |-> is_loop]>> \o @]
defer_scope_pop(L) == [L EXCEPT !.defers = Tail(@)]

defer_register(L, stmt) == [L EXCEPT !.defers[1].entries = <<stmt>> \o @]

\* The scopes a jump out of a loop leaves: up to the innermost loop's.
ScopesUpToLoop(L) ==
  LET k == SelectInSeq(L.defers, LAMBDA scope : scope.is_loop)
  IN IF k = 0 THEN L.defers ELSE SubSeq(L.defers, 1, k)

ScopesUpTo(L, depth) == SubSeq(L.defers, 1, Len(L.defers) - depth)

-----------------------------------------------------------------------------
\* ir_lower_addr, ir_lower_expr and ir_lower_stmt, which call one another.
RECURSIVE ir_lower(_, _, _)

RECURSIVE ir_lower_cond(_, _, _, _), LowerArgs(_, _, _), LowerAll(_, _), EmitDefers(_, _)

\* The operands of a list of arguments, in `os`.
LowerArgs(L, args, os) ==
  IF args = <<>> THEN [l |-> L, os |-> os]
  ELSE LET a == Head(args)
           r == IF type_is_compound(a.t) THEN InRegister(ir_lower("addr", L, a)) ELSE ir_lower("expr", L, a)
       IN LowerArgs(r.l, Tail(args), Append(os, r.o))

LowerAll(L, stmts) == IF stmts = <<>> THEN L ELSE LowerAll(ir_lower("stmt", L, Head(stmts)), Tail(stmts))

\* The statements deferred in the given scopes.  They are lowered where they
\* run, with the scopes that are current there.
EmitDefers(L, scopes) ==
  IF scopes = <<>> THEN L ELSE EmitDefers(LowerAll(L, Head(scopes).entries), Tail(scopes))

DefersHere(L) == EmitDefers(L, <<Head(L.defers)>>)

\* The end of a scope, from which control goes on to b.
EndScope(L, b) == defer_scope_pop(IF Terminated(L) THEN L ELSE EmitJmp(DefersHere(L), b))

-----------------------------------------------------------------------------
\* Inlining.

CanInline(L, proc) ==
  /\ proc \in DOMAIN Inlined
  /\ Len(L.inlines) <= MaxInlineDepth
  /\ \A i \in DOMAIN L.inlines : L.inlines[i].proc # proc

\* The arguments become the parameters' slots.
RECURSIVE BindParams(_, _, _)
BindParams(L, params, os) ==
  IF params = <<>> THEN L
  ELSE LET p == Head(params)
           L1 == Declare(L, p.name, p.t)
           to == StackFor(SlotOffset(L1), p.t)
           L2 == IF ~type_is_compound(p.t) THEN EmitMov(L1, to, Head(os))
                 ELSE LET dst == Define(L1, "ADDR", 8, FALSE, to, ir_op_none)
                      IN EmitInst(dst.l, Inst("MEMCPY", dst.o, Head(os), ir_op_const(p.t.size, 8, FALSE)))
       IN BindParams(L2, Tail(params), Tail(os))

\* The callee's body in the place of the call.  It has its own loops and its
\* own scope, ends in bb_inline_ret, and leaves its result in a slot.
ir_try_inline_call(L, name, args) ==
  LET proc == Inlined[name]
      void == proc.ret.kind = "void"
      given == LowerArgs(L, args, <<>>)
      L1 == IF void THEN given.l ELSE NewSlot(given.l, proc.ret)
      result == IF void THEN ir_op_none ELSE StackFor(SlotOffset(L1), proc.ret)
      bb_inline_ret == Len(L1.f.code) + 1
      context == [proc |-> name, bb_return |-> bb_inline_ret, ret_val_op |-> result,
                  void |-> void, boundary |-> Len(L.defers)]
      L2 == defer_scope_push([NewBlocks(L1, 1) EXCEPT !.inlines = <<context>> \o @, !.loops = <<>>], FALSE)
      Leave(M) == IF Terminated(M) THEN M
                  ELSE EmitJmp(EmitDefers(M, ScopesUpTo(M, context.boundary)), bb_inline_ret)
      L3 == Leave(ir_lower("stmt", BindParams(L2, proc.params, given.os), proc.body))
      L4 == [ir_block_switch(defer_scope_pop(L3), bb_inline_ret)
               EXCEPT !.slot = L.slot, !.loops = L.loops, !.defers = L.defers, !.inlines = L.inlines]
  IN IF void THEN [l |-> L4, o |-> ir_op_none]
     ELSE Define(L4, "MOV", proc.ret.size, proc.ret.signed, result, ir_op_none)

-----------------------------------------------------------------------------
\* Addresses.

\* The address of element `i` of the array at `base`.
ElementAddress(base, index, size) ==
  LET scaled == IF size = 1 THEN index
                ELSE Define(index.l, "MUL", 8, FALSE, index.o, ir_op_const(size, 8, FALSE))
  IN Define(scaled.l, "ADD", 8, FALSE, base, scaled.o)

MemberAddress(L, e) ==
  IF type_is_pointer(e.x.t)
  THEN LET base == ir_lower("expr", L, e.x) IN Define(base.l, "ADD", 8, FALSE, base.o, ir_op_const(e.off, 8, FALSE))
  ELSE LET base == InRegister(ir_lower("addr", L, e.x)) IN
       IF e.off = 0 THEN base ELSE Define(base.l, "ADD", 8, FALSE, base.o, ir_op_const(e.off, 8, FALSE))

ir_lower_addr(L, e) ==
  CASE e.e = "global" -> [l |-> L, o |-> ir_op_global(e.id, e.t.size, e.t.signed)]
    [] e.e = "var" -> [l |-> L, o |-> StackFor(L.slot[e.name], e.t)]
    [] e.e = "index" -> LET base == ir_lower("expr", L, e.x)
                        IN ElementAddress(base.o, ir_lower("expr", base.l, e.i), e.t.size)
    [] e.e = "member" -> MemberAddress(L, e)
    [] e.e = "unary" /\ e.op = "*" -> ir_lower("expr", L, e.x)
    [] OTHER -> ir_lower("expr", L, e)

-----------------------------------------------------------------------------
\* Expressions.

LowerUnary(L, e) ==
  CASE e.op = "*" -> LET p == ir_lower("expr", L, e.x) IN Define(p.l, "LOAD", e.t.size, e.t.signed, p.o, ir_op_none)
    [] e.op = "&" -> InRegister(ir_lower("addr", L, e.x))
    [] e.op = "-" -> LET x == ir_lower("expr", L, e.x) IN Define(x.l, "NEG", e.t.size, e.t.signed, x.o, ir_op_none)
    [] e.op = "~" -> LET x == ir_lower("expr", L, e.x) IN Define(x.l, "NOT", e.t.size, FALSE, x.o, ir_op_none)
    [] e.op = "!" -> LET x == ir_lower("expr", L, e.x)
                     IN Define(x.l, "CMP_EQ", 1, FALSE, x.o, ir_op_const(0, x.o.size, FALSE))

\* && and || for their value: by way of a slot that two blocks set.
LowerLogical(L, e) ==
  LET bb_true == Len(L.f.code) + 1
      bb_false == bb_true + 1
      bb_merge == bb_true + 2
      L1 == NewSlot(NewBlocks(L, 3), BOOL)
      tmp == StackFor(SlotOffset(L1), BOOL)
      L2 == ir_lower_cond(L1, e, bb_true, bb_false)
      Set(M, b, v) == EmitJmp(EmitMov(ir_block_switch(M, b), tmp, ir_op_const(v, 1, FALSE)), bb_merge)
  IN Define(ir_block_switch(Set(Set(L2, bb_true, 1), bb_false, 0), bb_merge), "MOV", 1, FALSE, tmp, ir_op_none)

LowerCall(L, e) ==
  IF CanInline(L, e.proc) THEN ir_try_inline_call(L, e.proc, e.args)
  ELSE LET given == LowerArgs(L, e.args, <<>>)
           void == e.t.kind = "void"
           dst == IF void THEN ir_op_none ELSE VRegFor(given.l.f.vregs, e.t)
           L1 == IF void THEN given.l ELSE [given.l EXCEPT !.f = ir_vreg_alloc(@)]
           \* ir_emit_inst returns NULL in a terminated block; the caller writes
           \* the arguments through it.
           L2 == IF Terminated(L1) THEN Flaw(L1, "crash") ELSE L1
       IN [l |-> EmitInst(L2, CALL(dst, e.proc, given.os)), o |-> dst]

ir_lower_expr(L, e) ==
  CASE e.t.kind = "array" -> InRegister(ir_lower("addr", L, e))
    [] e.e = "int" -> [l |-> L, o |-> ir_op_const(e.val, e.t.size, e.t.signed)]
    [] e.e \in {"var", "global"} ->
         LET addr == ir_lower("addr", L, e) IN
         IF type_is_compound(e.t) THEN addr
         ELSE Define(addr.l, "MOV", e.t.size, e.t.signed, addr.o, ir_op_none)
    [] e.e = "unary" -> LowerUnary(L, e)
    [] e.e = "binary" /\ e.op \in {"&&", "||"} -> LowerLogical(L, e)
    [] e.e = "binary" ->
         LET l == ir_lower("expr", L, e.l)
             r == ir_lower("expr", l.l, e.r)
         IN Define(r.l, e.op, e.t.size, e.t.signed, l.o, r.o)
    [] e.e = "cast" ->
         LET x == ir_lower("expr", L, e.x) IN Define(x.l, "MOV", e.t.size, e.t.signed, x.o, ir_op_none)
    [] e.e \in {"member", "index"} ->
         LET addr == ir_lower("addr", L, e) IN
         IF type_is_compound(e.t) THEN addr
         ELSE Define(addr.l, "LOAD", e.t.size, e.t.signed, addr.o, ir_op_none)
    [] e.e = "call" -> LowerCall(L, e)

\* A condition, as jumps.
ir_lower_cond(L, e, bb_true, bb_false) ==
  LET bb_rhs == Len(L.f.code) + 1 IN
  CASE e.e = "binary" /\ e.op = "&&" ->
         LET l == ir_lower_cond(NewBlocks(L, 1), e.l, bb_rhs, bb_false)
         IN ir_lower_cond(ir_block_switch(l, bb_rhs), e.r, bb_true, bb_false)
    [] e.e = "binary" /\ e.op = "||" ->
         LET l == ir_lower_cond(NewBlocks(L, 1), e.l, bb_true, bb_rhs)
         IN ir_lower_cond(ir_block_switch(l, bb_rhs), e.r, bb_true, bb_false)
    [] e.e = "unary" /\ e.op = "!" -> ir_lower_cond(L, e.x, bb_false, bb_true)
    [] OTHER ->
         LET c == ir_lower("expr", L, e) IN
         IF IsConst(c.o) THEN EmitJmp(c.l, IF c.o.id # 0 THEN bb_true ELSE bb_false)
         ELSE EmitInst(c.l, BR(c.o, bb_true, bb_false))

-----------------------------------------------------------------------------
\* Statements.

\* Copying a struct, or storing a value, through the address `dst`.
CopyInto(dst, value, size) ==
  LET to == InRegister(dst)
      from == InRegister(ir_lower("addr", to.l, value))
  IN EmitInst(from.l, Inst("MEMCPY", to.o, from.o, ir_op_const(size, 8, FALSE)))

StoreInto(L, dst, value, size) ==
  IF InMemory(dst) THEN EmitMov(L, [dst EXCEPT !.size = size], value)
  ELSE EmitInst(L, Inst("STORE", dst, value, ir_op_none))

LowerVarDecl(L, st) ==
  LET L1 == Declare(L, st.name, st.t)
      to == StackFor(SlotOffset(L1), st.t)
  IN IF st.init = NoExpr THEN L1
     ELSE IF type_is_compound(st.t) THEN CopyInto([l |-> L1, o |-> to], st.init, st.t.size)
     ELSE LET v == ir_lower("expr", L1, st.init) IN EmitMov(v.l, to, v.o)

LowerAssign(L, st) ==
  LET dst == ir_lower("addr", L, st.target)
      size == st.target.t.size
  IN IF type_is_compound(st.target.t)
     THEN \* both addresses are found before either is put in a register
          LET from == ir_lower("addr", dst.l, st.value)
              to == InRegister([l |-> from.l, o |-> dst.o])
              src == InRegister([l |-> to.l, o |-> from.o])
          IN EmitInst(src.l, Inst("MEMCPY", to.o, src.o, ir_op_const(size, 8, FALSE)))
     ELSE LET v == ir_lower("expr", dst.l, st.value)
              unextended == IsVReg(v.o) /\ v.o.size < size /\ v.o.signed
         IN StoreInto(IF unextended THEN Flaw(v.l, "assignment widens without extension") ELSE v.l,
                      dst.o, [v.o EXCEPT !.size = size], size)

\* Whether finding a place calls anything.
RECURSIVE Acts(_)
Acts(e) ==
  CASE e.e = "call" -> TRUE
    [] e.e \in {"unary", "cast", "member"} -> Acts(e.x)
    [] e.e = "binary" -> Acts(e.l) \/ Acts(e.r)
    [] e.e = "index" -> Acts(e.x) \/ Acts(e.i)
    [] OTHER -> FALSE

\* The target is read and then found again to be written.
LowerCompoundAssign(L, st) ==
  LET t == st.target.t
      old == ir_lower("expr", IF Acts(st.target) THEN Flaw(L, "target evaluated twice") ELSE L, st.target)
      delta == ir_lower("expr", old.l, st.value)
      new == Define(delta.l, st.op, t.size, t.signed, old.o, delta.o)
      dst == ir_lower("addr", new.l, st.target)
  IN StoreInto(dst.l, dst.o, new.o, t.size)

\* Faulty: what was deferred runs before the value is computed.
LowerReturnDefersFirst(L, st) ==
  IF L.inlines # <<>> THEN LET in == Head(L.inlines)
          L1 == EmitDefers(L, ScopesUpTo(L, in.boundary))
          v == IF st.x = NoExpr THEN [l |-> L1, o |-> ir_op_none] ELSE ir_lower("expr", L1, st.x)
      IN EmitJmp(IF st.x = NoExpr THEN L1 ELSE EmitMov(v.l, in.ret_val_op, v.o), in.bb_return)
  ELSE LET L1 == EmitDefers(L, L.defers)
           v == IF st.x = NoExpr THEN [l |-> L1, o |-> ir_op_none] ELSE ir_lower("expr", L1, st.x)
       IN EmitInst(v.l, RET(v.o))

\* The value is computed, the deferred statements run, control leaves.
LowerReturn(L, st) ==
  IF L.inlines # <<>>
  THEN LET in == Head(L.inlines)
           L1 == IF st.x = NoExpr \/ in.void THEN L
                 ELSE LET v == ir_lower("expr", L, st.x) IN EmitMov(v.l, in.ret_val_op, v.o)
       IN EmitJmp(EmitDefers(L1, ScopesUpTo(L1, in.boundary)), in.bb_return)
  ELSE LET v == IF st.x = NoExpr THEN [l |-> L, o |-> ir_op_none] ELSE ir_lower("expr", L, st.x)
       IN EmitInst(EmitDefers(v.l, v.l.defers), RET(v.o))

LowerIf(L, st) ==
  LET has_else == st.else # NoStmt
      bb_then == Len(L.f.code) + 1
      bb_else == bb_then + 1
      bb_merge == IF has_else THEN bb_then + 2 ELSE bb_then + 1
      L1 == ir_lower_cond(NewBlocks(L, IF has_else THEN 3 ELSE 2), st.cond, bb_then, bb_else)
      Arm(M, b, s) == GoOn(ir_lower("stmt", ir_block_switch(M, b), s), bb_merge)
      L2 == Arm(IF st.then.s = "defer" THEN Flaw(L1, "conditional defer") ELSE L1, bb_then, st.then)
      L3 == IF has_else THEN Arm(L2, bb_else, st.else) ELSE L2
  IN ir_block_switch(L3, bb_merge)

\* Leaving a loop, or a switch, which is no loop to the deferred statements.
LowerBreak(L) ==
  IF L.loops = <<>> THEN L
  ELSE LET stays == {i \in DOMAIN ScopesUpToLoop(L) : Len(L.defers) - i < Head(L.loops).scopes}
           L1 == IF \E i \in stays : L.defers[i].entries # <<>> THEN Flaw(L, "defers run twice") ELSE L
       IN EmitJmp(EmitDefers(L1, ScopesUpToLoop(L1)), Head(L.loops).bb_end)

\* The innermost loop that is no switch.
LowerContinue(L) ==
  LET k == SelectInSeq(L.loops, LAMBDA c : c.bb_cond # NoBlock) IN
  IF k = 0 THEN L ELSE EmitJmp(EmitDefers(L, ScopesUpToLoop(L)), L.loops[k].bb_cond)

EnterLoop(L, bb_cond, bb_end) == [L EXCEPT !.loops = <<[bb_cond |-> bb_cond, bb_end |-> bb_end, scopes |-> 0]>> \o @]

\* The body of a loop, in a scope of its own; then on to `next`.
LowerLoopBody(L, body, next) ==
  EndScope(ir_lower("stmt", defer_scope_push(L, TRUE), body), next)

LowerWhile(L, st) ==
  LET bb_cond == Len(L.f.code) + 1
      bb_body == bb_cond + 1
      bb_end == bb_cond + 2
      L1 == EmitJmp(EnterLoop(NewBlocks(L, 3), bb_cond, bb_end), bb_cond)
      L2 == ir_lower_cond(ir_block_switch(L1, bb_cond), st.cond, bb_body, bb_end)
      L3 == LowerLoopBody(ir_block_switch(L2, bb_body), st.body, bb_cond)
  IN ir_block_switch([L3 EXCEPT !.loops = L.loops], bb_end)

LowerFor(L, st) ==
  LET bb_cond == Len(L.f.code) + 1
      bb_body == bb_cond + 1
      bb_step == bb_cond + 2
      bb_end == bb_cond + 3
      L1 == ir_lower("stmt", NewBlocks(L, 4), st.init)
      L2 == ir_block_switch(EmitJmp(EnterLoop(L1, bb_step, bb_end), bb_cond), bb_cond)
      L3 == IF st.cond = NoExpr THEN EmitJmp(L2, bb_body) ELSE ir_lower_cond(L2, st.cond, bb_body, bb_end)
      L4 == LowerLoopBody(ir_block_switch(L3, bb_body), st.body, bb_step)
      L5 == GoOn(ir_lower("stmt", ir_block_switch(L4, bb_step), st.step), bb_cond)
  IN ir_block_switch([L5 EXCEPT !.loops = L.loops], bb_end)

\* One pattern of a switch: to `target` if it matches, else on in a new block.
RECURSIVE LowerPatterns(_, _, _, _)
LowerPatterns(L, c, patterns, target) ==
  IF patterns = <<>> THEN L
  ELSE LET p == Head(patterns)
           next == Len(L.f.code) + 1
           Bound(v) == ir_op_const(v, c.size, c.signed)
           Test(M, op, v, b) == LET t == Define(M, op, 1, FALSE, c, Bound(v)) IN EmitInst(t.l, BR(t.o, b, next))
           L1 == IF p[1] = p[2] THEN Test(NewBlocks(L, 1), "CMP_EQ", p[1], target)
                 ELSE LET hi == next + 1
                      IN Test(ir_block_switch(Test(NewBlocks(L, 2), "CMP_GE", p[1], hi), hi), "CMP_LE", p[2], target)
       IN LowerPatterns(ir_block_switch(L1, next), c, Tail(patterns), target)

RECURSIVE LowerTests(_, _, _, _)
LowerTests(L, c, cases, first) ==
  IF cases = <<>> THEN L
  ELSE LowerTests(LowerPatterns(L, c, Head(cases).patterns, first), c, Tail(cases), first + 1)

RECURSIVE LowerCases(_, _, _, _)
LowerCases(L, cases, b, bb_end) ==
  IF cases = <<>> THEN L
  ELSE LET L1 == LowerAll(defer_scope_push(ir_block_switch(L, b), FALSE), Head(cases).stmts)
       IN LowerCases(EndScope(L1, bb_end), Tail(cases), b + 1, bb_end)

\* A switch: the tests in order, the default, the cases.
LowerSwitch(L, st) ==
  LET n == Len(st.cases)
      bb_end == Len(L.f.code) + 1
      dflt == SelectInSeq(st.cases, LAMBDA c : c.default)
      bb_default == bb_end + dflt
      c == ir_lower("expr", NewBlocks(L, n + 1), st.cond)
      L1 == GoOn(LowerTests(c.l, c.o, st.cases, bb_end + 1), bb_default)
      switch_ctx == [bb_cond |-> NoBlock, bb_end |-> bb_end, scopes |-> Len(L.defers)]
      L2 == LowerCases([L1 EXCEPT !.loops = <<switch_ctx>> \o @], st.cases, bb_end + 1, bb_end)
  IN ir_block_switch([L2 EXCEPT !.loops = L.loops], bb_end)

LowerBlock(L, st) ==
  LET L1 == LowerAll(defer_scope_push(L, FALSE), st.stmts)
  IN defer_scope_pop(IF Terminated(L1) THEN L1 ELSE DefersHere(L1))

ir_lower_stmt(L, st) ==
  CASE st.s = "none" -> L
    [] st.s = "block" -> LowerBlock(L, st)
    [] st.s = "defer" -> defer_register(L, st.stmt)
    [] st.s = "var" -> LowerVarDecl(L, st)
    [] st.s = "assign" -> LowerAssign(L, st)
    [] st.s = "compound" -> LowerCompoundAssign(L, st)
    [] st.s = "return" -> LowerReturn(L, st)
    [] st.s = "if" -> LowerIf(L, st)
    [] st.s = "break" -> LowerBreak(L)
    [] st.s = "continue" -> LowerContinue(L)
    [] st.s = "while" -> LowerWhile(L, st)
    [] st.s = "for" -> LowerFor(L, st)
    [] st.s = "switch" -> LowerSwitch(L, st)
    [] st.s = "expr" -> ir_lower("expr", L, st.x).l

ir_lower(function, L, x) ==
  CASE function = "addr" -> ir_lower_addr(L, x)
    [] function = "expr" -> ir_lower_expr(L, x)
    [] function = "stmt" -> ir_lower_stmt(L, x)

-----------------------------------------------------------------------------
\* A procedure: its parameters come into slots, and control that reaches the
\* end of its body returns nothing.
RECURSIVE LowerParams(_, _, _)
LowerParams(L, params, i) ==
  IF params = <<>> THEN L
  ELSE LET p == Head(params)
           L1 == Declare(L, p.name, p.t)
           in == Inst("PARAM", StackFor(SlotOffset(L1), p.t), ir_op_const(i, 8, FALSE), ir_op_none)
       IN LowerParams(EmitInst(L1, in), Tail(params), i + 1)

\* A block is numbered when it is placed; until here by when it was made.
NumberBlocks(f) ==
  LET New(o) == IF o.kind = "block" THEN ir_op_block(Position(f, o.id)) ELSE o
      Renumbered(inst) == [inst EXCEPT !.dst = New(@), !.src1 = New(@), !.src2 = New(@)]
  IN [f EXCEPT !.order = [k \in DOMAIN @ |-> k] \o <<>>,
               !.code = MapSeq(f.order, LAMBDA b : MapSeq(f.code[b], Renumbered))]

NoSlots == [x \in {} |-> 0]
ir_lower_start(proc) ==
  LowerParams([f |-> ir_function_create(proc.ret.size), cur |-> 1, slot |-> NoSlots, loops |-> <<>>,
               defers |-> <<>>, inlines |-> <<>>, flawed |-> {}], proc.params, 0)

ir_lower_program(proc) ==
  LET Returned(L) == IF Terminated(L) THEN L ELSE EmitInst(DefersHere(L), RET(ir_op_none))
      L1 == Returned(ir_lower("stmt", defer_scope_push(ir_lower_start(proc), FALSE), proc.body))
  IN [L1 EXCEPT !.f = NumberBlocks(@)]
=============================================================================
