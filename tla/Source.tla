------------------------------- MODULE Source -------------------------------
(***************************************************************************)
(* What a program means, read off its text: the yardstick for the lowering *)
(* and for every pass behind it.                                           *)
(*                                                                         *)
(* Variables are places; a place is a name and an offset in it, and so is  *)
(* the value of a pointer.  A statement that was deferred runs when the    *)
(* block it was reached in is left, the latest first, however that is; the  *)
(* value of a `return` is computed before.  `break` leaves the innermost   *)
(* loop or switch.                                                         *)
(***************************************************************************)
EXTENDS KRun, Ast, Folds

CONSTANT Inlined        \* the procedures declared inline, by name

\* A run: `sig` is how control is leaving, "go" while it is not.
Begin(params, args, input, fuel) ==
  [vars |-> [p \in {<<params[i].name, 0>> : i \in DOMAIN params} |->
               LET i == CHOOSE i \in DOMAIN params : <<params[i].name, 0>> = p
               IN Extended(args[i], params[i].t.size, params[i].t.signed)],
   sig |-> "go", value |-> 0, deferred |-> <<>>, input |-> input, trace |-> <<>>, fuel |-> fuel]

Read(S, place) == IF place \in DOMAIN S.vars THEN S.vars[place] ELSE 0
Write(S, place, v) == [S EXCEPT !.vars = [p \in DOMAIN @ \cup {place} |-> IF p = place THEN v ELSE @[p]]]

Going(S) == S.sig = "go"
Leave(S, sig) == IF Going(S) THEN [S EXCEPT !.sig = sig] ELSE S
Over(S, events) == [S EXCEPT !.sig = "over", !.trace = @ \o events]
As(t, v) == Extended(v, t.size, t.signed)

\* What a part of the program does: the value of an expression, the place it
\* denotes, a statement, the statements of a scope.
RECURSIVE Of(_, _, _)

RECURSIVE EvalArgs(_, _, _), RunAll(_, _), Loop(_, _, _, _)

EvalArgs(S, args, vs) ==
  IF args = <<>> THEN [s |-> S, vs |-> vs]
  ELSE LET r == Of("value", S, Head(args)) IN EvalArgs(r.s, Tail(args), Append(vs, r.v))

\* A place is kept as <<name, offset>>; a pointer's value is one.
EvalPlace(S, e) ==
  CASE e.e = "var" -> [s |-> S, v |-> <<e.name, 0>>]
    [] e.e = "global" -> [s |-> S, v |-> <<"global", e.id>>]
    [] e.e = "member" -> LET r == IF type_is_pointer(e.x.t) THEN Of("value", S, e.x) ELSE Of("place", S, e.x)
                         IN [r EXCEPT !.v = <<@[1], @[2] + e.off>>]
    [] e.e = "index" -> LET r == Of("place", S, e.x)
                            i == Of("value", r.s, e.i)
                        IN [s |-> i.s, v |-> <<r.v[1], r.v[2] + i.v * e.t.size>>]
    [] e.e = "unary" -> Of("value", S, e.x)

External(S, e, vs) ==
  LET in == Head(S.input)
      shown == [S EXCEPT !.input = Tail(@), !.trace = Append(@,
                 <<e.proc>> \o CASE e.proc = "poke" -> <<0>>
                                  [] e.proc = "bump" -> <<Low(Read(S, <<"global", 0>>), 4)>>
                                  [] e.proc = "peek" -> <<Low(Read(S, vs[1]), 4)>>
                                  [] OTHER -> MapSeq(vs, LAMBDA v : Low(v, 4)))]
  IN CASE S.input = <<>> -> [s |-> Over(S, <<>>), v |-> 0]
       [] e.proc = "poke" -> [s |-> Write(shown, vs[1], As(I32, in)), v |-> 0]
       [] e.proc = "bump" -> [s |-> Write(shown, <<"global", 0>>, As(I32, in)), v |-> 0]
       [] OTHER -> [s |-> shown, v |-> IF e.t.kind = "void" THEN 0 ELSE As(e.t, in)]

Internal(S, e, vs) ==
  LET proc == Inlined[e.proc]
      given == FoldLeft(LAMBDA T, i : Write(T, <<proc.params[i].name, 0>>, vs[i]), S,
                        [i \in DOMAIN vs |-> i])
      ran == Of("scope", given, <<proc.body>>)
  IN [s |-> IF ran.sig = "return" THEN [ran EXCEPT !.sig = "go"] ELSE ran,
      v |-> IF proc.ret.kind = "void" THEN 0 ELSE As(proc.ret, ran.value)]

EvalBinary(S, e) ==
  LET l == Of("value", S, e.l)
      stops == ~Going(l.s) \/ (e.op = "&&" /\ l.v = 0) \/ (e.op = "||" /\ l.v # 0)
      r == Of("value", l.s, e.r)
      size == IF e.op \in Comparisons THEN e.l.t.size ELSE e.t.size
      signed == e.l.t.signed
  IN IF stops THEN [s |-> l.s, v |-> IF l.v # 0 THEN 1 ELSE 0]
     ELSE IF ~Going(r.s) THEN [s |-> r.s, v |-> 0]
     ELSE IF e.op \in {"&&", "||"} THEN [s |-> r.s, v |-> IF r.v # 0 THEN 1 ELSE 0]
     ELSE IF e.op \in Comparisons THEN [s |-> r.s, v |-> Compare(e.op, l.v, r.v, size, signed)]
     ELSE IF Divides(e.op) /\ (r.v = 0 \/ Overflows(l.v, r.v, size, signed)) THEN [s |-> Over(r.s, <<<<"fault">>>>), v |-> 0]
     ELSE [s |-> r.s, v |-> As(e.t, Compute(e.op, l.v, r.v, size, signed))]

Eval(S, e) ==
  IF ~Going(S) THEN [s |-> S, v |-> 0]
  ELSE CASE e.e = "int" -> [s |-> S, v |-> e.val]
         [] e.e \in {"var", "global", "member", "index"} \/ (e.e = "unary" /\ e.op = "*") ->
              LET place == Of("place", S, e) IN [place EXCEPT !.v = Read(place.s, place.v)]
         [] e.e = "unary" /\ e.op = "&" -> Of("place", S, e.x)
         [] e.e = "unary" ->
              LET x == Of("value", S, e.x)
              IN [x EXCEPT !.v = As(e.t, CASE e.op = "-" -> -@ [] e.op = "~" -> -1 - @
                                           [] e.op = "!" -> IF @ = 0 THEN 1 ELSE 0)]
         [] e.e = "binary" -> EvalBinary(S, e)
         [] e.e = "cast" -> LET x == Of("value", S, e.x) IN [x EXCEPT !.v = As(e.t, @)]
         [] e.e = "call" ->
              LET r == EvalArgs(S, e.args, <<>>)
              IN IF ~Going(r.s) THEN [s |-> r.s, v |-> 0]
                 ELSE IF e.proc \in DOMAIN Inlined THEN Internal(r.s, e, r.vs) ELSE External(r.s, e, r.vs)

\* Every field of a struct, 4 bytes each.
CopyStruct(S, to, from, size) ==
  FoldLeft(LAMBDA T, k : Write(T, <<to[1], to[2] + 4 * k>>, Read(S, <<from[1], from[2] + 4 * k>>)),
           S, [i \in 1 .. size \div 4 |-> i - 1])

SetPlace(S, target, value) ==
  IF type_is_compound(target.t)
  THEN LET to == Of("place", S, target)
           from == Of("place", to.s, value)
       IN IF Going(from.s) THEN CopyStruct(from.s, to.v, from.v, target.t.size) ELSE from.s
  ELSE LET to == Of("place", S, target)
           v == Of("value", to.s, value)
       IN IF Going(v.s) THEN Write(v.s, to.v, v.v) ELSE v.s

\* The place is found once, its old value read before the other one is computed.
Updated(S, st) ==
  LET to == Of("place", S, st.target)
      t == st.target.t
      old == Read(to.s, to.v)
      r == EvalBinary(to.s, Binary(st.op, IntLit(old, t), st.value, t))
  IN IF Going(to.s) /\ Going(r.s) THEN Write(r.s, to.v, r.v) ELSE r.s

\* A block: its statements, and then what they deferred.
Scoped(S, stmts) ==
  LET ran == RunAll([S EXCEPT !.deferred = <<>>], stmts)
      left == IF ran.sig = "over" THEN ran ELSE RunAll([ran EXCEPT !.sig = "go"], ran.deferred)
  IN [left EXCEPT !.deferred = S.deferred, !.sig = IF @ = "go" THEN ran.sig ELSE @,
                  !.value = ran.value]

RunAll(S, stmts) == IF stmts = <<>> \/ ~Going(S) THEN S ELSE RunAll(Of("run", S, Head(stmts)), Tail(stmts))

\* A loop: `step` ends a round, however the body ended it.
Loop(S, cond, body, step) ==
  LET c == IF cond = NoExpr THEN [s |-> S, v |-> 1] ELSE Of("value", S, cond)
      ran == Of("scope", [c.s EXCEPT !.fuel = @ - 1], <<body>>)
      next == IF ran.sig = "continue" THEN [ran EXCEPT !.sig = "go"] ELSE ran
  IN IF ~Going(c.s) \/ c.v = 0 THEN c.s
     ELSE IF c.s.fuel = 0 THEN Over(c.s, <<>>)
     ELSE IF next.sig = "break" THEN [next EXCEPT !.sig = "go"]
     ELSE IF ~Going(next) THEN next
     ELSE Loop(Of("run", next, step), cond, body, step)

Matches(c, v) == \E i \in DOMAIN c.patterns : v \in c.patterns[i][1] .. c.patterns[i][2]

RunSwitch(S, st) ==
  LET c == Of("value", S, st.cond)
      hit == SelectInSeq(st.cases, LAMBDA k : Matches(k, c.v))
      k == IF hit # 0 THEN hit ELSE SelectInSeq(st.cases, LAMBDA d : d.default)
      ran == IF k = 0 THEN c.s ELSE Of("scope", c.s, st.cases[k].stmts)
  IN IF ~Going(c.s) THEN c.s ELSE IF ran.sig = "break" THEN [ran EXCEPT !.sig = "go"] ELSE ran

Run(S, st) ==
  CASE st.s = "none" -> S
    [] st.s = "block" -> Of("scope", S, st.stmts)
    [] st.s = "defer" -> [S EXCEPT !.deferred = <<st.stmt>> \o @]
    [] st.s = "var" -> IF st.init = NoExpr THEN S ELSE SetPlace(S, Var(st.name, st.t), st.init)
    [] st.s = "assign" -> SetPlace(S, st.target, st.value)
    [] st.s = "compound" -> Updated(S, st)
    [] st.s = "return" ->
         LET v == IF st.x = NoExpr THEN [s |-> S, v |-> 0] ELSE Of("value", S, st.x)
         IN Leave([v.s EXCEPT !.value = v.v], "return")
    [] st.s = "if" -> LET c == Of("value", S, st.cond)
                      IN IF ~Going(c.s) THEN c.s ELSE Of("run", c.s, IF c.v # 0 THEN st.then ELSE st.else)
    [] st.s \in {"break", "continue"} -> Leave(S, st.s)
    [] st.s = "while" -> Loop(S, st.cond, st.body, NoStmt)
    [] st.s = "for" -> LET S1 == Of("run", S, st.init) IN IF Going(S1) THEN Loop(S1, st.cond, st.body, st.step) ELSE S1
    [] st.s = "switch" -> RunSwitch(S, st)
    [] st.s = "expr" -> Of("value", S, st.x).s

Of(part, S, x) ==
  CASE part = "value" -> Eval(S, x)
    [] part = "place" -> EvalPlace(S, x)
    [] part = "run" -> Run(S, x)
    [] part = "scope" -> Scoped(S, x)

\* The calls a procedure makes and what it returns.
Meaning(proc, args, input, fuel) ==
  LET ran == Of("scope", Begin(proc.params, args, input, fuel), <<proc.body>>)
  IN IF ran.sig = "over" THEN ran.trace
     ELSE Append(ran.trace, <<"ret", IF proc.ret.size = 0 THEN 0 ELSE Low(ran.value, proc.ret.size)>>)
=============================================================================
