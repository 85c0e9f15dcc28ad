------------------------------ MODULE MCCfgOpt ------------------------------
(***************************************************************************)
(* The functions CfgOpt is checked on.  Register b is the condition block b *)
(* branches on: register 1 is a parameter, the others are what the call in *)
(* their block returned.                                                   *)
(***************************************************************************)
EXTENDS CfgOpt

Bools(n) == [r \in 1..n |-> "bool"]
Calls(b, calls) == IF b \in calls THEN <<Call(b, b)>> ELSE <<>>
From(v, b) == [val |-> v, from |-> b]

-----------------------------------------------------------------------------
\* Every function of four reachable blocks over these terminators; block 4 has
\* a PHI, register 5, where it has more than one predecessor.

Terms(b, calls) ==
  LET cond == IF b \in calls THEN b ELSE 1 IN
  IF b = 1 THEN {Jmp(2), Br(1, 2, 3), Br(1, 3, 2)}
  ELSE {Ret(ConstOp(b)), Jmp(2), Jmp(3), Jmp(4),
        Br(cond, 2, 3), Br(cond, 2, 4), Br(cond, 4, 3), Br(cond, 4, 4)}

JoinPhi(preds) ==
  LET in == SetToSortSeq(preds, <)
  IN Phi(5, [i \in DOMAIN in |-> From(ConstOp(IF in[i] = 3 THEN 0 ELSE 1), in[i])])

ShapeBlock(b, t, calls, preds) ==
  IF b = 4 /\ Cardinality(preds) >= 2
  THEN <<JoinPhi(preds)>> \o Calls(b, calls) \o <<IF t.op = "ret" THEN Ret(VRegOp(5)) ELSE t>>
  ELSE Calls(b, calls) \o <<t>>

Shape(ts, calls) ==
  LET bare == Function([b \in 1..4 |-> <<ts[b]>>], <<>>)
      preds == {p \in 1..4 : 4 \in ToSet(Successors(bare, p))}
  IN Function([b \in 1..4 |-> ShapeBlock(b, ts[b], calls, preds)], Append(Bools(4), "u64"))

Shapes ==
  {f \in UNION {{Shape(<<t1, t2, t3, t4>>, calls) :
                   t1 \in Terms(1, calls), t2 \in Terms(2, calls), t3 \in Terms(3, calls),
                   t4 \in Terms(4, calls)} : calls \in {{}, {2, 3, 4}}} :
     ReachableVia(f, [b \in 1..4 |-> Successors(f, b)]) = 1..4}

-----------------------------------------------------------------------------
\* One "if" after another.  The first one, on register 1, may leave the function
\* in an arm; the second, on register 4, chooses the value of register 5.

Values == {<<1, 0>>, <<0, 1>>, <<1, 1>>}

\* Blocks 5, 6 and 7: the arms and what follows them.
SelectEnd(style, v, calls) ==
  CASE style = "phi" ->
         <<Calls(5, calls) \o <<Jmp(7)>>, Calls(6, calls) \o <<Jmp(7)>>,
           <<Phi(5, <<From(ConstOp(v[1]), 5), From(ConstOp(v[2]), 6)>>), Ret(VRegOp(5))>>>>
    [] style = "mov" ->
         <<<<Mov(5, ConstOp(v[1])), Jmp(7)>>, Calls(6, calls) \o <<Mov(5, ConstOp(v[2])), Jmp(7)>>,
           <<Ret(VRegOp(5))>>>>
    [] style = "narrow mov" ->
         <<<<NarrowMov(5, ConstOp(v[1])), Jmp(7)>>, <<NarrowMov(5, ConstOp(v[2])), Jmp(7)>>,
           <<Ret(VRegOp(5))>>>>
    [] style = "ret" ->
         <<Calls(5, calls) \o <<Ret(ConstOp(v[1]))>>, <<Ret(ConstOp(v[2]))>>, <<Ret(VRegOp(1))>>>>

TwoIfs(arm, order, style, v, calls, type) ==
  [Function(<<<<Br(1, 2, 3)>>, Calls(2, calls) \o <<Jmp(4)>>, arm, <<Call(4, 4), Br(4, 5, 6)>>>>
              \o SelectEnd(style, v, calls),
            <<"bool", "bool", "bool", type, "u64", "u64", "u64">>)
     EXCEPT !.order = order, !.last = Last(order)]

Selects ==
  {TwoIfs(arm, order, style, v, calls, type) :
     arm \in {<<Jmp(4)>>, <<Ret(ConstOp(9))>>},
     order \in {<<1, 2, 3, 4, 5, 6, 7>>, <<1, 2, 4, 5, 6, 7, 3>>, <<1, 2, 3, 4, 7, 5, 6>>},
     style \in {"phi", "mov", "narrow mov", "ret"}, v \in Values,
     calls \in {{}, {2}, {5}}, type \in {"bool", "u64"}}

\* The same with a block 8 to be merged first: the second "if" is folded before
\* the block that holds it is moved to where the first one jumps to it.
LedTo(f, where) ==
  [f EXCEPT !.code = Append([@ EXCEPT ![1] = <<Jmp(8)>>], f.code[1]),
            !.types = Append(@, "u64"),
            !.order = InsertAt(@, where, 8)]

LedSelects ==
  {LedTo(TwoIfs(<<Ret(ConstOp(9))>>, order, style, v, calls, "bool"), where) :
     order \in {<<1, 2, 3, 4, 5, 6, 7>>, <<1, 2, 4, 5, 6, 7, 3>>, <<1, 4, 5, 6, 7, 2, 3>>},
     style \in {"phi", "mov"}, v \in {<<1, 0>>, <<0, 1>>}, calls \in {{}, {2}}, where \in {2, 4}}

-----------------------------------------------------------------------------
\* A switch on register 1 whose cases end in one block, themselves or through
\* blocks that only jump there, are empty, or make a call.

Case(kind, b) == CASE kind = "jump" -> <<Jmp(5)>>
                   [] kind = "call" -> <<Call(b, b), Jmp(5)>>
                   [] kind = "empty" -> <<>>
                   [] kind = "ret" -> <<Ret(ConstOp(b))>>

Switches ==
  {Function(<<<<Switch(1, dflt, table)>>, Case(k2, 2), Case(k3, 3), Case(k4, 4), <<Ret(VRegOp(1))>>>>,
            <<"u64", "u64", "u64", "u64">>) :
     dflt \in {2, 5}, table \in {<<2, 3>>, <<3, 4>>, <<4, 4>>, <<2, 5>>},
     k2 \in {"jump", "empty", "call"}, k3 \in {"jump", "empty", "ret"}, k4 \in {"jump", "call"}}

-----------------------------------------------------------------------------
\* A loop with header 2, body 3, latch 4 and exit 5, in several layouts.

Loop(order, body, latch) ==
  [Function(<<<<Jmp(2)>>,
              <<Phi(6, <<From(VRegOp(1), 1), From(VRegOp(4), 4)>>), Call(2, 2), Br(2, 3, 5)>>,
              body, latch, <<Ret(VRegOp(6))>>>>, Bools(6))
     EXCEPT !.order = order, !.last = Last(order)]

Loops ==
  {Loop(order, body, latch) :
     order \in {<<1, 2, 3, 4, 5>>, <<1, 3, 2, 4, 5>>, <<1, 2, 5, 3, 4>>, <<1, 4, 3, 5, 2>>},
     body \in {<<Jmp(4)>>, <<Call(3, 3), Br(3, 4, 5)>>, <<Call(3, 3), Br(3, 5, 4)>>},
     latch \in {<<Call(4, 4), Jmp(2)>>, <<Call(4, 4), Br(4, 2, 5)>>}}

-----------------------------------------------------------------------------
\* Functions that CFG_MAX_ROUNDS cuts off, and one of the kind it spares.  A
\* chain of n blocks that each do something and jump to the next one takes n - 1
\* merges, one a round.  Laid out backwards, 17 blocks become one in the last
\* round and 18 are cut off.  In order, a block that was emptied runs into the
\* next one of the chain and is a second predecessor of it until the clean-up: a
\* pass merges every other pair, 18 blocks in 9 merges and the rest later.  Of
\* conditionals one inside the other, with nothing in them, a round takes the
\* innermost away.

InOrder(n) == [b \in 1..n |-> b]
Backwards(n) == [i \in 1..n |-> IF i = 1 THEN 1 ELSE n + 2 - i]

Chain(n, order) ==
  [Function([b \in 1..n |-> IF b = n THEN <<Ret(VRegOp(n - 1))>>
                            ELSE <<Mov(b, VRegOp(IF b = 1 THEN 1 ELSE b - 1)), Jmp(b + 1)>>], Bools(n))
     EXCEPT !.order = order, !.last = Last(order)]

Nested(n, order) ==
  [Function([b \in 1..n |-> IF b = n THEN <<Ret(VRegOp(1))>> ELSE <<Br(1, b + 1, n)>>], Bools(1))
     EXCEPT !.order = order, !.last = Last(order)]

Long ==
  {Chain(n, Backwards(n)) : n \in {17, 18}} \cup {Chain(18, InOrder(18))}
    \cup {Nested(18, order) : order \in {InOrder(18), Backwards(18)}}

MCPrograms == Long \cup Shapes \cup Selects \cup LedSelects \cup Switches \cup Loops
MCEnvironments == {<<0>>, <<1>>, <<2>>}
MCInputs == {<<0, 0>>, <<0, 1>>, <<1, 0>>, <<1, 1>>}

=============
