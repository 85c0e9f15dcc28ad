------------------------------ MODULE Programs ------------------------------
(***************************************************************************)
(* The programs that are compiled: small procedures for every statement    *)
(* and expression the lowering knows and for the shapes the passes look     *)
(* for.  x, y, z, i are locals, a and b parameters, G and H globals.        *)
(***************************************************************************)
EXTENDS Ast, Integers, SequencesExt

a == Var("a", I32)
b == Var("b", I32)
x == Var("x", I32)
y == Var("y", I32)
z == Var("z", I32)
i == Var("i", I32)
p == Var("p", PTR)
w == Var("w", I64)
s == Var("s", STRUCT(8))
t == Var("t", STRUCT(8))
outer == Var("u", STRUCT(16))
arr == Var("r", ARRAY(16))
G == GlobalVar(0, I32)
H == GlobalVar(1, I32)

w2 == Var("w2", I64)
cond == Var("t", BOOL)
Lit(n) == IntLit(n, I32)
narrow == Var("c", I8)
Minus1 == Unary("-", IntLit(1, I64), I64)
Op(op, l, r) == Binary(op, l, r, l.t)
And2(e) == Op("AND", e, Lit(1))
Cmp(op, l, r) == Binary(op, l, r, BOOL)
Less(l, r) == Cmp("CMP_LT", l, r)
Plus(l, r) == Op("ADD", l, r)
And(l, r) == Binary("&&", l, r, BOOL)
Or(l, r) == Binary("||", l, r, BOOL)
Not(e) == Unary("!", e, BOOL)
Deref(e, ty) == Unary("*", e, ty)
AddressOfVar(e) == Unary("&", e, PTR)

Ext(e) == CallOf("ext", <<e>>, I32)
Show(e) == ExprStmt(Ext(e))
Peek(e) == CallOf("peek", <<e>>, I32)
Poke(e) == ExprStmt(CallOf("poke", <<e>>, VOID))
Bump == ExprStmt(CallOf("bump", <<>>, VOID))
Let(v, e) == VarDecl(v.name, v.t, e)
Uninit(v) == VarDecl(v.name, v.t, NoExpr)
Inc(v) == Assign(v, Plus(v, Lit(1)))

Param(v) == [name |-> v.name, t |-> v.t]
Main(stmts) == Proc(<<Param(a), Param(b)>>, I32, Block(stmts))
Effect(stmts) == Proc(<<Param(a), Param(b)>>, VOID, Block(stmts))

-----------------------------------------------------------------------------
\* Procedures that are inlined.
half == Proc(<<[name |-> "half.n", t |-> I32]>>, I32,
  Block(<<Defer(Show(Lit(5))),
          If(Less(Var("half.n", I32), Lit(2)), Return(Var("half.n", I32)), NoStmt),
          Return(Ext(Var("half.n", I32)))>>))
note == Proc(<<[name |-> "note.n", t |-> I32]>>, VOID,
  Block(<<If(Var("note.n", I32), Return(NoExpr), NoStmt), Show(Lit(6))>>))
InlinedProcs == [half |-> half, note |-> note]
Half(e) == CallOf("half", <<e>>, I32)
Note(e) == ExprStmt(CallOf("note", <<e>>, VOID))

-----------------------------------------------------------------------------
\* One operation on a parameter and a constant, either way round.
Calculations ==
  {Main(<<Return(Op(op, a, Lit(n)))>>) : op \in {"ADD", "SUB", "MUL", "DIV", "MOD", "AND", "OR", "XOR", "SHL", "SHR"}, n \in {0, 1, 2, 4}}
  \cup {Main(<<Return(Binary(op, a, Minus1, I64))>>) : op \in {"ADD", "MUL", "DIV", "MOD", "AND", "OR"}}
  \cup {Main(<<Let(x, Lit(n)), Return(Op(op, x, a))>>) : op \in {"ADD", "SUB", "MUL"}, n \in {0, 1, 2}}

Defers ==
  {Main(<<Defer(Show(Lit(1))), leave, Show(Lit(2)), Return(Lit(0))>>) :
     leave \in {NoStmt, Return(Ext(Lit(3))), If(a, Return(Lit(3)), NoStmt),
                If(a, Defer(Show(Lit(3))), NoStmt), Block(<<Defer(Show(Lit(4)))>>)}}

Logic(e) ==
  {Main(<<Let(x, Lit(0)), If(e, Assign(x, Lit(1)), else), Return(x)>>) : else \in {NoStmt, Assign(x, Lit(2))}}
  \cup {Main(<<Return(Cast(e, I32))>>)}

Conditions == {Less(a, b), And(Less(a, Lit(2)), Ext(b)), Or(Ext(a), Less(b, a)), Not(And(a, b)), Lit(1)}

Loops(body) ==
  {Main(<<Let(x, Lit(0)), Let(i, a), While(Less(i, Lit(3)), Block(<<Inc(i), body, Show(x)>>)), Return(x)>>),
   Main(<<Let(x, Lit(0)), For(Let(i, a), Less(i, Lit(3)), Inc(i), Block(<<body, Show(x)>>)), Return(x)>>)}

Bodies ==
  {CompoundAssign("ADD", x, i), Block(<<Defer(Show(Lit(1))), If(b, Continue, NoStmt)>>),
   Block(<<Defer(Show(Lit(1))), If(Less(i, b), Break, NoStmt)>>),
   Block(<<Defer(Show(Lit(1))), Switch(b, <<Case(<<<<0, 1>>>>, <<Break>>), Default(<<Continue>>)>>)>>),
   Switch(i, <<Case(<<<<1, 1>>, <<3, 3>>>>, <<Assign(x, Lit(3)), Break>>), Default(<<Break>>), Case(<<<<2, 2>>>>, <<Inc(x)>>)>>)}

Pointers ==
  {Main(<<Let(x, a), Let(p, AddressOfVar(x)), st, Return(Plus(x, Deref(p, I32)))>>) :
     st \in {Assign(Deref(p, I32), b), Poke(p), CompoundAssign("SUB", Deref(p, I32), b), Assign(x, Peek(p))}}

Structs ==
  {Main(<<Uninit(s), Assign(Member(s, 0, I32), a), Assign(Member(s, 4, I32), b), st,
          Return(Op("SUB", Member(s, 0, I32), Member(s, 4, I32)))>>) :
     st \in {NoStmt, Poke(AddressOfVar(Member(s, 4, I32))), Block(<<Let(t, s), Inc(Member(t, 4, I32)), Assign(s, t)>>),
             Block(<<Let(p, AddressOfVar(s)), Assign(Member(p, 4, I32), Lit(1))>>)}}

\* Fields of a struct that is part of another one; nothing leaves through a
\* register, so that the fields can have slots of their own.
Inner == Member(outer, 0, STRUCT(8))
Fields ==
  {Effect(<<Uninit(s), Assign(Member(s, 0, I32), Lit(5)), Assign(Member(s, 4, I32), Lit(6)), Uninit(outer), st,
            Assign(G, Plus(Member(Inner, 4, I32), Lit(1))), Bump>>) :
     st \in {Assign(Member(Inner, 4, I32), Lit(3)), Block(<<Assign(Member(Inner, 0, I32), a), Assign(Member(Inner, 4, I32), Lit(2)), Poke(AddressOfVar(Member(outer, 8, I32)))>>),
             Block(<<Assign(Inner, s), Assign(H, Member(Inner, 0, I32))>>)}}
    \cup {Effect(<<Uninit(s), Assign(Member(s, 0, I32), a), Assign(Member(s, 4, I32), Lit(6)),
                    Poke(AddressOfVar(Member(s, 4, I32))), Assign(G, Member(s, 4, I32)), Bump>>)}

Elements ==
  {Main(<<Uninit(arr), Assign(Index(arr, Lit(0), I32), a), Assign(Index(arr, Lit(1), I32), b), st,
          Return(Plus(Index(arr, Lit(0), I32), Index(arr, Lit(1), I32)))>>) :
     st \in {NoStmt, CompoundAssign("ADD", Index(arr, And2(a), I32), Lit(2)),
             CompoundAssign("ADD", Index(arr, And2(Ext(a)), I32), Lit(1)),
             Block(<<Let(x, Index(arr, Lit(0), I32)), Assign(Index(arr, And2(b), I32), Lit(3)),
                     Assign(Index(arr, Lit(1), I32), Plus(x, Index(arr, Lit(0), I32)))>>),
             For(Let(i, Lit(0)), Less(i, Lit(2)), Inc(i), Assign(Index(arr, i, I32), Ext(i)))}}

\* Two variables changing places round after round; loops in loops.
Rounds ==
  {Main(<<Let(x, a), Let(y, b), Let(i, Lit(0)),
          While(Less(i, Lit(3)), Block(<<Let(z, x), Assign(x, y), Assign(y, z), Inc(i), st>>)), Return(Op("SUB", x, y))>>) :
     st \in {NoStmt, Show(x), If(Less(x, y), Continue, NoStmt)}}
  \cup {Main(<<Let(x, Lit(0)), Let(i, Lit(0)),
               While(Less(i, Lit(2)), Block(<<Let(y, Lit(0)), While(Less(y, a), Block(<<Inc(y), st>>)), Inc(i)>>)), Return(x)>>) :
          st \in {Inc(x), Assign(x, Op("MUL", a, b)), If(Less(x, b), Break, Assign(x, Ext(y)))}}
  \cup {Main(<<Let(x, Lit(0)), While(Less(G, a), Block(<<Inc(x), Bump>>)), Return(x)>>),
        Main(<<Let(x, Lit(0)), While(Lit(1), Block(<<Inc(x), If(Less(a, x), Break, NoStmt)>>)), Return(x)>>),
        Main(<<Let(x, a), While(Less(Peek(AddressOfVar(x)), b), Block(<<Assign(x, Plus(x, Lit(1)))>>)), Return(x)>>)}

Widths ==
  {Main(<<Let(w, a), If(Less(w, IntLit(0, I64)), Return(Lit(1)), NoStmt), Return(Lit(0))>>),
   Main(<<Uninit(w), Assign(w, b), If(Less(w, IntLit(0, I64)), Return(Lit(1)), NoStmt), Return(Lit(0))>>),
   Main(<<Let(w, Cast(a, I64)), Let(x, Cast(Binary("MUL", w, w, I64), I32)), Return(x)>>),
   Main(<<Let(narrow, Cast(a, I8)), Return(Plus(Cast(narrow, I32), b))>>),
   Main(<<Let(narrow, Cast(Plus(a, b), I8)), Let(x, Cast(narrow, I32)), Show(x), Return(Plus(x, Plus(a, b)))>>),
   Main(<<Let(w, Cast(Cast(a, U32), I64)), Return(Cast(Binary("SHR", w, IntLit(2, I64), I64), I32))>>)}

\* The same value computed, or read, twice.
Again ==
  {Main(<<If(a, Assign(G, Lit(1)), NoStmt), Let(x, Op("MUL", a, b)), Let(y, Op("MUL", b, a)), Return(Op("SUB", x, y))>>),
   Main(<<Let(x, G), Bump, Let(y, G), Return(Op("SUB", x, y))>>),
   Main(<<Let(p, AddressOfVar(G)), Let(x, G), Assign(Deref(p, I32), a), Let(y, G), Return(Op("SUB", x, y))>>),
   Main(<<Let(y, Lit(0)), If(a, Assign(y, Lit(1)), NoStmt), Let(x, y), Let(p, AddressOfVar(x)), Assign(Deref(p, I32), b), Return(Plus(x, Deref(p, I32)))>>),
   Main(<<Assign(G, a), Assign(H, b), Let(x, G), Let(y, H), Return(Op("SUB", x, y))>>),
   Main(<<Let(x, Lit(0)), Let(y, Lit(0)), If(a, Block(<<Assign(x, Lit(1)), Assign(y, Lit(1))>>), NoStmt),
          If(b, Inc(x), Inc(y)), Return(Plus(Op("MUL", x, Lit(2)), y))>>),
   Main(<<Let(x, Lit(0)), If(a, Assign(x, Lit(1)), NoStmt), Let(y, Lit(0)), If(b, Assign(y, Lit(1)), NoStmt),
          Return(Op("SUB", x, y))>>)}

\* More values at once than there are registers.
Crowds ==
  {Main(<<Let(x, Plus(a, b)), Let(y, Op("SUB", a, b)), Let(z, Op("MUL", a, b)), Let(i, Op("XOR", a, b)), st,
          Return(Plus(Plus(x, y), Plus(z, i)))>>) : st \in {NoStmt, Assign(z, Ext(i)), Show(y)}}

\* Seven of them, whatever happens between making and using them.
V(n) == Var(<<"v1", "v2", "v3", "v4", "v5", "v6", "v7">>[n], I32)
Sum(es) == FoldLeft(Plus, Head(es), Tail(es))
Mix(es) == FoldLeft(LAMBDA l, r : Op("XOR", l, r), Head(es), Tail(es))
Throng ==
  {Main(<<Let(V(1), Plus(a, b)), Let(V(2), Op("SUB", a, b)), Let(V(3), Op("MUL", a, b)), Let(V(4), Op("XOR", a, b)),
          Let(V(5), Op("AND", a, b)), Let(V(6), Op("OR", a, b)), Let(V(7), Op("SUB", b, a)), st,
          Return(Sum([n \in 1 .. 7 |-> V(n)]))>>) :
     st \in {Show(a), Assign(V(2), Ext(V(1))), While(Less(V(1), V(3)), Block(<<Inc(V(1)), Bump>>)),
             If(a, Poke(AddressOfVar(V(6))), Assign(V(5), Lit(2)))}}

\* The same around a value that is cut in the end.
Squeeze ==
  {Main(<<Let(V(1), Plus(a, b)), Let(V(2), Op("SUB", a, b)), Let(V(3), Op("MUL", a, b)), Let(V(4), Op("XOR", a, b)),
          Let(V(5), Op("AND", a, b)), Let(V(6), Op("OR", a, b)), Let(w, Binary("MUL", Cast(a, I64), IntLit(5, I64), I64)), Bump,
          Let(y, Cast(Binary("SHR", w, IntLit(3, I64), I64), I32)), Let(x, Cast(w, I32)), Show(y),
          Return(Plus(x, Op("SUB", Sum([n \in 1 .. 6 |-> V(n)]), Mix([n \in 1 .. 6 |-> V(n)]))))>>)}

\* Six parameters, some of them in memory.
Six == [n \in 1 .. 6 |-> Var(<<"a", "b", "d", "e", "f", "g">>[n], I32)]
Given(n, stmts) == Proc([k \in 1 .. n |-> Param(Six[k])], I32, Block(stmts))
Arguments ==
  {Given(n, <<Return(Sum(Six))>>) : n \in {6}}
  \cup {Given(n, <<Let(x, Plus(Op("MUL", Plus(a, b), Plus(Six[3], b)), a)), Let(p, AddressOfVar(Six[n])),
                   Return(Plus(Peek(p), x))>>) : n \in {5, 6}}
  \cup {Given(6, <<Let(x, Six[n]), Let(p, AddressOfVar(Six[6])), Assign(Six[n], Peek(p)), Let(y, Op("SUB", Six[n], x)),
                   Return(Op("MUL", y, Six[1]))>>) : n \in {2, 4}}

\* A call that is given n numbers, each made for it.
Passing(n) == Main(<<Return(CallOf("many", [k \in 1 .. n |-> Op(IF k % 2 = 0 THEN "ADD" ELSE "SUB", IF k < 6 THEN a ELSE b, Lit(k))] \o <<>>, I32))>>)

\* A value and its lower half; a condition used again.
Halves ==
  {Main(<<Let(w, Binary("MUL", Cast(a, I64), IntLit(5, I64), I64)), Let(x, Cast(w, I32)), st,
          Let(w2, Binary("ADD", w, Cast(x, I64), I64)), Return(Cast(Binary("SHR", w2, IntLit(2, I64), I64), I32))>>) :
     st \in {NoStmt, Show(x), Assign(x, Plus(x, Lit(1)))}}
  \cup {Main(<<Let(cond, Less(a, b)), If(cond, Show(Lit(1)), NoStmt), st, If(cond, Return(Lit(1)), NoStmt), Return(Lit(2))>>) :
          st \in {NoStmt, Show(Lit(2)), Inc(a)}}
  \cup {Main(<<Let(cond, Less(a, b)), While(cond, Block(<<Inc(a), Assign(cond, Less(a, Plus(b, Lit(2)))), If(cond, Show(a), NoStmt)>>)),
               Return(Cast(cond, I32))>>)}

\* Addresses made of more than one part; a result that is copied over an operand
\* and read again; what is in a slot stored there again.
arr2 == Var("q", ARRAY(16))
pairs == Var("pairs", ARRAY(16))
At(e, k) == Index(e, k, I32)
Field(k, off) == Member(Index(pairs, k, STRUCT(8)), off, I32)
Wide(e) == Cast(e, I64)
Addresses ==
  {Main(<<Uninit(arr), Uninit(arr2), Assign(At(arr, Lit(0)), a), Assign(At(arr, Lit(1)), b), Assign(At(arr2, Lit(0)), b),
          Assign(At(arr2, Lit(1)), a), Let(k, Cast(And2(a), k.t)), Let(x, At(arr, k)), Let(y, At(arr2, k)), Bump, Let(z, At(arr, k)),
          Assign(At(arr, Binary("SUB", IntLit(1, I64), k, I64)), z),
          Return(Plus(Op("MUL", At(arr2, k), x), Plus(y, Cast(k, I32))))>>) :
     k \in {i, w}}
  \cup
  {Main(<<Uninit(pairs), Assign(Field(IntLit(0, I64), 0), a), Assign(Field(IntLit(0, I64), 4), b),
          Assign(Field(IntLit(1, I64), 0), b), Assign(Field(IntLit(1, I64), 4), a), Let(w, Wide(And2(a))),
          Let(x, Field(w, 4)), Bump, Let(y, Field(w, 0)), Bump, Return(Plus(Op("MUL", x, Field(w, 4)), Plus(y, Cast(w, I32))))>>),
   Main(<<Let(i, b), Let(y, Lit(0)), Let(x, a),
          While(Less(IntLit(0, I64), i), Block(<<Show(y), Assign(i, Op("SUB", i, Lit(1))), Assign(y, Op("SUB", x, i)), Assign(x, y)>>)),
          Return(x)>>),
   Main(<<Let(x, Op("MUL", a, Lit(4))), Let(y, Plus(x, b)), Show(x), Bump, Return(Op("XOR", Op("XOR", x, b), y))>>),
   Main(<<Let(x, Lit(1)), Let(p, AddressOfVar(x)), Assign(x, Lit(1)), Show(a), Let(y, x), Assign(x, y), Let(z, x), Poke(p),
          Return(Op("SUB", x, Plus(y, z)))>>)}

Tails ==
  {Main(<<Return(Ext(a))>>), Effect(<<Bump>>), Effect(<<Let(x, a), Poke(AddressOfVar(x))>>),
   Main(<<Let(x, a), Let(y, b), Let(p, AddressOfVar(x)), If(b, Assign(p, AddressOfVar(y)), NoStmt), Return(Peek(p))>>)}

\* What one of two variables holds, changed where it is; it is read again behind.
One(stmts) == Main(<<Let(x, a), Let(y, b), Let(p, AddressOfVar(x)), If(b, Assign(p, AddressOfVar(y)), NoStmt)>> \o stmts)
There == Deref(p, I32)
Fused ==
  {One(<<Assign(There, Op(op, There, e)), Return(Op("MUL", Peek(p), y))>>) :
     op \in {"ADD", "SUB", "XOR", "SHL", "SHR"}, e \in {Lit(1), And2(a)}}
  \cup {One(<<Assign(There, e), Return(Plus(Peek(p), b))>>) :
          e \in {Unary("-", There, I32), Unary("~", There, I32), Plus(a, There), Plus(There, There)}}
  \cup {One(<<Let(z, There), Assign(There, Plus(z, b)), If(a, Return(z), NoStmt), Return(Plus(Peek(p), b))>>),
         One(<<Let(z, Plus(There, b)), Assign(There, z), If(a, Return(z), NoStmt), Return(Plus(Peek(p), b))>>)}

\* Operands and parameters of other kinds.
Various ==
  {Main(<<Return(Op(op, a, And2(b)))>>) : op \in {"SHL", "SHR"}}
  \cup {Main(<<Return(Plus(Unary(op, a, I32), b))>>) : op \in {"-", "~"}}
  \cup {Main(<<Return(CallOf("many", <<b, a>>, I32))>>),
         Proc(<<Param(narrow), Param(w)>>, I32, Block(<<Bump, Return(Plus(Cast(narrow, I32), Cast(w, I32)))>>))}

Inlines ==
  {Main(<<Let(x, Half(a)), Return(Plus(x, Half(b)))>>),
   Main(<<Note(a), While(Less(a, b), Block(<<Note(a), Inc(a)>>)), Return(a)>>)}

All == Calculations \cup Defers \cup UNION {Logic(e) : e \in Conditions} \cup UNION {Loops(bd) : bd \in Bodies}
         \cup Pointers \cup Structs \cup Inlines \cup Fields \cup Elements \cup Rounds \cup Widths
         \cup Again \cup Crowds \cup Throng \cup Squeeze \cup Arguments \cup Halves \cup Tails \cup Addresses
         \cup Fused \cup Various
         \cup {Passing(n) : n \in {4, 9}}
=============================================================================
