-------------------------------- MODULE Ast --------------------------------
(***************************************************************************)
(* Programs as the front end of the bootstrap compiler hands them to the   *)
(* lowering: typed trees (src/ast.h, src/type.h).                          *)
(*                                                                         *)
(* A type is its size, whether it is signed, and what kind it is.  Names   *)
(* of variables stand for the symbols they were resolved to, so that no    *)
(* two variables of a procedure and the procedures inlined in it share one. *)
(***************************************************************************)
EXTENDS Naturals, Sequences

Type(kind, size, signed) == [kind |-> kind, size |-> size, signed |-> signed]
I32 == Type("int", 4, TRUE)
U32 == Type("int", 4, FALSE)
I64 == Type("int", 8, TRUE)
I8 == Type("int", 1, TRUE)
BOOL == Type("bool", 1, FALSE)
PTR == Type("ptr", 8, FALSE)
STRUCT(size) == Type("struct", size, FALSE)
ARRAY(size) == Type("array", size, FALSE)
VOID == Type("void", 0, FALSE)

type_is_compound(t) == t.kind = "struct"
type_is_pointer(t) == t.kind = "ptr"

-----------------------------------------------------------------------------
\* Expressions.
NoExpr == [e |-> "none"]
IntLit(v, t) == [e |-> "int", val |-> v, t |-> t]
Var(x, t) == [e |-> "var", name |-> x, t |-> t]
GlobalVar(g, t) == [e |-> "global", id |-> g, t |-> t]
Unary(op, x, t) == [e |-> "unary", op |-> op, x |-> x, t |-> t]
Binary(op, l, r, t) == [e |-> "binary", op |-> op, l |-> l, r |-> r, t |-> t]
Cast(x, t) == [e |-> "cast", x |-> x, t |-> t]
\* A call of an external procedure, or of one that is inlined.
CallOf(proc, args, t) == [e |-> "call", proc |-> proc, args |-> args, t |-> t]
Member(target, off, t) == [e |-> "member", x |-> target, off |-> off, t |-> t]
Index(array, i, t) == [e |-> "index", x |-> array, i |-> i, t |-> t]

-----------------------------------------------------------------------------
\* Statements.
NoStmt == [s |-> "none"]
Block(stmts) == [s |-> "block", stmts |-> stmts]
Defer(stmt) == [s |-> "defer", stmt |-> stmt]
VarDecl(x, t, init) == [s |-> "var", name |-> x, t |-> t, init |-> init]
Assign(target, value) == [s |-> "assign", target |-> target, value |-> value]
CompoundAssign(op, target, value) == [s |-> "compound", op |-> op, target |-> target, value |-> value]
Return(x) == [s |-> "return", x |-> x]
If(cond, then, else) == [s |-> "if", cond |-> cond, then |-> then, else |-> else]
Break == [s |-> "break"]
Continue == [s |-> "continue"]
While(cond, body) == [s |-> "while", cond |-> cond, body |-> body]
For(init, cond, step, body) == [s |-> "for", init |-> init, cond |-> cond, step |-> step, body |-> body]
\* A case has a list of patterns, ranges <<lo, hi>>, and statements.
Case(patterns, stmts) == [default |-> FALSE, patterns |-> patterns, stmts |-> stmts]
Default(stmts) == [default |-> TRUE, patterns |-> <<>>, stmts |-> stmts]
Switch(cond, cases) == [s |-> "switch", cond |-> cond, cases |-> cases]
ExprStmt(x) == [s |-> "expr", x |-> x]

Proc(params, ret, body) == [params |-> params, ret |-> ret, body |-> body]
=============================================================================
