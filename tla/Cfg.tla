-------------------------------- MODULE Cfg --------------------------------
(***************************************************************************)
(* The control-flow graph of a function: predecessors, reverse postorder,  *)
(* dominators.  mem2reg.c, gvn.c, sccp.c, licm.c and regalloc.c each have   *)
(* code of their own for this; it computes the same.                        *)
(***************************************************************************)
EXTENDS KIR, FiniteSets

Entry(f) == Head(f.order)

Succs(f, b) == ToSet(Successors(f, b))

\* In layout order: the order in which the edges are found.
Preds(f, b) == SelectSeq(f.order, LAMBDA p : b \in Succs(f, p))

\* The blocks reached from `from` without entering one of `avoiding`.
RECURSIVE ReachFrom(_, _, _)
ReachFrom(f, from, avoiding) ==
  LET next == (from \cup UNION {Succs(f, b) : b \in from}) \ avoiding
  IN IF next = from THEN from ELSE ReachFrom(f, next, avoiding)

Reachable(f) == ReachFrom(f, {Entry(f)}, {})

\* Depth first, the successors in the order `next` has them; the blocks seen,
\* in postorder.
RECURSIVE Postorder(_, _, _)
Postorder(next, todo, acc) ==
  IF todo = <<>> THEN acc
  ELSE LET b == Head(todo)
           inside == Postorder(next, next[b], [acc EXCEPT !.seen = @ \cup {b}])
       IN Postorder(next, Tail(todo),
                    IF b \in acc.seen THEN acc ELSE [inside EXCEPT !.post = Append(@, b)])

ReversePostorder(f, next) == Reverse(Postorder(next, <<Entry(f)>>, [seen |-> {}, post |-> <<>>]).post)

-----------------------------------------------------------------------------
\* Dominators, of the reachable blocks.

DominatorsOf(f, reachable) ==
  LET avoid == [d \in reachable |-> IF d = Entry(f) THEN {} ELSE ReachFrom(f, {Entry(f)}, {d})]
  IN [b \in reachable |-> {d \in reachable : b \notin avoid[d]}]

Dominators(f) == DominatorsOf(f, Reachable(f))

\* What a pass knows of the graph.
GraphWith(f, next, dom) ==
  LET Strict(b) == dom[b] \ {b}
  IN [rpo |-> ReversePostorder(f, next), dom |-> dom, succs |-> next,
      preds |-> [b \in Blocks(f) |-> Preds(f, b)],
      idom |-> [b \in DOMAIN dom |->
        IF Strict(b) = {} THEN b ELSE CHOOSE d \in Strict(b) : Strict(b) \subseteq dom[d]]]

GraphBy(f, next) == GraphWith(f, next, Dominators(f))

Dominates(g, x, b) == b \in DOMAIN g.dom /\ x \in g.dom[b]

Graph(f) == GraphBy(f, [b \in Blocks(f) |-> Successors(f, b)])

\* As a pass sees it that looks for the targets of a BR in layout order.
GraphInLayoutOrder(f) ==
  GraphBy(f, [b \in Blocks(f) |-> SelectSeq(f.order, LAMBDA c : c \in Succs(f, b))])

\* Children in the dominator tree, in reverse postorder.
DomChildren(g, b) == SelectSeq(g.rpo, LAMBDA c : c # b /\ g.idom[c] = b)

\* The joins that b's dominance ends at.
Frontier(g, b) ==
  LET reached(y) == SelectSeq(g.preds[y], LAMBDA p : p \in DOMAIN g.dom)
  IN SelectSeq(g.rpo, LAMBDA y :
       /\ Len(reached(y)) >= 2
       /\ \E p \in ToSet(reached(y)) : Dominates(g, b, p)
       /\ ~(Dominates(g, b, y) /\ b # y))
=============================================================================
