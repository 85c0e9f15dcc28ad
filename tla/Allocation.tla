----------------------------- MODULE Allocation -----------------------------
(***************************************************************************)
(* The register allocator on one function, step by step: the loop of       *)
(* regalloc_run_on_function with the operations of RegAlloc.               *)
(*                                                                         *)
(*   func       the function, with the code of the spills made so far       *)
(*   made       the registers it had to begin with                         *)
(*   g          the interference graph                                     *)
(*   iteration  how often the graph was built                              *)
(*   pc         "build", "reduce", "colored" or "done"                     *)
(***************************************************************************)
EXTENDS RegAlloc, TLC

CONSTANT Functions       \* what out_of_ssa made of the procedures

ASSUME FunctionsAssumption == \A f \in Functions : WellFormed(f)

VARIABLES func, made, g, iteration, pc
vars == <<func, made, g, iteration, pc>>

Init ==
  /\ func \in Functions
  /\ made = func.vregs
  /\ g = Uncosted(func, made)
  /\ iteration = 0
  /\ pc = "build"

Build ==
  /\ pc = "build"
  /\ iteration < MaxIterations
  /\ g' = InterferenceGraph(func, made)
  /\ iteration' = iteration + 1
  /\ pc' = "reduce"
  /\ UNCHANGED <<func, made>>

Reducing(next) ==
  /\ pc = "reduce"
  /\ g' = next
  /\ UNCHANGED <<func, made, iteration, pc>>

Simplify == g.lists["simplify"] # <<>> /\ Reducing(irc_simplify(g))
Coalesce == g.lists["simplify"] = <<>> /\ g.queue # <<>> /\ Reducing(irc_coalesce(g))
Freeze ==
  /\ g.lists["simplify"] = <<>> /\ g.queue = <<>>
  /\ g.lists["freeze"] # <<>>
  /\ Reducing(irc_freeze(g))
SelectSpill ==
  /\ g.lists["simplify"] = <<>> /\ g.queue = <<>> /\ g.lists["freeze"] = <<>>
  /\ g.lists["spill"] # <<>>
  /\ Reducing(irc_select_spill(g))

AssignColors ==
  /\ pc = "reduce"
  /\ ~Working(g)
  /\ g' = irc_assign_colors(g)
  /\ pc' = "colored"
  /\ UNCHANGED <<func, made, iteration>>

Rewrite ==
  /\ pc = "colored"
  /\ g.spilled # <<>>
  /\ func' = rewrite_spilled_program(g, func)
  /\ pc' = "build"
  /\ UNCHANGED <<made, g, iteration>>

Finish ==
  /\ pc = "colored"
  /\ g.spilled = <<>>
  /\ func' = Finished(rewrite_final_function_operands(g, func))
  /\ pc' = "done"
  /\ UNCHANGED <<made, g, iteration>>

Done == pc = "done" /\ UNCHANGED vars

\* A function that cannot be coloured after MaxIterations stops for good.
Next == Build \/ Simplify \/ Coalesce \/ Freeze \/ SelectSpill \/ AssignColors \/ Rewrite \/ Finish \/ Done

Spec == Init /\ [][Next]_vars

-----------------------------------------------------------------------------
\* What is left of the graph: the nodes that still are to be put on the stack,
\* those that stand for themselves.
Left(graph) == {n \in VRegNodes(graph) : graph.alias[n] = n /\ graph.state[n] \in {"simplify", "freeze", "spill"}}

\* The nodes left that remain when those with fewer than K neighbours are
\* taken away one after the other.
Core(graph) ==
  LET Neighbours(n, S) == {m \in S \cup ToSet(Allocatable) : irc_is_adjacent(graph, n, m)}
      Few(S) == {n \in S : Cardinality(Neighbours(n, S)) < K}
      core[S \in SUBSET Left(graph)] == IF Few(S) = {} THEN S ELSE core[S \ Few(S)]
  IN core[Left(graph)]

\* Coalescing two nodes never has a node spilled that would not have been:
\* a graph that can be taken apart still can.
CoalescingSafe ==
  [][Coalesce => (Core(g) = {} => Core(g') = {})]_vars

\* Where a register is written no value that is needed later is in it, but for
\* the value that is copied, and nothing needed behind a call is in a register
\* it may change.
ApartWhenLive ==
  (pc = "colored" /\ g.spilled = <<>>) =>
    LET in == compute_liveness(func)
        Others(b, i) == LiveBehind(func, in, b, i) \ {DefinedBy(func.code[b][i]), CopySource(func.code[b][i])}
    IN \A b \in Blocks(func) : \A i \in DOMAIN func.code[b] :
         LET inst == func.code[b][i]
             written == (IF DefinedBy(inst) = 0 THEN {} ELSE {ColorOf(g, DefinedBy(inst))})
                          \cup (IF inst.op \in Calls THEN ToSet(CallerSaved) ELSE {})
         IN \A n \in Others(b, i) : ColorOf(g, n) \notin written

Unsettled(graph) == {i \in DOMAIN graph.moves : Open(graph.moves[i])}
InState(graph, state) == {n \in VRegNodes(graph) : graph.state[n] = state}
Measure(graph) ==
  <<Cardinality(Left(graph)), Cardinality(Unsettled(graph)), Len(graph.queue),
    Cardinality(InState(graph, "spill")), Cardinality(InState(graph, "freeze")),
    Len(graph.lists["simplify"]) + Len(graph.lists["freeze"]) + Len(graph.lists["spill"])>>
Smaller(x, y) == \E i \in DOMAIN x : x[i] < y[i] /\ \A j \in 1 .. i - 1 : x[j] = y[j]

\* Each step takes a node from those left, or settles a copy, or leaves less to
\* try, or moves a node to a list that is emptied sooner: reducing comes to an
\* end.
EveryStepCounts == [][pc = "reduce" /\ pc' = "reduce" => Smaller(Measure(g'), Measure(g))]_vars
=============================================================================
