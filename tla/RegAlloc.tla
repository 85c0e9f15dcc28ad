------------------------------- MODULE RegAlloc -------------------------------
(***************************************************************************)
(* regalloc.c: iterated register coalescing.                               *)
(*                                                                         *)
(* A node of the interference graph is a register of the machine (1 to 16, *)
(* precolored) or FirstVReg + v for virtual register v.  A graph g is a    *)
(* record:                                                                 *)
(*   adj, list    adj_matrix as sets, and adj_list of each node            *)
(*   state        "initial", "simplify", "freeze", "spill", "stack",       *)
(*                "coalesced", "colored" or "spilled"                      *)
(*   alias        the node that stands for it, followed to the end         *)
(*   cost, length spill_cost in hundredths, and weighted_live_length       *)
(*   crosses      the nodes live across a call                             *)
(*   hint, color  registers, 0 for REG_NONE                                *)
(*   degree       as last computed                                         *)
(*   moves        copies, each with dst, src and state; of[n] those of n   *)
(*   queue        the moves to try (worklist_moves)                        *)
(*   lists        the nodes to simplify, freeze and spill                  *)
(*   stack        select_stack; coalesced and spilled: the other results   *)
(*   temps        the first node that rewriting made                       *)
(***************************************************************************)
EXTENDS KIR, FiniteSets, FiniteSetsExt

CONSTANTS CallerSavedFree,   \* ALLOCATABLE_CALLER_SAVED, in order
          CalleeSaved        \* CALLEE_SAVED_REGS

ASSUME RegistersAssumption ==
  /\ CallerSavedFree \in Seq(1 .. 16) /\ CalleeSaved \in Seq(1 .. 16)
  /\ IsInjective(CallerSavedFree) /\ IsInjective(CalleeSaved)
  /\ ToSet(CallerSavedFree) \subseteq ToSet(CallerSaved)
  /\ ToSet(CalleeSaved) \subseteq (1 .. 16) \ ToSet(CallerSaved)

FirstVReg == 17                                     \* REG_COUNT
Registers == 1 .. 16
Allocatable == CallerSavedFree \o CalleeSaved
K == Len(Allocatable)
MaxIterations == 32

NodeOf(o) == CASE IsVReg(o) -> FirstVReg + o.id [] o.kind = "reg" -> o.id [] OTHER -> 0
DefinedBy(inst) == IF inst.op \in ReadsDst \cup {"NOP"} THEN 0 ELSE NodeOf(inst.dst)
UsedBy(inst) == IF IsNop(inst) THEN {} ELSE {NodeOf(o) : o \in ToSet(Uses(inst))} \ {0}

Calls == {"CALL"} \cup TailCalls

\* The nodes are taken in ascending order, that of the bits of a bit set.
Ascending(op(_, _), base, nodes) == MapThenFoldSet(op, base, LAMBDA n : n, Max, nodes)

-----------------------------------------------------------------------------
(* What the allocator is given: what the passes before hand over. *)

IsSeq(s) == s \in Seq(ToSet(s))

\* No operand is a register of the machine yet.
ProperOperand(o, vregs) ==
  /\ o.kind # "reg"
  /\ IsVReg(o) => DOMAIN o = {"kind", "id", "size", "signed"} /\ o.id \in 0 .. vregs - 1

ProperInst(inst, vregs, blocks) ==
  /\ DOMAIN inst = {"op", "dst", "src1", "src2", "args", "sym"}
  /\ ~IsPhi(inst) /\ IsSeq(inst.args)
  /\ \A o \in {inst.dst, inst.src1, inst.src2} \cup ToSet(inst.args) : ProperOperand(o, vregs)
  /\ inst.op = "JMP" => inst.dst.kind = "block" /\ inst.dst.id \in blocks
  /\ inst.op = "BR" => \A o \in {inst.src1, inst.src2} : o.kind = "block" /\ o.id \in blocks
  /\ inst.op = "PARAM" => IsConst(inst.src1) /\ inst.src1.id \in Nat

\* Jumps go to blocks that are laid out, and the registers are those the function
\* has made.
WellFormed(f) ==
  /\ DOMAIN f = {"code", "order", "vregs", "slots", "frame", "saved", "ret"}
  /\ f.vregs \in Nat /\ IsSeq(f.code) /\ f.order \in Seq(DOMAIN f.code)
  /\ \A b \in Blocks(f) :
       /\ IsSeq(f.code[b])
       /\ \A inst \in ToSet(f.code[b]) : ProperInst(inst, f.vregs, Blocks(f))

-----------------------------------------------------------------------------
(* Liveness and loops. *)

LiveBefore(inst, live) == (live \ {DefinedBy(inst)}) \cup UsedBy(inst)
LiveAtStart(code, live) == FoldRight(LiveBefore, code, live)
LiveOut(f, in, b) == UNION {in[s] : s \in ToSet(Successors(f, b))}

\* The nodes of a function, which may be live in its blocks.
Nodes(f) == 1 .. FirstVReg + f.vregs - 1
Lives(f) == [Blocks(f) -> SUBSET Nodes(f)]
Flowed(f, in) == [b \in Blocks(f) |-> LiveAtStart(f.code[b], LiveOut(f, in, b))]

\* Nothing is live to begin with; then what flows back, until that is all.
compute_liveness(f) ==
  LET settled[in \in Lives(f)] == LET next == Flowed(f, in) IN IF next = in THEN in ELSE settled[next]
  IN settled[[b \in Blocks(f) |-> {}]]

\* A jump to a block with no greater number makes a loop of what is laid out
\* from there to the jump; of nothing if the target comes right behind the jump,
\* and of all that follows if it is laid out further behind.
BackTargets(f, b) ==
  IF LastInst(f, b).op \in {"JMP", "BR"} THEN {t \in ToSet(Successors(f, b)) : t <= b} ELSE {}
Loops(f) == UNION {{<<t, b>> : t \in BackTargets(f, b)} : b \in Blocks(f)}
InLoop(f, loop, b) ==
  /\ loop[1] # NextBlock(f, loop[2])
  /\ Position(f, loop[1]) <= Position(f, b)
  /\ Position(f, b) <= Position(f, loop[2]) \/ Position(f, loop[2]) < Position(f, loop[1])

compute_loop_depths(f) == [b \in Blocks(f) |-> Cardinality({loop \in Loops(f) : InLoop(f, loop, b)})]
Weight(depth) == 10 ^ Min({depth, 6})

-----------------------------------------------------------------------------
(* The graph. *)

\* Nodes whose alias is n are neighbours as n is.
Listed(g, n, m) == \E i \in DOMAIN g.list[n] : g.alias[g.list[n][i]] = m
Link(g, n, m) == IF n < FirstVReg \/ Listed(g, n, m) THEN g ELSE [g EXCEPT !.list[n] = Append(@, m)]

Joined(g, n, m) ==
  IF n = m THEN g ELSE Link(Link([g EXCEPT !.adj[n] = @ \cup {m}, !.adj[m] = @ \cup {n}], n, m), m, n)
irc_add_edge(g, n, m) == Joined(g, g.alias[n], g.alias[m])

AddEdges(g, n, nodes) == Ascending(LAMBDA m, h : irc_add_edge(h, n, m), g, nodes)

Near(g, n, m) == n # m /\ (m \in g.adj[n] \/ Listed(g, n, m) \/ Listed(g, m, n))
irc_is_adjacent(g, n, m) == Near(g, g.alias[n], g.alias[m])

irc_add_move(g, dst, src) ==
  [g EXCEPT !.moves = Append(@, [dst |-> dst, src |-> src, state |-> "worklist"]),
            !.of = [n \in DOMAIN @ |-> IF n \in {dst, src} THEN Append(@[n], Len(g.moves) + 1) ELSE @[n]],
            !.queue = Append(@, Len(g.moves) + 1)]

\* A node that crosses a call has the edges already if it crosses another.
CrossesCall(n, g) ==
  IF n \in g.crosses THEN g ELSE [AddEdges(g, n, ToSet(CallerSaved)) EXCEPT !.crosses = @ \cup {n}]

CrossCalls(g, nodes) == Ascending(CrossesCall, g, nodes)

\* `a` is the graph so far, and the nodes live behind the instruction.
Crossing(a, inst) ==
  IF inst.op \notin Calls THEN a
  ELSE [a EXCEPT !.g = CrossCalls(@, {n \in a.live : n >= FirstVReg})]

ParamRegister(inst) ==
  IF inst.op = "PARAM" /\ IsVReg(inst.dst) /\ inst.src1.id < Len(ArgumentRegisters)
  THEN ArgumentRegisters[inst.src1.id + 1] ELSE 0

\* What an instruction copies: a register of either kind, or its parameter's.
CopySource(inst) ==
  IF inst.op = "MOV" /\ IsVReg(inst.dst) /\ NodeOf(inst.src1) # NodeOf(inst.dst) THEN NodeOf(inst.src1)
  ELSE IF ParamRegister(inst) \in ToSet(Allocatable) THEN ParamRegister(inst) ELSE 0

\* The two sides of a copy may share a register even if both are live behind it.
Copying(a, inst) ==
  IF CopySource(inst) = 0 THEN a
  ELSE [a EXCEPT !.g = [irc_add_move(@, NodeOf(inst.dst), CopySource(inst)) EXCEPT
                          !.hint[NodeOf(inst.dst)] = IF ParamRegister(inst) = 0 THEN @ ELSE CopySource(inst)],
                 !.live = @ \ {CopySource(inst)}]

Costlier(g, n, weight) == [g EXCEPT !.cost[n] = @ + weight]
Defining(a, inst, weight) ==
  LET d == DefinedBy(inst) IN
  IF d = 0 THEN a
  ELSE [a EXCEPT !.g = AddEdges(Costlier(@, d, weight), d, a.live), !.live = @ \ {d}]

Charged(cost, o, weight) == IF NodeOf(o) = 0 THEN cost ELSE [cost EXCEPT ![NodeOf(o)] = @ + weight]
Using(a, inst, weight) ==
  [a EXCEPT !.g.cost = FoldLeft(LAMBDA c, o : Charged(c, o, weight), @, Uses(inst)),
            !.live = @ \cup ({ParamRegister(inst)} \ {0}) \cup UsedBy(inst)]

Interfering(a, inst, weight) ==
  IF IsNop(inst) THEN a ELSE Using(Defining(Copying(Crossing(a, inst), inst), inst, weight), inst, weight)

BuildFrom(a, code, weight) == FoldRight(LAMBDA inst, x : Interfering(x, inst, weight), code, a)
BuildBlock(g, code, live, weight) == BuildFrom([g |-> g, live |-> live], code, weight).g

irc_build_graph(g, f, in, depth) ==
  FoldLeft(LAMBDA h, b : BuildBlock(h, f.code[b], LiveOut(f, in, b), 100 * Weight(depth[b])), g, f.order)

-----------------------------------------------------------------------------
(* Degrees and worklists. *)

irc_compute_degree(g, n) ==
  Cardinality({m \in {g.alias[w] : w \in ToSet(g.list[n])} : m # n /\ g.state[m] \notin {"stack", "coalesced"}})

Open(move) == move.state \in {"worklist", "active"}
irc_is_move_related(g, n) == \E i \in DOMAIN g.of[n] : Open(g.moves[g.of[n][i]])

\* Faulty: a copy that was given up is tried again.
EnabledAgain(g, i) ==
  IF g.moves[i].state \notin {"active", "constrained"} THEN g
  ELSE [g EXCEPT !.moves[i].state = "worklist", !.queue = Append(@, i)]

Enabled(g, i) ==
  IF g.moves[i].state # "active" THEN g
  ELSE [g EXCEPT !.moves[i].state = "worklist", !.queue = Append(@, i)]
irc_enable_moves_for_node(g, n) == FoldLeft(Enabled, g, g.of[g.alias[n]])

Listing(g, n, where) == [g EXCEPT !.state[n] = where, !.lists[where] = Append(@, n)]

Leftover(g, n) ==
  IF g.state[n] = "spill" THEN Listing(g, n, IF irc_is_move_related(g, n) THEN "freeze" ELSE "simplify") ELSE g

EnableNeighbour(g, m) ==
  IF g.state[g.alias[m]] = "stack" THEN g ELSE irc_enable_moves_for_node(g, m)

EnableNeighbours(g, nodes) == FoldLeft(EnableNeighbour, g, nodes)

irc_update_degree_state(g, n, old, new) ==
  IF old < K /\ new >= K
  THEN IF g.state[n] \in {"freeze", "simplify"} THEN Listing(g, n, "spill") ELSE g
  ELSE IF old >= K /\ new < K
  THEN Leftover(EnableNeighbours(irc_enable_moves_for_node(g, n), g.list[n]), n)
  ELSE g

Refreshed(g, n, new) ==
  IF new = g.degree[n] THEN g
  ELSE irc_update_degree_state([g EXCEPT !.degree[n] = new], n, g.degree[n], new)
irc_refresh_degree(g, n) ==
  IF g.alias[n] < FirstVReg THEN g ELSE Refreshed(g, g.alias[n], irc_compute_degree(g, g.alias[n]))

\* A node is on the stack: its neighbours have one less.
RefreshNeighbour(g, m) ==
  IF g.state[g.alias[m]] \in {"stack", "coalesced"} THEN g ELSE irc_refresh_degree(g, m)
RefreshNeighbours(g, nodes) == FoldLeft(RefreshNeighbour, g, nodes)

Pushed(g, n) == [g EXCEPT !.state[n] = "stack", !.stack = Append(@, n)]
Push(g, n) == RefreshNeighbours(Pushed(g, n), g.list[n])

VRegNodes(g) == {n \in DOMAIN g.alias : n >= FirstVReg}

Worklist(g, n) ==
  IF g.degree[n] >= K THEN "spill" ELSE IF irc_is_move_related(g, n) THEN "freeze" ELSE "simplify"
irc_make_worklists(g) == Ascending(LAMBDA n, h : Listing(h, n, Worklist(h, n)), g, VRegNodes(g))

\* A worklist without its last entries that are on it no longer, and with them
\* without the one that is taken.
Valid(g, where, n) == g.state[n] = where
Popped(g, where) ==
  LET live == {i \in DOMAIN g.lists[where] : Valid(g, where, g.lists[where][i])}
  IN IF live = {} THEN [node |-> 0, rest |-> <<>>]
     ELSE [node |-> g.lists[where][Max(live)], rest |-> SubSeq(g.lists[where], 1, Max(live) - 1)]

-----------------------------------------------------------------------------
(* Simplify, coalesce, freeze, spill. *)

SimplifyNode(g, top) ==
  IF top.node = 0 THEN [g EXCEPT !.lists["simplify"] = <<>>]
  ELSE Push([g EXCEPT !.lists["simplify"] = top.rest], top.node)
irc_simplify(g) == SimplifyNode(g, Popped(g, "simplify"))

\* The entries of the list of n whose nodes are still in the graph, and of them
\* those of nodes with a high degree.
AliasAt(g, n, i) == g.alias[g.list[n][i]]
Around(g, n) == {i \in DOMAIN g.list[n] : g.state[AliasAt(g, n, i)] \notin {"stack", "coalesced"}}
High(g, n) == g.degree[n] >= K
HighAround(g, n) == {i \in Around(g, n) : High(g, AliasAt(g, n, i))}

\* Faulty: the two nodes' neighbours are counted apart.
BriggsApart(g, u, v) == Cardinality(HighAround(g, u)) < K /\ Cardinality(HighAround(g, v)) < K

irc_briggs_check(g, u, v) ==
  Cardinality(HighAround(g, u))
    + Cardinality({i \in HighAround(g, v) : ~irc_is_adjacent(g, u, AliasAt(g, v, i))}) < K

irc_george_check(g, u, v) == \A i \in HighAround(g, v) : irc_is_adjacent(g, AliasAt(g, v, i), u)

CanCoalesce(g, u, v) == IF u < FirstVReg THEN irc_george_check(g, u, v) ELSE irc_briggs_check(g, u, v)

irc_ready_for_simplify(g, n) ==
  IF g.alias[n] >= FirstVReg /\ ~High(g, g.alias[n]) /\ ~irc_is_move_related(g, g.alias[n])
       /\ g.state[g.alias[n]] = "freeze"
  THEN Listing(g, g.alias[n], "simplify") ELSE g

\* u stands for v from now on.
Aliased(g, u, v) ==
  [g EXCEPT !.alias = [n \in DOMAIN @ |-> IF @[n] = v THEN u ELSE @[n]],
            !.state[v] = "coalesced",
            !.of[u] = IF u < FirstVReg THEN @ ELSE @ \o g.of[v]]
Merged(g, u, v) == irc_enable_moves_for_node(Aliased(g, u, v), v)

\* Faulty: the neighbours stay those of the node that is gone.
EdgesLost(g, u, v) == g

Inherit(g, u, m) == IF g.alias[m] = u THEN g ELSE irc_add_edge(g, m, u)
Inherited(g, u, v) == FoldLeft(LAMBDA h, m : Inherit(h, u, m), g, g.list[v])
RefreshAround(g, u) == FoldLeft(irc_refresh_degree, g, g.list[u])

irc_combine_nodes(g, u, v) ==
  [RefreshAround(irc_refresh_degree(Inherited(Merged(g, u, v), u, v), u), u) EXCEPT
     !.coalesced = Append(@, v)]

Settled(g, i, state) == [g EXCEPT !.moves[i].state = state]

\* Move i is between u and v, of which u is the precolored one, if one is.
Try(g, i, u, v) ==
  IF "stack" \in {g.state[u], g.state[v]}
  THEN irc_ready_for_simplify(irc_ready_for_simplify(Settled(g, i, "frozen"), u), v)
  ELSE IF u = v
  THEN irc_ready_for_simplify(irc_enable_moves_for_node(Settled(g, i, "coalesced"), u), u)
  ELSE IF v < FirstVReg \/ irc_is_adjacent(g, u, v)
  THEN irc_ready_for_simplify(irc_ready_for_simplify(
         irc_enable_moves_for_node(irc_enable_moves_for_node(Settled(g, i, "constrained"), u), v), u), v)
  ELSE IF CanCoalesce(g, u, v)
  THEN irc_ready_for_simplify(irc_combine_nodes(Settled(g, i, "coalesced"), u, v), u)
  ELSE Settled(g, i, "active")

TryMove(g, i) ==
  LET x == g.alias[g.moves[i].dst]
      y == g.alias[g.moves[i].src]
  IN IF y < FirstVReg THEN Try(g, i, y, x) ELSE Try(g, i, x, y)

LastOpen(g) == {k \in DOMAIN g.queue : g.moves[g.queue[k]].state = "worklist"}
irc_coalesce(g) ==
  IF LastOpen(g) = {} THEN [g EXCEPT !.queue = <<>>]
  ELSE TryMove([g EXCEPT !.queue = SubSeq(@, 1, Max(LastOpen(g)) - 1)], g.queue[Max(LastOpen(g))])

OtherEnd(g, move, u) == IF g.alias[move.dst] = u THEN g.alias[move.src] ELSE g.alias[move.dst]
FreezeMove(g, i, u) ==
  IF Open(g.moves[i]) THEN irc_ready_for_simplify(Settled(g, i, "frozen"), OtherEnd(g, g.moves[i], u)) ELSE g
FreezeMoves(g, n, moves) == FoldLeft(LAMBDA h, i : FreezeMove(h, i, n), g, moves)

FreezeNode(g, top) ==
  IF top.node = 0 THEN [g EXCEPT !.lists["freeze"] = <<>>]
  ELSE FreezeMoves(Listing([g EXCEPT !.lists["freeze"] = top.rest], top.node, "simplify"), top.node, g.of[top.node])
irc_freeze(g) == FreezeNode(g, Popped(g, "freeze"))

\* The logarithm of n, at most 16.
Log[n \in Nat] == IF n <= 1 THEN 0 ELSE 1 + Log[n \div 2]
Spread(g, n) == 160 + Min({Log[g.length[n]], 16})
Divisor(g, n) == Max({g.degree[n], 1}) * Spread(g, n)

\* Spilling n is cheaper than spilling m: what a node costs, per neighbour it
\* frees.  A temporary of a spill costs more than any other node.
Cheaper(g, n, m) ==
  LET Cost(x) == IF x >= g.temps THEN 1 ELSE g.cost[x] + 1
  IN IF (n >= g.temps) # (m >= g.temps) THEN m >= g.temps
     ELSE \/ Cost(n) * Divisor(g, m) < Cost(m) * Divisor(g, n)
          \/ Cost(n) * Divisor(g, m) = Cost(m) * Divisor(g, n) /\ g.length[n] < g.length[m]

Candidates(g) == {i \in DOMAIN g.lists["spill"] : g.state[g.lists["spill"][i]] = "spill"}
Better(g, i, best) == best = 0 \/ Cheaper(g, g.lists["spill"][i], g.lists["spill"][best])
Cheapest(g) == Ascending(LAMBDA i, best : IF Better(g, i, best) THEN i ELSE best, 0, Candidates(g))

\* The last entry of the list takes the place of the chosen one.
Taken(s, i) == SubSeq([s EXCEPT ![i] = Last(s)], 1, Len(s) - 1)
irc_select_spill(g) ==
  IF Candidates(g) = {} THEN [g EXCEPT !.lists["spill"] = <<>>]
  ELSE Push([g EXCEPT !.lists["spill"] = Taken(@, Cheapest(g))], g.lists["spill"][Cheapest(g)])

Working(g) == g.queue # <<>> \/ \E where \in DOMAIN g.lists : g.lists[where] # <<>>

-----------------------------------------------------------------------------
(* Colours. *)

Excluded(g, n) == {g.color[g.alias[m]] : m \in ToSet(g.list[n])}
First(regs, taken) ==
  LET free == {i \in DOMAIN regs : regs[i] \notin taken}
  IN IF free = {} THEN 0 ELSE regs[Min(free)]

\* The first of the registers that are not 0.
FirstOf(regs) == First(regs, {0})
ColorFor(g, n, taken) ==
  FirstOf(<<IF g.hint[n] \in taken THEN 0 ELSE g.hint[n],
            First(IF n \in g.crosses THEN CalleeSaved ELSE CallerSavedFree, taken),
            First(Allocatable, taken)>>)

Painted(g, n, r) == [g EXCEPT !.color[n] = r, !.state[n] = "colored"]
Spilled(g, n) == [g EXCEPT !.color[n] = 0, !.state[n] = "spilled", !.spilled = Append(@, n)]

\* A temporary that finds no register takes that of a neighbour that is none.
Victims(g, n) ==
  {i \in DOMAIN g.list[n] : LET m == g.alias[g.list[n][i]] IN m >= FirstVReg /\ m < g.temps /\ g.color[m] # 0}
Evicting(g, n, victims) ==
  IF victims = {} THEN Spilled(g, n)
  ELSE LET m == g.alias[g.list[n][Min(victims)]] IN Painted(Spilled(g, m), n, g.color[m])

Assign(g, n, r) ==
  IF r # 0 THEN Painted(g, n, r)
  ELSE IF n >= g.temps THEN Evicting(g, n, Victims(g, n))
  ELSE Spilled(g, n)

AssignColor(n, g) == IF g.alias[n] # n THEN g ELSE Assign(g, n, ColorFor(g, n, Excluded(g, n)))
irc_assign_colors(g) == FoldRight(AssignColor, g.stack, [g EXCEPT !.stack = <<>>])

\* The register of a node: a coalesced node has that of its alias.
ColorOf(g, n) == g.color[g.alias[n]]

-----------------------------------------------------------------------------
(* How long a node is live: instructions, each counted for how deep in loops  *)
(* it is.  Instructions are numbered over the whole function.                 *)

Code(f, b) == SelectSeq(f.code[b], LAMBDA inst : ~IsNop(inst))
Mentions(inst, n) == n \in {NodeOf(o) : o \in ToSet(<<inst.dst>> \o Uses(inst))}
Span(code, n, in, out) ==
  LET at == {i \in DOMAIN code : Mentions(code[i], n)} IN
  IF at = {} /\ n \notin in \cup out THEN 0
  ELSE (IF n \in out \/ at = {} THEN Max({Len(code), 1}) ELSE Max(at))
         - (IF n \in in \/ at = {} THEN 1 ELSE Min(at)) + 1

irc_compute_live_lengths(f, in, depth, nodes) ==
  [n \in nodes |->
     Max({1, FoldLeft(LAMBDA sum, b : sum + Span(Code(f, b), n, in[b], LiveOut(f, in, b)) * Weight(depth[b]),
                      0, f.order)})]

-----------------------------------------------------------------------------
(* The graph of a function. *)

Insts(f) == FlattenSeq(MapSeq(f.order, LAMBDA b : f.code[b]))
DefsOf(f, n) == SelectSeq(Insts(f), LAMBDA inst : DefinedBy(inst) = n)

is_rematerializable_inst(inst) ==
  \/ inst.op = "MOV" /\ IsConst(inst.src1)
  \/ inst.op = "ADDR" /\ InMemory(inst.src1)
Rematerializable(f, n) == Len(DefsOf(f, n)) = 1 /\ is_rematerializable_inst(DefsOf(f, n)[1])

\* `made` is next_vreg_id when allocation began.
Uncosted(f, made) ==
  [adj |-> [n \in 1 .. FirstVReg + f.vregs - 1 |-> IF n < FirstVReg THEN Registers \ {n} ELSE {}],
   list |-> [n \in 1 .. FirstVReg + f.vregs - 1 |-> <<>>],
   alias |-> [n \in 1 .. FirstVReg + f.vregs - 1 |-> n],
   color |-> [n \in 1 .. FirstVReg + f.vregs - 1 |-> IF n < FirstVReg THEN n ELSE 0],
   hint |-> [n \in 1 .. FirstVReg + f.vregs - 1 |-> 0],
   cost |-> [n \in 1 .. FirstVReg + f.vregs - 1 |-> 0],
   degree |-> [n \in 1 .. FirstVReg + f.vregs - 1 |-> IF n < FirstVReg THEN 1000000 ELSE 0],
   state |-> [n \in 1 .. FirstVReg + f.vregs - 1 |-> "initial"],
   of |-> [n \in 1 .. FirstVReg + f.vregs - 1 |-> <<>>],
   length |-> <<>>, crosses |-> {}, moves |-> <<>>, queue |-> <<>>,
   lists |-> [simplify |-> <<>>, freeze |-> <<>>, spill |-> <<>>],
   stack |-> <<>>, coalesced |-> <<>>, spilled |-> <<>>, temps |-> FirstVReg + made]

Costed(g, f, in, depth) ==
  [g EXCEPT !.degree = [n \in DOMAIN @ |-> IF n < FirstVReg THEN @[n] ELSE irc_compute_degree(g, n)],
            !.length = irc_compute_live_lengths(f, in, depth, VRegNodes(g)),
            !.cost = [n \in DOMAIN @ |-> IF n \in FirstVReg .. g.temps - 1 /\ Rematerializable(f, n) THEN 10 ELSE @[n]]]

Prepared(f, made, in, depth) ==
  irc_make_worklists(Costed(irc_build_graph(Uncosted(f, made), f, in, depth), f, in, depth))
InterferenceGraph(f, made) == Prepared(f, made, compute_liveness(f), compute_loop_depths(f))

-----------------------------------------------------------------------------
(* Spilled nodes: every use reads a register that is loaded just before, and  *)
(* every definition writes one that is stored just behind.                    *)

irc_operand_is_spilled_node(g, o, n) ==
  IsVReg(o) /\ FirstVReg + o.id \in DOMAIN g.alias /\ g.alias[FirstVReg + o.id] = n

Renamed(g, n, o, v) == IF irc_operand_is_spilled_node(g, o, n) THEN [o EXCEPT !.id = v] ELSE o
Reading(g, n, inst, v) == MapUses(inst, LAMBDA o : Renamed(g, n, o, v))

\* `a` is the code made so far and the next register; `fetch` gets the value.
Fetching(g, n, a, inst, fetch) ==
  IF \E o \in ToSet(Uses(inst)) : irc_operand_is_spilled_node(g, o, n)
  THEN [code |-> a.code \o <<[fetch EXCEPT !.dst.id = a.vregs], Reading(g, n, inst, a.vregs)>>,
        vregs |-> a.vregs + 1]
  ELSE [a EXCEPT !.code = Append(@, inst)]

Storing(g, n, a, put) ==
  IF Last(a.code).op \notin ReadsDst /\ irc_operand_is_spilled_node(g, Last(a.code).dst, n)
  THEN [code |-> Front(a.code) \o <<[Last(a.code) EXCEPT !.dst.id = a.vregs], [put EXCEPT !.src1.id = a.vregs]>>,
        vregs |-> a.vregs + 1]
  ELSE a

RewriteInst(g, n, a, inst, fetch, put) ==
  IF IsNop(inst) THEN [a EXCEPT !.code = Append(@, inst)]
  ELSE Storing(g, n, Fetching(g, n, a, inst, fetch), put)

RewriteCode(g, n, f, b, fetch, put) ==
  FoldLeft(LAMBDA a, inst : RewriteInst(g, n, a, inst, fetch, put), [code |-> <<>>, vregs |-> f.vregs], f.code[b])
InBlock(f, b, a) == [f EXCEPT !.code[b] = a.code, !.vregs = a.vregs]
RewriteAll(g, n, f, fetch, put) ==
  FoldLeft(LAMBDA h, b : InBlock(h, b, RewriteCode(g, n, h, b, fetch, put)), f, f.order)

\* A register, not numbered yet, of the size and sign of a node: those it is
\* written with last, or read with.
Unnumbered(o) == ir_op_vreg(0, o.size, o.signed)
Sized(f, n) ==
  LET uses == SelectSeq(Insts(f), LAMBDA inst : IsVReg(inst.src1) /\ NodeOf(inst.src1) = n)
  IN CASE DefsOf(f, n) # <<>> -> Unnumbered(Last(DefsOf(f, n)).dst)
       [] DefsOf(f, n) = <<>> /\ uses # <<>> -> Unnumbered(Head(uses).src1)
       [] OTHER -> ir_op_vreg(0, 8, FALSE)

InSlot(g, n, f, o, slot) ==
  RewriteAll(g, n, f, MOV(o, slot), MOV(slot, o))
SpillNode(g, n, f, o) ==
  LET grown == ir_func_alloc_stack_slot(f, o.size, IF o.size >= 8 THEN 8 ELSE IF o.size >= 4 THEN 4 ELSE o.size)
  IN InSlot(g, n, grown, o, ir_op_stack(Last(grown.slots).offset, o.size, o.signed))

\* A constant or an address is computed again where it is needed.
WithoutDefs(f, n) == MapInsts(f, LAMBDA inst : IF DefinedBy(inst) = n THEN Nop ELSE inst)
Rematerialize(g, n, f, o, def) == RewriteAll(g, n, WithoutDefs(f, n), Inst(def.op, o, def.src1, ir_op_none), Nop)

\* What each spilled node is, was found out before any was rewritten.
RewriteNode(g, before, f, n) ==
  IF Rematerializable(before, n) THEN Rematerialize(g, n, f, Sized(before, n), DefsOf(before, n)[1])
  ELSE SpillNode(g, n, f, Sized(before, n))
rewrite_spilled_program(g, f) == FoldLeft(LAMBDA h, n : RewriteNode(g, f, h, n), f, g.spilled)

rewrite_operand_to_color(g, o) == IF IsVReg(o) THEN ir_op_reg(ColorOf(g, FirstVReg + o.id), o.size, o.signed) ELSE o
rewrite_final_function_operands(g, f) ==
  MapInsts(f, LAMBDA inst :
    [MapUses(inst, LAMBDA o : rewrite_operand_to_color(g, o)) EXCEPT !.dst = rewrite_operand_to_color(g, @)])

-----------------------------------------------------------------------------
\* A register copied to itself.
Idle(inst) ==
  /\ inst.op = "MOV" /\ inst.dst.kind = "reg" /\ inst.src1.kind = "reg"
  /\ inst.dst.id = inst.src1.id /\ inst.dst.size = inst.src1.size

\* The frame reaches down to the lowest slot an instruction names.
Depths(f) ==
  UNION {{-o.id : o \in {p \in ToSet(<<inst.dst>> \o Uses(inst)) : p.kind = "stack" /\ p.id < 0}} : inst \in ToSet(Insts(f))}
Framed(f) == [f EXCEPT !.frame = Max({0} \cup Depths(f))]
Finished(f) == Framed(ir_eliminate_nops(MapInsts(f, LAMBDA inst : IF Idle(inst) THEN Nop ELSE inst)))

-----------------------------------------------------------------------------
\* Two things go wrong.  A parameter in a register may be given the register
\* that a later parameter, which lives in memory, is still passed in.
ParameterTaken(f) ==
  \E b \in Blocks(f) : \E i, j \in DOMAIN f.code[b] :
    /\ i < j /\ f.code[b][i].op = "PARAM" /\ f.code[b][j].op = "PARAM"
    /\ f.code[b][i].dst.kind = "reg" /\ InMemory(f.code[b][j].dst)
    /\ f.code[b][i].dst.id = ArgumentRegisters[f.code[b][j].src1.id + 1]

\* And the lower part of a value may be put in the register of the whole, which
\* is needed again: a copy's two sides do not interfere, of whatever sizes.
CutInPlace(g, inst, live) ==
  /\ inst.op = "MOV" /\ IsVReg(inst.dst) /\ IsVReg(inst.src1)
  /\ inst.dst.size < inst.src1.size
  /\ ColorOf(g, NodeOf(inst.dst)) = ColorOf(g, NodeOf(inst.src1))
  /\ NodeOf(inst.src1) \in live
LiveBehind(f, in, b, i) == LiveAtStart(SubSeq(f.code[b], i + 1, Len(f.code[b])), LiveOut(f, in, b))
WholeCut(f, g, in) ==
  \E b \in Blocks(f) : \E i \in DOMAIN f.code[b] : CutInPlace(g, f.code[b][i], LiveBehind(f, in, b, i))

Judged(before, g, f) ==
  [f |-> f,
   flawed |-> (IF ParameterTaken(f) THEN {"register of a parameter taken before it is stored"} ELSE {})
                \cup (IF WholeCut(before, g, compute_liveness(before)) THEN {"value cut to its lower part in place"} ELSE {})]

\* The registers of the caller's that a node has been given.
SavedBy(g, f) == {ColorOf(g, FirstVReg + v) : v \in 0 .. f.vregs - 1} \cap ToSet(CalleeSaved)

\* What becomes of f, all nodes of which have a register.
Outcome(f, g) ==
  Judged(f, g, [Finished(rewrite_final_function_operands(g, f)) EXCEPT !.saved = SavedBy(g, f)])
=============================================================================
