----------------------------- MODULE StackColor -----------------------------
(***************************************************************************)
(* stack_color.c: slots that do not hold a value at the same time share     *)
(* the bytes of the frame.  A slot is named by its place in f.slots.        *)
(***************************************************************************)
EXTENDS KIR, FiniteSets, FiniteSetsExt

Insts(f) == FlattenSeq(MapSeq(f.order, LAMBDA b : f.code[b]))
Slots(f) == DOMAIN f.slots
IsSlot(o) == o.kind = "stack" /\ o.id < 0

\* The slot an operand lies in.
find_state_for_offset(f, o) ==
  CHOOSE s \in Slots(f) : f.slots[s].offset <= o.id /\ o.id < f.slots[s].offset + f.slots[s].size

SlotsOf(f, operands) == {find_state_for_offset(f, o) : o \in {p \in ToSet(operands) : IsSlot(p)}}
OperandsOf(inst) == <<inst.dst, inst.src1, inst.src2>> \o inst.args
AccessedBy(f, inst) == SlotsOf(f, OperandsOf(inst))

\* Which operands are read, by opcode.
stack_operand_is_read(inst) ==
  CASE inst.op \in {"MOV", "LOAD"} -> <<inst.src1>> \o inst.args
    [] inst.op = "STORE" -> <<inst.dst, inst.src1>>
    [] inst.op \in {"ADDR", "PARAM", "NOP"} -> <<>>
    [] inst.op \in {"BR", "RET"} -> OperandsOf(inst)
    [] OTHER -> <<inst.src1, inst.src2>> \o inst.args

stack_operand_is_write(inst) ==
  IF inst.op \in {"STORE", "ADDR", "NOP"} THEN <<>> ELSE <<inst.dst>>

UsesSlots(f, inst) == SlotsOf(f, stack_operand_is_read(inst))
DefsSlots(f, inst) == SlotsOf(f, stack_operand_is_write(inst))

\* A slot whose address is taken.
Escaped(f) == UNION {SlotsOf(f, <<inst.src1>>) : inst \in {i \in ToSet(Insts(f)) : i.op = "ADDR"}}
Active(f) == UNION {AccessedBy(f, inst) : inst \in ToSet(Insts(f))}

-----------------------------------------------------------------------------
\* A write to a part of a slot ends what the whole of it held.
SlotsBefore(f, inst, live) == (live \ DefsSlots(f, inst)) \cup UsesSlots(f, inst)
LiveBehind(f, in, b) == UNION {in[s] : s \in ToSet(Successors(f, b))}

RECURSIVE SlotsAtStart(_, _, _)
SlotsAtStart(f, code, live) ==
  IF code = <<>> THEN live ELSE SlotsAtStart(f, Front(code), SlotsBefore(f, Last(code), live))
RECURSIVE SlotLiveness(_, _)
SlotLiveness(f, in) ==
  LET next == [b \in Blocks(f) |-> SlotsAtStart(f, f.code[b], LiveBehind(f, in, b))]
  IN IF next = in THEN in ELSE SlotLiveness(f, next)
solve_stack_liveness(f) == SlotLiveness(f, [b \in Blocks(f) |-> {}])

\* An instruction's slots are in conflict with what is live behind it and with
\* one another.
Met(f, inst, live) == AccessedBy(f, inst) \X (live \cup AccessedBy(f, inst))
RECURSIVE MetIn(_, _, _)
MetIn(f, code, live) ==
  IF code = <<>> THEN {}
  ELSE Met(f, Last(code), live) \cup MetIn(f, Front(code), SlotsBefore(f, Last(code), live))

\* For each slot those it is in conflict with.
Conflicts(f, pairs, escaped) ==
  [s \in Slots(f) |-> {t \in Slots(f) \ {s} : <<s, t>> \in pairs \/ <<t, s>> \in pairs
                                              \/ s \in escaped \/ t \in escaped}]
build_conflict_graph(f) ==
  LET in == solve_stack_liveness(f)
  IN Conflicts(f, UNION {MetIn(f, f.code[b], LiveBehind(f, in, b)) : b \in Blocks(f)}, Escaped(f))

-----------------------------------------------------------------------------
Aligned(n, align) == ((n + align - 1) \div align) * align
Storage(slot) == Aligned(slot.size, slot.align)

\* The larger number first, for each of two lists of numbers in turn.
Ahead(x, y) ==
  \E i \in DOMAIN x : x[i] > y[i] /\ \A j \in 1 .. i - 1 : x[j] = y[j]
Rank(f, conflicts, escaped, s) ==
  <<IF s \in escaped THEN 1 ELSE 0, f.slots[s].size, f.slots[s].align, Cardinality(conflicts[s]), -s>>
compare_color_order(f, conflicts, escaped, s, t) ==
  Ahead(Rank(f, conflicts, escaped, s), Rank(f, conflicts, escaped, t))

ColorOrder(f, conflicts, active, escaped) ==
  LET Rival(s, t) == compare_color_order(f, conflicts, escaped, t, s)
      Place(s) == Cardinality({t \in active : Rival(s, t)}) + 1
  IN [i \in 1 .. Cardinality(active) |-> CHOOSE s \in active : Place(s) = i] \o <<>>

\* The least depth at which slot s overlaps no slot that is in conflict with it.
RECURSIVE FirstFit(_, _, _, _)
FirstFit(slot, depth, taken, at) ==
  LET d == Aligned(at, slot.align)
      hit == {t \in taken : d < t.end /\ t.begin < d + Storage(slot)}
  IN IF hit = {} THEN d ELSE FirstFit(slot, depth, taken, Max({d + 1} \cup {t.end : t \in hit}))

\* depth[s]: how far from the top of the frame the slot begins.
Placed(f, conflicts, depth, s) ==
  LET taken == {[begin |-> depth[t], end |-> depth[t] + Storage(f.slots[t])] : t \in conflicts[s] \cap DOMAIN depth}
  IN depth @@ (s :> FirstFit(f.slots[s], depth, taken, 0))
color_stack_slots(f, conflicts, order) ==
  FoldLeft(LAMBDA depth, s : Placed(f, conflicts, depth, s), <<>>, order)

rewrite_operand(f, new, o) ==
  IF IsSlot(o) THEN [o EXCEPT !.id = new[find_state_for_offset(f, o)] + o.id - f.slots[find_state_for_offset(f, o)].offset]
  ELSE o
rewrite_function_operands(f, new) ==
  MapInsts(f, LAMBDA inst : [MapUses(inst, LAMBDA o : rewrite_operand(f, new, o)) EXCEPT
                               !.dst = IF inst.op \in ReadsDst THEN @ ELSE rewrite_operand(f, new, @)])

Ends(f, depth) == [s \in DOMAIN depth |-> depth[s] + Storage(f.slots[s])]
Recolored(f, end) ==
  [rewrite_function_operands(f, [s \in DOMAIN end |-> -end[s]]) EXCEPT
     !.frame = Aligned(Max({0} \cup Range(end)), 16)]

stack_color_run_on_function(f) ==
  LET conflicts == build_conflict_graph(f)
  IN IF f.slots = <<>> THEN [f EXCEPT !.frame = 0]
     ELSE Recolored(f, Ends(f, color_stack_slots(f, conflicts, ColorOrder(f, conflicts, Active(f), Escaped(f)))))
=============================================================================
