-------------------------------- MODULE Sroa --------------------------------
(***************************************************************************)
(* Splitting of stack slots into their fields (src/sroa.c).                *)
(*                                                                         *)
(* An object is a stack slot, named by its offset.  The pass follows the   *)
(* registers that hold an address in an object, collects what every        *)
(* instruction does to the objects, and gives each field that is only ever  *)
(* read and written as a whole a slot of its own.                          *)
(***************************************************************************)
EXTENDS KIR, FiniteSets, FiniteSetsExt

Bases(f) == {f.slots[i].offset : i \in {k \in DOMAIN f.slots : f.slots[k].size # 0 /\ ~f.slots[k].spill}}
SlotSize(f, base) == LET i == CHOOSE k \in DOMAIN f.slots : f.slots[k].offset = base IN f.slots[i].size

RECURSIVE CodeInOrder(_, _)
CodeInOrder(f, order) == IF order = <<>> THEN <<>> ELSE f.code[Head(order)] \o CodeInOrder(f, Tail(order))

-----------------------------------------------------------------------------
\* What a register points to: `offset` in the object `base`, of which it may
\* reach `extent` bytes.

Unknown == [kind |-> "unknown", base |-> 0, offset |-> 0, extent |-> 0]
Conflict == [Unknown EXCEPT !.kind = "conflict"]
Pointer(base, offset, extent) == [kind |-> "known", base |-> base, offset |-> offset, extent |-> extent]
Known(ptr) == ptr.kind = "known"

combine_ptrs(old, new) ==
  IF old.kind = "unknown" THEN new ELSE IF new.kind = "unknown" \/ new = old THEN old ELSE Conflict

\* The extent of what is delta bytes further on.
Moved(f, ptr, delta) ==
  LET to == ptr.offset + delta
      size == SlotSize(f, ptr.base)
  IN IF to \notin 0 .. size THEN Unknown
     ELSE Pointer(ptr.base, to, IF delta < 0 THEN size - to
                                ELSE IF delta >= ptr.extent THEN 0 ELSE ptr.extent - delta)

PointerMade(f, ptrs, inst) ==
  CASE inst.op = "ADDR" /\ inst.src1.kind = "stack" /\ inst.src1.id \in Bases(f) ->
         LET size == SlotSize(f, inst.src1.id)
         IN Pointer(inst.src1.id, 0, IF inst.src1.size \in 1..size THEN inst.src1.size ELSE size)
    [] inst.op = "MOV" /\ IsVReg(inst.src1) -> ptrs[inst.src1.id]
    [] inst.op \in {"ADD", "SUB"} /\ IsVReg(inst.src1) /\ IsConst(inst.src2) /\ Known(ptrs[inst.src1.id]) ->
         Moved(f, ptrs[inst.src1.id], IF inst.op = "SUB" THEN -inst.src2.id ELSE inst.src2.id)
    [] OTHER -> Unknown

ptr_propagation_pass(f, ptrs) ==
  FoldLeft(LAMBDA known, inst : IF ~IsVReg(inst.dst) THEN known
                                ELSE [known EXCEPT ![inst.dst.id] = combine_ptrs(@, PointerMade(f, known, inst))],
           ptrs, CodeInOrder(f, f.order))

RECURSIVE Propagated(_, _, _)
Propagated(f, ptrs, rounds) ==
  LET next == ptr_propagation_pass(f, ptrs)
  IN IF next = ptrs \/ rounds = 0 THEN ptrs ELSE Propagated(f, next, rounds - 1)

propagate_pointer_states(f) == Propagated(f, [v \in 0 .. f.vregs - 1 |-> Unknown], f.vregs + 1)

-----------------------------------------------------------------------------
\* What an instruction does to the objects: a set of ranges it accesses or
\* lets escape, and of objects it does something unknown to.

Bytes(what, base, begin, end) == [what |-> what, base |-> base, begin |-> begin, end |-> end]
Lost(base) == Bytes("unknown", base, 0, 0)
mark_unknown(f) == {Lost(base) : base \in Bases(f)}

Checked(f, what, base, offset, size) ==
  {IF size > 0 /\ offset + size <= SlotSize(f, base) THEN Bytes(what, base, offset, offset + size) ELSE Lost(base)}

\* The object an operand's bytes are all in.
Holding(f, o) ==
  {base \in Bases(f) : o.kind = "stack" /\ o.size > 0 /\ base <= o.id /\ o.id + o.size <= base + SlotSize(f, base)}

record_stack_operand(f, o, what) ==
  IF o.kind # "stack" \/ o.id >= 0 THEN {}
  ELSE IF Holding(f, o) = {} THEN mark_unknown(f)
  ELSE UNION {Checked(f, what, base, o.id - base, o.size) : base \in Holding(f, o)}

\* object_from_ptr answers with the end of the range that is accessed, and the
\* range is recorded from there.
record_pointer_operand(f, ptrs, o, size) ==
  IF ~IsVReg(o) THEN {}
  ELSE LET ptr == ptrs[o.id] IN
       IF ~Known(ptr) \/ size = 0 \/ ptr.offset + size > SlotSize(f, ptr.base) THEN mark_unknown(f)
       ELSE Checked(f, "access", ptr.base, ptr.offset + size, size)

record_pointer_escape(f, ptrs, o) ==
  IF ~IsVReg(o) THEN {}
  ELSE LET ptr == ptrs[o.id] IN
       IF ~Known(ptr) THEN mark_unknown(f)
       ELSE Checked(f, "escape", ptr.base, ptr.offset,
                    IF ptr.extent = 0 THEN SlotSize(f, ptr.base) - ptr.offset ELSE ptr.extent)

EscapesOfCall(f, ptrs, inst) ==
  UNION {record_pointer_escape(f, ptrs, o) : o \in {inst.dst, inst.src1, inst.src2} \cup ToSet(inst.args)}
    \cup UNION {record_stack_operand(f, o, "access") : o \in ToSet(inst.args)}

\* An access through a slot, a register or something else.
RecordAccess(f, ptrs, o, size) ==
  CASE o.kind = "stack" -> record_stack_operand(f, [o EXCEPT !.size = size], "access")
    [] IsVReg(o) -> record_pointer_operand(f, ptrs, o, size)
    [] OTHER -> mark_unknown(f)

CopySize(inst) == IF IsConst(inst.src2) /\ inst.src2.id > 0 THEN inst.src2.id ELSE 0

analyze_instruction(f, ptrs, inst) ==
  CASE inst.op = "ADDR" -> {}
    [] inst.op = "LOAD" ->
         RecordAccess(f, ptrs, inst.src1, IF IsVReg(inst.src1) THEN inst.dst.size ELSE inst.src1.size)
    [] inst.op = "STORE" ->
         RecordAccess(f, ptrs, inst.dst, IF IsVReg(inst.dst) THEN inst.src1.size ELSE inst.dst.size)
           \cup record_pointer_escape(f, ptrs, inst.src1)
    [] inst.op \in {"ADD", "SUB"} /\ IsVReg(inst.src1) /\ Known(ptrs[inst.src1.id]) /\ ~IsConst(inst.src2) ->
         {Lost(ptrs[inst.src1.id].base)}
    [] inst.op = "MEMCPY" ->
         IF CopySize(inst) = 0 THEN mark_unknown(f)
         ELSE RecordAccess(f, ptrs, inst.src1, CopySize(inst)) \cup RecordAccess(f, ptrs, inst.dst, CopySize(inst))
    [] inst.op \in {"CALL"} \cup TailCalls -> EscapesOfCall(f, ptrs, inst)
    [] inst.op = "RET" -> record_pointer_escape(f, ptrs, inst.dst) \cup record_stack_operand(f, inst.dst, "access")
    [] inst.op = "MOV" ->
         record_stack_operand(f, inst.dst, "access") \cup record_stack_operand(f, inst.src1, "access")
    [] inst.op \in {"JMP", "BR", "ADD", "SUB", "NOP"} -> {}
    [] OTHER -> UNION {record_stack_operand(f, o, "opaque") : o \in {inst.dst, inst.src1, inst.src2}}

analyze_memory_accesses(f, ptrs) ==
  UNION {analyze_instruction(f, ptrs, inst) : inst \in ToSet(CodeInOrder(f, f.order))}

-----------------------------------------------------------------------------
\* The fields that get a slot.

Overlap(x, y) == x.base = y.base /\ x.begin < y.end /\ y.begin < x.end
SameRange(x, y) == x.begin = y.begin /\ x.end = y.end

Slices(f, done) ==
  {x \in done :
     /\ x.what = "access" /\ x.end - x.begin \in {1, 2, 4, 8}
     /\ Lost(x.base) \notin done
     /\ \A other \in done : other.what # "unknown" /\ Overlap(x, other) => other.what = "access" /\ SameRange(x, other)}

\* Object by object, in each from its first byte on.
InOrder(f, slices) ==
  LET At(base) == CHOOSE i \in DOMAIN f.slots : f.slots[i].offset = base
  IN SetToSortSeq(slices, LAMBDA x, y : At(x.base) < At(y.base) \/ (x.base = y.base /\ x.begin < y.begin))

\* The function with the new slots, and the offset of each field's.
Allocated(f, slices) ==
  FoldLeft(LAMBDA S, x :
    LET g == ir_func_alloc_stack_slot(S.f, x.end - x.begin, x.end - x.begin)
    IN [f |-> g, new |-> [y \in DOMAIN S.new \cup {x} |-> IF y = x THEN Last(g.slots).offset ELSE S.new[y]]],
    [f |-> f, new |-> [x \in {} |-> 0]], InOrder(f, slices))

-----------------------------------------------------------------------------
\* The instructions use the new slots.

\* The new slots of the field at `offset` that has `size` bytes: one or none.
SlotsOfField(new, base, offset, size) == {new[x] : x \in {y \in DOMAIN new : y = Bytes("access", base, offset, offset + size)}}
stack_is_split_target(f, new, o) == UNION {SlotsOfField(new, base, o.id - base, o.size) : base \in Holding(f, o)}
pointer_is_split_target(new, ptrs, o, size) ==
  IF IsVReg(o) /\ Known(ptrs[o.id]) THEN SlotsOfField(new, ptrs[o.id].base, ptrs[o.id].offset, size) ELSE {}

rewrite_instruction(f, new, ptrs, inst) ==
  LET Split(o) == stack_is_split_target(f, new, o)
      Replaced(o) == IF Split(o) = {} THEN o ELSE [o EXCEPT !.id = CHOOSE s \in Split(o) : TRUE]
      Through(o, size) == pointer_is_split_target(new, ptrs, o, size)
      SlotOf(set, size, signed) == ir_op_stack(CHOOSE s \in set : TRUE, size, signed)
      ToCopy(o) == IF Split(o) # {} /\ o.size = CopySize(inst) THEN [Replaced(o) EXCEPT !.signed = FALSE] ELSE o
      Rewritten ==
        CASE inst.op = "LOAD" /\ Split(inst.src1) # {} -> MOV(inst.dst, Replaced(inst.src1))
          [] inst.op = "LOAD" /\ Through(inst.src1, inst.dst.size) # {} ->
               MOV(inst.dst, SlotOf(Through(inst.src1, inst.dst.size), inst.dst.size, inst.dst.signed))
          [] inst.op = "STORE" /\ Split(inst.dst) # {} -> [inst EXCEPT !.dst = Replaced(@)]
          [] inst.op = "STORE" /\ Through(inst.dst, inst.src1.size) # {} ->
               MOV(SlotOf(Through(inst.dst, inst.src1.size), inst.src1.size, inst.src1.signed), inst.src1)
          [] inst.op = "MOV" -> [inst EXCEPT !.dst = Replaced(@), !.src1 = Replaced(@)]
          [] inst.op = "MEMCPY" /\ ToCopy(inst.src1) # inst.src1 /\ ToCopy(inst.dst) # inst.dst ->
               MOV(ToCopy(inst.dst), ToCopy(inst.src1))
          [] inst.op = "MEMCPY" /\ (ToCopy(inst.src1) = inst.src1 \/ ToCopy(inst.dst) = inst.dst) ->
               [inst EXCEPT !.src1 = ToCopy(@), !.dst = ToCopy(@)]
          [] OTHER -> inst
  IN IF IsPhi(inst) THEN inst ELSE [Rewritten EXCEPT !.args = MapSeq(@, Replaced)]

\* The bytes a known pointer is used to reach.
Touched(f, ptrs, inst) ==
  LET At(o, size) == IF IsVReg(o) /\ Known(ptrs[o.id])
                     THEN {Bytes("access", ptrs[o.id].base, ptrs[o.id].offset, ptrs[o.id].offset + size)} ELSE {}
  IN CASE inst.op = "LOAD" -> At(inst.src1, inst.dst.size)
       [] inst.op = "STORE" -> At(inst.dst, inst.src1.size)
       [] inst.op = "MEMCPY" -> At(inst.src1, CopySize(inst)) \cup At(inst.dst, CopySize(inst))
       [] OTHER -> {}

sroa_run_on_function(f) ==
  IF f.slots = <<>> THEN [f |-> f, flawed |-> {}]
  ELSE LET ptrs == propagate_pointer_states(f)
           split == Allocated(f, Slices(f, analyze_memory_accesses(f, ptrs)))
           g == MapInsts(split.f, LAMBDA inst : rewrite_instruction(f, split.new, ptrs, inst))
           missed == \E inst \in ToSet(CodeInOrder(g, g.order)) :
                       \E x \in Touched(f, ptrs, inst), y \in DOMAIN split.new : Overlap(x, y)
       IN [f |-> ir_eliminate_nops(g), flawed |-> IF missed THEN {"split field used as part of a whole"} ELSE {}]
=============================================================================
