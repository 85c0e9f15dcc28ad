-------------------------------- MODULE KRun --------------------------------
(***************************************************************************)
(* What a function of KIR.tla does when it runs: the machine code that     *)
(* codegen.c emits for each instruction.                                   *)
(*                                                                         *)
(* Memory is a function on the addresses of the frame's bytes and of the   *)
(* globals; a byte has ByteBits bits, so that words are narrow enough for  *)
(* every value of a type to be tried.  Sizes, offsets and overlaps are     *)
(* those of the program.                                                   *)
(***************************************************************************)
EXTENDS KIR

FrameBase == 64          \* what rbp holds; the frame's slots are below it
GlobalBase == 128        \* global g is at GlobalBase + 8 * g
Physical == 1000         \* register r of the machine is kept under Physical + r
Garbage == 91            \* what a register holds that was not given a value

Size(o) == IF o.size = 0 THEN 8 ELSE o.size

-----------------------------------------------------------------------------
\* Memory.

LoadBytes(mem, a, size) ==
  LET From[i \in 0..size] == IF i = size THEN 0 ELSE mem[a + i] + Width(1) * From[i + 1]
  IN From[0]

\* Byte i of a word; Byte(v, 0) is the lowest.
Byte(v, i) == (v \div Width(i)) % Width(1)

StoreBytes(mem, a, size, v) ==
  LET u == Low(v, size)
  IN [x \in DOMAIN mem |-> IF x \in a .. a + size - 1 THEN Byte(u, x - a) ELSE mem[x]]

Mapped(mem, a, size) == a .. a + size - 1 \subseteq DOMAIN mem

AddressOf(o) == IF o.kind = "stack" THEN FrameBase + o.id ELSE GlobalBase + 8 * o.id
Register(o) == IF o.kind = "reg" THEN Physical + o.id ELSE o.id

\* emit_load_operand: the operand, extended to a full word as its sign says.
Value(run, o) ==
  CASE o.kind \in {"vreg", "reg"} -> Extended(run.regs[Register(o)], Size(o), o.signed)
    [] InMemory(o) -> Extended(LoadBytes(run.mem, AddressOf(o), Size(o)), Size(o), o.signed)
    [] o.kind = "const" -> o.id
    [] OTHER -> 0

\* emit_load_address, and the address a LOAD or STORE adds its displacement to:
\* the one takes the address of a slot, the other what the slot holds.  Their
\* arguments, if any, are an index and its scale.
LoadAddress(run, o) == IF InMemory(o) THEN AddressOf(o) ELSE Low(Value(run, o), 8)
Scaled(run, args) == IF args = <<>> THEN 0 ELSE Value(run, args[1]) * args[2].id
Effective(run, base, inst) ==
  Low(Value(run, base) + Scaled(run, inst.args) + (IF IsConst(inst.src2) THEN inst.src2.id ELSE 0), 8)

\* emit_store_from_rax: one or two bytes are extended to four.
RegisterBits(o, v) == IF Size(o) < 4 /\ o.signed THEN Low(Extended(v, Size(o), TRUE), 4) ELSE Low(v, Size(o))
Put(run, o, v) ==
  CASE o.kind \in {"vreg", "reg"} -> [run EXCEPT !.regs[Register(o)] = RegisterBits(o, v)]
    [] InMemory(o) -> [run EXCEPT !.mem = StoreBytes(@, AddressOf(o), Size(o), v)]
    [] OTHER -> run

Stop(run, event) == [run EXCEPT !.over = TRUE, !.trace = Append(@, event)]
Fault(run) == Stop(run, <<"fault">>)

-----------------------------------------------------------------------------
\* Arithmetic at the size of the result.

Truncating(a, b) == LET q == (IF a < 0 THEN -a ELSE a) \div (IF b < 0 THEN -b ELSE b)
                    IN IF (a < 0) # (b < 0) THEN -q ELSE q

Overflows(a, b, size, signed) == signed /\ b = -1 /\ 2 * a = -Width(size)

BitwiseOp(op, a, b, size) ==
  LET Bit(v, i) == (v \div 2 ^ i) % 2
      Of(x, y) == CASE op = "AND" -> x * y
                    [] op = "OR" -> IF x + y > 0 THEN 1 ELSE 0
                    [] op = "XOR" -> (x + y) % 2
      Sum[i \in 0 .. ByteBits * size] ==
        IF i = ByteBits * size THEN 0 ELSE Of(Bit(a, i), Bit(b, i)) * 2 ^ i + Sum[i + 1]
  IN Sum[0]

\* The count of a shift is taken modulo the bits of a 4-byte or 8-byte word.
Count(n, size) == n % (ByteBits * (IF size = 8 THEN 8 ELSE 4))

\* emit_binary_op, emit_div_mod and the shifts; a division may fault instead.
Compute(op, x, y, size, signed) ==
  LET a == Extended(x, size, signed)
      b == Extended(y, size, signed)
      sx == Extended(x, size, TRUE)
      sy == Extended(y, size, TRUE)
  IN CASE op = "ADD" -> sx + sy
       [] op = "SUB" -> sx - sy
       [] op = "MUL" -> sx * sy
       [] op = "DIV" -> Truncating(a, b)
       [] op = "MOD" -> a - b * Truncating(a, b)
       [] op \in {"AND", "OR", "XOR"} -> BitwiseOp(op, Low(x, size), Low(y, size), size)
       [] op = "SHL" -> (Low(x, size) * 2 ^ (Count(y, size) % (ByteBits * size)))
                          * (IF Count(y, size) >= ByteBits * size THEN 0 ELSE 1)
       [] op = "SHR" -> a \div 2 ^ Count(y, size)

Divides(op) == op \in {"DIV", "MOD"}

\* emit_cmp_operands and the condition code, at the size of the first operand.
Compare(op, x, y, size, signed) ==
  LET a == Extended(x, size, signed)
      b == Extended(y, size, signed)
  IN IF CASE op = "CMP_EQ" -> a = b [] op = "CMP_NE" -> a # b
          [] op = "CMP_LT" -> a < b [] op = "CMP_LE" -> a <= b
          [] op = "CMP_GT" -> a > b [] op = "CMP_GE" -> a >= b
     THEN 1 ELSE 0

-----------------------------------------------------------------------------
\* Instructions.

\* A MOV into a register from memory reads as many bytes as the register takes.
Moved(run, dst, src) ==
  IF dst.kind \in {"reg", "vreg"} /\ InMemory(src) THEN Value(run, [src EXCEPT !.size = Size(dst)])
  ELSE Value(run, src)

\* The procedures a program calls, all external: `ext` and `many` show their
\* arguments, `peek` and `poke` show and change the 4 bytes at an address, `bump`
\* shows and changes global 0.  Each takes one input.
Parameter(run, inst) == Low(Value(run, inst.args[1]), 8)

Event(run, inst) ==
  <<inst.sym>> \o CASE inst.sym = "peek" -> <<LoadBytes(run.mem, Parameter(run, inst), 4)>>
                   [] inst.sym = "poke" -> <<0>>
                   [] inst.sym = "bump" -> <<LoadBytes(run.mem, GlobalBase, 4)>>
                   [] OTHER -> MapSeq(inst.args, LAMBDA o : Low(Value(run, o), 4))

Called(run, inst) ==
  LET in == Head(run.input)
      shown == [run EXCEPT !.trace = Append(@, Event(run, inst)), !.input = Tail(@)]
  IN CASE run.input = <<>> -> [run EXCEPT !.over = TRUE]
       [] inst.sym \in {"peek", "poke"} /\ ~Mapped(run.mem, Parameter(run, inst), 4) -> Fault(run)
       [] inst.sym = "poke" -> [shown EXCEPT !.mem = StoreBytes(@, Parameter(run, inst), 4, in)]
       [] inst.sym = "bump" -> [shown EXCEPT !.mem = StoreBytes(@, GlobalBase, 4, in)]
       [] OTHER -> Put(shown, inst.dst, in)

\* A tail call gives up the frame first: what was in it is no longer there.
InFrame(a) == a < GlobalBase
TailCalled(f, run, inst) ==
  IF inst.args # <<>> /\ inst.sym \in {"peek", "poke"} /\ InFrame(Parameter(run, inst))
  THEN Stop(run, <<"dangling">>)
  ELSE LET ran == Called(run, inst)
       IN IF ran.over THEN ran
          ELSE Stop(ran, <<"ret", IF f.ret = 0 \/ inst.sym \notin {"ext", "many"} THEN 0 ELSE Low(Head(run.input), f.ret)>>)

ExecLoad(run, inst) ==
  LET a == Effective(run, inst.src1, inst) IN
  IF Mapped(run.mem, a, Size(inst.dst))
  THEN Put(run, inst.dst, LoadBytes(run.mem, a, Size(inst.dst))) ELSE Fault(run)

ExecStore(run, inst) ==
  LET a == Effective(run, inst.dst, inst) IN
  IF Mapped(run.mem, a, Size(inst.src1))
  THEN [run EXCEPT !.mem = StoreBytes(@, a, Size(inst.src1), Value(run, inst.src1))] ELSE Fault(run)

ExecMemcpy(run, inst) ==
  LET to == LoadAddress(run, inst.dst)
      from == LoadAddress(run, inst.src1)
      size == inst.src2.id
  IN IF Mapped(run.mem, to, size) /\ Mapped(run.mem, from, size)
     THEN [run EXCEPT !.mem = [x \in DOMAIN @ |-> IF x \in to .. to + size - 1 THEN @[from + x - to] ELSE @[x]]]
     ELSE Fault(run)

ExecBinary(run, inst) ==
  LET size == IF inst.op \in Comparisons THEN Size(inst.src1) ELSE Size(inst.dst)
      x == Value(run, inst.src1)
      y == Value(run, inst.src2)
      signed == inst.src1.signed
  IN IF inst.op \in Comparisons THEN Put(run, inst.dst, Compare(inst.op, x, y, size, signed))
     ELSE IF Divides(inst.op) /\ (Low(y, size) = 0 \/
               Overflows(Extended(x, size, signed), Extended(y, size, signed), size, signed))
     THEN Fault(run)
     ELSE Put(run, inst.dst, Compute(inst.op, x, y, size, signed))

\* Once registers are allocated, a parameter is read from the register it is
\* passed in.
OnMachine(run) == Physical + 1 \in DOMAIN run.regs
Argument(run, i) == IF OnMachine(run) THEN run.regs[Physical + ArgumentRegisters[i]] ELSE run.params[i]

Perform(f, run, inst) ==
  CASE inst.op = "MOV" -> Put(run, inst.dst, Moved(run, inst.dst, inst.src1))
    [] inst.op = "LOAD" -> ExecLoad(run, inst)
    [] inst.op = "STORE" -> ExecStore(run, inst)
    [] inst.op = "ADDR" -> Put(run, inst.dst, AddressOf(inst.src1))
    [] inst.op = "MEMCPY" -> ExecMemcpy(run, inst)
    [] inst.op \in Binaries -> ExecBinary(run, inst)
    [] inst.op = "NEG" -> Put(run, inst.dst, -Value(run, inst.src1))
    [] inst.op = "NOT" -> Put(run, inst.dst, -1 - Value(run, inst.src1))
    [] inst.op = "PARAM" -> Put(run, inst.dst, Argument(run, inst.src1.id + 1))
    [] inst.op = "CALL" -> Called(run, inst)
    [] inst.op = "TAIL_CALL" -> TailCalled(f, run, inst)
    [] inst.op = "JMP" -> [run EXCEPT !.goto = inst.dst.id]
    [] inst.op = "BR" ->
         [run EXCEPT !.goto = IF Low(Value(run, inst.dst), Size(inst.dst)) # 0 THEN inst.src1.id ELSE inst.src2.id]
    [] inst.op = "RET" -> Stop(run, <<"ret", IF f.ret = 0 THEN 0 ELSE Low(Value(run, inst.dst), f.ret)>>)
    [] OTHER -> run                                 \* NOP; PHIs ran on entry

\* A call keeps the callee-saved registers only; the code for any other
\* instruction but a copy may use rax, rcx, rdx, r10 and r11 on its way.
Overwritten(inst) ==
  CASE inst.op = "CALL" -> ToSet(CallerSaved)
    [] inst.op \in {"MOV", "PARAM", "JMP"} -> {}
    [] OTHER -> {1, 2, 3, 11, 12}
Lost(inst) == Overwritten(inst) \ (IF inst.dst.kind = "reg" THEN {inst.dst.id} ELSE {})

Exec(f, run, inst) ==
  IF OnMachine(run)
  THEN [Perform(f, run, inst) EXCEPT
          !.regs = [q \in DOMAIN @ |-> IF q - Physical \in Lost(inst) THEN Garbage ELSE @[q]]]
  ELSE Perform(f, run, inst)

\* PHIs read before any of them is written.
RECURSIVE PutAll(_, _, _)
PutAll(run, phis, values) ==
  IF phis = <<>> THEN run
  ELSE PutAll(Put(run, Head(phis).dst, Head(values)), Tail(phis), Tail(values))

EnterBlock(f, run) ==
  LET phis == Phis(f, run.at)
  IN IF phis = <<>> THEN run
     ELSE PutAll(run, phis, [i \in DOMAIN phis |-> Value(run, Incoming(phis[i], run.prev))])

RECURSIVE ExecFrom(_, _, _, _)
ExecFrom(f, code, i, run) ==
  IF i > Len(code) \/ run.over \/ run.goto # NoBlock THEN run
  ELSE ExecFrom(f, code, i + 1, Exec(f, run, code[i]))

\* Behind the last instruction: where control has been sent, or the next block.
LeaveBlock(f, ran) ==
  LET to == IF ran.goto # NoBlock THEN ran.goto ELSE NextBlock(f, ran.at)
  IN IF ran.over THEN ran
     ELSE IF to = NoBlock THEN Stop(ran, <<"fell off the end">>)
     ELSE [ran EXCEPT !.prev = ran.at, !.at = to, !.goto = NoBlock]

ExecBlock(f, run) == LeaveBlock(f, ExecFrom(f, f.code[run.at], 1, EnterBlock(f, run)))

RECURSIVE RunBlocks(_, _, _)
RunBlocks(f, run, fuel) ==
  IF fuel = 0 \/ run.over THEN run.trace ELSE RunBlocks(f, ExecBlock(f, run), fuel - 1)

\* What a register holds at first.
Passed(q) == {i \in DOMAIN ArgumentRegisters : q = Physical + ArgumentRegisters[i]}
AtStart(q, params) ==
  IF q < Physical THEN 0
  ELSE IF Passed(q) = {} THEN Garbage
  ELSE Low(params[CHOOSE i \in Passed(q) : TRUE], 8)

\* `globals` is the number of globals, all zero at first.
Start(f, registers, globals, params, input) ==
  [at |-> Head(f.order), prev |-> NoBlock, goto |-> NoBlock, over |-> FALSE,
   regs |-> [q \in registers |-> AtStart(q, params)],
   mem |-> [a \in FrameBase - f.frame .. FrameBase - 1 \cup GlobalBase .. GlobalBase + 8 * globals - 1 |-> 0],
   params |-> params, input |-> input, trace |-> <<>>]

VirtualRegisters(f) == 0 .. f.vregs - 1
MachineRegisters == Physical + 1 .. Physical + 16

Trace(f, registers, globals, params, input, fuel) ==
  RunBlocks(f, Start(f, registers, globals, params, input), fuel)
=============================================================================
