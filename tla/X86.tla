-------------------------------- MODULE X86 --------------------------------
(***************************************************************************)
(* The machine codegen.c writes for: registers of eight bytes, memory with *)
(* the stack in it, the flags of the last comparison, and the external     *)
(* procedures a program calls.  Nothing of it is in the repository; it is  *)
(* the part of the x86-64 instruction set and of the System V calling      *)
(* convention that the emitted code relies on.                             *)
(*                                                                         *)
(* A program is a record: the code in front of the first block (entry),    *)
(* the code of each block (blocks), the blocks in the order of their       *)
(* addresses (order), and the size of the result (ret).                    *)
(***************************************************************************)
EXTENDS KIR

\* Memory and arithmetic.
Word == INSTANCE KRun

Rax == 1
Rcx == 2
Rdx == 3
Rsp == 7
Rbp == 8
R10 == 11
R11 == 12
Preserved == {4, 8, 13, 14, 15, 16}      \* rbx, rbp, r12 to r15
StackTop == 120                          \* where the return address is
StackEnd == 8
GlobalBase == Word!GlobalBase

\* Operands of instructions; High is ah, the second byte of rax.
Reg(q, size) == [kind |-> "reg", id |-> q, size |-> size]
High == [kind |-> "high", id |-> Rax, size |-> 1]
Imm(v) == [kind |-> "imm", id |-> v, size |-> 8]
Mem(base, index, scale, disp, size) ==
  [kind |-> "mem", id |-> 0, base |-> base, index |-> index, scale |-> scale, disp |-> disp, size |-> size]
None == Imm(0)

Asm(op, dst, src) == [op |-> op, dst |-> dst, src |-> src]
\* The condition a Jcc or SETcc tests: a comparison and whether it is signed.
Jump(b) == [op |-> "jmp", to |-> b]
JumpIf(cond, b) == [op |-> "jcc", cond |-> cond, to |-> b]
Set(cond, dst) == [op |-> "setcc", cond |-> cond, dst |-> dst]
Divide(signed, size) == [op |-> "div", signed |-> signed, size |-> size]
CallTo(op, sym, argc) == [op |-> op, sym |-> sym, argc |-> argc]
Plain(op) == [op |-> op]

-----------------------------------------------------------------------------
\* A machine: regs, mem, flags, at (the block), goto, over, input, trace, ret.

Held(m, q) == IF q = 0 THEN 0 ELSE m.regs[q]
At(m, o) == Low(Held(m, o.base) + Held(m, o.index) * o.scale + o.disp, 8)
Get(m, o) ==
  CASE o.kind = "reg" -> Low(m.regs[o.id], o.size)
    [] o.kind = "high" -> Word!Byte(m.regs[o.id], 1)
    [] o.kind = "imm" -> o.id
    [] o.kind = "mem" -> Word!LoadBytes(m.mem, At(m, o), o.size)

\* Four bytes written to a register clear the others; one or two keep them.
Merged(old, size, v) == IF size >= 4 THEN Low(v, size) ELSE old - Low(old, size) + Low(v, size)
Put(m, o, v) ==
  CASE o.kind = "reg" -> [m EXCEPT !.regs[o.id] = Merged(@, o.size, v)]
    [] o.kind = "mem" -> [m EXCEPT !.mem = Word!StoreBytes(@, At(m, o), o.size, v)]

Reached(m, o) == o.kind = "mem" => Word!Mapped(m.mem, At(m, o), o.size)

Stop(m, event) == [m EXCEPT !.over = TRUE, !.trace = Append(@, event)]
Fault(m) == Stop(m, <<"fault">>)

Push(m, v) ==
  LET moved == [m EXCEPT !.regs[Rsp] = Low(@ - 8, 8)] IN
  IF Word!Mapped(m.mem, moved.regs[Rsp], 8) THEN [moved EXCEPT !.mem = Word!StoreBytes(@, moved.regs[Rsp], 8, v)]
  ELSE Fault(m)
Pop(m, q) == [m EXCEPT !.regs[q] = Word!LoadBytes(m.mem, m.regs[Rsp], 8), !.regs[Rsp] = Low(@ + 8, 8)]
\* leave.
Leave(m) == Pop([m EXCEPT !.regs[Rsp] = m.regs[Rbp]], Rbp)

\* The dividend is rax, extended into rdx, or ax for a byte.
Quotient(m, size, a, b, quotient) ==
  IF size = 1
  THEN [m EXCEPT !.regs[Rax] = Merged(@, 2, Low(quotient, 1) + Width(1) * Low(a - b * quotient, 1))]
  ELSE [m EXCEPT !.regs[Rax] = Merged(@, size, quotient), !.regs[Rdx] = Merged(@, size, a - b * quotient)]
Divided(m, size, a, b) ==
  IF b = 0 \/ Word!Overflows(a, b, size, a < 0) THEN Fault(m) ELSE Quotient(m, size, a, b, Word!Truncating(a, b))

Holds(m, cond) == Word!Compare(cond.op, m.flags.x, m.flags.y, m.flags.size, cond.signed) = 1
Compared(m, x, y, size) == [m EXCEPT !.flags = [x |-> x, y |-> y, size |-> size]]

Operations == {"ADD", "SUB", "MUL", "AND", "OR", "XOR", "SHL", "SHR", "SAR"}
Result(op, x, y, size) ==
  Word!Compute(IF op = "SAR" THEN "SHR" ELSE op, x, y, size, op = "SAR")

-----------------------------------------------------------------------------
\* External procedures; KRun says what they do.

Given(m, i) ==
  IF i <= Len(ArgumentRegisters) THEN m.regs[ArgumentRegisters[i]]
  ELSE Word!LoadBytes(m.mem, m.regs[Rsp] + 8 * (i - Len(ArgumentRegisters) - 1), 8)

Event(m, sym, argc) ==
  <<sym>> \o CASE sym = "peek" -> <<Word!LoadBytes(m.mem, Given(m, 1), 4)>>
               [] sym = "poke" -> <<0>>
               [] sym = "bump" -> <<Word!LoadBytes(m.mem, GlobalBase, 4)>>
               [] OTHER -> MapSeq([i \in 1 .. argc |-> i], LAMBDA i : Low(Given(m, i), 4))

\* The upper half of the result's register is not defined, nor is any register
\* that is not the callee's to keep.
Returned(m, v) ==
  [m EXCEPT !.regs = [q \in DOMAIN @ |->
     CASE q = Rax -> Low(v, 4) + Width(4) * (Word!Garbage % Width(4))
       [] q # Rax /\ q \in ToSet(CallerSaved) -> Word!Garbage
       [] OTHER -> @[q]]]

Called(m, sym, argc) ==
  LET in == Head(m.input)
      shown == [m EXCEPT !.trace = Append(@, Event(m, sym, argc)), !.input = Tail(@)]
  IN CASE m.input = <<>> -> [m EXCEPT !.over = TRUE]
       [] m.input # <<>> /\ sym \in {"peek", "poke"} /\ ~Word!Mapped(m.mem, Given(m, 1), 4) -> Fault(m)
       [] m.input # <<>> /\ sym = "poke" /\ Word!Mapped(m.mem, Given(m, 1), 4) ->
            Returned([shown EXCEPT !.mem = Word!StoreBytes(@, Given(m, 1), 4, in)], 0)
       [] m.input # <<>> /\ sym = "bump" -> Returned([shown EXCEPT !.mem = Word!StoreBytes(@, GlobalBase, 4, in)], 0)
       [] OTHER -> Returned(shown, in)

\* A procedure is called with the stack on a multiple of 16.
Call(m, sym, argc) == IF m.regs[Rsp] % 16 # 0 THEN Stop(m, <<"misaligned">>) ELSE Called(m, sym, argc)

\* It returns to its caller with the stack and the registers of the caller.
Restored(m) == m.regs[Rsp] = StackTop /\ \A q \in Preserved : m.regs[q] = Word!Garbage + q
Return(m) ==
  IF Restored(m) THEN Stop(m, <<"ret", IF m.ret = 0 THEN 0 ELSE Low(m.regs[Rax], m.ret)>>)
  ELSE Stop(m, <<"caller's registers lost">>)

\* What a callee that is jumped to returns, is returned.
Answered(m, sym, input) ==
  IF m.over THEN m
  ELSE Stop(m, <<"ret", IF m.ret = 0 \/ sym \notin {"ext", "many"} THEN 0 ELSE Low(Head(input), m.ret)>>)
JumpTo(m, sym, argc) ==
  CASE sym \in {"peek", "poke"} /\ Given(m, 1) < m.regs[Rsp] -> Stop(m, <<"dangling">>)
    [] ~Restored(m) -> Return(m)
    [] OTHER -> Answered(Called(m, sym, argc), sym, m.input)

-----------------------------------------------------------------------------
\* Instructions with two operands.
Operate(m, op, dst, src) ==
  CASE op \in {"mov", "movzx"} -> Put(m, dst, Get(m, src))
    [] op = "movsx" -> Put(m, dst, Extended(Get(m, src), src.size, TRUE))
    [] op = "lea" -> Put(m, dst, At(m, src))
    [] op \in Operations -> Put(m, dst, Result(op, Get(m, dst), Get(m, src), dst.size))
    [] op = "neg" -> Put(m, dst, -Get(m, dst))
    [] op = "not" -> Put(m, dst, -1 - Get(m, dst))
    [] op = "cmp" -> Compared(m, Get(m, dst), Get(m, src), dst.size)
    [] op = "test" -> Compared(m, Get(m, dst), 0, dst.size)
    [] op = "push" -> Push(m, Get(m, src))
    [] op = "pop" -> Pop(m, dst.id)

Others == {"jmp", "jcc", "setcc", "div", "call", "tail", "leave", "ret"}
Perform(m, inst) ==
  CASE inst.op = "jmp" -> [m EXCEPT !.goto = inst.to]
    [] inst.op = "jcc" -> IF Holds(m, inst.cond) THEN [m EXCEPT !.goto = inst.to] ELSE m
    [] inst.op = "setcc" -> Put(m, inst.dst, IF Holds(m, inst.cond) THEN 1 ELSE 0)
    [] inst.op = "div" -> Divided(m, inst.size, Extended(m.regs[Rax], inst.size, inst.signed),
                                  Extended(m.regs[R10], inst.size, inst.signed))
    [] inst.op = "call" -> Call(m, inst.sym, inst.argc)
    [] inst.op = "tail" -> JumpTo(m, inst.sym, inst.argc)
    [] inst.op = "leave" -> Leave(m)
    [] inst.op = "ret" -> Return(m)
    [] inst.op \notin Others ->
         IF inst.op = "lea" \/ (Reached(m, inst.dst) /\ Reached(m, inst.src))
         THEN Operate(m, inst.op, inst.dst, inst.src) ELSE Fault(m)

RECURSIVE PerformFrom(_, _, _)
PerformFrom(code, i, m) ==
  IF i > Len(code) \/ m.over \/ m.goto # NoBlock THEN m ELSE PerformFrom(code, i + 1, Perform(m, code[i]))

\* Behind the last instruction of a block comes the first of the next one.
BlockBehind(program, b) ==
  LET i == CHOOSE j \in DOMAIN program.order : program.order[j] = b
  IN IF i < Len(program.order) THEN program.order[i + 1] ELSE NoBlock
Follow(m, to) ==
  CASE m.over -> m
    [] ~m.over /\ to = NoBlock -> Stop(m, <<"fell off the end">>)
    [] OTHER -> [m EXCEPT !.at = to, !.goto = NoBlock]
Left(program, m) == Follow(m, IF m.goto # NoBlock THEN m.goto ELSE BlockBehind(program, m.at))

RECURSIVE PerformBlocks(_, _, _)
PerformBlocks(program, m, fuel) ==
  IF fuel = 0 \/ m.over THEN m.trace
  ELSE PerformBlocks(program, Left(program, PerformFrom(program.blocks[m.at], 1, m)), fuel - 1)

\* As it is called: the parameters in their registers, other values elsewhere.
Initially(q, params) ==
  CASE q = Rsp -> StackTop
    [] q \in ToSet(ArgumentRegisters) ->
         Low(params[CHOOSE i \in DOMAIN ArgumentRegisters : ArgumentRegisters[i] = q], 8)
    [] OTHER -> Word!Garbage + q
Loaded(program, globals, params, input) ==
  [regs |-> [q \in 1 .. 16 |-> Initially(q, params)],
   mem |-> [a \in StackEnd .. StackTop - 1 \cup GlobalBase .. GlobalBase + 8 * globals - 1 |-> 0],
   flags |-> [x |-> 0, y |-> 0, size |-> 8], at |-> Head(program.order), goto |-> NoBlock, over |-> FALSE,
   input |-> input, trace |-> <<>>, ret |-> program.ret]

Performed(program, globals, params, input, fuel) ==
  PerformBlocks(program, PerformFrom(program.entry, 1, Loaded(program, globals, params, input)), fuel)
=============================================================================
