------------------------------ MODULE Pipeline ------------------------------
(***************************************************************************)
(* The bootstrap compiler on one procedure: main.c lowers it and runs the  *)
(* passes one after the other, each on what the one before it made.        *)
(*                                                                         *)
(*   prog     the procedure                                                *)
(*   pc       what has been done                                           *)
(*   func     the function                                                 *)
(*   assembly the program that is written for it                           *)
(*   meaning  history: what the lowered function does, for every choice of *)
(*            parameters and inputs                                        *)
(*   flawed   history: what a pass did that it should not have             *)
(***************************************************************************)
EXTENDS KRun, Ast, FiniteSets, TLC

CONSTANTS Inlined,       \* the procedures declared inline, by name
          Corpus,        \* the procedures
          Cases,         \* parameters and inputs: records with `params` and `input`
          Fuel           \* the blocks a run may execute

Reads == INSTANCE Source
Lowering == INSTANCE Lower
SROA == INSTANCE Sroa
SSA == INSTANCE Mem2Reg
SCCP == INSTANCE Sccp
GVN == INSTANCE Gvn
LICM == INSTANCE Licm
CFG == INSTANCE KCfgOpt
Simplify == INSTANCE IrOpt
LeaveSSA == INSTANCE KOutOfSSA
Allocator == INSTANCE RegAlloc WITH CallerSavedFree <- <<6, 5, 9, 10>>,       \* rdi, rsi, r8, r9
                                    CalleeSaved <- <<4, 13, 14, 15, 16>>      \* rbx, r12 to r15
Frame == INSTANCE StackColor
Machine == INSTANCE Peephole
Assembler == INSTANCE Codegen
Flow == INSTANCE Cfg

VARIABLES prog, pc, func, assembly, meaning, flawed
vars == <<prog, pc, func, assembly, meaning, flawed>>

\* The loop of the register allocator, one step, to its end, and with all that
\* has to be spilled; Allocation has it step by step.
Step(g) ==
  CASE g.lists["simplify"] # <<>> -> Allocator!irc_simplify(g)
    [] g.lists["simplify"] = <<>> /\ g.queue # <<>> -> Allocator!irc_coalesce(g)
    [] g.lists["simplify"] = <<>> /\ g.queue = <<>> /\ g.lists["freeze"] # <<>> -> Allocator!irc_freeze(g)
    [] OTHER -> Allocator!irc_select_spill(g)

RECURSIVE Reduce(_)
Reduce(g) == IF Allocator!Working(g) THEN Reduce(Step(g)) ELSE g
Colored(f, made) == Allocator!irc_assign_colors(Reduce(Allocator!InterferenceGraph(f, made)))

RECURSIVE AllocatedFrom(_, _, _, _)
AllocatedFrom(f, g, made, iteration) ==
  CASE g.spilled = <<>> -> Allocator!Outcome(f, g)
    [] g.spilled # <<>> /\ iteration >= Allocator!MaxIterations -> [f |-> f, flawed |-> {"crash"}]
    [] OTHER -> LET h == Allocator!rewrite_spilled_program(g, f)
                IN AllocatedFrom(h, Colored(h, made), made, iteration + 1)

regalloc_run_on_function(f) ==
  IF f.vregs = 0 THEN [f |-> f, flawed |-> {}] ELSE AllocatedFrom(f, Colored(f, f.vregs), f.vregs, 1)

Globals == 2
Behaviour(f, registers) == [c \in Cases |-> Trace(f, registers, Globals, c.params, c.input, Fuel)]
Performance == [c \in Cases |-> Assembler!Performed(assembly, Globals, c.params, c.input, Fuel)]

Init ==
  /\ prog \in Corpus
  /\ pc = "parsed"
  /\ func = ir_function_create(0)
  /\ assembly = <<>>
  /\ meaning = <<>>
  /\ flawed = {}

\* A call behind a `return` makes the lowering write through a null pointer.
Lowered(L) ==
  /\ IF "crash" \in L.flawed
     THEN /\ pc' = "crashed"
          /\ UNCHANGED <<func, meaning>>
     ELSE /\ pc' = "lowered"
          /\ func' = L.f
          /\ meaning' = Behaviour(L.f, VirtualRegisters(L.f))
  /\ flawed' = L.flawed
  /\ UNCHANGED <<prog, assembly>>

Lower == pc = "parsed" /\ Lowered(Lowering!ir_lower_program(prog))

\* A pass makes `result` of the function, or stops the compiler.
Pass(from, to, result) ==
  /\ pc = from
  /\ pc' = IF "crash" \in result.flawed THEN "crashed" ELSE to
  /\ func' = result.f
  /\ flawed' = flawed \cup result.flawed
  /\ UNCHANGED <<prog, assembly, meaning>>

Sound(f) == [f |-> f, flawed |-> {}]

SplitSlots == Pass("lowered", "sroa", SROA!sroa_run_on_function(func))
Promote == Pass("sroa", "mem2reg", SSA!mem2reg_run_on_function(func))
PropagateConstants == Pass("mem2reg", "sccp", Sound(SCCP!sccp_run_on_function(func)))
NumberValues == Pass("sccp", "gvn", GVN!gvn_run_on_function(func))
HoistInvariants == Pass("gvn", "licm", LICM!licm_run_on_function(func))
CleanControlFlow == Pass("licm", "cfg_opt", Sound(CFG!cfg_opt_run_on_function(func)))
SimplifyCode == Pass("cfg_opt", "ir_opt", Simplify!ir_opt_run_on_function(func))
ReplacePhis == Pass("ir_opt", "out_of_ssa", Sound(LeaveSSA!out_of_ssa_run_on_function(func)))
AllocateRegisters == Pass("out_of_ssa", "regalloc", regalloc_run_on_function(func))

ColorStack == Pass("regalloc", "stack_color", Sound(Frame!stack_color_run_on_function(func)))

CleanMachineCode == Pass("stack_color", "peephole", Machine!peephole_run_on_function(func))

Emitted(result) ==
  /\ pc = "peephole"
  /\ pc' = "assembly"
  /\ assembly' = result.program
  /\ flawed' = flawed \cup result.flawed
  /\ UNCHANGED <<prog, func, meaning>>
EmitCode == Emitted(Assembler!emit_function(func))

Next == Lower \/ SplitSlots \/ Promote \/ PropagateConstants \/ NumberValues \/ HoistInvariants
          \/ CleanControlFlow \/ SimplifyCode \/ ReplacePhis \/ AllocateRegisters \/ ColorStack
          \/ CleanMachineCode \/ EmitCode

Spec == Init /\ [][Next]_vars

-----------------------------------------------------------------------------
InSlots == {"lowered", "sroa"}
Allocated == {"regalloc", "stack_color", "peephole", "assembly"}
InSSA == {"mem2reg", "sccp", "gvn", "licm", "cfg_opt", "ir_opt"}

\* What is built is a function: every block is laid out once, every jump goes to
\* a block that is laid out, control does not run off the last one, and the
\* slots lie in the frame without sharing a byte.
TypeOK ==
  /\ pc \in {"parsed", "crashed", "out_of_ssa"} \cup InSlots \cup InSSA \cup Allocated
  /\ func.order # <<>> /\ IsInjective(func.order)
  /\ pc \notin {"parsed", "crashed"} =>
       \A b \in Flow!Reachable(func) :
         b \in Blocks(func) /\ (Flow!Succs(func, b) # {} \/ LastInst(func, b).op \in {"RET"} \cup TailCalls)
  /\ pc = "out_of_ssa" => Allocator!WellFormed(func)
  /\ pc \notin Allocated => \A i, j \in DOMAIN func.slots :
       LET s == func.slots[i]
           t == func.slots[j]
       IN -func.frame <= s.offset /\ s.offset + s.size <= 0 /\ (i < j => t.offset + t.size <= s.offset)

\* A division that faults may be left out when nothing needs its value: what
\* comes before it is still done.
Allowed(old, new) ==
  new = old \/ (old # <<>> /\ Last(old) = <<"fault">> /\ IsPrefix(Front(old), new))

\* For every choice of parameters and inputs, what a function does after each
\* pass (the calls it makes with what they are given, what it returns, whether
\* it faults) is what it did when it was lowered, unless a pass is known to
\* have gone wrong on it.
BehaviourPreserved ==
  flawed = {} /\ pc \notin {"parsed", "crashed"} =>
    LET now == IF pc = "assembly" THEN Performance
               ELSE Behaviour(func, IF pc \in Allocated THEN MachineRegisters ELSE VirtualRegisters(func))
    IN \A c \in Cases : Allowed(meaning[c], now[c])

\* The lowered function does what its source says: operands evaluated in
\* order and once, defers run in reverse at every way out of their scope,
\* short-circuits and inlined calls included.
LoweringFaithful ==
  pc = "lowered" /\ flawed = {} =>
    \A c \in Cases : Reads!Meaning(prog, c.params, c.input, Fuel) = meaning[c]

\* Between mem2reg and out_of_ssa every register has one definition, which
\* dominates its uses, and a PHI has for every predecessor that is reached an
\* operand that is defined at the end of it.
SSAForm ==
  pc \in InSSA =>
    LET g == Flow!Graph(func)
        reached == DOMAIN g.dom
        places == UNION {{<<b, i>> : i \in DOMAIN func.code[b]} : b \in reached}
        At(q) == func.code[q[1]][q[2]]
        Definitions(v) == {q \in places : Defines(At(q)) /\ At(q).dst.id = v}
        \* Before instruction i of block b.
        Available(o, b, i) ==
          IsVReg(o) => \E d \in Definitions(o.id) : IF d[1] = b THEN d[2] < i ELSE Flow!Dominates(g, d[1], b)
        PhiSound(phi, b) ==
          \A p \in ToSet(g.preds[b]) \cap reached :
            Incoming(phi, p).kind # "none" /\ Available(Incoming(phi, p), p, Len(func.code[p]) + 1)
    IN /\ \A v \in 0 .. func.vregs - 1 : Cardinality(Definitions(v)) <= 1
       /\ \A q \in places : IF IsPhi(At(q)) THEN PhiSound(At(q), q[1])
                            ELSE \A o \in ToSet(Uses(At(q))) : Available(o, q[1], q[2])
=============================================================================
