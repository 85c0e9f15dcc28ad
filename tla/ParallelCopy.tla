---------------------------- MODULE ParallelCopy ----------------------------
(***************************************************************************)
(* Sequentialisation of the parallel copy a CFG edge carries once its PHI  *)
(* nodes are removed: emit_parallel_copies of src/src/out_of_ssa.c.        *)
(*                                                                         *)
(* The pass receives `count` pending copies dst <- src that conceptually   *)
(* happen all at once and emits an ordered list of MOVs.  One step of the  *)
(* model is one turn of the `while (remaining > 0)` loop.  The emitted     *)
(* MOVs are appended in front of the block's terminator, so emission order *)
(* is execution order and the model executes each MOV on `env`, the        *)
(* contents of the virtual registers, at the moment it is emitted.         *)
(***************************************************************************)
EXTENDS Integers, FiniteSets

CONSTANTS
  VReg,       \* virtual register ids; finite for TLC, any subset of Nat in proofs
  Vals,       \* values a register may hold
  Literals,   \* values of the constant operands a PHI may carry
  Envs,       \* register contents the edge may be entered with
  N,          \* number of pending copies
  FirstFree   \* func->next_vreg_id when the pass reaches the edge

ASSUME VRegAssumption == VReg \subseteq Nat
ASSUME LiteralsAssumption == Literals \subseteq Vals
ASSUME EnvsAssumption == Envs \subseteq [VReg -> Vals]
ASSUME NAssumption == N \in Nat
ASSUME FirstFreeAssumption == FirstFree \in Nat

VARIABLES
  copies,     \* PendingCopy copies[count]
  remaining,  \* size_t remaining
  next_vreg,  \* func->next_vreg_id
  env,        \* register contents after the MOVs emitted so far
  orig,       \* history: the pending copies the pass was given
  env0        \* history: the register contents the edge is entered with

vars == <<copies, remaining, next_vreg, env, orig, env0>>

Copy == 1..N

VRegOp(v) == [kind |-> "vreg", id |-> v]
ConstOp(c) == [kind |-> "const", id |-> c]

\* Virtual registers that exist when the pass reaches the edge.
OldVReg == {v \in VReg : v < FirstFree}

Operand == {VRegOp(v) : v \in VReg} \cup {ConstOp(c) : c \in Literals}
Dest == {VRegOp(v) : v \in OldVReg}
Source == Dest \cup {ConstOp(c) : c \in Literals}

PendingCopy == [dst : Dest, src : Operand, done : BOOLEAN]

\* Two operands denote the same location or the same constant.
operand_equals(a, b) == a.kind = b.kind /\ a.id = b.id

\* What reading operand o yields in register contents e.
Eval(o, e) == IF o.kind = "vreg" THEN e[o.id] ELSE o.id

Pending == {i \in Copy : ~copies[i].done}

-----------------------------------------------------------------------------

\* The PHI nodes of one block define distinct registers; a copy onto itself
\* is done before the loop starts, and `remaining` counts the copies `work`.
Start(work, first_free) ==
  /\ env \in Envs
  /\ \E d \in [Copy -> Dest], s \in [Copy -> Source] :
       /\ \A i, j \in Copy : i # j => d[i] # d[j]
       /\ copies = [i \in Copy |-> [dst |-> d[i], src |-> s[i],
                                    done |-> operand_equals(d[i], s[i])]]
  /\ remaining = Cardinality(work)
  /\ next_vreg = first_free
  /\ orig = copies
  /\ env0 = env

\* Operators marked "Faulty" stand for bugs the code does not have; each is
\* placed before the definition it would replace.

\* Faulty: copies onto themselves are counted as work.
InitCountsSelfCopies == Start(Copy, FirstFree)

\* Faulty: the counter names the last register in use, not the next free one.
InitReusesLastVReg == Start(Pending, FirstFree - 1)

Init == Start(Pending, FirstFree)

\* No other pending copy still reads the register copy i overwrites.
Ready(i) ==
  /\ ~copies[i].done
  /\ \A j \in Copy : (i # j /\ ~copies[j].done)
                        => ~operand_equals(copies[j].src, copies[i].dst)

\* First pending copy, in array order, whose destination nobody reads.
EmitReady ==
  \E i \in Copy :
    /\ remaining > 0
    /\ Ready(i)
    /\ \A k \in Copy : k < i => ~Ready(k)
    /\ env' = [env EXCEPT ![copies[i].dst.id] = Eval(copies[i].src, env)]
    /\ copies' = [copies EXCEPT ![i].done = TRUE]
    /\ remaining' = remaining - 1
    /\ UNCHANGED <<next_vreg, orig, env0>>

\* Faulty: the readers of the saved destination are left as they are.
RedirectForgotten(c, i, t) == c

\* Faulty: the fresh register's number is taken for a constant.
RedirectToConst(c, i, t) ==
  IF ~c.done /\ operand_equals(c.src, copies[i].dst)
  THEN [c EXCEPT !.src = ConstOp(t)] ELSE c

\* What a pending copy reads once copy i's destination was saved in t.
Redirect(c, i, t) ==
  IF ~c.done /\ operand_equals(c.src, copies[i].dst)
  THEN [c EXCEPT !.src = VRegOp(t)] ELSE c

\* No progress: save the first pending destination in a fresh register, let
\* its readers read the fresh register, then perform the copy itself.
BreakCycle ==
  \E i \in Copy :
    /\ remaining > 0
    /\ \A k \in Copy : ~Ready(k)
    /\ ~copies[i].done
    /\ \A k \in Copy : k < i => copies[k].done
    /\ next_vreg \in VReg   \* bound: TLC's register ids are finite
    /\ LET redirected == [j \in Copy |-> Redirect(copies[j], i, next_vreg)]
           saved == [env EXCEPT ![next_vreg] = env[copies[i].dst.id]]
       IN /\ env' = [saved EXCEPT ![copies[i].dst.id]
                                    = Eval(redirected[i].src, saved)]
          /\ copies' = [redirected EXCEPT ![i].done = TRUE]
    /\ next_vreg' = next_vreg + 1
    /\ remaining' = remaining - 1
    /\ UNCHANGED <<orig, env0>>

Next == EmitReady \/ BreakCycle

Spec == Init /\ [][Next]_vars

\* The loop is straight-line compiler code: nothing else can run instead.
FairSpec == Spec /\ WF_vars(Next)

-----------------------------------------------------------------------------

\* Types of every variable.
TypeOK ==
  /\ copies \in [Copy -> PendingCopy]
  /\ remaining \in Nat
  /\ next_vreg \in Nat
  /\ env \in [VReg -> Vals]
  /\ orig \in [Copy -> PendingCopy]
  /\ env0 \in [VReg -> Vals]

\* The value the parallel copy assigns to the destination of copy i.
Want(i) == Eval(orig[i].src, env0)

\* When the loop ends, executing the emitted MOVs one after the other has
\* given every destination the value its source had before the first MOV.
SequentialEqualsParallel ==
  remaining = 0 => \A i \in Copy : env[orig[i].dst.id] = Want(i)

\* Every existing register that is nobody's destination keeps its contents,
\* throughout the loop: cycle breaking only clobbers registers it allocated.
BystandersUntouched ==
  \A v \in OldVReg :
    (\A i \in Copy : orig[i].dst.id # v) => env[v] = env0[v]

\* A destination that received its final value is never written again.
FinishedCopyStable ==
  [][\A i \in Copy :
       copies[i].done => env'[copies[i].dst.id] = env[copies[i].dst.id]]_vars

\* The loop ends: each turn makes progress or breaks a cycle.
LoopTerminates == <>(remaining = 0)
=============================================================================
