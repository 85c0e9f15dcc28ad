------------------------ MODULE ParallelCopy_proofs ------------------------
(***************************************************************************)
(* Proofs about ParallelCopy, for every number of copies, every set of     *)
(* registers and every register contents.                                  *)
(*                                                                         *)
(* The inductive invariant says what the pending array means half way      *)
(* through the loop: a finished copy has delivered its value, a pending    *)
(* one still finds its value where its (possibly redirected) source says.  *)
(***************************************************************************)
EXTENDS ParallelCopy, TLAPS, FiniteSetTheorems

\* Destinations are never rewritten and stay pairwise distinct.
DestinationsFixed ==
  /\ \A i \in Copy : copies[i].dst = orig[i].dst
  /\ \A i, j \in Copy : i # j => copies[i].dst # copies[j].dst

\* Finished copies have delivered.
Delivered == \A i \in Copy : copies[i].done => env[orig[i].dst.id] = Want(i)

\* Pending copies would deliver the right value if executed now.
Deliverable == \A i \in Copy : ~copies[i].done => Eval(copies[i].src, env) = Want(i)

\* The next register to allocate is read by no pending copy.
NextIsFresh ==
  /\ FirstFree <= next_vreg
  /\ \A i \in Copy : copies[i].src # VRegOp(next_vreg)
  /\ \A i \in Copy : copies[i].src.kind = "vreg" => copies[i].src.id < next_vreg

\* The counter counts.
RemainingCounts == remaining = Cardinality(Pending)

IInv ==
  /\ TypeOK
  /\ DestinationsFixed
  /\ Delivered
  /\ Deliverable
  /\ NextIsFresh
  /\ RemainingCounts
  /\ BystandersUntouched
-----------------------------------------------------------------------------

\* Reading a well-formed operand yields a value.
LEMMA EvalType ==
  ASSUME NEW o \in Operand, NEW e \in [VReg -> Vals]
  PROVE  Eval(o, e) \in Vals
BY LiteralsAssumption DEF Eval, Operand, VRegOp, ConstOp

\* Writing one register changes what an operand yields only if it names it.
LEMMA EvalFrame ==
  ASSUME NEW o \in Operand, NEW e \in [VReg -> Vals], NEW v \in VReg, NEW x \in Vals,
         o # VRegOp(v)
  PROVE  Eval(o, [e EXCEPT ![v] = x]) = Eval(o, e)
BY DEF Eval, Operand, VRegOp, ConstOp

\* Two well-formed operands are equal to the code when they are equal.
LEMMA OperandEqualsIsEquality ==
  ASSUME NEW a \in Operand, NEW d \in Dest
  PROVE  operand_equals(a, d) <=> a = d
BY DEF operand_equals, Operand, Dest, OldVReg, VRegOp, ConstOp

\* A destination names an existing register.
LEMMA DestShape ==
  ASSUME NEW d \in Dest
  PROVE  /\ d \in Operand /\ d.id \in VReg /\ d.id \in OldVReg
         /\ d = VRegOp(d.id) /\ d.id < FirstFree /\ d.id \in Nat
BY VRegAssumption, FirstFreeAssumption DEF Dest, Operand, OldVReg, VRegOp

\* Finishing a pending copy takes one off the count of pending copies.
LEMMA OneFewer ==
  ASSUME NEW S, IsFiniteSet(S), NEW i \in S
  PROVE  Cardinality(S \ {i}) = Cardinality(S) - 1
BY FS_RemoveElement

\* Copies are finitely many, hence so are the pending ones.
LEMMA PendingFinite == IsFiniteSet(Pending)
<1>1. IsFiniteSet(Copy)
  BY NAssumption, FS_Interval DEF Copy
<1> QED
  BY <1>1, FS_Subset DEF Pending

-----------------------------------------------------------------------------

\* The initial states satisfy the invariant.
LEMMA InitIInv == Init => IInv
<1> SUFFICES ASSUME Init PROVE IInv
  OBVIOUS
<1>1. PICK d \in [Copy -> Dest], s \in [Copy -> Source] :
        /\ \A i, j \in Copy : i # j => d[i] # d[j]
        /\ copies = [i \in Copy |-> [dst |-> d[i], src |-> s[i],
                                     done |-> operand_equals(d[i], s[i])]]
  BY DEF Init, Start
<1>2. Source \subseteq Operand
  BY DestShape DEF Source, Operand
<1>3. copies \in [Copy -> PendingCopy]
  <2>1. \A i \in Copy : operand_equals(d[i], s[i]) \in BOOLEAN
    BY DEF operand_equals
  <2> QED BY <1>1, <1>2, <2>1 DEF PendingCopy
<1>4. TypeOK
  BY <1>3, PendingFinite, FS_CardinalityType, EnvsAssumption, FirstFreeAssumption
     DEF Init, Start, TypeOK
<1>5. DestinationsFixed
  BY <1>1 DEF Init, Start, DestinationsFixed
<1>6. Delivered
  <2> SUFFICES ASSUME NEW i \in Copy, copies[i].done
               PROVE  env[orig[i].dst.id] = Want(i)
    BY DEF Delivered
  <2>1. d[i].kind = s[i].kind /\ d[i].id = s[i].id
    BY <1>1 DEF operand_equals
  <2>2. d[i].kind = "vreg"
    BY DestShape DEF VRegOp
  <2> QED BY <1>1, <2>1, <2>2 DEF Init, Start, Want, Eval
<1>7. Deliverable
  BY DEF Init, Start, Deliverable, Want
<1>8. NextIsFresh
  <2>1. \A o \in Source : o.kind = "vreg" => o.id < FirstFree
    BY DestShape DEF Source, ConstOp
  <2>2. \A o \in Source : o # VRegOp(FirstFree)
    BY <2>1, FirstFreeAssumption DEF VRegOp
  <2> QED BY <1>1, <2>1, <2>2, FirstFreeAssumption DEF Init, Start, NextIsFresh
<1> QED
  BY <1>4, <1>5, <1>6, <1>7, <1>8 DEF IInv, Init, Start, RemainingCounts, BystandersUntouched

-----------------------------------------------------------------------------

\* Emitting a ready copy preserves the invariant.
LEMMA EmitReadyIInv == IInv /\ EmitReady => IInv'
<1> SUFFICES ASSUME IInv, EmitReady PROVE IInv'
  OBVIOUS
<1> USE DEF IInv
<1>1. PICK i \in Copy :
        /\ remaining > 0 /\ Ready(i)
        /\ env' = [env EXCEPT ![copies[i].dst.id] = Eval(copies[i].src, env)]
        /\ copies' = [copies EXCEPT ![i].done = TRUE]
        /\ remaining' = remaining - 1
        /\ UNCHANGED <<next_vreg, orig, env0>>
  BY DEF EmitReady
<1>2. /\ ~copies[i].done
      /\ \A j \in Copy : (i # j /\ ~copies[j].done) => copies[j].src # copies[i].dst
  BY <1>1, OperandEqualsIsEquality DEF Ready, TypeOK, PendingCopy
<1>3. /\ copies' \in [Copy -> PendingCopy]
      /\ \A j \in Copy : copies'[j].dst = copies[j].dst /\ copies'[j].src = copies[j].src
      /\ \A j \in Copy : copies'[j].done = (j = i \/ copies[j].done)
  BY <1>1 DEF TypeOK, PendingCopy
<1>4. \A j \in Copy : /\ copies[j].dst \in Dest /\ copies[j].src \in Operand
                      /\ orig[j].dst \in Dest /\ orig[j].src \in Operand
  BY DEF TypeOK, PendingCopy
<1>5. Eval(copies[i].src, env) \in Vals /\ Eval(copies[i].src, env) = Want(i)
  BY <1>2, <1>4, EvalType DEF TypeOK, Deliverable
<1>6. copies[i].dst.id \in VReg /\ copies[i].dst = VRegOp(copies[i].dst.id)
  BY <1>4, DestShape
<1>7. Pending' = Pending \ {i} /\ i \in Pending
  BY <1>2, <1>3 DEF Pending
<1>8. RemainingCounts'
  BY <1>1, <1>7, PendingFinite, OneFewer DEF RemainingCounts
<1>9. TypeOK'
  <2>1. remaining' \in Nat
    BY <1>1 DEF TypeOK
  <2> QED BY <1>1, <1>3, <1>5, <1>6, <2>1 DEF TypeOK
<1>10. DestinationsFixed'
  BY <1>1, <1>3 DEF DestinationsFixed
<1>11. \A j \in Copy : Want(j)' = Want(j)
  BY <1>1 DEF Want, Eval
<1>12. Delivered'
  <2> SUFFICES ASSUME NEW j \in Copy, copies'[j].done
               PROVE  env'[orig'[j].dst.id] = Want(j)'
    BY DEF Delivered
  <2>1. CASE j = i
    BY <2>1, <1>1, <1>5, <1>6, <1>11 DEF TypeOK, DestinationsFixed
  <2>2. CASE j # i
    <3>1. copies[j].done
      BY <2>2, <1>3
    <3>2. orig[j].dst.id # copies[i].dst.id
      BY <2>2, <1>4, DestShape DEF DestinationsFixed
    <3>3. orig[j].dst.id \in VReg
      BY <1>4, DestShape
    <3> QED BY <1>1, <1>6, <1>11, <3>1, <3>2, <3>3 DEF Delivered, TypeOK
  <2> QED BY <2>1, <2>2
<1>13. Deliverable'
  <2> SUFFICES ASSUME NEW j \in Copy, ~copies'[j].done
               PROVE  Eval(copies'[j].src, env') = Want(j)'
    BY DEF Deliverable
  <2>1. j # i /\ ~copies[j].done
    BY <1>3
  <2>2. Eval(copies[j].src, env') = Eval(copies[j].src, env)
    BY <2>1, <1>1, <1>2, <1>4, <1>5, <1>6, EvalFrame DEF TypeOK
  <2> QED BY <2>1, <2>2, <1>3, <1>11 DEF Deliverable
<1>14. NextIsFresh'
  BY <1>1, <1>3 DEF NextIsFresh
<1>15. BystandersUntouched'
  <2> SUFFICES ASSUME NEW v \in OldVReg, \A j \in Copy : orig[j].dst.id # v
               PROVE  env'[v] = env0[v]
    BY <1>1 DEF BystandersUntouched
  <2>1. v # copies[i].dst.id /\ v \in VReg
    BY DEF DestinationsFixed, OldVReg
  <2> QED BY <2>1, <1>1, <1>6 DEF BystandersUntouched, TypeOK
<1> QED
  BY <1>8, <1>9, <1>10, <1>12, <1>13, <1>14, <1>15

\* Breaking a cycle preserves the invariant.
LEMMA BreakCycleIInv == IInv /\ BreakCycle => IInv'
<1> SUFFICES ASSUME IInv, BreakCycle PROVE IInv'
  OBVIOUS
<1> USE DEF IInv
<1> DEFINE t == next_vreg
           redirected(i) == [j \in Copy |-> Redirect(copies[j], i, t)]
           saved(i) == [env EXCEPT ![t] = env[copies[i].dst.id]]
<1>1. PICK i \in Copy :
        /\ remaining > 0 /\ ~copies[i].done /\ t \in VReg
        /\ env' = [saved(i) EXCEPT ![copies[i].dst.id] = Eval(redirected(i)[i].src, saved(i))]
        /\ copies' = [redirected(i) EXCEPT ![i].done = TRUE]
        /\ next_vreg' = t + 1
        /\ remaining' = remaining - 1
        /\ UNCHANGED <<orig, env0>>
  BY DEF BreakCycle
<1> DEFINE di == copies[i].dst.id
<1>2. \A j \in Copy : /\ copies[j] \in PendingCopy
                      /\ copies[j].dst \in Dest /\ copies[j].src \in Operand
                      /\ orig[j].dst \in Dest /\ orig[j].src \in Operand
  BY DEF TypeOK, PendingCopy
<1>3. /\ di \in VReg /\ copies[i].dst = VRegOp(di) /\ di < FirstFree /\ di \in Nat
      /\ t \in Nat /\ di # t /\ VRegOp(t) \in Operand
  BY <1>1, <1>2, DestShape, FirstFreeAssumption DEF NextIsFresh, TypeOK, Operand
<1>4. \A j \in Copy :
        redirected(i)[j] = IF ~copies[j].done /\ copies[j].src = copies[i].dst
                           THEN [copies[j] EXCEPT !.src = VRegOp(t)] ELSE copies[j]
  BY <1>2, OperandEqualsIsEquality DEF Redirect
<1>5. \A j \in Copy :
        /\ redirected(i)[j] \in PendingCopy
        /\ redirected(i)[j].dst = copies[j].dst
        /\ redirected(i)[j].done = copies[j].done
        /\ redirected(i)[j].src # copies[i].dst \/ copies[j].done
        /\ \/ redirected(i)[j].src = copies[j].src
           \/ redirected(i)[j].src = VRegOp(t)
  <2> SUFFICES ASSUME NEW j \in Copy
               PROVE  /\ redirected(i)[j] \in PendingCopy
                      /\ redirected(i)[j].dst = copies[j].dst
                      /\ redirected(i)[j].done = copies[j].done
                      /\ redirected(i)[j].src # copies[i].dst \/ copies[j].done
                      /\ \/ redirected(i)[j].src = copies[j].src
                         \/ redirected(i)[j].src = VRegOp(t)
    OBVIOUS
  <2>1. VRegOp(t) # copies[i].dst
    BY <1>3 DEF VRegOp
  <2> HIDE DEF redirected
  <2>2. CASE ~copies[j].done /\ copies[j].src = copies[i].dst
    <3>1. redirected(i)[j] = [copies[j] EXCEPT !.src = VRegOp(t)]
      BY <2>2, <1>4
    <3>2. /\ redirected(i)[j].src = VRegOp(t)
          /\ redirected(i)[j].dst = copies[j].dst
          /\ redirected(i)[j].done = copies[j].done
      BY <3>1, <1>2 DEF PendingCopy
    <3>3. redirected(i)[j] \in PendingCopy
      BY <3>1, <1>2, <1>3 DEF PendingCopy
    <3> QED BY <2>1, <3>2, <3>3
  <2>3. CASE ~(~copies[j].done /\ copies[j].src = copies[i].dst)
    BY <2>3, <1>2, <1>4
  <2> QED BY <2>2, <2>3
<1> HIDE DEF redirected
<1>6. /\ copies' \in [Copy -> PendingCopy]
      /\ \A j \in Copy : /\ copies'[j].dst = copies[j].dst
                         /\ copies'[j].src = redirected(i)[j].src
                         /\ copies'[j].done = (j = i \/ copies[j].done)
  <2>1. redirected(i) \in [Copy -> PendingCopy]
    BY <1>5 DEF redirected
  <2>2. \A j \in Copy : copies'[j] = IF j = i THEN [redirected(i)[i] EXCEPT !.done = TRUE]
                                     ELSE redirected(i)[j]
    BY <1>1, <2>1
  <2>3. copies' \in [Copy -> PendingCopy]
    <3>1. [redirected(i)[i] EXCEPT !.done = TRUE] \in PendingCopy
      BY <1>5 DEF PendingCopy
    <3> QED BY <1>1, <2>1, <3>1
  <2>4. \A j \in Copy : /\ copies'[j].dst = redirected(i)[j].dst
                        /\ copies'[j].src = redirected(i)[j].src
                        /\ copies'[j].done = (j = i \/ redirected(i)[j].done)
    <3>1. ASSUME NEW j \in Copy
          PROVE  redirected(i)[j] \in PendingCopy
      BY <2>1
    <3>2. ASSUME NEW j \in Copy, j = i
          PROVE  /\ copies'[j].dst = redirected(i)[j].dst
                 /\ copies'[j].src = redirected(i)[j].src
                 /\ copies'[j].done = TRUE
      BY <3>1, <3>2, <2>2 DEF PendingCopy
    <3>3. ASSUME NEW j \in Copy, j # i
          PROVE  copies'[j] = redirected(i)[j]
      BY <3>3, <2>2
    <3>4. ASSUME NEW j \in Copy
          PROVE  /\ copies'[j].dst = redirected(i)[j].dst
                 /\ copies'[j].src = redirected(i)[j].src
                 /\ copies'[j].done = (j = i \/ redirected(i)[j].done)
      <4>1. redirected(i)[j].done \in BOOLEAN
        BY <3>1 DEF PendingCopy
      <4>2. CASE j = i
        BY <4>2, <3>2
      <4>3. CASE j # i
        BY <4>3, <3>3, <4>1
      <4> QED
        BY <4>2, <4>3
    <3> QED
      BY <3>4
  <2> QED BY <1>5, <2>3, <2>4
<1>7. saved(i) \in [VReg -> Vals] /\ env \in [VReg -> Vals] /\ env[di] \in Vals
  BY <1>1, <1>3 DEF TypeOK
<1>8. \* Saving leaves every pending copy able to deliver.
      \A j \in Copy : ~copies[j].done => Eval(redirected(i)[j].src, saved(i)) = Want(j)
  <2> SUFFICES ASSUME NEW j \in Copy, ~copies[j].done
               PROVE  Eval(redirected(i)[j].src, saved(i)) = Want(j)
    OBVIOUS
  <2>1. CASE copies[j].src = copies[i].dst
    <3>1. redirected(i)[j].src = VRegOp(t)
      BY <2>1, <1>2, <1>4 DEF PendingCopy
    <3>2. Eval(redirected(i)[j].src, saved(i)) = env[di]
      BY <3>1, <1>1, <1>7 DEF Eval, VRegOp
    <3>3. Want(j) = env[di]
      BY <2>1, <1>3 DEF Deliverable, Eval, VRegOp
    <3> QED BY <3>2, <3>3
  <2>2. CASE copies[j].src # copies[i].dst
    <3>1. redirected(i)[j].src = copies[j].src
      BY <2>2, <1>4
    <3>2. copies[j].src # VRegOp(t)
      BY DEF NextIsFresh
    <3>3. Eval(copies[j].src, saved(i)) = Eval(copies[j].src, env)
      BY <3>2, <1>1, <1>2, <1>7, EvalFrame
    <3> QED BY <3>1, <3>3 DEF Deliverable
  <2> QED BY <2>1, <2>2
<1> HIDE DEF saved
<1> DEFINE x == Eval(redirected(i)[i].src, saved(i))
<1>9. x \in Vals /\ x = Want(i)
  BY <1>1, <1>5, <1>7, <1>8, EvalType DEF PendingCopy
<1> HIDE DEF x
<1>10. env' = [saved(i) EXCEPT ![di] = x] /\ env' \in [VReg -> Vals]
  BY <1>1, <1>7, <1>9 DEF x
<1>11. \A j \in Copy : Want(j)' = Want(j)
  BY <1>1 DEF Want, Eval
<1>12. TypeOK'
  BY <1>1, <1>3, <1>6, <1>10 DEF TypeOK
<1>13. DestinationsFixed'
  <2>1. orig' = orig
    BY <1>1
  <2>2. DestinationsFixed
    OBVIOUS
  <2> QED BY ONLY <2>1, <2>2, <1>6 DEF DestinationsFixed
<1>14. Delivered'
  <2> SUFFICES ASSUME NEW j \in Copy, copies'[j].done
               PROVE  env'[orig'[j].dst.id] = Want(j)'
    BY DEF Delivered
  <2>1. CASE j = i
    BY <2>1, <1>1, <1>3, <1>7, <1>9, <1>10, <1>11 DEF DestinationsFixed
  <2>2. CASE j # i
    <3>1. copies[j].done
      BY <2>2, <1>6
    <3>2. /\ orig[j].dst.id # di /\ orig[j].dst.id \in VReg
          /\ orig[j].dst.id # t
      BY <2>2, <1>2, <1>3, DestShape, FirstFreeAssumption DEF DestinationsFixed, NextIsFresh
    <3>3. env'[orig[j].dst.id] = env[orig[j].dst.id]
      BY <3>2, <1>7, <1>10 DEF saved
    <3> QED BY <3>1, <3>3, <1>1, <1>11 DEF Delivered
  <2> QED BY <2>1, <2>2
<1>15. Deliverable'
  <2> SUFFICES ASSUME NEW j \in Copy, ~copies'[j].done
               PROVE  Eval(copies'[j].src, env') = Want(j)'
    BY DEF Deliverable
  <2>1. ~copies[j].done /\ copies'[j].src = redirected(i)[j].src
    BY <1>6
  <2>2. redirected(i)[j].src \in Operand /\ redirected(i)[j].src # VRegOp(di)
    BY <2>1, <1>3, <1>5 DEF PendingCopy
  <2>3. Eval(redirected(i)[j].src, env') = Eval(redirected(i)[j].src, saved(i))
    <3> DEFINE o == redirected(i)[j].src
               e == saved(i)
    <3>1. o \in Operand /\ e \in [VReg -> Vals] /\ di \in VReg /\ x \in Vals /\ o # VRegOp(di)
      BY <2>2, <1>3, <1>7, <1>9
    <3> HIDE DEF o, e, di
    <3>2. Eval(o, [e EXCEPT ![di] = x]) = Eval(o, e)
      BY ONLY <3>1, EvalFrame
    <3> QED BY <3>2, <1>10 DEF o, e
  <2> QED BY <2>1, <2>3, <1>8, <1>11
<1>16. NextIsFresh'
  <2>1. FirstFree <= next_vreg'
    BY <1>1, <1>3, FirstFreeAssumption DEF NextIsFresh
  <2>2. ASSUME NEW j \in Copy, copies'[j].src.kind = "vreg"
        PROVE  copies'[j].src.id < next_vreg'
    <3>1. copies'[j].src = copies[j].src \/ copies'[j].src = VRegOp(t)
      BY <1>5, <1>6
    <3>2. CASE copies'[j].src = copies[j].src
      <4>1. copies[j].src.id < t /\ copies[j].src.id \in Nat
        BY <2>2, <3>2, <1>2, VRegAssumption DEF NextIsFresh, Operand, VRegOp, ConstOp
      <4> QED BY <4>1, <3>2, <1>1, <1>3
    <3>3. CASE copies'[j].src = VRegOp(t)
      BY <3>3, <1>1, <1>3 DEF VRegOp
    <3> QED BY <3>1, <3>2, <3>3
  <2>3. \A j \in Copy : copies'[j].src # VRegOp(next_vreg')
    BY <2>2, <1>12 DEF VRegOp, TypeOK
  <2> QED BY <2>1, <2>2, <2>3 DEF NextIsFresh
<1>17. RemainingCounts'
  <2>1. Pending' = Pending \ {i} /\ i \in Pending
    BY <1>1, <1>6 DEF Pending
  <2> QED BY <2>1, <1>1, PendingFinite, OneFewer DEF RemainingCounts
<1>18. BystandersUntouched'
  <2> SUFFICES ASSUME NEW v \in OldVReg, \A j \in Copy : orig[j].dst.id # v
               PROVE  env'[v] = env0[v]
    BY <1>1 DEF BystandersUntouched
  <2>1. v # di /\ v \in VReg
    BY DEF DestinationsFixed, OldVReg
  <2>2. v # t
    BY VRegAssumption, FirstFreeAssumption, <1>3 DEF OldVReg, NextIsFresh
  <2>3. env'[v] = env[v]
    BY <2>1, <2>2, <1>7, <1>10 DEF saved
  <2> QED BY <2>3 DEF BystandersUntouched
<1> QED
  BY <1>12, <1>13, <1>14, <1>15, <1>16, <1>17, <1>18

-----------------------------------------------------------------------------

\* The invariant holds throughout the loop.
THEOREM Inductive == Spec => []IInv
<1>1. IInv /\ [Next]_vars => IInv'
  <2> SUFFICES ASSUME IInv, [Next]_vars PROVE IInv'
    OBVIOUS
  <2>1. CASE EmitReady
    BY <2>1, EmitReadyIInv
  <2>2. CASE BreakCycle
    BY <2>2, BreakCycleIInv
  <2>3. CASE UNCHANGED vars
    BY <2>3 DEF vars, IInv, TypeOK, DestinationsFixed, Delivered, Deliverable, NextIsFresh,
                RemainingCounts, Pending, BystandersUntouched, Want, Eval
  <2> QED BY <2>1, <2>2, <2>3 DEF Next
<1> QED
  BY <1>1, InitIInv, PTL DEF Spec

\* Every variable keeps its type: in particular `remaining` never wraps
\* below zero, and every redirected source is an operand.
THEOREM TypeCorrect == Spec => []TypeOK
BY Inductive, PTL DEF IInv

\* The emitted sequence of MOVs has the effect of the parallel copy.
THEOREM ParallelCopyCorrect == Spec => []SequentialEqualsParallel
<1>1. IInv => SequentialEqualsParallel
  <2> SUFFICES ASSUME IInv, remaining = 0, NEW i \in Copy
               PROVE  env[orig[i].dst.id] = Want(i)
    BY DEF SequentialEqualsParallel
  <2>1. Pending = {}
    BY PendingFinite, FS_EmptySet DEF IInv, RemainingCounts
  <2> QED BY <2>1 DEF IInv, Delivered, Pending
<1> QED
  BY <1>1, Inductive, PTL

\* No register that existed before and is nobody's destination is written.
THEOREM BystandersSafe == Spec => []BystandersUntouched
BY Inductive, PTL DEF IInv

\* A destination that was delivered is not written again.
THEOREM DeliveredForGood == Spec => FinishedCopyStable
<1>1. IInv /\ IInv' /\ [Next]_vars =>
        [\A i \in Copy :
           copies[i].done => env'[copies[i].dst.id] = env[copies[i].dst.id]]_vars
  <2> SUFFICES ASSUME IInv, IInv', Next, NEW i \in Copy, copies[i].done
               PROVE  env'[copies[i].dst.id] = env[copies[i].dst.id]
    OBVIOUS
  <2>1. copies'[i].done /\ orig' = orig /\ env0' = env0
    <3>1. CASE EmitReady
      BY <3>1 DEF EmitReady, IInv, TypeOK, PendingCopy
    <3>2. CASE BreakCycle
      BY <3>2 DEF BreakCycle, Redirect, IInv, TypeOK, PendingCopy
    <3> QED BY <3>1, <3>2 DEF Next
  <2>2. Want(i)' = Want(i)
    BY <2>1 DEF Want, Eval
  <2> QED BY <2>1, <2>2 DEF IInv, Delivered, DestinationsFixed
<1> QED
  BY <1>1, Inductive, PTL DEF Spec, FinishedCopyStable
=============================================================================
