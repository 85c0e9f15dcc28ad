---------------------------- MODULE MCAllocation ----------------------------
(***************************************************************************)
(* Allocation with two registers, one of them kept by calls, on every       *)
(* function of four registers that loops over two instructions.            *)
(***************************************************************************)
EXTENDS Allocation

R(v) == ir_op_vreg(v, 4, TRUE)
Four == 0 .. 3

Copies == {MOV(R(v), R(w)) : v, w \in Four} \ {MOV(R(v), R(v)) : v \in Four}
Sums == {Inst("ADD", R(v), R(v), R(w)) : v, w \in Four}
ExternalCalls == {CALL(R(v), "ext", <<R(w)>>) : v \in {1, 2}, w \in {0, 3}}
Instructions == Copies \cup Sums \cup ExternalCalls

Parameter(v, n) == Inst("PARAM", R(v), ir_op_const(n, 4, TRUE), ir_op_none)
Looping(body, last) ==
  [code |-> <<<<Parameter(0, 0), Parameter(1, 1), MOV(R(2), R(0)), MOV(R(3), ir_op_const(1, 4, TRUE)), JMP(2)>>,
              body \o <<BR(R(0), 2, 3)>>,
              <<CALL(ir_op_none, "ext", last), RET(ir_op_none)>>>>,
   order |-> <<1, 2, 3>>, vregs |-> 4, slots |-> <<>>, frame |-> 0, saved |-> {}, ret |-> 0]

MCFunctions == {Looping(<<first, second>>, last) : first, second \in Instructions,
                                                   last \in {<<R(1)>>, <<R(2), R(3)>>}}
MCCallerSavedFree == <<6>>
MCCalleeSaved == <<4>>
=============================================================================
