--------------------------- MODULE MCParallelCopy ---------------------------
(***************************************************************************)
(* Instance of ParallelCopy for TLC: four copies among five registers (so  *)
(* one register is always a bystander or only a source), three registers   *)
(* left for the pass to allocate, one more than it should ever need.  All  *)
(* registers hold different values: reading a wrong one always shows.      *)
(***************************************************************************)
EXTENDS ParallelCopy

MCVReg == 0..7
MCVals == 10..18
MCLiterals == {18}
MCEnvs == {[v \in MCVReg |-> 10 + v]}
=============================================================================
