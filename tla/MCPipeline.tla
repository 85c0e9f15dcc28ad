----------------------------- MODULE MCPipeline -----------------------------
(***************************************************************************)
(* Pipeline on the procedures of Programs, each run with every choice of   *)
(* the first two parameters and two lists of what external procedures      *)
(* return.                                                                 *)
(***************************************************************************)
EXTENDS Pipeline

Samples == INSTANCE Programs

MCInlined == Samples!InlinedProcs
MCCorpus == Samples!All
MCCases == [params : {<<p, q, 3, 5, -2, 7>> : p \in {-8, -1, 0, 2}, q \in {-1, 0, 3}},
            input : {<<1, 0, 2, 0>>, <<15, 3, 3>>}]
=============================================================================
