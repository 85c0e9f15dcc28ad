------------------------------ MODULE Compilation ------------------------------
(***************************************************************************)
(* What a run of klang promises, whatever the others in its directory do:  *)
(* it exits 0 only after it has made its whole output, and however it      *)
(* exits nothing temporary of its own stays behind.  A run that is killed  *)
(* promises nothing, nor does one whose files others have spoiled.         *)
(***************************************************************************)
CONSTANT Jobs  \* runs of the compiler

VARIABLES
  dumping,   \* those that only print the intermediate representation
  outcome,   \* "running", "succeeded", "failed" or "killed"
  made,      \* what the job has written to its output: "nothing", "partial", "complete"
  litter,    \* it has a temporary file
  excused    \* something beyond it has spoiled a file it uses

vars == <<dumping, outcome, made, litter, excused>>

Init ==
  /\ dumping \subseteq Jobs
  /\ outcome = [j \in Jobs |-> "running"]
  /\ made = [j \in Jobs |-> "nothing"]
  /\ litter = [j \in Jobs |-> FALSE]
  /\ excused \in [Jobs -> BOOLEAN]

Writes(j) ==
  /\ \E what \in {"nothing", "partial", "complete"} : made' = [made EXCEPT ![j] = what]
  /\ \E spoiled \in BOOLEAN : excused' = [excused EXCEPT ![j] = spoiled]

\* The program a killed job had started goes on without it.
Work(j) ==
  /\ outcome[j] \in {"running", "killed"}
  /\ Writes(j)
  /\ \E temporary \in BOOLEAN : litter' = [litter EXCEPT ![j] = temporary]
  /\ UNCHANGED <<dumping, outcome>>

Exit(j) ==
  /\ outcome[j] = "running"
  /\ Writes(j)
  /\ litter' = [litter EXCEPT ![j] = FALSE]
  /\ \/ outcome' = [outcome EXCEPT ![j] = "failed"]
     \/ /\ j \in dumping \/ made'[j] = "complete" \/ excused'[j]
        /\ outcome' = [outcome EXCEPT ![j] = "succeeded"]
  /\ UNCHANGED dumping

Kill(j) ==
  /\ outcome[j] = "running"
  /\ outcome' = [outcome EXCEPT ![j] = "killed"]
  /\ UNCHANGED <<dumping, made, litter, excused>>

Next == \E j \in Jobs : Work(j) \/ Exit(j) \/ Kill(j)

Spec == Init /\ [][Next]_vars
=============================================================================
