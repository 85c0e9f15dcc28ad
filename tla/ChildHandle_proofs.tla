------------------------- MODULE ChildHandle_proofs -------------------------
(***************************************************************************)
(* Proofs about ChildHandle, for any set of pipes and any order of calls.  *)
(***************************************************************************)
EXTENDS ChildHandle, TLAPS

\* Every end of a pipe that is open has one owner, the handle or a File, and
\* what either of them names is open.
Ownership ==
  /\ fds \cap taken = {} /\ fds \subseteq DOMAIN number /\ taken \subseteq DOMAIN number
  /\ \A s \in DOMAIN number : number[s] = "end" <=> s \in fds \cup taken

\* The pid the handle holds is that of a child nobody has reaped.
PidIsLive == ~autoReap /\ pid => process \in {"running", "zombie"}

\* A handle without a pid has nothing else.
Released == ~pid => fds = {}

ReturnedOk == returned = "ok" => ~pid

Inv == TypeOK /\ Ownership /\ PidIsLive /\ Released /\ ReturnedOk
       /\ ClosesOnlyItsOwn /\ SignalsOnlyTheChildUnlessAutoReap

LEMMA InitInv == Init => Inv
  BY ReapingAssumption
  DEF Init, Inv, TypeOK, Ownership, PidIsLive, Released, ReturnedOk, ClosesOnlyItsOwn,
      SignalsOnlyTheChildUnlessAutoReap, SignalsOnlyTheChild

\* Closing what the handle or a File owns closes nothing else.
LEMMA CloseOwned ==
  ASSUME Inv, NEW S \in SUBSET (fds \cup taken), CloseNumbers(S)
  PROVE  /\ DOMAIN number' = DOMAIN number /\ ClosesOnlyItsOwn' /\ UNCHANGED killedOther
         /\ \A s \in DOMAIN number : number'[s] = IF s \in S THEN "free" ELSE number[s]
  BY DEF CloseNumbers, Inv, TypeOK, Ownership, ClosesOnlyItsOwn

LEMMA NextInv == Inv /\ [Next]_vars => Inv'
<1> SUFFICES ASSUME Inv, [Next]_vars PROVE Inv'
  OBVIOUS
<1> USE DEF Inv, TypeOK, Ownership, PidIsLive, Released, ReturnedOk,
            SignalsOnlyTheChildUnlessAutoReap, SignalsOnlyTheChild
<1>1. CASE WaitBegins
  <2>1. CloseNumbers(fds \cap {"stdin"})
    BY <1>1 DEF WaitBegins
  <2>2. /\ DOMAIN number' = DOMAIN number /\ ClosesOnlyItsOwn' /\ UNCHANGED killedOther
        /\ \A x \in DOMAIN number : number'[x] = IF x \in fds \cap {"stdin"} THEN "free" ELSE number[x]
        /\ closedOther' \in BOOLEAN
    BY <2>1, CloseOwned DEF CloseNumbers
  <2>3. QED
    BY <1>1, <2>2 DEF WaitBegins
<1>2. CASE WaitReaps
  <2>1. CloseNumbers(fds)
    BY <1>2 DEF WaitReaps, Reap
  <2>2. /\ DOMAIN number' = DOMAIN number /\ ClosesOnlyItsOwn' /\ UNCHANGED killedOther
        /\ \A x \in DOMAIN number : number'[x] = IF x \in fds THEN "free" ELSE number[x]
        /\ closedOther' \in BOOLEAN
    BY <2>1, CloseOwned DEF CloseNumbers
  <2>3. QED
    BY <1>2, <2>2 DEF WaitReaps, Reap
<1>3. CASE WaitFails
  BY <1>3 DEF WaitFails, ClosesOnlyItsOwn
<1>4. CASE TryWaitReaps
  <2>1. CloseNumbers(fds)
    BY <1>4 DEF TryWaitReaps, Reap
  <2>2. /\ DOMAIN number' = DOMAIN number /\ ClosesOnlyItsOwn' /\ UNCHANGED killedOther
        /\ \A x \in DOMAIN number : number'[x] = IF x \in fds THEN "free" ELSE number[x]
        /\ closedOther' \in BOOLEAN
    BY <2>1, CloseOwned DEF CloseNumbers
  <2>3. QED
    BY <1>4, <2>2 DEF TryWaitReaps, Reap
<1>5. CASE TryWaitFails
  BY <1>5 DEF TryWaitFails, ClosesOnlyItsOwn
<1>6. CASE kill
  BY <1>6 DEF kill, Signalled, ClosesOnlyItsOwn
<1>7. CASE Reuse
  BY <1>7 DEF Reuse, ClosesOnlyItsOwn
<1>8. CASE Exits
  BY <1>8 DEF Exits, ClosesOnlyItsOwn
<1>9. ASSUME NEW s, HandOut(s) PROVE Inv'
  BY <1>9 DEF HandOut, ClosesOnlyItsOwn
<1>10. ASSUME NEW s, FileClose(s) PROVE Inv'
  <2>1. CloseNumbers({s}) /\ {s} \in SUBSET (fds \cup taken)
    BY <1>10 DEF FileClose
  <2>2. /\ DOMAIN number' = DOMAIN number /\ ClosesOnlyItsOwn' /\ UNCHANGED killedOther
        /\ \A x \in DOMAIN number : number'[x] = IF x \in {s} THEN "free" ELSE number[x]
        /\ closedOther' \in BOOLEAN
    BY <2>1, CloseOwned DEF CloseNumbers
  <2>3. fds' = fds /\ taken' = taken \ {s} /\ s \in taken
        /\ UNCHANGED <<pc, kind, autoReap, pid, process, returned>>
    BY <1>10 DEF FileClose
  <2>4. TypeOK' /\ Ownership'
    BY <2>2, <2>3
  <2>5. QED
    BY <2>2, <2>3, <2>4
<1>11. CASE UNCHANGED vars
  BY <1>11 DEF vars, ClosesOnlyItsOwn
<1>12. QED
  BY <1>1, <1>2, <1>3, <1>4, <1>5, <1>6, <1>7, <1>8, <1>9, <1>10, <1>11 DEF Next, Wait

LEMMA Invariance == Spec => []Inv
  BY InitInv, NextInv, PTL DEF Spec

\* Handle, Files and the rest of the program keep their shape.
THEOREM HandleTypeCorrect == Spec => []TypeOK
<1>1. Inv => TypeOK
  BY DEF Inv
<1>2. QED
  BY Invariance, <1>1, PTL

\* The calls of Child and File, in any order, close only what is the child's.
THEOREM HandleClosesOnlyItsOwn == Spec => []ClosesOnlyItsOwn
<1>1. Inv => ClosesOnlyItsOwn
  BY DEF Inv
<1>2. QED
  BY Invariance, <1>1, PTL

\* Child.kill never signals a process that took over the child's pid, as long
\* as SIGCHLD is not ignored.
THEOREM KillReachesTheChild == Spec => []SignalsOnlyTheChildUnlessAutoReap
<1>1. Inv => SignalsOnlyTheChildUnlessAutoReap
  BY DEF Inv
<1>2. QED
  BY Invariance, <1>1, PTL

\* "A Child owns nothing after wait() reaps it": neither pid nor descriptors,
\* and every end still open is in a File the program took.
THEOREM ReapedOwnsNothing == Spec => []OwnsNothingOnceReaped
<1>1. Inv => OwnsNothingOnceReaped
  BY DEF Inv, TypeOK, Ownership, Released, ReturnedOk, OwnsNothingOnceReaped
<1>2. QED
  BY Invariance, <1>1, PTL
=============================================================================
