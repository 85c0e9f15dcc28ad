---------------------------- MODULE Output_proofs ----------------------------
(***************************************************************************)
(* Proofs about Output for any programs, any sizes of pipe and buffer, and *)
(* any number of bytes written.                                            *)
(***************************************************************************)
EXTENDS Output, TLAPS

Draining == pc \in {"poll", "out", "err"}

\* Descriptors are closed by the drain exactly as it stops watching them, and
\* only at the end of what the pipe had to give.
Closing ==
  /\ Draining => drain_ok /\ open = fdOpen
  /\ drain_ok => \A s \in captures \ fdOpen : AtEnd(s) /\ pipe[s] = 0
  /\ ~Draining /\ drain_ok => fdOpen = {}

\* Until the drain fails nothing is lost between the writers and the buffers.
Balance ==
  drain_ok => ~refused /\ \A s \in captures : out[s] + pipe[s] = written[s]

\* What poll reported stays true until the stream's turn.
Ready ==
  \A s \in revents :
    pc \in {"out", s} /\ pc # "poll" => s \in open /\ (pipe[s] > 0 \/ AtEnd(s))

Settled == result = "ok" => drain_ok /\ pc = "done"

Inv == TypeOK /\ Closing /\ Balance /\ Ready /\ Settled

\* Only the two output streams are ever captured.
LEMMA CapturedStreams == captures \in Captures => captures \subseteq Streams
  BY OutputAssumption DEF Streams

LEMMA InitInv == Init => Inv
<1> SUFFICES ASSUME Init PROVE Inv
  OBVIOUS
<1>1. captures \subseteq Streams /\ MaxWrites \in Nat
  BY CapturedStreams, OutputAssumption DEF Init
<1>2. TypeOK
  BY <1>1 DEF Init, TypeOK
<1>3. Closing /\ Balance /\ Ready /\ Settled
  BY <1>1 DEF Init, Closing, Draining, Balance, Ready, Settled
<1>4. QED
  BY <1>2, <1>3 DEF Inv

\* One step per action; the programs' actions follow the parent's.
LEMMA NextInv == Inv /\ [Next]_vars => Inv'
<1> SUFFICES ASSUME Inv, [Next]_vars PROVE Inv'
  OBVIOUS
<1> USE OutputAssumption
<1> USE DEF Inv, TypeOK, Streams
<1>1. CASE Poll
  BY <1>1 DEF Poll, programs, Closing, Draining, Balance, Ready, Settled, AtEnd
<1>2. CASE Drained
  BY <1>2 DEF Drained, programs, Closing, Draining, Balance, Ready, Settled, AtEnd
<1>3. CASE close_pipes
  BY <1>3 DEF close_pipes, programs, Closing, Draining, Balance, Ready, Settled, AtEnd
<1>4. CASE Wait
  BY <1>4 DEF Wait, ResultOf, programs, Closing, Draining, Balance, Ready, Settled, AtEnd
<1>5. ASSUME NEW s \in Streams, NotReady(s) PROVE Inv'
  BY <1>5 DEF NotReady, AfterStream, programs, Closing, Draining, Balance, Ready, Settled, AtEnd
<1>6. ASSUME NEW s \in Streams, ReadChunk(s) PROVE Inv'
  <2>1. Available(s) \in Nat /\ Available(s) <= pipe[s]
    BY DEF Available
  <2>2. TypeOK'
    BY <1>6, <2>1 DEF ReadChunk, AfterStream, programs
  <2>3. Closing'
    BY <1>6, <2>1 DEF ReadChunk, AfterStream, programs, Closing, Draining, AtEnd, Ready
  <2>4. Balance'
    BY <1>6, <2>1, CapturedStreams DEF ReadChunk, programs, Balance
  <2>5. Ready' /\ Settled'
    BY <1>6, <2>1 DEF ReadChunk, AfterStream, programs, Ready, Settled, AtEnd
  <2>6. QED
    BY <2>2, <2>3, <2>4, <2>5
<1>7. ASSUME NEW s \in Streams, ReadEnd(s) PROVE Inv'
  BY <1>7 DEF ReadEnd, AfterStream, programs, Closing, Draining, Balance, Ready, Settled, AtEnd
<1>8. ASSUME NEW s \in Streams, DrainFails(s) PROVE Inv'
  <2>1. pipe' \in [Streams -> Nat]
    BY <1>8 DEF DrainFails, Available
  <2>2. QED
    BY <1>8, <2>1 DEF DrainFails, programs, Closing, Draining, Balance, Ready, Settled
<1>9. ASSUME NEW p \in Programs, NEW s \in Streams, Write(p, s) PROVE Inv'
  BY <1>9 DEF Write, Closing, Draining, Balance, Ready, Settled, AtEnd
<1>10. ASSUME NEW p \in Programs, NEW s \in Streams, WriteBroken(p, s) PROVE Inv'
  BY <1>10 DEF WriteBroken, Closing, Draining, Balance, Ready, Settled, AtEnd
<1>11. ASSUME NEW p \in Programs, NEW s \in Streams, CloseStream(p, s) PROVE Inv'
  BY <1>11 DEF CloseStream, Closing, Draining, Balance, Ready, Settled, AtEnd
<1>12. ASSUME NEW p \in Programs, Exit(p) PROVE Inv'
  BY <1>12 DEF Exit, Closing, Draining, Balance, Ready, Settled, AtEnd
<1>13. CASE UNCHANGED vars
  BY <1>13 DEF vars, Closing, Draining, Balance, Ready, Settled, AtEnd
<1>14. CASE PollFails
  BY <1>14 DEF PollFails, programs, Closing, Draining, Balance, Ready, Settled, AtEnd
<1>15. QED
  BY <1>1, <1>2, <1>3, <1>4, <1>5, <1>6, <1>7, <1>8, <1>9, <1>10, <1>11, <1>12, <1>13, <1>14
  DEF Next, output, Runs

LEMMA Invariance == Spec => []Inv
  BY InitInv, NextInv, PTL DEF Spec

\* The variables have their types in every run of Command.output.
THEOREM OutputTypeCorrect == Spec => []TypeOK
<1>1. Inv => TypeOK
  BY DEF Inv
<1>2. QED
  BY Invariance, <1>1, PTL

\* Command.output never returns a part of the output as if it were the whole:
\* a result that is "ok" has every byte written to the captured streams.
THEOREM OutputIsComplete == Spec => []CapturedAll
<1>1. Inv => CapturedAll
  BY CapturedStreams DEF Inv, TypeOK, Streams, Settled, Closing, Draining, Balance, CapturedAll
<1>2. QED
  BY Invariance, <1>1, PTL

\* The reads of drain_pair never block, so the parent is only ever held up in
\* poll, which watches both pipes.
THEOREM DrainNeverBlocks == Spec => []ReadsNeverBlock
<1>1. Inv => ReadsNeverBlock
  BY CapturedStreams DEF Inv, TypeOK, Streams, Ready, ReadsNeverBlock
<1>2. QED
  BY Invariance, <1>1, PTL
=============================================================================
