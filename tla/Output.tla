-------------------------------- MODULE Output --------------------------------
(***************************************************************************)
(* Command.output of lib/std/process.kl after the child is spawned: both   *)
(* of its pipes are drained with poll, closed, and the child is reaped.    *)
(*                                                                         *)
(* The child, and programs it starts that inherit its streams, write while *)
(* the parent drains.  Of the bytes only their number matters: a pipe is   *)
(* read in the order it was written.  An interrupted call is made again.   *)
(***************************************************************************)
EXTENDS Integers, FiniteSets

CONSTANTS
  Captures,    \* sets of streams connected to pipes, of "out" and "err"
  Programs,    \* the child's program and those it leaves behind
  Main,        \* the one that is the child
  Capacity,    \* bytes a pipe holds
  Chunk,       \* bytes read at once (buf)
  MaxWrites    \* bytes a program writes

ASSUME OutputAssumption ==
  /\ \A c \in Captures : c \subseteq {"out", "err"}
  /\ Main \in Programs
  /\ Capacity \in Nat \ {0} /\ Chunk \in Nat \ {0} /\ MaxWrites \in Nat

Streams == {"out", "err"}

VARIABLES
  captures,    \* the streams that are pipes
  pc,          \* "poll", "out", "err", "close", "wait" or "done"
  open,        \* out_open and err_open
  revents,     \* streams poll reported
  handle,      \* child.stdout_fd and stderr_fd that are not -1
  fdOpen,      \* those descriptors that are open
  out,         \* bytes in output.out and output.err
  drain_ok,    \* what drain_pair returned
  result,      \* what output returns: "none" yet, "ok" or "failed"
  pipe,        \* bytes in the pipes
  holds,       \* write ends each program has open
  left,        \* bytes each program may still write
  alive,       \* programs that run
  written,     \* history: bytes that went into the pipes
  refused      \* history: a program could not write, for want of a reader

vars == <<captures, pc, open, revents, handle, fdOpen, out, drain_ok, result,
          pipe, holds, left, alive, written, refused>>
programs == <<holds, left, alive, written, refused>>

\* All write ends of the pipe are closed.
AtEnd(s) == \A p \in Programs : s \notin holds[p]

-----------------------------------------------------------------------------
Init ==
  /\ captures \in Captures
  /\ pc = "poll" /\ open = captures /\ revents = {}
  /\ handle = captures /\ fdOpen = captures
  /\ out = [s \in Streams |-> 0] /\ drain_ok = TRUE /\ result = "none"
  /\ pipe = [s \in Streams |-> 0] /\ written = [s \in Streams |-> 0]
  /\ holds = [p \in Programs |-> captures]
  /\ left = [p \in Programs |-> MaxWrites] /\ alive = Programs /\ refused = FALSE

\* Faulty: poll is taken to be about all the streams it was asked about.
PollAny ==
  /\ pc = "poll" /\ \E s \in open : pipe[s] > 0 \/ AtEnd(s)
  /\ revents' = open
  /\ pc' = "out"
  /\ UNCHANGED <<captures, open, handle, fdOpen, out, drain_ok, result, pipe, programs>>

\* poll returns: something to read, or the end, on one stream at least.
Poll ==
  /\ pc = "poll" /\ open # {}
  /\ revents' = {s \in open : pipe[s] > 0 \/ AtEnd(s)} /\ revents' # {}
  /\ pc' = "out"
  /\ UNCHANGED <<captures, open, handle, fdOpen, out, drain_ok, result, pipe, programs>>

\* poll itself fails.
PollFails ==
  /\ pc = "poll" /\ open # {}
  /\ drain_ok' = FALSE /\ pc' = "close"
  /\ UNCHANGED <<captures, open, revents, handle, fdOpen, out, result, pipe, programs>>

AfterStream(s) == IF s = "out" THEN "err" ELSE "poll"

NotReady(s) ==
  /\ pc = s /\ s \notin revents
  /\ pc' = AfterStream(s)
  /\ UNCHANGED <<captures, open, revents, handle, fdOpen, out, drain_ok, result, pipe, programs>>

\* Faulty: a chunk is taken to be always full.
WholeChunk(s) == Chunk

Available(s) == IF pipe[s] < Chunk THEN pipe[s] ELSE Chunk

\* drain_chunk gets bytes and keeps them.
ReadChunk(s) ==
  /\ pc = s /\ s \in revents /\ pipe[s] > 0
  /\ pipe' = [pipe EXCEPT ![s] = @ - Available(s)]
  /\ out' = [out EXCEPT ![s] = @ + Available(s)]
  /\ pc' = AfterStream(s)
  /\ UNCHANGED <<captures, open, revents, handle, fdOpen, drain_ok, result, programs>>

\* Faulty: a pipe that is empty for the moment is taken for finished.
EndWhenEmpty(s) ==
  /\ pc = s /\ s \in open /\ pipe[s] = 0
  /\ open' = open \ {s} /\ fdOpen' = fdOpen \ {s}
  /\ pc' = AfterStream(s)
  /\ UNCHANGED <<captures, revents, handle, out, drain_ok, result, pipe, programs>>

\* drain_chunk at end-of-file closes the descriptor; handle is not told.
ReadEnd(s) ==
  /\ pc = s /\ s \in revents /\ pipe[s] = 0 /\ AtEnd(s)
  /\ open' = open \ {s} /\ fdOpen' = fdOpen \ {s}
  /\ pc' = AfterStream(s)
  /\ UNCHANGED <<captures, revents, handle, out, drain_ok, result, pipe, programs>>

\* The bytes read cannot be appended, or the read fails.
DrainFails(s) ==
  /\ pc = s /\ s \in revents
  /\ pipe' \in {pipe, [pipe EXCEPT ![s] = @ - Available(s)]}
  /\ drain_ok' = FALSE /\ pc' = "close"
  /\ UNCHANGED <<captures, open, revents, handle, fdOpen, out, result, programs>>

Drained ==
  /\ pc = "poll" /\ open = {}
  /\ pc' = "close"
  /\ UNCHANGED <<captures, open, revents, handle, fdOpen, out, drain_ok, result, pipe, programs>>

\* Faulty: the pipes are closed only if all went well.
CloseIfDrained ==
  /\ pc = "close"
  /\ handle' = (IF drain_ok THEN {} ELSE handle)
  /\ fdOpen' = (IF drain_ok THEN fdOpen \ handle ELSE fdOpen)
  /\ pc' = "wait"
  /\ UNCHANGED <<captures, open, revents, out, drain_ok, result, pipe, programs>>

close_pipes ==
  /\ pc = "close"
  /\ handle' = {} /\ fdOpen' = fdOpen \ handle
  /\ pc' = "wait"
  /\ UNCHANGED <<captures, open, revents, out, drain_ok, result, pipe, programs>>

ResultOf(drained, waited) == IF drained /\ waited THEN "ok" ELSE "failed"

\* wait_pid; it fails where the kernel reaps children by itself.
Wait ==
  /\ pc = "wait" /\ Main \notin alive
  /\ \E wait_ok \in BOOLEAN : result' = ResultOf(drain_ok, wait_ok)
  /\ pc' = "done"
  /\ UNCHANGED <<captures, open, revents, handle, fdOpen, out, drain_ok, pipe, programs>>

-----------------------------------------------------------------------------
\* A program writes a byte and goes on; while the pipe is full it has to wait.
Write(p, s) ==
  /\ p \in alive /\ s \in holds[p] /\ left[p] > 0
  /\ s \in fdOpen /\ pipe[s] < Capacity
  /\ pipe' = [pipe EXCEPT ![s] = @ + 1] /\ written' = [written EXCEPT ![s] = @ + 1]
  /\ left' = [left EXCEPT ![p] = @ - 1]
  /\ UNCHANGED <<captures, pc, open, revents, handle, fdOpen, out, drain_ok, result, holds, alive, refused>>

\* Nobody reads any more: the program gets an error and goes on, or SIGPIPE.
WriteBroken(p, s) ==
  /\ p \in alive /\ s \in holds[p] /\ left[p] > 0 /\ s \notin fdOpen
  /\ left' = [left EXCEPT ![p] = @ - 1] /\ refused' = TRUE
  /\ \/ UNCHANGED <<holds, alive>>
     \/ alive' = alive \ {p} /\ holds' = [holds EXCEPT ![p] = {}]
  /\ UNCHANGED <<captures, pc, open, revents, handle, fdOpen, out, drain_ok, result, pipe, written>>

CloseStream(p, s) ==
  /\ p \in alive /\ s \in holds[p]
  /\ holds' = [holds EXCEPT ![p] = @ \ {s}]
  /\ UNCHANGED <<captures, pc, open, revents, handle, fdOpen, out, drain_ok, result, pipe, left, alive, written, refused>>

\* A program that has nothing left to write ends, or a signal ends it.
Exit(p) ==
  /\ p \in alive
  /\ alive' = alive \ {p} /\ holds' = [holds EXCEPT ![p] = {}]
  /\ UNCHANGED <<captures, pc, open, revents, handle, fdOpen, out, drain_ok, result, pipe, left, written, refused>>

output ==
  \/ Poll \/ Drained \/ close_pipes \/ Wait
  \/ \E s \in Streams : NotReady(s) \/ ReadChunk(s) \/ ReadEnd(s) \/ DrainFails(s)

Runs(p) == \E s \in Streams : Write(p, s) \/ WriteBroken(p, s)

\* The system need not fail poll, so that output may not count on it.
Next == output \/ PollFails \/ \E p \in Programs : Runs(p) \/ Exit(p) \/ \E s \in Streams : CloseStream(p, s)

Spec == Init /\ [][Next]_vars

\* A program makes progress unless it has to wait for a full pipe, and ends when
\* it has nothing left to write or nowhere to write it.
FairSpec ==
  /\ Spec /\ WF_vars(output)
  /\ \A p \in Programs : WF_vars(Runs(p)) /\ WF_vars((left[p] = 0 \/ holds[p] = {}) /\ Exit(p))

-----------------------------------------------------------------------------
(* Properties. *)

\* The variables have their types.
TypeOK ==
  /\ captures \in Captures
  /\ pc \in {"poll", "out", "err", "close", "wait", "done"}
  /\ open \subseteq captures /\ revents \subseteq captures
  /\ handle \subseteq captures /\ fdOpen \subseteq captures
  /\ out \in [Streams -> Nat] /\ pipe \in [Streams -> Nat] /\ written \in [Streams -> Nat]
  /\ drain_ok \in BOOLEAN /\ result \in {"none", "ok", "failed"}
  /\ holds \in [Programs -> SUBSET captures]
  /\ left \in [Programs -> Nat] /\ alive \subseteq Programs /\ refused \in BOOLEAN

\* A successful result holds everything that was ever written, by the child and
\* by the programs it left behind, however they interleaved, and none of them
\* found the pipe without a reader.
CapturedAll ==
  result = "ok" => ~refused /\ \A s \in captures : out[s] = written[s]

\* Whatever poll reported, the read it leads to does not block: a drain that
\* waits on one pipe while the child waits on the other would be stuck.
ReadsNeverBlock == pc \in revents => pipe[pc] > 0 \/ AtEnd(pc)

\* output returns, whatever fails, if the programs end once they can write.
Returns == <>(pc = "done")
=============================================================================
