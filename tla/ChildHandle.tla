----------------------------- MODULE ChildHandle -----------------------------
(***************************************************************************)
(* Child of lib/std/process.kl, the handle Command.spawn returns, in the   *)
(* hands of a program that waits for, polls, signals the child, takes its  *)
(* pipe ends out of the handle, and meanwhile opens other files and starts *)
(* other processes: those get the numbers this child no longer has.        *)
(***************************************************************************)
EXTENDS Integers, FiniteSets

CONSTANTS
  Piped,        \* sets of streams that have a pipe, of "stdin", "stdout", "stderr"
  Children,     \* what the child may be like: "reader" of its stdin to the end, or "any"
  Reaping       \* of BOOLEAN: TRUE where SIGCHLD is ignored and the kernel reaps

ASSUME ReapingAssumption == Reaping \subseteq BOOLEAN

VARIABLES
  pc,           \* the program: "free" or inside "wait"
  kind,         \* the child: one of Children
  autoReap,     \* one of Reaping
  pid,          \* the handle's pid is the child's (TRUE) or -1
  fds,          \* streams whose descriptor the handle names
  taken,        \* streams whose descriptor a File of the program names
  number,       \* what each stream's descriptor number means: its pipe "end",
                \* nothing ("free"), or another file of the program
  process,      \* what the child's pid means: "running", "zombie", "gone", or
                \* another process of the program
  returned,     \* what the last wait or try_wait returned: "none", "ok" or "failed"
  closedOther,  \* history: a file of the program that is not the child's was closed
  killedOther   \* history: a process that is not the child was signalled

vars == <<pc, kind, autoReap, pid, fds, taken, number, process, returned, closedOther, killedOther>>

\* close(2) of these numbers, as the handle or a File does.
CloseNumbers(S) ==
  /\ number' = [s \in DOMAIN number |-> IF s \in S THEN "free" ELSE number[s]]
  /\ closedOther' = (closedOther \/ \E s \in S : number[s] = "other")
  /\ UNCHANGED killedOther

-----------------------------------------------------------------------------
\* What spawn_child returned.
Init ==
  /\ pc = "free" /\ kind \in Children /\ autoReap \in Reaping /\ pid = TRUE
  /\ fds \in Piped /\ taken = {}
  /\ number = [s \in fds |-> "end"]
  /\ process = "running" /\ returned = "none"
  /\ closedOther = FALSE /\ killedOther = FALSE

\* Faulty: the pipes are closed when the child is gone, the child's stdin too.
WaitKeepsStdin ==
  /\ pc = "free" /\ pid
  /\ pc' = "wait"
  /\ UNCHANGED <<kind, autoReap, pid, fds, taken, number, process, returned, closedOther, killedOther>>

\* wait begins by closing the child's stdin.
WaitBegins ==
  /\ pc = "free" /\ pid
  /\ CloseNumbers(fds \cap {"stdin"}) /\ fds' = fds \ {"stdin"}
  /\ pc' = "wait"
  /\ UNCHANGED <<kind, autoReap, pid, taken, process, returned>>

\* Faulty: the pid is kept in the handle.
ReapKeepsPid == process' = "gone" /\ UNCHANGED pid

\* wait4 has the status: the handle gives up all it has.
Reap == process' = "gone" /\ pid' = FALSE

WaitReaps ==
  /\ pc = "wait" /\ process = "zombie"
  /\ Reap
  /\ CloseNumbers(fds) /\ fds' = {}
  /\ pc' = "free" /\ returned' = "ok"
  /\ UNCHANGED <<kind, autoReap, taken>>

\* ECHILD: there is no child of that pid.
WaitFails ==
  /\ pc = "wait" /\ process \in {"gone", "other"}
  /\ pc' = "free" /\ returned' = "failed"
  /\ UNCHANGED <<kind, autoReap, pid, fds, taken, number, process, closedOther, killedOther>>

TryWaitReaps ==
  /\ pc = "free" /\ pid /\ process = "zombie"
  /\ Reap
  /\ CloseNumbers(fds) /\ fds' = {}
  /\ returned' = "ok"
  /\ UNCHANGED <<pc, kind, autoReap, taken>>

TryWaitFails ==
  /\ pc = "free" /\ pid /\ process # "zombie"
  /\ returned' = "failed"
  /\ UNCHANGED <<pc, kind, autoReap, pid, fds, taken, number, process, closedOther, killedOther>>

Signalled == {process} \cup {p \in {IF autoReap THEN "gone" ELSE "zombie"} : process = "running"}

\* Faulty: pid is not looked at; with -1 every process there is gets the signal.
KillUnchecked ==
  /\ pc = "free"
  /\ killedOther' = (killedOther \/ ~pid \/ process = "other") /\ process' \in Signalled
  /\ UNCHANGED <<pc, kind, autoReap, pid, fds, taken, number, returned, closedOther>>

\* The signal may end the child.
kill ==
  /\ pc = "free" /\ pid
  /\ killedOther' = (killedOther \/ process = "other") /\ process' \in Signalled
  /\ UNCHANGED <<pc, kind, autoReap, pid, fds, taken, number, returned, closedOther>>

\* Faulty: a File is made of a descriptor there is not.
HandOutAny(s) ==
  /\ pc = "free"
  /\ fds' = fds \ {s} /\ taken' = taken \cup {s}
  /\ UNCHANGED <<pc, kind, autoReap, pid, number, process, returned, closedOther, killedOther>>

\* Faulty: the handle keeps the descriptor, too.
HandOutCopy(s) ==
  /\ pc = "free" /\ s \in fds
  /\ taken' = taken \cup {s}
  /\ UNCHANGED <<pc, kind, autoReap, pid, fds, number, process, returned, closedOther, killedOther>>

\* stdin(), stdout() and stderr() hand the descriptor out.
HandOut(s) ==
  /\ pc = "free" /\ s \in fds
  /\ fds' = fds \ {s} /\ taken' = taken \cup {s}
  /\ UNCHANGED <<pc, kind, autoReap, pid, number, process, returned, closedOther, killedOther>>

FileClose(s) ==
  /\ pc = "free" /\ s \in taken
  /\ CloseNumbers({s}) /\ taken' = taken \ {s}
  /\ UNCHANGED <<pc, kind, autoReap, pid, fds, process, returned>>

-----------------------------------------------------------------------------
\* The program opens a file or starts a process, which gets a number that is
\* free; later it may be done with it.
Reuse ==
  /\ pc = "free"
  /\ \/ \E s \in DOMAIN number : number[s] = "free" /\ number' = [number EXCEPT ![s] = "other"]
                                 /\ UNCHANGED process
     \/ process = "gone" /\ process' = "other" /\ UNCHANGED number
  /\ UNCHANGED <<pc, kind, autoReap, pid, fds, taken, returned, closedOther, killedOther>>

StdinEnded == \A s \in {"stdin"} \cap DOMAIN number : number[s] # "end"

Exits ==
  /\ process = "running" /\ (kind = "reader" => StdinEnded)
  /\ process' = (IF autoReap THEN "gone" ELSE "zombie")
  /\ UNCHANGED <<pc, kind, autoReap, pid, fds, taken, number, returned, closedOther, killedOther>>

Wait == WaitReaps \/ WaitFails

Next ==
  \/ WaitBegins \/ Wait \/ TryWaitReaps \/ TryWaitFails \/ kill \/ Reuse \/ Exits
  \/ \E s \in {"stdin", "stdout", "stderr"} : HandOut(s) \/ FileClose(s)

Spec == Init /\ [][Next]_vars

\* The child runs, and a call of wait goes on when it can.
FairSpec == Spec /\ WF_vars(Exits) /\ WF_vars(Wait)

-----------------------------------------------------------------------------
(* Properties. *)

\* The variables have their types.
TypeOK ==
  /\ pc \in {"free", "wait"} /\ kind \in Children
  /\ {pid, autoReap, closedOther, killedOther} \subseteq BOOLEAN
  /\ fds \subseteq DOMAIN number /\ taken \subseteq DOMAIN number
  /\ \A s \in DOMAIN number : number[s] \in {"end", "free", "other"}
  /\ process \in {"running", "zombie", "gone", "other"}
  /\ returned \in {"none", "ok", "failed"}

\* Whatever the order of calls, the handle and the Files never close a file of
\* the program that took over one of their numbers.
ClosesOnlyItsOwn == ~closedOther

\* kill reaches the child or nobody, whatever other processes come and go.
SignalsOnlyTheChild == ~killedOther

\* That is so where the kernel keeps the pid of a child until it is waited for.
SignalsOnlyTheChildUnlessAutoReap == autoReap \/ SignalsOnlyTheChild

\* A handle that was waited for successfully owns nothing, and the only ends
\* still open are those the program took.
OwnsNothingOnceReaped ==
  returned = "ok" => ~pid /\ fds = {} /\ \A s \in DOMAIN number : number[s] = "end" => s \in taken

\* wait returns if the child ends when its input does, unless the program has
\* taken the child's stdin and does not close it.
WaitReturns == (pc = "wait" /\ "stdin" \notin taken) ~> pc = "free"
=============================================================================
