-------------------------------- MODULE Spawn --------------------------------
(***************************************************************************)
(* spawn_child of lib/std/process.kl: a child is forked with its streams   *)
(* connected, and the parent learns over a pipe whether it could exec.     *)
(*                                                                         *)
(* Parent and child each have a descriptor table.  A step of theirs is a   *)
(* system call or a run of calls on their own table that the other cannot  *)
(* tell apart.  An interrupted call is made again and so changes nothing.  *)
(***************************************************************************)
EXTENDS Integers, FiniteSetsExt, Sequences

CONSTANTS
  Limits,       \* how many descriptors a process may have
  Inherited,    \* sets of descriptors the parent may have open at first
  Redirections  \* kinds for the streams 0, 1 and 2

Streams == 0 .. 2
Pipes == 0 .. 3          \* those of the streams and err_pipe
ErrPipe == 3

ASSUME SpawnAssumption ==
  Limits \subseteq Nat /\ Redirections \subseteq [Streams -> {"inherit", "pipe", "file"}]

VARIABLES
  kind,        \* Redir.kind of each stream; "file" is NULL or FILE
  pc,          \* the parent: "pipe" (with next), "fork", "close", "result", "reap", "done"
  next,        \* the pipe the parent makes next
  fds,         \* parent and child's stdin_pipe, stdout_pipe, stderr_pipe, err_pipe
  result,      \* what spawn_child returns: "none" yet, a "child", or "failed"
  child,       \* "none", "setup" (with step), "fail", "image", "dead" or "reaped"
  step,        \* the stream the child redirects next
  table,       \* descriptor tables of "parent" and "child"
  table0,      \* history: the parent's table when it called
  reported,    \* an error number is in err_pipe
  fate         \* history: how the setup ended, "exec", "failed" or "killed"

vars == <<kind, pc, next, fds, result, child, step, table, table0, reported, fate>>
parent == <<pc, next, fds, result>>
childVars == <<child, step, fate>>

-----------------------------------------------------------------------------
(* A descriptor table as the calls of lib/std/sys/linux.kl see it.  It maps   *)
(* each number of the process's limit to what is open there; a call gives    *)
(* the lowest free number.                                                   *)

\* A number nothing is open under.
Free == [file |-> <<"none", 0>>, cloexec |-> FALSE]

Unused(t) == {fd \in DOMAIN t : t[fd] = Free}
IsOpen(t, fd) == fd \in DOMAIN t /\ t[fd] # Free

\* The table with `file` opened under the number open(2) returns, Min(Unused(t)).
Open(t, file, cloexec) == [t EXCEPT ![Min(Unused(t))] = [file |-> file, cloexec |-> cloexec]]

\* close(2); -1 and free numbers give EBADF.
Close(t, fd) == IF fd \in DOMAIN t THEN [t EXCEPT ![fd] = Free] ELSE t

CloseAll(t, S) == [fd \in DOMAIN t |-> IF fd \in S THEN Free ELSE t[fd]]

\* dup2(2) of an open number; one onto itself changes nothing, the flag included.
Dup2(t, old, new) ==
  IF old = new THEN t ELSE [t EXCEPT ![new] = [file |-> t[old].file, cloexec |-> FALSE]]

\* What is left after execve(2).
AfterExec(t) == [fd \in DOMAIN t |-> IF t[fd].cloexec THEN Free ELSE t[fd]]

Files(t) == {t[fd].file : fd \in {fd \in DOMAIN t : t[fd] # Free}}
-----------------------------------------------------------------------------
NoPipe == <<-1, -1>>
PipeEnd(p, end) == <<"pipe", p, end>>
Wanted(p) == p \in {ErrPipe} \cup {s \in Streams : kind[s] = "pipe"}

\* Numbers of the ends the child uses and the parent keeps.
ChildEnd(s) == fds[s][IF s = 0 THEN 1 ELSE 2]
ParentEnd(s) == fds[s][IF s = 0 THEN 2 ELSE 1]

Parent == table["parent"]
Child == table["child"]
Empty(t) == [fd \in DOMAIN t |-> Free]

-----------------------------------------------------------------------------
Init ==
  /\ kind \in Redirections
  /\ pc = "pipe" /\ next = 0 /\ result = "none"
  /\ fds = [p \in Pipes |-> NoPipe]
  /\ child = "none" /\ step = 0 /\ reported = FALSE /\ fate = "none"
  /\ \E limit \in Limits, open \in Inherited :
       table0 = [fd \in 0 .. limit - 1 |->
                   IF fd \in open THEN [file |-> <<"inherited", fd>>, cloexec |-> FALSE] ELSE Free]
  /\ table = [p \in {"parent", "child"} |-> IF p = "parent" THEN table0 ELSE Empty(table0)]

\* A stream that needs no pipe.
SkipPipe ==
  /\ pc = "pipe" /\ ~Wanted(next)
  /\ next' = next + 1
  /\ UNCHANGED <<kind, pc, fds, result, childVars, table, table0, reported>>

\* Faulty: pipe2 without O_CLOEXEC.
NoCloexec == FALSE

PipeCloexec == TRUE

\* pipe2 for one stream, or for err_pipe.
MakePipe ==
  /\ pc = "pipe" /\ Wanted(next) /\ Cardinality(Unused(Parent)) >= 2
  /\ LET r == Min(Unused(Parent))
         t == Open(Parent, PipeEnd(next, "read"), PipeCloexec)
     IN /\ fds' = [fds EXCEPT ![next] = <<r, Min(Unused(t))>>]
        /\ table' = [table EXCEPT !["parent"] = Open(t, PipeEnd(next, "write"), PipeCloexec)]
  /\ IF next = ErrPipe THEN pc' = "fork" /\ UNCHANGED next ELSE next' = next + 1 /\ UNCHANGED pc
  /\ UNCHANGED <<kind, result, childVars, table0, reported>>

\* Faulty: the pipes of the streams are forgotten.
CloseErrPipe == CloseAll(Parent, {fds[ErrPipe][1], fds[ErrPipe][2]})

close_spawn_pipes == CloseAll(Parent, UNION {{fds[p][1], fds[p][2]} : p \in Pipes})

\* pipe2 or fork fails, for whatever reason: what was made is closed again.
GiveUp ==
  /\ pc = "fork" \/ (pc = "pipe" /\ Wanted(next))
  /\ table' = [table EXCEPT !["parent"] = close_spawn_pipes]
  /\ pc' = "done" /\ result' = "failed"
  /\ UNCHANGED <<kind, next, fds, childVars, table0, reported>>

\* The child begins by closing its err_pipe[0].
Fork ==
  /\ pc = "fork"
  /\ table' = [table EXCEPT !["child"] = Close(Parent, fds[ErrPipe][1])]
  /\ child' = "setup" /\ pc' = "close"
  /\ UNCHANGED <<kind, next, fds, result, step, table0, reported, fate>>

\* The ends that are the child's.  Without err_pipe[1] closed, no end-of-file
\* would ever be read from err_pipe.
ChildsEnds == {ChildEnd(s) : s \in {s \in Streams : kind[s] = "pipe"}} \cup {fds[ErrPipe][2]}

CloseChildsEnds ==
  /\ pc = "close"
  /\ table' = [table EXCEPT !["parent"] = CloseAll(@, ChildsEnds)]
  /\ pc' = "result"
  /\ UNCHANGED <<kind, next, fds, result, childVars, table0, reported>>

\* exec_result_ok returns: an error number was read, or end-of-file because
\* nobody can write one any more.
EndOfFile == \A p \in DOMAIN table : PipeEnd(ErrPipe, "write") \notin Files(table[p])

\* Faulty: end-of-file is taken for a failure too.
EofIsFailure ==
  /\ pc = "result" /\ (reported \/ EndOfFile)
  /\ table' = [table EXCEPT !["parent"] = Close(@, fds[ErrPipe][1])]
  /\ reported' = FALSE
  /\ pc' = "reap" /\ UNCHANGED result
  /\ UNCHANGED <<kind, next, fds, childVars, table0>>

\* Faulty: at end-of-file read is called again.
EofIsRetried ==
  /\ pc = "result" /\ reported
  /\ table' = [table EXCEPT !["parent"] = Close(@, fds[ErrPipe][1])]
  /\ reported' = FALSE
  /\ pc' = "reap" /\ UNCHANGED result
  /\ UNCHANGED <<kind, next, fds, childVars, table0>>

exec_result_ok ==
  /\ pc = "result" /\ (reported \/ EndOfFile)
  /\ table' = [table EXCEPT !["parent"] = Close(@, fds[ErrPipe][1])]
  /\ reported' = FALSE
  /\ IF reported THEN pc' = "reap" /\ UNCHANGED result ELSE pc' = "done" /\ result' = "child"
  /\ UNCHANGED <<kind, next, fds, childVars, table0>>

\* wait_pid, and the ends the parent has kept for a Child.
ReapFailed ==
  /\ pc = "reap" /\ child = "dead"
  /\ child' = "reaped"
  /\ table' = [table EXCEPT !["parent"] = CloseAll(@, {ParentEnd(s) : s \in Streams})]
  /\ pc' = "done" /\ result' = "failed"
  /\ UNCHANGED <<kind, next, fds, step, table0, reported, fate>>

-----------------------------------------------------------------------------
\* dup2 onto the target, and the other number closed.
MoveTo(t, old, target) == IF old = target THEN t ELSE Close(Dup2(t, old, target), old)

\* What child_apply_stream may do to the child's table: tables with which it
\* goes on (ok) or calls child_fail.
child_apply_stream(t, s) ==
  CASE kind[s] = "inherit" -> {[ok |-> TRUE, t |-> t]}
    [] kind[s] = "pipe" ->
         LET mine == Close(t, ParentEnd(s))
         IN IF IsOpen(mine, ChildEnd(s)) THEN {[ok |-> TRUE, t |-> MoveTo(mine, ChildEnd(s), s)]}
            ELSE {[ok |-> FALSE, t |-> mine]}
    [] kind[s] = "file" ->
         {[ok |-> FALSE, t |-> t]} \cup
         {[ok |-> TRUE, t |-> Close(Dup2(Open(t, <<"file", s>>, FALSE), fd, s), fd)] :
            fd \in {fd \in Unused(t) : fd = Min(Unused(t))}}

\* chdir fails.
ChdirFails ==
  /\ child = "setup" /\ step = 0
  /\ child' = "fail"
  /\ UNCHANGED <<kind, parent, step, table, table0, reported, fate>>

ApplyStream ==
  /\ child = "setup" /\ step \in Streams
  /\ \E outcome \in child_apply_stream(Child, step) :
       /\ table' = [table EXCEPT !["child"] = outcome.t]
       /\ IF outcome.ok THEN step' = step + 1 /\ UNCHANGED child ELSE child' = "fail" /\ UNCHANGED step
  /\ UNCHANGED <<kind, parent, table0, reported, fate>>

Execve ==
  /\ child = "setup" /\ step \notin Streams
  /\ \/ child' = "image" /\ fate' = "exec" /\ table' = [table EXCEPT !["child"] = AfterExec(@)]
     \/ child' = "fail" /\ UNCHANGED <<table, fate>>
  /\ UNCHANGED <<kind, parent, step, table0, reported>>

\* The error number goes where err_fd leads, and the child exits.
child_fail ==
  /\ child = "fail"
  /\ reported' = (IsOpen(Child, fds[ErrPipe][2])
                  /\ Child[fds[ErrPipe][2]].file = PipeEnd(ErrPipe, "write"))
  /\ child' = "dead" /\ fate' = "failed" /\ table' = [table EXCEPT !["child"] = Empty(@)]
  /\ UNCHANGED <<kind, parent, step, table0>>

\* The program the child became ends.
ImageExits ==
  /\ child = "image"
  /\ child' = "dead" /\ table' = [table EXCEPT !["child"] = Empty(@)]
  /\ UNCHANGED <<kind, parent, step, table0, reported, fate>>

\* A signal ends the child while it is still being set up.
KilledEarly ==
  /\ child \in {"setup", "fail"}
  /\ child' = "dead" /\ fate' = "killed" /\ table' = [table EXCEPT !["child"] = Empty(@)]
  /\ UNCHANGED <<kind, parent, step, table0, reported>>

ParentStep == SkipPipe \/ MakePipe \/ GiveUp \/ Fork \/ CloseChildsEnds \/ exec_result_ok \/ ReapFailed
ChildStep == ChdirFails \/ ApplyStream \/ Execve \/ child_fail

Next == ParentStep \/ ChildStep \/ ImageExits \/ KilledEarly

Spec == Init /\ [][Next]_vars

\* The kernel runs both processes; the program in the child need not end.
FairSpec == Spec /\ WF_vars(ParentStep) /\ WF_vars(ChildStep)

-----------------------------------------------------------------------------
(* Properties. *)

\* A handle is returned only for a child that did exec, or that a signal ended
\* before it could; otherwise the caller is told, and no zombie is left.
ExecReported ==
  /\ result = "child" => fate \in {"exec", "killed"}
  /\ result = "failed" => child \in {"none", "reaped"} /\ fate \in {"none", "failed"}

\* The program in the child finds each stream where the command said, and
\* beyond the streams nothing but what the parent had: no end of a pipe stays
\* open in it, which would keep end-of-file from a reader.
StreamsConnected ==
  child = "image" =>
    \A fd \in DOMAIN Child :
      Child[fd].file =
        CASE fd \in Streams /\ kind[fd] = "pipe" -> PipeEnd(fd, IF fd = 0 THEN "read" ELSE "write")
          [] fd \in Streams /\ kind[fd] = "file" -> <<"file", fd>>
          [] OTHER -> table0[fd].file

\* On every way out the parent has what it had before, and the ends its handle
\* names, which are its only access to the pipes.
ParentKeepsOnlyHandle ==
  pc = "done" =>
    LET kept == {s \in Streams : kind[s] = "pipe" /\ result = "child"}
    IN \A fd \in DOMAIN Parent :
         Parent[fd].file =
           IF \E s \in kept : ParentEnd(s) = fd
           THEN LET s == CHOOSE s \in kept : ParentEnd(s) = fd
                IN PipeEnd(s, IF s = 0 THEN "write" ELSE "read")
           ELSE table0[fd].file

\* spawn_child comes back, whatever fails and whatever the program in the child
\* does with its life.
Returns == <>(pc = "done")
=============================================================================
