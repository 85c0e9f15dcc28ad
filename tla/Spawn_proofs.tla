---------------------------- MODULE Spawn_proofs ----------------------------
(***************************************************************************)
(* Proofs about Spawn, for any limit of descriptors and any redirections,  *)
(* in every interleaving of parent and child.                              *)
(*                                                                         *)
(* The pipes get numbers that were free in the parent: its table is what   *)
(* it had at first with some ends of pipes added, whatever the child does. *)
(* In a parent whose own streams are open these numbers are no streams,    *)
(* and then the child's table is that with the streams redirected so far.  *)
(***************************************************************************)
EXTENDS Spawn, FiniteSetsExt, FiniteSetTheorems, WellFoundedInduction, TLAPS

\* A set of naturals has a least element: the sets of what is below one of its
\* elements are finite, and so one of them is the smallest.
LEMMA MinOfNaturals ==
  ASSUME NEW S \in SUBSET Nat, S # {}
  PROVE Min(S) \in S /\ \A y \in S : Min(S) =< y
<1> DEFINE below(x) == {y \in Nat : y \in S /\ y < x}
           segments == {below(x) : x \in S}
<1>0. \A x \in S : x \in Nat
  OBVIOUS
<1>1. segments \subseteq FiniteSubsetsOf(Nat) /\ segments # {}
  <2> SUFFICES ASSUME NEW x \in S PROVE below(x) \subseteq Nat /\ IsFiniteSet(below(x))
    BY DEF FiniteSubsetsOf
  <2>0. x \in Nat
    BY <1>0
  <2>1. below(x) \in SUBSET Nat /\ \A y \in below(x) : y <= x
    BY <2>0
  <2> HIDE DEF below
  <2> QED
    BY <2>0, <2>1, FS_BoundedSetOfNaturals
<1>2. PICK T \in segments : \A U \in segments : ~(<<U, T>> \in StrictSubsetOrdering(Nat))
  <2> HIDE DEF segments
  <2> QED
    BY <1>1, FS_StrictSubsetOrderingWellFounded, WFMin
<1>3. PICK x \in S : T = below(x)
  OBVIOUS
<1>4. \A y \in S : x =< y
  <2> SUFFICES ASSUME NEW y \in S, ~(x =< y) PROVE FALSE
    OBVIOUS
  <2>0. x \in Nat /\ y \in Nat /\ y < x
    BY <1>0
  <2>1. below(y) \subseteq below(x) /\ y \in below(x) /\ y \notin below(y)
    BY <2>0
  <2>2. <<below(y), below(x)>> \in StrictSubsetOrdering(Nat)
    BY <2>1 DEF StrictSubsetOrdering
  <2> QED
    BY <1>2, <1>3, <2>2
<1> QED
  BY <1>4 DEF Min

\* Without this, ends of pipes can get the numbers 0, 1 and 2, which the child
\* redirects, and ExecReported is violated.
StreamsOpen == \A open \in Inherited : Streams \subseteq open

\* Ends of the pipes f that were made, as pairs of a pipe and 1 or 2.
Made(f) == {p \in Pipes : f[p] # NoPipe}
Ends(f) == Made(f) \X {1, 2}
Number(f, x) == f[x[1]][x[2]]
EndFile(x) == PipeEnd(x[1], IF x[2] = 1 THEN "read" ELSE "write")
ChildsEnd(s) == <<s, IF s = 0 THEN 1 ELSE 2>>
ParentsEnd(s) == <<s, IF s = 0 THEN 2 ELSE 1>>
Piped(k) == {s \in Streams : k[s] = "pipe"}
WantedPipes == {p \in Pipes : Wanted(p)}

\* The parent's table at first.
Initially(t0) ==
  /\ \E limit \in Nat : DOMAIN t0 = 0 .. limit - 1
  /\ \A fd \in DOMAIN t0 : t0[fd].cloexec = FALSE

StreamsTaken(t0) == \A s \in Streams : s \in DOMAIN t0 => t0[s] # Free

\* The ends have numbers of their own, which the parent did not use.
Numbered(f, t0) ==
  /\ f \in [Pipes -> Int \X Int]
  /\ \A x \in Ends(f) : Number(f, x) \in DOMAIN t0 /\ t0[Number(f, x)] = Free
  /\ \A x, y \in Ends(f) : Number(f, x) = Number(f, y) => x = y

\* A table with the ends E open beyond what the parent had; of a child, with the
\* streams below n redirected.
Redirected(t0, k, s) ==
  CASE k[s] = "inherit" -> t0[s]
    [] k[s] = "pipe" -> [file |-> EndFile(ChildsEnd(s)), cloexec |-> FALSE]
    [] k[s] = "file" -> [file |-> <<"file", s>>, cloexec |-> FALSE]

Holds(t, t0, f, k, E, n) ==
  /\ DOMAIN t = DOMAIN t0
  /\ \A x \in E : t[Number(f, x)] = [file |-> EndFile(x), cloexec |-> TRUE]
  /\ \A fd \in DOMAIN t0 : (\A x \in E : Number(f, x) # fd) =>
       t[fd] = IF fd \in Streams /\ fd < n THEN Redirected(t0, k, fd) ELSE t0[fd]

ParentsEnds(k) == {ParentsEnd(s) : s \in Piped(k)}

\* What the parent has open.
ParentOpen ==
  CASE pc \in {"pipe", "fork", "close"} -> Ends(fds)
    [] pc = "result" -> ParentsEnds(kind) \cup {<<ErrPipe, 1>>}
    [] pc = "reap" -> ParentsEnds(kind)
    [] OTHER -> IF result = "child" THEN ParentsEnds(kind) ELSE {}

\* What the child still has to move to its streams, and where it reports.
ChildOpen(f, n) == {x \in Ends(f) : x[1] >= n} \ {<<ErrPipe, 1>>}

Reporting == [file |-> PipeEnd(ErrPipe, "write"), cloexec |-> TRUE]

\* How far the parent is, and what it has open.
ParentControl ==
  /\ kind \in [Streams -> {"inherit", "pipe", "file"}] /\ next \in Pipes
  /\ pc \in {"pipe", "fork", "close", "result", "reap", "done"}
  /\ result \in {"none", "child", "failed"}
  /\ pc # "done" <=> result = "none"

\* The pipes of the streams are made in order, and then err_pipe.
PipesMade ==
  /\ pc = "pipe" => Made(fds) = {p \in WantedPipes : p < next}
  /\ pc \in {"fork", "close", "result", "reap"} \/ result = "child" => Made(fds) = WantedPipes

ParentTable ==
  DOMAIN table = {"parent", "child"} /\ Holds(Parent, table0, fds, kind, ParentOpen, 0)

ParentInv ==
  Initially(table0) /\ Numbered(fds, table0) /\ ParentControl /\ PipesMade /\ ParentTable

\* How far the child is, and what is in err_pipe.
ChildControl ==
  /\ step \in 0 .. 3 /\ reported \in BOOLEAN
  /\ pc \in {"pipe", "fork"} => child = "none" /\ fate = "none" /\ ~reported /\ step = 0
  /\ pc \in {"close", "result"} =>
       \/ child \in {"setup", "fail"} /\ fate = "none" /\ ~reported
       \/ child = "image" /\ fate = "exec" /\ ~reported
       \/ child = "dead" /\ fate \in {"exec", "failed", "killed"} /\ (reported <=> fate = "failed")
  /\ pc = "reap" => child = "dead" /\ fate = "failed" /\ ~reported
  /\ result = "child" => child \in {"image", "dead"} /\ fate \in {"exec", "killed"}
  /\ result = "failed" => \/ child = "none" /\ fate = "none"
                          \/ child = "reaped" /\ fate = "failed"

ChildTable ==
  /\ DOMAIN Child = DOMAIN table0
  /\ child = "setup" => Holds(Child, table0, fds, kind, ChildOpen(fds, step), step)
  /\ child = "fail" => Child[fds[ErrPipe][2]] = Reporting

ChildInv == StreamsTaken(table0) /\ ChildControl /\ ChildTable /\ StreamsConnected

Inv == ParentInv /\ ChildInv
-----------------------------------------------------------------------------
(* Tables. *)

LEMMA NotFree == \A x : Free.file # EndFile(x)
<1> SUFFICES ASSUME NEW x PROVE Free.file # EndFile(x)
  OBVIOUS
<1>1. EndFile(x)[1] = "pipe" /\ Free.file[1] = "none"
  BY DEF EndFile, PipeEnd, Free
<1> QED
  BY <1>1

\* Closing ends leaves the others.
LEMMA Closes ==
  ASSUME NEW t, NEW t0, NEW f, NEW k, NEW E \in SUBSET Ends(f),
         Numbered(f, t0), Holds(t, t0, f, k, E, 0),
         NEW S, \A fd \in DOMAIN t0 : fd \in S => \E x \in E : Number(f, x) = fd
  PROVE Holds(CloseAll(t, S), t0, f, k, {x \in E : Number(f, x) \notin S}, 0)
<1> DEFINE u == CloseAll(t, S)
           rest == {x \in E : Number(f, x) \notin S}
<1>1. DOMAIN u = DOMAIN t0 /\ \A fd \in DOMAIN t0 : u[fd] = IF fd \in S THEN Free ELSE t[fd]
  BY DEF CloseAll, Holds
<1>2. \A x \in E : Number(f, x) \in DOMAIN t0 /\ t0[Number(f, x)] = Free
  BY DEF Numbered
<1>3. \A fd : ~(fd \in Streams /\ fd < 0)
  BY DEF Streams
<1> HIDE DEF u
<1>4. \A x \in rest : u[Number(f, x)] = [file |-> EndFile(x), cloexec |-> TRUE]
  BY <1>1, <1>2 DEF Holds
<1>5. ASSUME NEW fd \in DOMAIN t0, \A x \in rest : Number(f, x) # fd
      PROVE u[fd] = t0[fd]
  <2>1. CASE fd \in S
    BY <1>1, <1>2, <2>1
  <2>2. CASE fd \notin S
    BY <1>1, <1>3, <1>5, <2>2 DEF Holds
  <2> QED
    BY <2>1, <2>2
<1> QED
  BY <1>1, <1>3, <1>4, <1>5 DEF Holds, u

\* close(2) of one number.
LEMMA CloseOne == ASSUME NEW t, NEW fd PROVE fd \in DOMAIN t => Close(t, fd) = CloseAll(t, {fd})
BY DEF Close, CloseAll

\* A table with ends open that is looked up by a number nothing was open under.
LEMMA FreeInHeld ==
  ASSUME NEW t, NEW t0, NEW f, NEW k, NEW E \in SUBSET Ends(f),
         Holds(t, t0, f, k, E, 0), NEW fd \in Unused(t)
  PROVE /\ fd \in DOMAIN t0 /\ t0[fd] = Free
        /\ \A x \in E : Number(f, x) # fd
<1>1. fd \in DOMAIN t0 /\ t[fd] = Free
  BY DEF Unused, Holds
<1>2. \A x \in E : Number(f, x) # fd
  <2>1. \A x : [file |-> EndFile(x), cloexec |-> TRUE] # Free
    BY DEF Free
  <2> QED
    BY <1>1, <2>1 DEF Holds
<1>3. t0[fd] = Free
  <2>1. ~(fd < 0 /\ fd \in Streams)
    BY DEF Streams
  <2> QED
    BY <1>1, <1>2, <2>1 DEF Holds
<1> QED
  BY <1>1, <1>2, <1>3

\* pipe2(2) gives two numbers that are free.
LEMMA TwoFree ==
  ASSUME NEW t, DOMAIN t \subseteq Nat, IsFiniteSet(DOMAIN t), Cardinality(Unused(t)) >= 2, NEW x,
         x # Free.file
  PROVE LET r == Min(Unused(t))
            u == Open(t, x, TRUE)
        IN /\ r \in Unused(t) /\ Min(Unused(u)) \in Unused(t) /\ Min(Unused(u)) # r
           /\ u = [t EXCEPT ![r] = [file |-> x, cloexec |-> TRUE]]
<1> DEFINE r == Min(Unused(t))
           u == Open(t, x, TRUE)
<1>1. Unused(t) \in SUBSET Nat /\ IsFiniteSet(Unused(t))
  <2>1. Unused(t) \subseteq DOMAIN t
    BY DEF Unused
  <2> QED
    BY <2>1, FS_Subset
<1>2. Unused(t) # {}
  BY FS_EmptySet
<1>3. r \in Unused(t)
  BY <1>1, <1>2, MinOfNaturals
<1>4. Unused(t) # {r}
  BY FS_Singleton
<1> HIDE DEF r
<1>5. u = [t EXCEPT ![r] = [file |-> x, cloexec |-> TRUE]]
  BY DEF Open, r
<1>6. Unused(u) = Unused(t) \ {r}
  <2>1. [file |-> x, cloexec |-> TRUE] # Free
    BY DEF Free
  <2>2. DOMAIN u = DOMAIN t /\ u[r] # Free /\ \A fd \in DOMAIN t \ {r} : u[fd] = t[fd]
    BY <1>3, <1>5, <2>1 DEF Unused
  <2> QED
    BY <2>2 DEF Unused
<1> HIDE DEF u
<1>7. Unused(u) \in SUBSET Nat /\ Unused(u) # {}
  BY <1>1, <1>3, <1>4, <1>6
<1>8. Min(Unused(u)) \in Unused(u)
  BY <1>7, MinOfNaturals
<1> QED
  BY <1>3, <1>5, <1>6, <1>8 DEF r, u

\* What the ends are called in the code.
LEMMA EndNames ==
  ASSUME Made(fds) = WantedPipes
  PROVE /\ Made(fds) = Piped(kind) \cup {ErrPipe}
        /\ \A s \in Piped(kind) : /\ ChildsEnd(s) \in Ends(fds) /\ ParentsEnd(s) \in Ends(fds)
                                  /\ Number(fds, ChildsEnd(s)) = ChildEnd(s)
                                  /\ Number(fds, ParentsEnd(s)) = ParentEnd(s)
        /\ <<ErrPipe, 1>> \in Ends(fds) /\ <<ErrPipe, 2>> \in Ends(fds)
        /\ Number(fds, <<ErrPipe, 1>>) = fds[ErrPipe][1] /\ Number(fds, <<ErrPipe, 2>>) = fds[ErrPipe][2]
<1>1. Made(fds) = Piped(kind) \cup {ErrPipe}
  BY DEF WantedPipes, Wanted, Piped, Pipes, Streams, ErrPipe
<1> QED
  BY <1>1 DEF Ends, ChildsEnd, ParentsEnd, Number, ChildEnd, ParentEnd

-----------------------------------------------------------------------------
(* The parent's own steps. *)

LEMMA SkipPipeParent == ASSUME ParentInv, SkipPipe PROVE ParentInv'
<1>1. next # ErrPipe /\ next' = next + 1 /\ pc = "pipe" /\ next \notin WantedPipes
      /\ UNCHANGED <<kind, pc, fds, result, table, table0>>
  BY DEF SkipPipe, Wanted, WantedPipes
<1>2. ParentControl'
  BY <1>1 DEF ParentInv, ParentControl, Pipes, ErrPipe
<1>3. PipesMade'
  <2>1. WantedPipes' = WantedPipes
    BY <1>1 DEF WantedPipes, Wanted
  <2>2. {p \in WantedPipes : p < next} = {p \in WantedPipes : p < next + 1}
    BY <1>1 DEF WantedPipes, ParentInv, ParentControl, Pipes
  <2> QED
    BY <1>1, <2>1, <2>2 DEF ParentInv, PipesMade
<1>4. ParentTable'
  BY <1>1 DEF ParentInv, ParentTable, ParentOpen, Parent
<1> QED
  BY <1>1, <1>2, <1>3, <1>4 DEF ParentInv

\* The pipes below the next one, and that one.
LEMMA OneMore ==
  ASSUME NEW W \in SUBSET (0 .. 3), NEW n \in W
  PROVE /\ {p \in W : p < n} \cup {n} = {p \in W : p < n + 1}
        /\ n = 3 => {p \in W : p < n} \cup {n} = W
<1>1. \A p \in W : p \in 0 .. 3
  OBVIOUS
<1>2. n \in 0 .. 3
  OBVIOUS
<1>3. \A p \in W : p < n + 1 <=> p < n \/ p = n
  BY <1>1, <1>2
<1>4. n = 3 => \A p \in W : p < n \/ p = n
  BY <1>1
<1> QED
  BY <1>3, <1>4

LEMMA MakePipeParent == ASSUME ParentInv, MakePipe PROVE ParentInv'
<1> DEFINE r == Min(Unused(Parent))
           t == Open(Parent, PipeEnd(next, "read"), TRUE)
           w == Min(Unused(t))
           new == <<next, 1>>
           E == Ends(fds)
<1>1. /\ pc = "pipe" /\ Wanted(next) /\ Cardinality(Unused(Parent)) >= 2
      /\ fds' = [fds EXCEPT ![next] = <<r, w>>]
      /\ table' = [table EXCEPT !["parent"] = Open(t, PipeEnd(next, "write"), TRUE)]
      /\ UNCHANGED <<kind, result, table0>>
  BY DEF MakePipe, PipeCloexec
<1>2. \/ next = ErrPipe /\ pc' = "fork" /\ next' = next
      \/ next # ErrPipe /\ pc' = pc /\ next' = next + 1
  BY DEF MakePipe
<1>3. DOMAIN Parent \subseteq Nat /\ IsFiniteSet(DOMAIN Parent) /\ DOMAIN Parent = DOMAIN table0
  <2>1. PICK limit \in Nat : DOMAIN table0 = 0 .. limit - 1
    BY DEF ParentInv, Initially
  <2>2. IsFiniteSet(0 .. limit - 1)
    BY FS_Interval
  <2> QED
    BY <2>1, <2>2 DEF ParentInv, ParentTable, Holds
<1>4. Holds(Parent, table0, fds, kind, E, 0)
  BY <1>1 DEF ParentInv, ParentTable, ParentOpen
<1>5. r \in Unused(Parent) /\ w \in Unused(Parent) /\ w # r
      /\ t = [Parent EXCEPT ![r] = [file |-> PipeEnd(next, "read"), cloexec |-> TRUE]]
  <2>1. PipeEnd(next, "read") # Free.file
    BY NotFree DEF EndFile, PipeEnd, Free
  <2> QED
    BY <1>1, <1>3, <2>1, TwoFree
<1>6. /\ r \in DOMAIN table0 /\ table0[r] = Free /\ \A x \in E : Number(fds, x) # r
      /\ w \in DOMAIN table0 /\ table0[w] = Free /\ \A x \in E : Number(fds, x) # w
  <2> HIDE DEF r, t, w
  <2> E \in SUBSET Ends(fds)
    OBVIOUS
  <2> HIDE DEF E
  <2>1. \A fd \in Unused(Parent) :
          fd \in DOMAIN table0 /\ table0[fd] = Free /\ \A x \in E : Number(fds, x) # fd
    BY <1>4, FreeInHeld
  <2> QED
    BY <1>5, <2>1
<1>7. Parent' = [t EXCEPT ![w] = [file |-> PipeEnd(next, "write"), cloexec |-> TRUE]]
      /\ DOMAIN table' = {"parent", "child"}
  BY <1>1 DEF ParentInv, ParentTable, Parent, Open
<1> HIDE DEF r, t, w
<1>8. next \in Pipes /\ next \in WantedPipes /\ next \notin Made(fds)
      /\ Made(fds) = {p \in WantedPipes : p < next}
  BY <1>1 DEF ParentInv, ParentControl, PipesMade, WantedPipes, Pipes
<1>9. /\ fds' \in [Pipes -> Int \X Int] /\ fds'[next] = <<r, w>>
      /\ \A p \in Pipes \ {next} : fds'[p] = fds[p]
  <2>1. r \in Int /\ w \in Int
    BY <1>3, <1>6
  <2> QED
    BY <1>1, <1>8, <2>1 DEF ParentInv, Numbered
<1>10. Made(fds') = Made(fds) \cup {next}
  <2>1. <<r, w>> # NoPipe
    BY <1>3, <1>6 DEF NoPipe
  <2> QED
    BY <1>8, <1>9, <2>1 DEF Made
<1>11. /\ Ends(fds') = E \cup {<<next, 1>>, <<next, 2>>}
       /\ \A x \in E : Number(fds', x) = Number(fds, x)
       /\ Number(fds', <<next, 1>>) = r /\ Number(fds', <<next, 2>>) = w
  <2>1. Ends(fds') = E \cup {<<next, 1>>, <<next, 2>>}
    BY <1>10 DEF Ends
  <2>2. \A x \in E : x[1] \in Pipes \ {next}
    BY <1>8 DEF Ends, Made
  <2> QED
    BY <1>9, <2>1, <2>2 DEF Number
<1> HIDE DEF E
<1>12. Numbered(fds', table0)
  <2>1. \A x \in E : Number(fds, x) \in DOMAIN table0 /\ table0[Number(fds, x)] = Free
    BY DEF ParentInv, Numbered, E
  <2>2. \A x, y \in E : Number(fds, x) = Number(fds, y) => x = y
    BY DEF ParentInv, Numbered, E
  <2> QED
    BY <1>5, <1>6, <1>9, <1>11, <2>1, <2>2 DEF Numbered
<1>13. Holds(Parent', table0, fds', kind, Ends(fds'), 0)
  <2>1. DOMAIN Parent' = DOMAIN table0
        /\ \A fd \in DOMAIN table0 :
             Parent'[fd] = IF fd = w THEN [file |-> PipeEnd(next, "write"), cloexec |-> TRUE]
                           ELSE IF fd = r THEN [file |-> PipeEnd(next, "read"), cloexec |-> TRUE]
                           ELSE Parent[fd]
    BY <1>3, <1>5, <1>6, <1>7
  <2>2. EndFile(<<next, 1>>) = PipeEnd(next, "read") /\ EndFile(<<next, 2>>) = PipeEnd(next, "write")
    BY DEF EndFile
  <2>3. \A x \in E : Number(fds, x) \in DOMAIN table0
    BY DEF ParentInv, Numbered, E
  <2>4. \A x \in Ends(fds') : Parent'[Number(fds', x)] = [file |-> EndFile(x), cloexec |-> TRUE]
    BY <1>4, <1>5, <1>6, <1>11, <2>1, <2>2, <2>3 DEF Holds
  <2>5. ASSUME NEW fd \in DOMAIN table0, \A x \in Ends(fds') : Number(fds', x) # fd
        PROVE Parent'[fd] = IF fd \in Streams /\ fd < 0 THEN Redirected(table0, kind, fd) ELSE table0[fd]
    BY <1>4, <1>11, <2>1, <2>5 DEF Holds
  <2> QED
    BY <2>1, <2>4, <2>5 DEF Holds
<1>14. ParentControl'
  BY <1>1, <1>2 DEF ParentInv, ParentControl, Pipes, ErrPipe
<1>15. PipesMade'
  <2>1. WantedPipes' = WantedPipes
    BY <1>1 DEF WantedPipes, Wanted
  <2>2. WantedPipes \in SUBSET (0 .. 3)
    BY DEF WantedPipes, Pipes
  <2>3. result' = "none"
    BY <1>1 DEF ParentInv, ParentControl
  <2>4. CASE next = ErrPipe
    <3>1. Made(fds') = WantedPipes
      BY <1>8, <1>10, <2>2, <2>4, OneMore DEF ErrPipe
    <3> QED
      BY <1>2, <2>1, <2>3, <2>4, <3>1 DEF PipesMade
  <2>5. CASE next # ErrPipe
    <3>1. Made(fds') = {p \in WantedPipes : p < next + 1}
      BY <1>8, <1>10, <2>2, OneMore
    <3> QED
      BY <1>1, <1>2, <2>1, <2>3, <2>5, <3>1 DEF PipesMade
  <2> QED
    BY <2>4, <2>5
<1>16. ParentTable'
  <2>1. ParentOpen' = Ends(fds')
    BY <1>1, <1>2 DEF ParentOpen
  <2> QED
    BY <1>1, <1>7, <1>13, <2>1 DEF ParentTable
<1> QED
  BY <1>1, <1>12, <1>14, <1>15, <1>16 DEF ParentInv

LEMMA GiveUpParent == ASSUME ParentInv, GiveUp PROVE ParentInv'
<1> DEFINE S == UNION {{fds[p][1], fds[p][2]} : p \in Pipes}
<1>1. /\ pc \in {"pipe", "fork"} /\ pc' = "done" /\ result' = "failed"
      /\ table' = [table EXCEPT !["parent"] = CloseAll(Parent, S)]
      /\ UNCHANGED <<kind, next, fds, table0>>
  BY DEF GiveUp, close_spawn_pipes
<1>2. Holds(Parent, table0, fds, kind, Ends(fds), 0)
  BY <1>1 DEF ParentInv, ParentTable, ParentOpen
<1>3. \A fd \in DOMAIN table0 : fd \in S => \E x \in Ends(fds) : Number(fds, x) = fd
  <2> SUFFICES ASSUME NEW fd \in DOMAIN table0, NEW p \in Pipes, NEW e \in {1, 2}, fds[p][e] = fd
               PROVE \E x \in Ends(fds) : Number(fds, x) = fd
    OBVIOUS
  <2>1. fd # -1
    BY DEF ParentInv, Initially
  <2>2. p \in Made(fds)
    BY <2>1 DEF Made, NoPipe
  <2>3. <<p, e>> \in Ends(fds) /\ Number(fds, <<p, e>>) = fd
    BY <2>2 DEF Ends, Number
  <2> QED
    BY <2>3
<1>4. {x \in Ends(fds) : Number(fds, x) \notin S} = {}
  BY DEF Ends, Made, Number
<1>5. Holds(CloseAll(Parent, S), table0, fds, kind, {}, 0)
  <2> HIDE DEF S
  <2> QED
    BY <1>2, <1>3, <1>4, Closes DEF ParentInv
<1>6. Parent' = CloseAll(Parent, S) /\ DOMAIN table' = {"parent", "child"}
  BY <1>1 DEF ParentInv, ParentTable, Parent
<1> HIDE DEF S
<1>7. ParentOpen' = {}
  BY <1>1 DEF ParentOpen
<1>8. ParentControl' /\ PipesMade'
  BY <1>1 DEF ParentInv, ParentControl, PipesMade
<1>9. ParentTable'
  BY <1>1, <1>5, <1>6, <1>7 DEF ParentTable
<1> QED
  BY <1>1, <1>8, <1>9 DEF ParentInv

\* Without the child's ends the parent has its own, and the one it reads from.
LEMMA ParentsShare ==
  ASSUME ParentInv, Made(fds) = WantedPipes
  PROVE /\ {x \in Ends(fds) : Number(fds, x) \notin ChildsEnds} = ParentsEnds(kind) \cup {<<ErrPipe, 1>>}
        /\ ParentsEnds(kind) \cup {<<ErrPipe, 1>>} \subseteq Ends(fds)
        /\ \A n \in ChildsEnds : \E x \in Ends(fds) : Number(fds, x) = n
<1> DEFINE mine == {ChildsEnd(s) : s \in Piped(kind)} \cup {<<ErrPipe, 2>>}
<1>1. ChildsEnds = {Number(fds, x) : x \in mine} /\ mine \subseteq Ends(fds)
  BY EndNames DEF ChildsEnds, Piped
<1>2. \A x \in Ends(fds) : x \in mine \/ x \in ParentsEnds(kind) \cup {<<ErrPipe, 1>>}
  <2>1. \A x \in Ends(fds) : x[1] \in Piped(kind) \cup {ErrPipe} /\ x[2] \in {1, 2} /\ x = <<x[1], x[2]>>
    BY EndNames DEF Ends
  <2> QED
    BY <2>1 DEF ParentsEnds, ChildsEnd, ParentsEnd
<1>3. \A x \in mine : x \notin ParentsEnds(kind) \cup {<<ErrPipe, 1>>}
  BY DEF ParentsEnds, ChildsEnd, ParentsEnd, Piped, Streams, ErrPipe
<1>4. ParentsEnds(kind) \cup {<<ErrPipe, 1>>} \subseteq Ends(fds)
  BY EndNames DEF ParentsEnds
<1>5. \A x, y \in Ends(fds) : Number(fds, x) = Number(fds, y) => x = y
  BY DEF ParentInv, Numbered
<1> HIDE DEF mine
<1> QED
  BY <1>1, <1>2, <1>3, <1>4, <1>5

LEMMA CloseChildsEndsParent == ASSUME ParentInv, CloseChildsEnds PROVE ParentInv'
<1>1. /\ pc = "close" /\ pc' = "result"
      /\ table' = [table EXCEPT !["parent"] = CloseAll(Parent, ChildsEnds)]
      /\ UNCHANGED <<kind, next, fds, result, table0>>
  BY DEF CloseChildsEnds, Parent
<1>2. Holds(Parent, table0, fds, kind, Ends(fds), 0) /\ Made(fds) = WantedPipes
  BY <1>1 DEF ParentInv, ParentTable, ParentOpen, PipesMade
<1>3. Parent' = CloseAll(Parent, ChildsEnds) /\ DOMAIN table' = {"parent", "child"}
  BY <1>1 DEF ParentInv, ParentTable, Parent
<1>4. Holds(Parent', table0, fds, kind, ParentsEnds(kind) \cup {<<ErrPipe, 1>>}, 0)
  BY <1>2, <1>3, ParentsShare, Closes DEF ParentInv
<1>5. ParentOpen' = ParentsEnds(kind) \cup {<<ErrPipe, 1>>}
  BY <1>1 DEF ParentOpen
<1>6. ParentControl' /\ PipesMade'
  <2>1. WantedPipes' = WantedPipes
    BY <1>1 DEF WantedPipes, Wanted
  <2> QED
    BY <1>1, <1>2, <2>1 DEF ParentInv, ParentControl, PipesMade
<1>7. ParentTable'
  BY <1>1, <1>3, <1>4, <1>5 DEF ParentTable
<1> QED
  BY <1>1, <1>6, <1>7 DEF ParentInv

LEMMA ExecResultParent == ASSUME ParentInv, exec_result_ok PROVE ParentInv'
<1> DEFINE S == {fds[ErrPipe][1]}
<1>1. /\ pc = "result"
      /\ table' = [table EXCEPT !["parent"] = Close(Parent, fds[ErrPipe][1])]
      /\ UNCHANGED <<kind, next, fds, table0>>
  BY DEF exec_result_ok, Parent
<1>2. \/ pc' = "reap" /\ result' = result
      \/ pc' = "done" /\ result' = "child"
  BY DEF exec_result_ok
<1>3. /\ Holds(Parent, table0, fds, kind, ParentsEnds(kind) \cup {<<ErrPipe, 1>>}, 0)
      /\ Made(fds) = WantedPipes /\ DOMAIN Parent = DOMAIN table0
  BY <1>1 DEF ParentInv, ParentTable, ParentOpen, PipesMade, Holds
<1>4. /\ ParentsEnds(kind) \cup {<<ErrPipe, 1>>} \subseteq Ends(fds)
      /\ Number(fds, <<ErrPipe, 1>>) = fds[ErrPipe][1] /\ fds[ErrPipe][1] \in DOMAIN table0
  BY <1>3, ParentsShare, EndNames DEF ParentInv, Numbered
<1>5. {x \in ParentsEnds(kind) \cup {<<ErrPipe, 1>>} : Number(fds, x) \notin S} = ParentsEnds(kind)
  <2>1. <<ErrPipe, 1>> \notin ParentsEnds(kind)
    BY DEF ParentsEnds, ParentsEnd, Piped, Streams, ErrPipe
  <2> QED
    BY <1>4, <2>1 DEF ParentInv, Numbered
<1>6. Parent' = CloseAll(Parent, S) /\ DOMAIN table' = {"parent", "child"}
  BY <1>1, <1>3, <1>4, CloseOne DEF ParentInv, ParentTable, Parent
<1>7. Holds(Parent', table0, fds, kind, ParentsEnds(kind), 0)
  <2>1. \A fd \in DOMAIN table0 :
          fd \in S => \E x \in ParentsEnds(kind) \cup {<<ErrPipe, 1>>} : Number(fds, x) = fd
    BY <1>4
  <2> HIDE DEF S
  <2> QED
    BY <1>3, <1>4, <1>5, <1>6, <2>1, Closes DEF ParentInv
<1> HIDE DEF S
<1>8. ParentOpen' = ParentsEnds(kind)
  BY <1>1, <1>2 DEF ParentOpen
<1>9. ParentControl' /\ PipesMade'
  <2>1. WantedPipes' = WantedPipes
    BY <1>1 DEF WantedPipes, Wanted
  <2> QED
    BY <1>1, <1>2, <1>3, <2>1 DEF ParentInv, ParentControl, PipesMade
<1>10. ParentTable'
  BY <1>1, <1>6, <1>7, <1>8 DEF ParentTable
<1> QED
  BY <1>1, <1>9, <1>10 DEF ParentInv

LEMMA ReapFailedParent == ASSUME ParentInv, ReapFailed PROVE ParentInv'
<1> DEFINE S == {ParentEnd(s) : s \in Streams}
<1>1. /\ pc = "reap" /\ pc' = "done" /\ result' = "failed"
      /\ table' = [table EXCEPT !["parent"] = CloseAll(Parent, S)]
      /\ UNCHANGED <<kind, next, fds, table0>>
  BY DEF ReapFailed, Parent
<1>2. Holds(Parent, table0, fds, kind, ParentsEnds(kind), 0) /\ Made(fds) = WantedPipes
  BY <1>1 DEF ParentInv, ParentTable, ParentOpen, PipesMade
<1>3. ParentsEnds(kind) \subseteq Ends(fds)
  BY <1>2, ParentsShare
<1>4. \A x \in ParentsEnds(kind) : Number(fds, x) \in S
  BY <1>2, EndNames DEF ParentsEnds, Piped
<1>5. \A fd \in DOMAIN table0 : fd \in S => \E x \in ParentsEnds(kind) : Number(fds, x) = fd
  <2> SUFFICES ASSUME NEW s \in Streams, ParentEnd(s) \in DOMAIN table0
               PROVE \E x \in ParentsEnds(kind) : Number(fds, x) = ParentEnd(s)
    OBVIOUS
  <2>1. ParentEnd(s) # -1
    BY DEF ParentInv, Initially
  <2>2. fds[s] # NoPipe
    BY <2>1 DEF ParentEnd, NoPipe
  <2>3. s \in Made(fds) /\ s # ErrPipe
    BY <2>2 DEF Made, Pipes, Streams, ErrPipe
  <2>4. s \in Piped(kind)
    BY <1>2, <2>3, EndNames
  <2> QED
    BY <1>2, <2>4, EndNames DEF ParentsEnds
<1>6. {x \in ParentsEnds(kind) : Number(fds, x) \notin S} = {}
  BY <1>4
<1>7. Parent' = CloseAll(Parent, S) /\ DOMAIN table' = {"parent", "child"}
  BY <1>1 DEF ParentInv, ParentTable, Parent
<1> HIDE DEF S
<1>8. Holds(Parent', table0, fds, kind, {}, 0)
  BY <1>2, <1>3, <1>5, <1>6, <1>7, Closes DEF ParentInv
<1>9. ParentOpen' = {}
  BY <1>1 DEF ParentOpen
<1>10. ParentControl' /\ PipesMade'
  BY <1>1 DEF ParentInv, ParentControl, PipesMade
<1>11. ParentTable'
  BY <1>1, <1>8, <1>9 DEF ParentTable, ParentInv
<1> QED
  BY <1>1, <1>10, <1>11 DEF ParentInv

\* The child's steps, and fork, leave the parent's table alone.
LEMMA ParentUntouched ==
  ASSUME ParentInv, UNCHANGED <<kind, next, fds, result, table0>>,
         UNCHANGED pc \/ (pc = "fork" /\ pc' = "close"),
         NEW t, table' = [table EXCEPT !["child"] = t]
  PROVE ParentInv' /\ Parent' = Parent /\ Child' = t
<1>1. Parent' = Parent /\ Child' = t /\ DOMAIN table' = {"parent", "child"}
  BY DEF ParentInv, ParentTable, Parent, Child
<1>2. ParentOpen' = ParentOpen /\ WantedPipes' = WantedPipes
  BY DEF ParentOpen, WantedPipes, Wanted
<1>3. ParentControl' /\ PipesMade'
  BY <1>2 DEF ParentInv, ParentControl, PipesMade
<1>4. ParentTable'
  BY <1>1, <1>2 DEF ParentInv, ParentTable
<1> QED
  BY <1>1, <1>3, <1>4 DEF ParentInv

LEMMA ParentStill ==
  ASSUME ParentInv, UNCHANGED <<kind, pc, next, fds, result, table, table0>>
  PROVE ParentInv'
<1>1. ParentOpen' = ParentOpen /\ WantedPipes' = WantedPipes /\ Parent' = Parent
  BY DEF ParentOpen, WantedPipes, Wanted, Parent
<1> QED
  BY <1>1 DEF ParentInv, ParentControl, PipesMade, ParentTable

LEMMA InitParent == Init => ParentInv
<1> SUFFICES ASSUME Init PROVE ParentInv
  OBVIOUS
<1>1. PICK limit \in Limits, open \in Inherited :
        table0 = [fd \in 0 .. limit - 1 |->
                    IF fd \in open THEN [file |-> <<"inherited", fd>>, cloexec |-> FALSE] ELSE Free]
  BY DEF Init
<1>2. limit \in Nat /\ DOMAIN table0 = 0 .. limit - 1
  BY <1>1, SpawnAssumption
<1>3. Initially(table0)
  <2>1. \A fd \in DOMAIN table0 : table0[fd].cloexec = FALSE
    BY <1>1, <1>2 DEF Free
  <2> QED
    BY <1>2, <2>1 DEF Initially
<1>4. Made(fds) = {} /\ Ends(fds) = {}
  BY DEF Init, Made, Ends
<1>5. Numbered(fds, table0)
  <2>1. fds \in [Pipes -> Int \X Int]
    BY DEF Init, NoPipe
  <2> QED
    BY <1>4, <2>1 DEF Numbered
<1>6. ParentControl
  BY SpawnAssumption DEF Init, ParentControl, Pipes
<1>7. PipesMade
  <2>1. \A p \in WantedPipes : ~(p < 0)
    BY DEF WantedPipes, Pipes
  <2> QED
    BY <1>4, <2>1 DEF Init, PipesMade
<1>8. ParentTable
  <2>1. Parent = table0 /\ DOMAIN table = {"parent", "child"}
    BY DEF Init, Parent
  <2>2. ParentOpen = {}
    BY <1>4 DEF Init, ParentOpen
  <2>3. \A fd \in Streams : ~(fd < 0)
    BY DEF Streams
  <2>4. Holds(Parent, table0, fds, kind, {}, 0)
    BY <2>1, <2>3 DEF Holds
  <2> QED
    BY <2>1, <2>2, <2>4 DEF ParentTable
<1> QED
  BY <1>3, <1>5, <1>6, <1>7, <1>8 DEF ParentInv

LEMMA NextParent == ParentInv /\ [Next]_vars => ParentInv'
<1> SUFFICES ASSUME ParentInv, [Next]_vars PROVE ParentInv'
  OBVIOUS
<1>1. CASE SkipPipe \/ MakePipe \/ GiveUp \/ CloseChildsEnds \/ exec_result_ok \/ ReapFailed
  BY <1>1, SkipPipeParent, MakePipeParent, GiveUpParent, CloseChildsEndsParent, ExecResultParent,
     ReapFailedParent
<1>2. CASE Fork
  BY <1>2, ParentUntouched DEF Fork
<1>3. CASE ChdirFails
  BY <1>3, ParentStill DEF ChdirFails, parent
<1>4. CASE ApplyStream
  BY <1>4, ParentUntouched DEF ApplyStream, parent
<1>5. CASE Execve
  BY <1>5, ParentUntouched, ParentStill DEF Execve, parent
<1>6. CASE child_fail \/ ImageExits \/ KilledEarly
  BY <1>6, ParentUntouched DEF child_fail, ImageExits, KilledEarly, parent
<1>7. CASE UNCHANGED vars
  BY <1>7, ParentStill DEF vars
<1> QED
  BY <1>1, <1>2, <1>3, <1>4, <1>5, <1>6, <1>7 DEF Next, ParentStep, ChildStep

LEMMA ParentKeeps == ASSUME ParentInv PROVE ParentKeepsOnlyHandle
<1> SUFFICES ASSUME pc = "done", NEW fd \in DOMAIN Parent
             PROVE LET kept == {s \in Streams : kind[s] = "pipe" /\ result = "child"}
                   IN Parent[fd].file =
                        IF \E s \in kept : ParentEnd(s) = fd
                        THEN LET s == CHOOSE s \in kept : ParentEnd(s) = fd
                             IN PipeEnd(s, IF s = 0 THEN "write" ELSE "read")
                        ELSE table0[fd].file
  BY DEF ParentKeepsOnlyHandle
<1> DEFINE kept == {s \in Streams : kind[s] = "pipe" /\ result = "child"}
           E == {ParentsEnd(s) : s \in kept}
<1>1. E = ParentOpen
  BY DEF ParentOpen, ParentsEnds, Piped
<1>2. Holds(Parent, table0, fds, kind, E, 0) /\ fd \in DOMAIN table0
  BY <1>1 DEF ParentInv, ParentTable, Holds
<1>3. \A s \in kept : ParentsEnd(s) \in Ends(fds) /\ Number(fds, ParentsEnd(s)) = ParentEnd(s)
  <2>1. kept # {} => Made(fds) = WantedPipes
    BY DEF ParentInv, PipesMade
  <2> QED
    BY <2>1, EndNames DEF Piped
<1>4. \A s, u \in kept : ParentEnd(s) = ParentEnd(u) => s = u
  <2>1. \A s, u \in kept : ParentsEnd(s) = ParentsEnd(u) => s = u
    BY DEF ParentsEnd
  <2> QED
    BY <1>3, <2>1 DEF ParentInv, Numbered
<1>5. \A s \in kept : EndFile(ParentsEnd(s)) = PipeEnd(s, IF s = 0 THEN "write" ELSE "read")
  BY DEF EndFile, ParentsEnd
<1>6. CASE \E s \in kept : ParentEnd(s) = fd
  <2> DEFINE mine == CHOOSE s \in kept : ParentEnd(s) = fd
  <2>1. mine \in kept /\ ParentEnd(mine) = fd
    BY <1>6
  <2> HIDE DEF mine
  <2>2. ParentsEnd(mine) \in E /\ Number(fds, ParentsEnd(mine)) = fd
    BY <1>3, <2>1
  <2> HIDE DEF E, kept
  <2>3. Parent[Number(fds, ParentsEnd(mine))] = [file |-> EndFile(ParentsEnd(mine)), cloexec |-> TRUE]
    BY <1>2, <2>2 DEF Holds
  <2>4. Parent[fd].file = PipeEnd(mine, IF mine = 0 THEN "write" ELSE "read")
    BY <1>5, <2>1, <2>2, <2>3
  <2> QED
    BY <1>6, <2>4 DEF kept, mine
<1>7. CASE ~(\E s \in kept : ParentEnd(s) = fd)
  <2>1. \A x \in E : Number(fds, x) # fd
    BY <1>3, <1>7
  <2>2. ~(fd \in Streams /\ fd < 0)
    BY DEF Streams
  <2> HIDE DEF E
  <2>3. Parent[fd] = table0[fd]
    BY <1>2, <2>1, <2>2 DEF Holds
  <2> QED
    BY <1>7, <2>3
<1> QED
  BY <1>6, <1>7

\* On every way out the parent has what it had before and the ends of its handle,
\* be its own streams open or not.
THEOREM SpawnLeaksNothing == Spec => []ParentKeepsOnlyHandle
<1>1. ParentInv => ParentKeepsOnlyHandle
  BY ParentKeeps
<1> QED
  BY <1>1, InitParent, NextParent, PTL DEF Spec

-----------------------------------------------------------------------------
(* What the parent's steps mean to the child. *)

LEMMA EndsNoStreams ==
  ASSUME Inv, NEW x \in Ends(fds)
  PROVE  Number(fds, x) \in DOMAIN table0 \ Streams /\ table0[Number(fds, x)] = Free
BY DEF Inv, ParentInv, ChildInv, Numbered, StreamsTaken

LEMMA MakingPipesChild ==
  ASSUME Inv, SkipPipe \/ MakePipe \/ GiveUp
  PROVE  ChildInv'
<1>1. /\ pc \in {"pipe", "fork"} /\ UNCHANGED <<child, step, fate, table0, reported>>
      /\ \/ pc' \in {"pipe", "fork"} /\ result' = result
         \/ pc' = "done" /\ result' = "failed"
  BY DEF SkipPipe, MakePipe, GiveUp, childVars
<1>2. Child' = Child
  <2>1. table' = table \/ \E t : table' = [table EXCEPT !["parent"] = t]
    BY DEF SkipPipe, MakePipe, GiveUp
  <2> QED
    BY <2>1 DEF Inv, ParentInv, ParentTable, Child
<1>3. child = "none" /\ result = "none"
  BY <1>1 DEF Inv, ParentInv, ParentControl, ChildInv, ChildControl
<1>4. ChildControl'
  BY <1>1, <1>3 DEF Inv, ChildInv, ChildControl
<1>5. StreamsTaken(table0)' /\ ChildTable' /\ StreamsConnected'
  BY <1>1, <1>2, <1>3 DEF Inv, ChildInv, StreamsTaken, ChildTable, StreamsConnected
<1> QED
  BY <1>4, <1>5 DEF ChildInv

LEMMA ForkChild == ASSUME Inv, Fork PROVE ChildInv'
<1> DEFINE S == {fds[ErrPipe][1]}
<1>1. /\ pc = "fork" /\ pc' = "close" /\ child' = "setup"
      /\ table' = [table EXCEPT !["child"] = Close(Parent, fds[ErrPipe][1])]
      /\ UNCHANGED <<kind, next, fds, result, step, table0, reported, fate>>
  BY DEF Fork
<1>2. /\ step = 0 /\ Holds(Parent, table0, fds, kind, Ends(fds), 0) /\ Made(fds) = WantedPipes
      /\ DOMAIN Parent = DOMAIN table0
  BY <1>1 DEF Inv, ParentInv, ChildInv, ChildControl, ParentTable, ParentOpen, PipesMade, Holds
<1>3. /\ <<ErrPipe, 1>> \in Ends(fds) /\ Number(fds, <<ErrPipe, 1>>) = fds[ErrPipe][1]
      /\ fds[ErrPipe][1] \in DOMAIN table0
  BY <1>2, EndNames DEF Inv, ParentInv, Numbered
<1>4. {x \in Ends(fds) : Number(fds, x) \notin S} = ChildOpen(fds, 0)
  <2>1. \A x \in Ends(fds) : x[1] >= 0
    BY DEF Ends, Made, Pipes
  <2>2. \A x \in Ends(fds) : Number(fds, x) = fds[ErrPipe][1] <=> x = <<ErrPipe, 1>>
    BY <1>3 DEF Inv, ParentInv, Numbered
  <2> QED
    BY <2>1, <2>2 DEF ChildOpen
<1>5. Child' = CloseAll(Parent, S)
  BY <1>1, <1>2, <1>3, CloseOne, ParentUntouched DEF Inv
<1>6. Holds(Child', table0, fds, kind, ChildOpen(fds, 0), 0)
  <2>1. \A fd \in DOMAIN table0 : fd \in S => \E x \in Ends(fds) : Number(fds, x) = fd
    BY <1>3
  <2> HIDE DEF S
  <2> QED
    BY <1>2, <1>4, <1>5, <2>1, Closes DEF Inv, ParentInv
<1> HIDE DEF S
<1>7. ChildControl'
  BY <1>1 DEF Inv, ParentInv, ParentControl, ChildInv, ChildControl
<1>8. ChildTable'
  <2>1. DOMAIN Child' = DOMAIN table0
    BY <1>6 DEF Holds
  <2> QED
    BY <1>1, <1>2, <1>6, <2>1 DEF ChildTable
<1> QED
  BY <1>1, <1>7, <1>8 DEF Inv, ChildInv, StreamsTaken, StreamsConnected

LEMMA CloseChildsEndsChild == ASSUME Inv, CloseChildsEnds PROVE ChildInv'
<1>1. /\ pc = "close" /\ pc' = "result"
      /\ UNCHANGED <<kind, next, fds, result, child, step, fate, table0, reported>>
  BY DEF CloseChildsEnds, childVars
<1>2. Child' = Child
  BY DEF CloseChildsEnds, Child, Inv, ParentInv, ParentTable
<1> QED
  BY <1>1, <1>2 DEF Inv, ParentInv, ParentControl, ChildInv, ChildControl, ChildTable, StreamsTaken,
                    StreamsConnected

\* A child that is being set up can still report, so nobody reads end-of-file.
LEMMA SetupHoldsWriteEnd ==
  ASSUME Inv, child \in {"setup", "fail"}
  PROVE Child[fds[ErrPipe][2]] = Reporting /\ fds[ErrPipe][2] \in DOMAIN Child /\ ~EndOfFile
<1>0. Made(fds) = WantedPipes
  BY DEF Inv, ParentInv, ParentControl, ChildInv, ChildControl, PipesMade
<1>1. /\ <<ErrPipe, 2>> \in Ends(fds) /\ Number(fds, <<ErrPipe, 2>>) = fds[ErrPipe][2]
      /\ fds[ErrPipe][2] \in DOMAIN table0
  BY <1>0, EndNames DEF Inv, ParentInv, Numbered
<1>2. Child[fds[ErrPipe][2]] = Reporting
  <2>1. CASE child = "fail"
    BY <2>1 DEF Inv, ChildInv, ChildTable
  <2>2. CASE child = "setup"
    <3>1. <<ErrPipe, 2>> \in ChildOpen(fds, step)
      BY <1>1 DEF ChildOpen, Inv, ChildInv, ChildControl, ErrPipe
    <3>2. EndFile(<<ErrPipe, 2>>) = PipeEnd(ErrPipe, "write")
      BY DEF EndFile
    <3> QED
      BY <1>1, <2>2, <3>1, <3>2 DEF Inv, ChildInv, ChildTable, Holds, Reporting
  <2> QED
    BY <2>1, <2>2
<1>3. fds[ErrPipe][2] \in DOMAIN Child
  BY <1>1 DEF Inv, ChildInv, ChildTable
<1>4. Reporting # Free /\ Reporting.file = PipeEnd(ErrPipe, "write")
  BY DEF Reporting, Free
<1>5. PipeEnd(ErrPipe, "write") \in Files(Child)
  BY <1>2, <1>3, <1>4 DEF Files
<1> QED
  BY <1>2, <1>3, <1>5 DEF EndOfFile, Child, Inv, ParentInv, ParentTable

LEMMA ExecResultChild == ASSUME Inv, exec_result_ok PROVE ChildInv'
<1>1. /\ pc = "result" /\ (reported \/ EndOfFile) /\ reported' = FALSE
      /\ UNCHANGED <<kind, next, fds, child, step, fate, table0>>
  BY DEF exec_result_ok, childVars
<1>2. \/ reported /\ pc' = "reap" /\ result' = result
      \/ ~reported /\ pc' = "done" /\ result' = "child"
  BY DEF exec_result_ok
<1>3. Child' = Child
  BY DEF exec_result_ok, Child, Inv, ParentInv, ParentTable
<1>4. ~reported => child \in {"image", "dead"} /\ fate \in {"exec", "killed"}
  BY <1>1, SetupHoldsWriteEnd DEF Inv, ChildInv, ChildControl
<1>5. result = "none"
  BY <1>1 DEF Inv, ParentInv, ParentControl
<1>6. ChildControl'
  BY <1>1, <1>2, <1>4, <1>5 DEF Inv, ChildInv, ChildControl
<1> QED
  BY <1>1, <1>3, <1>6 DEF Inv, ChildInv, ChildTable, StreamsTaken, StreamsConnected

LEMMA ReapFailedChild == ASSUME Inv, ReapFailed PROVE ChildInv'
<1>1. /\ pc = "reap" /\ child = "dead" /\ child' = "reaped" /\ pc' = "done" /\ result' = "failed"
      /\ UNCHANGED <<kind, next, fds, step, table0, reported, fate>>
  BY DEF ReapFailed
<1>2. Child' = Child
  BY DEF ReapFailed, Child, Inv, ParentInv, ParentTable
<1>3. ChildControl'
  BY <1>1 DEF Inv, ChildInv, ChildControl
<1> QED
  BY <1>1, <1>2, <1>3 DEF Inv, ChildInv, ChildTable, StreamsTaken, StreamsConnected

-----------------------------------------------------------------------------
(* The child's steps. *)

\* While the child is set up the parent waits, and all pipes are there.
LEMMA SettingUp ==
  ASSUME Inv, child \in {"setup", "fail"}
  PROVE /\ pc \in {"close", "result"} /\ fate = "none" /\ ~reported /\ Made(fds) = WantedPipes
        /\ Streams \subseteq DOMAIN table0
<1>1. pc \in {"close", "result"} /\ fate = "none" /\ ~reported /\ Made(fds) = WantedPipes
  BY DEF Inv, ParentInv, ParentControl, ChildInv, ChildControl, PipesMade
<1>2. fds[ErrPipe][2] \in DOMAIN table0 \ Streams
  BY <1>1, EndNames, EndsNoStreams
<1>3. PICK limit \in Nat : DOMAIN table0 = 0 .. limit - 1
  BY DEF Inv, ParentInv, Initially
<1>4. Streams \subseteq 0 .. limit - 1
  BY <1>2, <1>3 DEF Streams
<1> QED
  BY <1>1, <1>3, <1>4

\* A step of the child that leaves it where it can still report.
LEMMA ChildFails ==
  ASSUME Inv, child \in {"setup", "fail"}, child' = "fail",
         DOMAIN Child' = DOMAIN table0, Child'[fds[ErrPipe][2]] = Reporting,
         UNCHANGED <<kind, pc, next, fds, result, step, table0, reported, fate>>
  PROVE ChildInv'
<1>1. ChildControl'
  BY SettingUp DEF Inv, ChildInv, ChildControl
<1> QED
  BY <1>1 DEF Inv, ChildInv, ChildTable, StreamsTaken, StreamsConnected

LEMMA ChdirFailsChild == ASSUME Inv, ChdirFails PROVE ChildInv'
<1>1. /\ child = "setup" /\ child' = "fail"
      /\ UNCHANGED <<kind, pc, next, fds, result, step, table, table0, reported, fate>>
  BY DEF ChdirFails, parent
<1>2. DOMAIN Child' = DOMAIN table0 /\ Child'[fds[ErrPipe][2]] = Reporting
  BY <1>1, SetupHoldsWriteEnd DEF Child, Inv, ChildInv, ChildTable
<1> QED
  BY <1>1, <1>2, ChildFails

\* What one more stream does to the child's table.
LEMMA StreamApplied ==
  ASSUME Inv, child = "setup", step \in Streams, NEW o \in child_apply_stream(Child, step)
  PROVE /\ o.ok => Holds(o.t, table0, fds, kind, ChildOpen(fds, step + 1), step + 1)
        /\ ~o.ok => DOMAIN o.t = DOMAIN table0 /\ o.t[fds[ErrPipe][2]] = Reporting
<1> DEFINE t == Child
           n == step
           E == ChildOpen(fds, step)
           F == ChildOpen(fds, step + 1)
<1>1. /\ Holds(t, table0, fds, kind, E, n) /\ n \in 0 .. 2 /\ n \in DOMAIN table0 /\ DOMAIN t = DOMAIN table0
      /\ Made(fds) = WantedPipes /\ t[fds[ErrPipe][2]] = Reporting
  BY SettingUp, SetupHoldsWriteEnd DEF Inv, ChildInv, ChildTable, Streams
<1>2. /\ \A x \in E : Number(fds, x) \in DOMAIN table0 \ Streams /\ table0[Number(fds, x)] = Free
      /\ \A x, y \in E : Number(fds, x) = Number(fds, y) => x = y
      /\ table0[n] # Free
  BY <1>1, EndsNoStreams DEF Inv, ParentInv, ChildInv, Numbered, ChildOpen, StreamsTaken
<1>3. t[n] = table0[n]
  BY <1>1, <1>2 DEF Holds
<1>4. \A x \in Ends(fds) : x[1] \in 0 .. 3 /\ x[2] \in {1, 2} /\ x = <<x[1], x[2]>>
  BY DEF Ends, Made, Pipes
<1>5. F = {x \in E : x[1] # n}
  BY <1>1, <1>4 DEF ChildOpen
<1>6. CASE kind[n] = "inherit"
  <2>1. o.ok /\ o.t = t
    BY <1>6 DEF child_apply_stream
  <2>2. F = E
    <3>1. n \notin Made(fds)
      BY <1>1, <1>6 DEF WantedPipes, Wanted, Streams, ErrPipe
    <3> QED
      BY <1>5, <3>1 DEF ChildOpen, Ends
  <2>3. Redirected(table0, kind, n) = table0[n]
    BY <1>6 DEF Redirected
  <2> HIDE DEF t, n, E, F
  <2>4. Holds(t, table0, fds, kind, F, n + 1)
    BY <1>1, <1>3, <2>2, <2>3 DEF Holds, Streams
  <2> QED
    BY <2>1, <2>4 DEF F, n
<1>7. CASE kind[n] = "pipe"
  <2> DEFINE c == ChildEnd(n)
             p == ParentEnd(n)
             mine == Close(t, p)
             u == Close(Dup2(mine, c, n), c)
  <2>1. n \in Piped(kind)
    BY <1>1, <1>7 DEF Piped, Streams
  <2>2. /\ ChildsEnd(n) \in E /\ ParentsEnd(n) \in E
        /\ Number(fds, ChildsEnd(n)) = c /\ Number(fds, ParentsEnd(n)) = p
        /\ ChildsEnd(n) # ParentsEnd(n)
    <3>1. /\ ChildsEnd(n) \in Ends(fds) /\ ParentsEnd(n) \in Ends(fds)
          /\ Number(fds, ChildsEnd(n)) = c /\ Number(fds, ParentsEnd(n)) = p
      BY <1>1, <2>1, EndNames
    <3>2. ChildsEnd(n)[1] = n /\ ParentsEnd(n)[1] = n /\ ChildsEnd(n)[2] # ParentsEnd(n)[2]
      BY DEF ChildsEnd, ParentsEnd
    <3> QED
      BY <1>1, <3>1, <3>2 DEF ChildOpen, ErrPipe
  <2>3. /\ c \in DOMAIN table0 \ Streams /\ p \in DOMAIN table0 \ Streams /\ c # p
        /\ table0[c] = Free /\ table0[p] = Free
        /\ t[c] = [file |-> EndFile(ChildsEnd(n)), cloexec |-> TRUE]
    BY <1>1, <1>2, <2>2 DEF Holds
  <2>4. \A x \in Ends(fds) : x[1] = n => x = ChildsEnd(n) \/ x = ParentsEnd(n)
    BY <1>4 DEF ChildsEnd, ParentsEnd
  <2> HIDE DEF c, p, t, n
  <2>5. mine = [fd \in DOMAIN table0 |-> IF fd = p THEN Free ELSE t[fd]]
    BY <1>1, <2>3, CloseOne DEF CloseAll
  <2>6. IsOpen(mine, c)
    BY <2>3, <2>5 DEF IsOpen, Free
  <2>7. o.ok /\ o.t = u
    BY <1>1, <1>7, <2>3, <2>6 DEF child_apply_stream, MoveTo, c, p, t, n, Streams
  <2>8. /\ DOMAIN u = DOMAIN table0
        /\ \A fd \in DOMAIN table0 :
             u[fd] = IF fd = c THEN Free ELSE IF fd = n THEN [file |-> EndFile(ChildsEnd(n)), cloexec |-> FALSE]
                     ELSE IF fd = p THEN Free ELSE t[fd]
    <3>1. Dup2(mine, c, n) = [mine EXCEPT ![n] = [file |-> mine[c].file, cloexec |-> FALSE]]
      BY <1>1, <2>3 DEF Dup2, Streams
    <3>2. mine[c].file = EndFile(ChildsEnd(n)) /\ DOMAIN mine = DOMAIN table0
      BY <2>3, <2>5
    <3> HIDE DEF mine
    <3>3. DOMAIN Dup2(mine, c, n) = DOMAIN table0
      BY <3>1, <3>2
    <3>4. u = CloseAll(Dup2(mine, c, n), {c})
      BY <2>3, <3>3, CloseOne
    <3> QED
      BY <1>1, <2>5, <3>1, <3>2, <3>3, <3>4 DEF CloseAll, mine
  <2> HIDE DEF u, mine, E, F
  <2>9. \A x \in F : x \in E /\ x # ChildsEnd(n) /\ x # ParentsEnd(n)
    BY <1>5 DEF ChildsEnd, ParentsEnd
  <2>10. \A x \in F : u[Number(fds, x)] = [file |-> EndFile(x), cloexec |-> TRUE]
    <3> SUFFICES ASSUME NEW x \in F PROVE u[Number(fds, x)] = [file |-> EndFile(x), cloexec |-> TRUE]
      OBVIOUS
    <3>1. Number(fds, x) # c /\ Number(fds, x) # p /\ Number(fds, x) # n /\ Number(fds, x) \in DOMAIN table0
      BY <1>1, <1>2, <2>2, <2>9 DEF Streams
    <3> QED
      BY <1>1, <2>8, <2>9, <3>1 DEF Holds
  <2>11. ASSUME NEW fd \in DOMAIN table0, \A x \in F : Number(fds, x) # fd
         PROVE u[fd] = IF fd \in Streams /\ fd < n + 1 THEN Redirected(table0, kind, fd) ELSE table0[fd]
    <3>1. CASE fd = c \/ fd = p
      BY <1>1, <2>3, <2>8, <3>1 DEF Streams
    <3>2. CASE fd = n
      BY <1>1, <1>7, <2>3, <2>8, <3>2 DEF Streams, Redirected
    <3>3. CASE fd # c /\ fd # p /\ fd # n
      <4>1. \A x \in E : Number(fds, x) # fd
        BY <1>5, <2>2, <2>4, <2>11, <3>3 DEF E, ChildOpen
      <4> QED
        BY <1>1, <2>8, <3>3, <4>1 DEF Holds, Streams
    <3> QED
      BY <3>1, <3>2, <3>3
  <2>12. Holds(u, table0, fds, kind, F, n + 1)
    BY <2>8, <2>10, <2>11 DEF Holds
  <2> QED
    BY <2>7, <2>12 DEF F, n
<1>8. CASE kind[n] = "file"
  <2> DEFINE lowest == {fd \in Unused(t) : fd = Min(Unused(t))}
             applied(fd) == Close(Dup2(Open(t, <<"file", n>>, FALSE), fd, n), fd)
  <2>0. o = [ok |-> FALSE, t |-> t] \/ \E fd \in lowest : o = [ok |-> TRUE, t |-> applied(fd)]
    <3>1. child_apply_stream(t, n) =
            {[ok |-> FALSE, t |-> t]} \cup {[ok |-> TRUE, t |-> applied(fd)] : fd \in lowest}
      BY <1>8 DEF child_apply_stream
    <3> HIDE DEF applied, lowest
    <3> QED
      BY <3>1
  <2>1. CASE ~o.ok
    <3>1. o.t = t
      <4> HIDE DEF applied, lowest
      <4> QED
        BY <2>0, <2>1
    <3> QED
      BY <1>1, <2>1, <3>1
  <2>2. CASE o.ok
    <3>1. PICK fd \in Unused(t) :
            fd = Min(Unused(t)) /\ o.t = applied(fd)
      <4>1. PICK fd \in lowest : o.t = applied(fd)
        <5> HIDE DEF applied, lowest
        <5> QED
          BY <2>0, <2>2
      <4> HIDE DEF applied
      <4> QED
        BY <4>1
    <3> DEFINE new == [file |-> <<"file", n>>, cloexec |-> FALSE]
               opened == Open(t, <<"file", n>>, FALSE)
               u == o.t
    <3>2. fd \in DOMAIN table0 /\ t[fd] = Free /\ fd # n
      BY <1>1, <1>2, <1>3 DEF Unused
    <3> HIDE DEF t, n, E, F
    <3>3. opened = [t EXCEPT ![fd] = new] /\ DOMAIN opened = DOMAIN table0 /\ opened[fd].file = <<"file", n>>
      BY <1>1, <3>1, <3>2 DEF Open
    <3>4. Dup2(opened, fd, n) = [opened EXCEPT ![n] = new] /\ DOMAIN Dup2(opened, fd, n) = DOMAIN table0
      BY <3>2, <3>3 DEF Dup2
    <3>5. o.t = CloseAll(Dup2(opened, fd, n), {fd})
      BY <3>1, <3>2, <3>4, CloseOne
    <3>6. /\ DOMAIN o.t = DOMAIN table0
          /\ \A x \in DOMAIN table0 : o.t[x] = IF x = n THEN new ELSE t[x]
      BY <1>1, <3>2, <3>3, <3>4, <3>5 DEF CloseAll
    <3>7. F = E
      <4>1. n \notin Made(fds)
        BY <1>1, <1>8 DEF WantedPipes, Wanted, Streams, ErrPipe
      <4> QED
        BY <1>5, <4>1 DEF ChildOpen, Ends, E, F
    <3>8. Redirected(table0, kind, n) = new
      BY <1>8 DEF Redirected
    <3> HIDE DEF new, opened
    <3>9. Holds(o.t, table0, fds, kind, F, n + 1)
      BY <1>1, <1>2, <3>6, <3>7, <3>8 DEF Holds, Streams
    <3> QED
      BY <2>2, <3>9 DEF F, n
  <2> QED
    BY <2>1, <2>2
<1> QED
  BY <1>1, <1>6, <1>7, <1>8 DEF Inv, ParentInv, ParentControl, Streams

LEMMA ApplyStreamChild == ASSUME Inv, ApplyStream PROVE ChildInv'
<1>1. PICK o \in child_apply_stream(Child, step) :
        /\ child = "setup" /\ step \in Streams
        /\ table' = [table EXCEPT !["child"] = o.t]
        /\ IF o.ok THEN step' = step + 1 /\ UNCHANGED child ELSE child' = "fail" /\ UNCHANGED step
        /\ UNCHANGED <<kind, pc, next, fds, result, table0, reported, fate>>
  BY DEF ApplyStream, parent
<1>2. /\ o.ok => Holds(o.t, table0, fds, kind, ChildOpen(fds, step + 1), step + 1)
      /\ ~o.ok => DOMAIN o.t = DOMAIN table0 /\ o.t[fds[ErrPipe][2]] = Reporting
  BY <1>1, StreamApplied
<1>3. Child' = o.t
  BY <1>1 DEF Inv, ParentInv, ParentTable, Child
<1>4. CASE ~o.ok
  BY <1>1, <1>2, <1>3, <1>4, ChildFails
<1>5. CASE o.ok
  <2>1. step' = step + 1 /\ child' = "setup"
    BY <1>1, <1>5
  <2>2. ChildControl'
    BY <1>1, <2>1, SettingUp DEF Inv, ChildInv, ChildControl, Streams
  <2>3. StreamsTaken(table0)' /\ StreamsConnected'
    BY <1>1, <2>1 DEF Inv, ChildInv, StreamsTaken, StreamsConnected
  <2>4. Holds(Child', table0, fds, kind, ChildOpen(fds, step'), step') /\ DOMAIN Child' = DOMAIN table0
    BY <1>2, <1>3, <1>5, <2>1 DEF Holds
  <2>5. ChildTable'
    BY <1>1, <2>1, <2>4 DEF ChildTable
  <2> QED
    BY <2>2, <2>3, <2>5 DEF ChildInv
<1> QED
  BY <1>4, <1>5

\* After execve only what is not close-on-exec is left.
LEMMA Executed ==
  ASSUME Inv, child = "setup", step \notin Streams, NEW fd \in DOMAIN table0
  PROVE AfterExec(Child)[fd].file =
          CASE fd \in Streams /\ kind[fd] = "pipe" -> PipeEnd(fd, IF fd = 0 THEN "read" ELSE "write")
            [] fd \in Streams /\ kind[fd] = "file" -> <<"file", fd>>
            [] OTHER -> table0[fd].file
<1> DEFINE t == Child
           E == ChildOpen(fds, 3)
<1>1. step = 3
  BY DEF Inv, ChildInv, ChildControl, Streams
<1>2. Holds(t, table0, fds, kind, E, 3)
  BY <1>1 DEF Inv, ChildInv, ChildTable
<1>3. AfterExec(t)[fd] = IF t[fd].cloexec THEN Free ELSE t[fd]
  BY <1>2 DEF AfterExec, Holds
<1>4. table0[fd].cloexec = FALSE /\ kind \in [Streams -> {"inherit", "pipe", "file"}]
  BY DEF Inv, ParentInv, Initially, ParentControl
<1>5. CASE \E x \in E : Number(fds, x) = fd
  <2>1. PICK x \in E : Number(fds, x) = fd
    BY <1>5
  <2>2. fd \notin Streams /\ table0[fd] = Free
    BY <2>1, EndsNoStreams DEF ChildOpen
  <2>3. t[fd] = [file |-> EndFile(x), cloexec |-> TRUE]
    BY <1>2, <2>1 DEF Holds
  <2>4. AfterExec(t)[fd] = Free
    BY <1>3, <2>3
  <2> QED
    BY <2>2, <2>4
<1>6. CASE \A x \in E : Number(fds, x) # fd
  <2>1. CASE fd \notin Streams
    <3>1. t[fd] = table0[fd]
      BY <1>2, <1>6, <2>1 DEF Holds
    <3>2. AfterExec(t)[fd] = table0[fd]
      BY <1>3, <1>4, <3>1
    <3> QED
      BY <2>1, <3>2
  <2>2. CASE fd \in Streams
    <3>1. t[fd] = Redirected(table0, kind, fd)
      BY <1>2, <1>6, <2>2 DEF Holds, Streams
    <3>2. CASE kind[fd] = "inherit"
      BY <1>3, <1>4, <2>2, <3>1, <3>2 DEF Redirected
    <3>3. CASE kind[fd] = "pipe"
      BY <1>3, <2>2, <3>1, <3>3 DEF Redirected, EndFile, ChildsEnd
    <3>4. CASE kind[fd] = "file"
      BY <1>3, <2>2, <3>1, <3>4 DEF Redirected
    <3> QED
      BY <1>4, <2>2, <3>2, <3>3, <3>4
  <2> QED
    BY <2>1, <2>2
<1> QED
  BY <1>5, <1>6

LEMMA ExecveChild == ASSUME Inv, Execve PROVE ChildInv'
<1>1. /\ child = "setup" /\ step \notin Streams
      /\ UNCHANGED <<kind, pc, next, fds, result, step, table0, reported>>
  BY DEF Execve, parent
<1>2. CASE child' = "image" /\ fate' = "exec" /\ table' = [table EXCEPT !["child"] = AfterExec(Child)]
  <2>1. Child' = AfterExec(Child)
    BY <1>2 DEF Inv, ParentInv, ParentTable, Child
  <2>2. DOMAIN Child' = DOMAIN table0
    BY <2>1 DEF AfterExec, Inv, ChildInv, ChildTable
  <2>3. ChildControl'
    BY <1>1, <1>2, SettingUp DEF Inv, ChildInv, ChildControl
  <2>4. StreamsConnected'
    BY <1>1, <2>1, <2>2, Executed DEF StreamsConnected
  <2> QED
    BY <1>1, <1>2, <2>2, <2>3, <2>4 DEF Inv, ChildInv, ChildTable, StreamsTaken
<1>3. CASE child' = "fail" /\ UNCHANGED <<table, fate>>
  <2>1. DOMAIN Child' = DOMAIN table0 /\ Child'[fds[ErrPipe][2]] = Reporting
    BY <1>1, <1>3, SetupHoldsWriteEnd DEF Child, Inv, ChildInv, ChildTable
  <2> QED
    BY <1>1, <1>3, <2>1, ChildFails
<1> QED
  BY <1>2, <1>3 DEF Execve, Child

\* The child is gone, and its table with it.
LEMMA ChildGone ==
  ASSUME Inv, child \in {"setup", "fail", "image"}, child' = "dead",
         table' = [table EXCEPT !["child"] = Empty(Child)], ChildControl',
         UNCHANGED <<kind, pc, next, fds, result, step, table0>>
  PROVE ChildInv'
<1>1. Child' = Empty(Child)
  BY DEF Inv, ParentInv, ParentTable, Child
<1>2. DOMAIN Child' = DOMAIN table0
  BY <1>1 DEF Empty, Inv, ChildInv, ChildTable
<1> QED
  BY <1>2 DEF Inv, ChildInv, ChildTable, StreamsTaken, StreamsConnected

LEMMA ChildFailChild == ASSUME Inv, child_fail PROVE ChildInv'
<1>1. /\ child = "fail" /\ child' = "dead" /\ fate' = "failed"
      /\ table' = [table EXCEPT !["child"] = Empty(Child)]
      /\ reported' = (IsOpen(Child, fds[ErrPipe][2])
                      /\ Child[fds[ErrPipe][2]].file = PipeEnd(ErrPipe, "write"))
      /\ UNCHANGED <<kind, pc, next, fds, result, step, table0>>
  BY DEF child_fail, parent, Child
<1>2. reported' = TRUE
  <2>1. Reporting # Free /\ Reporting.file = PipeEnd(ErrPipe, "write")
    BY DEF Reporting, Free
  <2> QED
    BY <1>1, <2>1, SetupHoldsWriteEnd DEF IsOpen
<1>3. ChildControl'
  BY <1>1, <1>2, SettingUp DEF Inv, ChildInv, ChildControl
<1> QED
  BY <1>1, <1>3, ChildGone

LEMMA ImageExitsChild == ASSUME Inv, ImageExits PROVE ChildInv'
<1>1. /\ child = "image" /\ child' = "dead" /\ table' = [table EXCEPT !["child"] = Empty(Child)]
      /\ UNCHANGED <<kind, pc, next, fds, result, step, table0, reported, fate>>
  BY DEF ImageExits, parent, Child
<1>2. ChildControl'
  BY <1>1 DEF Inv, ChildInv, ChildControl
<1> QED
  BY <1>1, <1>2, ChildGone

LEMMA KilledEarlyChild == ASSUME Inv, KilledEarly PROVE ChildInv'
<1>1. /\ child \in {"setup", "fail"} /\ child' = "dead" /\ fate' = "killed"
      /\ table' = [table EXCEPT !["child"] = Empty(Child)]
      /\ UNCHANGED <<kind, pc, next, fds, result, step, table0, reported>>
  BY DEF KilledEarly, parent, Child
<1>2. ChildControl'
  BY <1>1, SettingUp DEF Inv, ChildInv, ChildControl
<1> QED
  BY <1>1, <1>2, ChildGone

-----------------------------------------------------------------------------
(* The invariants and the properties. *)

LEMMA InitInv == ASSUME StreamsOpen PROVE Init => Inv
<1> SUFFICES ASSUME Init PROVE ChildInv
  BY InitParent DEF Inv
<1>1. PICK limit \in Limits, open \in Inherited :
        table0 = [fd \in 0 .. limit - 1 |->
                    IF fd \in open THEN [file |-> <<"inherited", fd>>, cloexec |-> FALSE] ELSE Free]
  BY DEF Init
<1>2. StreamsTaken(table0)
  <2> SUFFICES ASSUME NEW s \in Streams, s \in DOMAIN table0 PROVE table0[s] # Free
    BY DEF StreamsTaken
  <2>1. table0[s].file = <<"inherited", s>>
    BY <1>1 DEF StreamsOpen
  <2>2. table0[s].file[1] = "inherited" /\ Free.file[1] = "none"
    BY <2>1 DEF Free
  <2> QED
    BY <2>2
<1>3. ChildControl
  <2>1. /\ pc = "pipe" /\ result = "none" /\ child = "none"
        /\ step = 0 /\ reported = FALSE /\ fate = "none"
    BY DEF Init
  <2>2. step \in 0 .. 3
    BY <2>1
  <2> QED
    BY <2>1, <2>2, Zenon DEF ChildControl
<1>4. ChildTable /\ StreamsConnected
  BY DEF Init, ChildTable, StreamsConnected, Child, Empty
<1> QED
  BY <1>2, <1>3, <1>4 DEF ChildInv

LEMMA NextInv == Inv /\ [Next]_vars => Inv'
<1> SUFFICES ASSUME Inv, [Next]_vars PROVE ChildInv'
  BY NextParent DEF Inv
<1>1. CASE ParentStep
  BY <1>1, MakingPipesChild, ForkChild, CloseChildsEndsChild, ExecResultChild, ReapFailedChild
  DEF ParentStep
<1>2. CASE ChildStep
  BY <1>2, ChdirFailsChild, ApplyStreamChild, ExecveChild, ChildFailChild DEF ChildStep
<1>3. CASE ImageExits
  BY <1>3, ImageExitsChild
<1>4. CASE KilledEarly
  BY <1>4, KilledEarlyChild
<1>5. CASE UNCHANGED vars
  <2>1. UNCHANGED <<kind, pc, next, fds, result, child, step, table, table0, reported, fate>>
    BY <1>5 DEF vars
  <2>2. Child' = Child
    BY <2>1 DEF Child
  <2> QED
    BY <2>1, <2>2 DEF Inv, ChildInv, StreamsTaken, ChildControl, ChildTable, StreamsConnected
<1> QED
  BY <1>1, <1>2, <1>3, <1>4, <1>5 DEF Next

LEMMA Invariance == ASSUME StreamsOpen PROVE Spec => []Inv
  BY InitInv, NextInv, PTL DEF Spec

\* Whatever fails, spawn_child returns a handle only for a child that became the
\* program, or that a signal ended first; otherwise no child is left.
THEOREM SpawnReportsExec == ASSUME StreamsOpen PROVE Spec => []ExecReported
<1>1. Inv => ExecReported
  BY DEF Inv, ChildInv, ChildControl, ExecReported
<1> QED
  BY <1>1, Invariance, PTL

\* The program finds its streams where the command said, and no end of a pipe
\* beyond them.
THEOREM SpawnConnectsStreams == ASSUME StreamsOpen PROVE Spec => []StreamsConnected
<1>1. Inv => StreamsConnected
  BY DEF Inv, ChildInv
<1> QED
  BY <1>1, Invariance, PTL
=============================================================================
