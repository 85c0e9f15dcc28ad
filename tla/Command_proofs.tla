--------------------------- MODULE Command_proofs ---------------------------
(***************************************************************************)
(* Proofs about Command, for any memory, arguments, variables and streams  *)
(* and any order of calls.                                                 *)
(*                                                                         *)
(* The argument is about ownership: every piece of memory the command's    *)
(* fields name is allocated and named by one of them only.  A mutator      *)
(* takes what it replaces off its owner and gives new memory to one, so    *)
(* ownership stays exclusive (Handed), and what is released is allocated.   *)
(* The memory of an empty path is the exception: it never has an owner, and *)
(* is counted apart.  After deinit nothing else is allocated, and a second  *)
(* deinit releases the paths again, which are not.                          *)
(***************************************************************************)
EXTENDS Command, FiniteSetsExt, FiniteSetTheorems, WellFoundedInduction, TLAPS

\* A set of naturals has a least element: the sets of what is below one of its
\* elements are finite, and so one of them is the smallest.
LEMMA MinOfNaturals ==
  ASSUME NEW S \in SUBSET Nat, S # {}
  PROVE Min(S) \in S /\ \A y \in S : Min(S) =< y
<1> DEFINE below(x) == {y \in Nat : y \in S /\ y < x}
           segments == {below(x) : x \in S}
<1>0. \A x \in S : x \in Nat
  OBVIOUS
<1>1. segments \subseteq FiniteSubsetsOf(Nat) /\ segments # {}
  <2> SUFFICES ASSUME NEW x \in S PROVE below(x) \subseteq Nat /\ IsFiniteSet(below(x))
    BY DEF FiniteSubsetsOf
  <2>0. x \in Nat
    BY <1>0
  <2>1. below(x) \in SUBSET Nat /\ \A y \in below(x) : y <= x
    BY <2>0
  <2> HIDE DEF below
  <2> QED
    BY <2>0, <2>1, FS_BoundedSetOfNaturals
<1>2. PICK T \in segments : \A U \in segments : ~(<<U, T>> \in StrictSubsetOrdering(Nat))
  <2> HIDE DEF segments
  <2> QED
    BY <1>1, FS_StrictSubsetOrderingWellFounded, WFMin
<1>3. PICK x \in S : T = below(x)
  OBVIOUS
<1>4. \A y \in S : x =< y
  <2> SUFFICES ASSUME NEW y \in S, ~(x =< y) PROVE FALSE
    OBVIOUS
  <2>0. x \in Nat /\ y \in Nat /\ y < x
    BY <1>0
  <2>1. below(y) \subseteq below(x) /\ y \in below(x) /\ y \notin below(y)
    BY <2>0
  <2>2. <<below(y), below(x)>> \in StrictSubsetOrdering(Nat)
    BY <2>1 DEF StrictSubsetOrdering
  <2> QED
    BY <1>2, <1>3, <2>2
<1> QED
  BY <1>4 DEF Min

\* What may be stored in the fields.
Argument == [at : Memory, arg : Args]
Entry == [at : Memory, key : Keys, value : Values]
Removal == [at : Memory, key : Keys]
Paths == {NoString} \cup [at : Memory, len : Lengths]

Typed ==
  /\ args \in Seq(Argument) /\ envs \in Seq(Entry) /\ env_removals \in Seq(Removal)
  /\ env_clear \in BOOLEAN /\ cwd \in Paths /\ failed \in BOOLEAN
  /\ redirs \in [Slots -> [kind : {"inherit", "pipe", "null", "file"}, path : Paths]]
  /\ live \subseteq Memory /\ misfreed \in BOOLEAN /\ deinits \in Nat
  /\ asked \in [args : Seq(Args), env : [Keys -> Values \cup {"inherited", "absent"}]]

\* No two strings of a vector share memory; no two variables of one share a name.
Apart(list) == \A i, j \in DOMAIN list : list[i].at = list[j].at => i = j
Keyed(list) == \A i, j \in DOMAIN list : list[i].key = list[j].key => i = j

Shape == Apart(args) /\ Apart(envs) /\ Apart(env_removals) /\ Keyed(envs) /\ Keyed(env_removals)

\* The fields that own memory, and what each of them owns.
Holders == {<<"args", 0>>, <<"envs", 0>>, <<"removals", 0>>, <<"cwd", 0>>} \cup {<<"redir", s>> : s \in Slots}

HeldBy(a, e, r, c, d) ==
  [h \in Holders |->
     CASE h[1] = "args" -> StringMemory(a)
       [] h[1] = "envs" -> StringMemory(e)
       [] h[1] = "removals" -> StringMemory(r)
       [] h[1] = "cwd" -> PathMemory(c)
       [] h[1] = "redir" -> PathMemory(d[h[2]].path)]

Holdings == HeldBy(args, envs, env_removals, cwd, redirs)

\* Whoever holds a piece of memory holds it alone, and it is allocated.
OneOwner(F, S) ==
  \A h \in Holders : F[h] \subseteq S /\ \A g \in Holders : g # h => F[g] \cap F[h] = {}

\* Every piece of memory has an owner.
Owned(F, S) == \A m \in S : \E h \in Holders : m \in F[h]

\* A path that is empty is not released: its memory has no owner.
Ownership ==
  deinits = 0 =>
    /\ ~misfreed /\ empties \subseteq live
    /\ OneOwner(Holdings, live \ empties) /\ Owned(Holdings, live \ empties)

\* The vectors are empty and the paths still there, but not their memory.
AfterDeinit ==
  deinits > 0 =>
    /\ args = <<>> /\ envs = <<>> /\ env_removals = <<>>
    /\ live = empties /\ KeptPaths \cap empties = {}
    /\ misfreed <=> deinits > 1 /\ KeptPaths # {}

\* What the vectors say is what the calls asked for.
ArgsSay ==
  /\ Len(asked.args) = Len(args)
  /\ \A i \in DOMAIN args : asked.args[i] = args[i].arg
EnvSays ==
  /\ \A e \in ToSet(envs) : asked.env[e.key] = e.value
  /\ \A e \in ToSet(env_removals) : asked.env[e.key] = "absent"
  /\ \A k \in Keys :
       (\A e \in ToSet(envs) \cup ToSet(env_removals) : e.key # k)
       => asked.env[k] = IF k \in Environ /\ ~env_clear THEN "inherited" ELSE "absent"

Faithful == ~failed /\ deinits = 0 => ArgsSay /\ EnvSays

Inv == Typed /\ Shape /\ Ownership /\ AfterDeinit /\ Faithful

-----------------------------------------------------------------------------
(* Vectors. *)

\* New memory is memory, and not allocated.
LEMMA NewMemory ==
  ASSUME NEW S \in SUBSET Memory, Memory \ S # {}
  PROVE Min(Memory \ S) \in Memory /\ Min(Memory \ S) \notin S
<1>1. Memory \ S \in SUBSET Nat
  BY CommandAssumption
<1> QED
  BY <1>1, MinOfNaturals

\* Where names are not repeated, the first entry of a name is the only one.
LEMMA OneKey ==
  ASSUME NEW S, NEW list \in Seq(S), Keyed(list), NEW key
  PROVE KeyAt(list, key) = {i \in DOMAIN list : list[i].key = key}
<1> DEFINE at == {i \in DOMAIN list : list[i].key = key}
<1>1. at # {} => Min(at) \in at
  <2>1. at \in SUBSET Nat
    OBVIOUS
  <2> HIDE DEF at
  <2> QED
    BY <2>1, MinOfNaturals
<1>2. at # {} => at = {Min(at)}
  BY <1>1 DEF Keyed
<1> QED
  BY <1>2 DEF KeyAt

LEMMA RemoveAtShape ==
  ASSUME NEW S, NEW list \in Seq(S), NEW p \in DOMAIN list
  PROVE /\ RemoveAt(list, p) \in Seq(S) /\ DOMAIN RemoveAt(list, p) = 1 .. Len(list) - 1
        /\ \A i \in 1 .. Len(list) - 1 :
             RemoveAt(list, p)[i] = IF i < p THEN list[i] ELSE list[i + 1]
<1> DEFINE front == SubSeq(list, 1, p - 1)
           back == SubSeq(list, p + 1, Len(list))
<1>1. /\ front \in Seq(S) /\ Len(front) = p - 1
      /\ \A i \in 1 .. p - 1 : front[i] = list[i]
  OBVIOUS
<1>2. /\ back \in Seq(S) /\ Len(back) = Len(list) - p
      /\ \A i \in 1 .. Len(list) - p : back[i] = list[p + i]
  OBVIOUS
<1>3. RemoveAt(list, p) = front \o back
  BY DEF RemoveAt
<1> HIDE DEF front, back
<1>4. /\ front \o back \in Seq(S) /\ Len(front \o back) = Len(list) - 1
      /\ \A i \in 1 .. p - 1 : (front \o back)[i] = list[i]
  BY <1>1, <1>2
<1>5. ASSUME NEW i \in 1 .. Len(list) - 1, ~(i < p)
      PROVE (front \o back)[i] = list[i + 1]
  <2>1. (front \o back)[i] = back[i - (p - 1)]
    BY <1>1, <1>2, <1>5
  <2>2. i - (p - 1) \in 1 .. Len(list) - p /\ p + (i - (p - 1)) = i + 1
    BY <1>5
  <2> QED
    BY <2>1, <2>2, <1>2
<1> QED
  BY <1>3, <1>4, <1>5

\* remove_key takes the entry of the name out and leaves the others.
LEMMA Removed ==
  ASSUME NEW S, NEW list \in Seq(S), Keyed(list), Apart(list), NEW key
  PROVE LET new == remove_key(list, key)
        IN /\ new \in Seq(S) /\ Keyed(new) /\ Apart(new)
           /\ ToSet(new) = {e \in ToSet(list) : e.key # key}
           /\ StringMemory(new) = StringMemory(list) \ KeyMemory(list, key)
<1> DEFINE new == remove_key(list, key)
<1> DEFINE at == {i \in DOMAIN list : list[i].key = key}
<1>1. KeyAt(list, key) = at
  BY OneKey
<1>2. CASE at = {}
  <2>1. new = list
    BY <1>1, <1>2 DEF remove_key
  <2> QED
    BY <2>1, <1>1, <1>2 DEF ToSet, KeyMemory
<1>3. CASE at # {}
  <2>1. PICK p \in DOMAIN list : at = {p} /\ list[p].key = key
    BY <1>3 DEF Keyed
  <2>2. new = RemoveAt(list, p)
    BY <2>1, <1>1 DEF remove_key
  <2>3. /\ new \in Seq(S) /\ DOMAIN new = 1 .. Len(list) - 1
        /\ \A i \in 1 .. Len(list) - 1 : new[i] = list[IF i < p THEN i ELSE i + 1]
    BY <2>2, RemoveAtShape
  <2> DEFINE old(i) == IF i < p THEN i ELSE i + 1
             back(i) == IF i < p THEN i ELSE i - 1
  <2>4. DOMAIN list = 1 .. Len(list) /\ Len(list) \in Nat
    OBVIOUS
  <2>5. /\ \A i \in DOMAIN new : old(i) \in DOMAIN list \ {p} /\ new[i] = list[old(i)]
        /\ \A i, j \in DOMAIN new : old(i) = old(j) => i = j
        /\ \A j \in DOMAIN list \ {p} : back(j) \in DOMAIN new /\ old(back(j)) = j
    BY <2>3, <2>4
  <2> HIDE DEF new, old, back
  <2>6. Keyed(new) /\ Apart(new)
    BY <2>5 DEF Keyed, Apart
  <2>7. ToSet(new) = {list[j] : j \in DOMAIN list \ {p}}
    BY <2>5 DEF ToSet
  <2>8. StringMemory(new) = {list[j].at : j \in DOMAIN list \ {p}}
    BY <2>5 DEF StringMemory
  <2>9. \A j \in DOMAIN list : (list[j].key # key) <=> j # p
    BY <2>1
  <2>10. KeyMemory(list, key) = {list[p].at}
    BY <1>1, <2>1 DEF KeyMemory
  <2>11. \A j \in DOMAIN list \ {p} : list[j].at # list[p].at
    BY DEF Apart
  <2> QED
    <3>1. ToSet(new) = {e \in ToSet(list) : e.key # key}
      BY <2>7, <2>9 DEF ToSet
    <3>2. StringMemory(new) = StringMemory(list) \ KeyMemory(list, key)
      BY <2>8, <2>10, <2>11 DEF StringMemory
    <3> QED
      BY <2>3, <2>6, <3>1, <3>2 DEF new
<1> QED
  BY <1>2, <1>3

LEMMA Appended ==
  ASSUME NEW S, NEW list \in Seq(S), NEW e \in S
  PROVE /\ Append(list, e) \in Seq(S) /\ DOMAIN Append(list, e) = DOMAIN list \cup {Len(list) + 1}
        /\ Len(list) + 1 \notin DOMAIN list
        /\ \A i \in DOMAIN list : Append(list, e)[i] = list[i]
        /\ Append(list, e)[Len(list) + 1] = e
OBVIOUS

\* An entry of a new name and in new memory.
LEMMA AppendedKey ==
  ASSUME NEW S, NEW list \in Seq(S), NEW e \in S, Apart(list), e.at \notin StringMemory(list)
  PROVE LET new == Append(list, e)
        IN /\ new \in Seq(S) /\ Apart(new)
           /\ ToSet(new) = ToSet(list) \cup {e}
           /\ StringMemory(new) = StringMemory(list) \cup {e.at}
           /\ Keyed(list) /\ (\A x \in ToSet(list) : x.key # e.key) => Keyed(new)
<1> DEFINE new == Append(list, e)
           last == Len(list) + 1
<1>1. /\ new \in Seq(S) /\ DOMAIN new = DOMAIN list \cup {last} /\ last \notin DOMAIN list
      /\ \A i \in DOMAIN list : new[i] = list[i]
      /\ new[last] = e
  BY Appended
<1> HIDE DEF new, last
<1>2. Apart(new)
  BY <1>1 DEF Apart, StringMemory
<1>3. ToSet(new) = ToSet(list) \cup {e}
  BY <1>1 DEF ToSet
<1>4. StringMemory(new) = StringMemory(list) \cup {e.at}
  BY <1>1 DEF StringMemory
<1>5. Keyed(list) /\ (\A x \in ToSet(list) : x.key # e.key) => Keyed(new)
  BY <1>1 DEF Keyed, ToSet
<1> QED
  BY <1>1, <1>2, <1>3, <1>4, <1>5 DEF new

\* What env() leaves: the entry, in place of an entry of the same name.
LEMMA Put ==
  ASSUME NEW S, NEW list \in Seq(S), NEW e \in S, Keyed(list), Apart(list),
         e.at \notin StringMemory(list)
  PROVE LET new == PutKey(list, e.key, e)
        IN /\ new \in Seq(S) /\ Keyed(new) /\ Apart(new)
           /\ ToSet(new) = {x \in ToSet(list) : x.key # e.key} \cup {e}
           /\ StringMemory(new) = (StringMemory(list) \ KeyMemory(list, e.key)) \cup {e.at}
<1> DEFINE new == PutKey(list, e.key, e)
           at == {i \in DOMAIN list : list[i].key = e.key}
<1>1. KeyAt(list, e.key) = at
  BY OneKey
<1>2. CASE at = {}
  <2>1. new = Append(list, e)
    BY <1>1, <1>2 DEF PutKey
  <2>2. \A x \in ToSet(list) : x.key # e.key
    BY <1>2 DEF ToSet
  <2>3. KeyMemory(list, e.key) = {}
    BY <1>1, <1>2 DEF KeyMemory
  <2> QED
    BY <2>1, <2>2, <2>3, AppendedKey
<1>3. CASE at # {}
  <2>1. PICK p \in DOMAIN list : at = {p} /\ list[p].key = e.key
    BY <1>3 DEF Keyed
  <2>2. new = [list EXCEPT ![p] = e]
    BY <2>1, <1>1 DEF PutKey
  <2>3. new \in Seq(S) /\ DOMAIN new = DOMAIN list /\ new[p] = e
        /\ \A i \in DOMAIN list \ {p} : new[i] = list[i]
    BY <2>2
  <2>4. KeyMemory(list, e.key) = {list[p].at}
    BY <1>1, <2>1 DEF KeyMemory
  <2>5. \A i \in DOMAIN list \ {p} : list[i].key # e.key /\ list[i].at # list[p].at
    BY <2>1 DEF Apart
  <2> HIDE DEF new, at
  <2>6. Keyed(new)
    BY <2>3, <2>5 DEF Keyed
  <2>7. Apart(new)
    BY <2>3 DEF Apart, StringMemory
  <2>8. ToSet(new) = {x \in ToSet(list) : x.key # e.key} \cup {e}
    BY <2>1, <2>3, <2>5 DEF ToSet
  <2>9. StringMemory(new) = (StringMemory(list) \ KeyMemory(list, e.key)) \cup {e.at}
    BY <2>3, <2>4, <2>5 DEF StringMemory
  <2> QED
    BY <2>3, <2>6, <2>7, <2>8, <2>9 DEF new
<1> QED
  BY <1>2, <1>3

-----------------------------------------------------------------------------
(* Ownership. *)

LEMMA HoldersOf ==
  ASSUME NEW a, NEW e, NEW r, NEW c, NEW d
  PROVE /\ {<<"args", 0>>, <<"envs", 0>>, <<"removals", 0>>, <<"cwd", 0>>} \subseteq Holders
        /\ \A s \in Slots : <<"redir", s>> \in Holders
        /\ HeldBy(a, e, r, c, d)[<<"args", 0>>] = StringMemory(a)
        /\ HeldBy(a, e, r, c, d)[<<"envs", 0>>] = StringMemory(e)
        /\ HeldBy(a, e, r, c, d)[<<"removals", 0>>] = StringMemory(r)
        /\ HeldBy(a, e, r, c, d)[<<"cwd", 0>>] = PathMemory(c)
        /\ \A s \in Slots : HeldBy(a, e, r, c, d)[<<"redir", s>>] = PathMemory(d[s].path)
<1>1. /\ {<<"args", 0>>, <<"envs", 0>>, <<"removals", 0>>, <<"cwd", 0>>} \subseteq Holders
      /\ \A s \in Slots : <<"redir", s>> \in Holders
  BY DEF Holders
<1> QED
  BY <1>1 DEF HeldBy

\* Who holds what when one of the fields has changed.
LEMMA Swapped ==
  ASSUME NEW a, NEW e, NEW r, NEW c, NEW d, NEW h \in Holders
  PROVE /\ \A b : HeldBy(b, e, r, c, d)[h] =
                  IF h = <<"args", 0>> THEN StringMemory(b) ELSE HeldBy(a, e, r, c, d)[h]
        /\ \A b : HeldBy(a, b, r, c, d)[h] =
                  IF h = <<"envs", 0>> THEN StringMemory(b) ELSE HeldBy(a, e, r, c, d)[h]
        /\ \A b : HeldBy(a, e, b, c, d)[h] =
                  IF h = <<"removals", 0>> THEN StringMemory(b) ELSE HeldBy(a, e, r, c, d)[h]
        /\ \A b : HeldBy(a, e, r, b, d)[h] =
                  IF h = <<"cwd", 0>> THEN PathMemory(b) ELSE HeldBy(a, e, r, c, d)[h]
        /\ \A s \in Slots : \A b : (\A t \in Slots \ {s} : b[t] = d[t]) =>
             HeldBy(a, e, r, c, b)[h] =
               IF h = <<"redir", s>> THEN PathMemory(b[s].path) ELSE HeldBy(a, e, r, c, d)[h]
<1>1. CASE h[1] # "redir"
  BY <1>1 DEF HeldBy, Holders
<1>2. CASE h[1] = "redir"
  BY <1>2 DEF HeldBy, Holders
<1> QED
  BY <1>1, <1>2

\* The same of a step.
LEMMA SwappedOne ==
  /\ UNCHANGED <<envs, env_removals, cwd, redirs>> =>
       \A h \in Holders :
         Holdings'[h] = IF h = <<"args", 0>> THEN StringMemory(args') ELSE Holdings[h]
  /\ UNCHANGED <<args, env_removals, cwd, redirs>> =>
       \A h \in Holders :
         Holdings'[h] = IF h = <<"envs", 0>> THEN StringMemory(envs') ELSE Holdings[h]
  /\ UNCHANGED <<args, envs, cwd, redirs>> =>
       \A h \in Holders :
         Holdings'[h] = IF h = <<"removals", 0>> THEN StringMemory(env_removals') ELSE Holdings[h]
  /\ UNCHANGED <<args, envs, env_removals, redirs>> =>
       \A h \in Holders : Holdings'[h] = IF h = <<"cwd", 0>> THEN PathMemory(cwd') ELSE Holdings[h]
<1>1. UNCHANGED <<envs, env_removals, cwd, redirs>> =>
        \A h \in Holders :
          Holdings'[h] = IF h = <<"args", 0>> THEN StringMemory(args') ELSE Holdings[h]
  BY Swapped DEF Holdings
<1>2. UNCHANGED <<args, env_removals, cwd, redirs>> =>
        \A h \in Holders :
          Holdings'[h] = IF h = <<"envs", 0>> THEN StringMemory(envs') ELSE Holdings[h]
  BY Swapped DEF Holdings
<1>3. UNCHANGED <<args, envs, cwd, redirs>> =>
        \A h \in Holders :
          Holdings'[h] = IF h = <<"removals", 0>> THEN StringMemory(env_removals') ELSE Holdings[h]
  BY Swapped DEF Holdings
<1>4. UNCHANGED <<args, envs, env_removals, redirs>> =>
        \A h \in Holders : Holdings'[h] = IF h = <<"cwd", 0>> THEN PathMemory(cwd') ELSE Holdings[h]
  BY Swapped DEF Holdings
<1> QED
  BY <1>1, <1>2, <1>3, <1>4

\* A step that changes a redirection.
LEMMA SwappedRedir ==
  ASSUME UNCHANGED <<args, envs, env_removals, cwd>>, NEW s \in Slots, NEW x,
         redirs \in [Slots -> [kind : {"inherit", "pipe", "null", "file"}, path : Paths]],
         redirs' = [redirs EXCEPT ![s] = x]
  PROVE \A h \in Holders :
          Holdings'[h] = IF h = <<"redir", s>> THEN PathMemory(x.path) ELSE Holdings[h]
<1>1. (\A t \in Slots \ {s} : redirs'[t] = redirs[t]) /\ redirs'[s] = x
  OBVIOUS
<1> DEFINE b == redirs'
<1>2. Holdings' = HeldBy(args, envs, env_removals, cwd, b)
  BY DEF Holdings
<1>3. (\A t \in Slots \ {s} : b[t] = redirs[t]) /\ b[s] = x
  BY <1>1
<1> HIDE DEF b
<1>4. \A h \in Holders :
        HeldBy(args, envs, env_removals, cwd, b)[h] =
          IF h = <<"redir", s>> THEN PathMemory(b[s].path)
          ELSE HeldBy(args, envs, env_removals, cwd, redirs)[h]
  BY <1>3, Swapped
<1> QED
  BY <1>2, <1>3, <1>4 DEF Holdings

\* The holders are these and no others, and they are different.
LEMMA HolderCases ==
  /\ {<<"args", 0>>, <<"envs", 0>>, <<"removals", 0>>, <<"cwd", 0>>} \subseteq Holders
  /\ \A s \in Slots : <<"redir", s>> \in Holders
  /\ \A h \in Holders : h \in {<<"args", 0>>, <<"envs", 0>>, <<"removals", 0>>, <<"cwd", 0>>}
                        \/ \E s \in Slots : h = <<"redir", s>>
  /\ <<"args", 0>> # <<"envs", 0>> /\ <<"args", 0>> # <<"removals", 0>> /\ <<"args", 0>> # <<"cwd", 0>>
  /\ <<"envs", 0>> # <<"removals", 0>> /\ <<"envs", 0>> # <<"cwd", 0>> /\ <<"removals", 0>> # <<"cwd", 0>>
  /\ \A s \in Slots : \A h \in {<<"args", 0>>, <<"envs", 0>>, <<"removals", 0>>, <<"cwd", 0>>} :
       h # <<"redir", s>>
  /\ \A s, t \in Slots : <<"redir", s>> = <<"redir", t>> => s = t
BY DEF Holders

-----------------------------------------------------------------------------
(* The calls. *)

\* What the fields own is allocated, and so is what a name's entry owns.
LEMMA Owns ==
  ASSUME Inv, deinits = 0
  PROVE /\ StringMemory(args) \subseteq live /\ StringMemory(envs) \subseteq live
        /\ StringMemory(env_removals) \subseteq live /\ PathMemory(cwd) \subseteq live
        /\ \A s \in Slots : PathMemory(redirs[s].path) \subseteq live
        /\ OneOwner(Holdings, live \ empties) /\ Owned(Holdings, live \ empties)
        /\ empties \subseteq live /\ ~misfreed
<1>1. /\ OneOwner(Holdings, live \ empties) /\ Owned(Holdings, live \ empties)
      /\ empties \subseteq live /\ ~misfreed
  BY DEF Inv, Ownership
<1>2. \A h \in Holders : Holdings[h] \subseteq live
  <2> DEFINE F == Holdings
  <2>1. \A h \in Holders : F[h] \subseteq live \ empties
    BY <1>1 DEF OneOwner
  <2> HIDE DEF F
  <2>2. \A h \in Holders : F[h] \subseteq live
    BY <2>1
  <2> QED
    BY <2>2 DEF F
<1>3. /\ Holdings[<<"args", 0>>] = StringMemory(args)
      /\ Holdings[<<"envs", 0>>] = StringMemory(envs)
      /\ Holdings[<<"removals", 0>>] = StringMemory(env_removals)
      /\ Holdings[<<"cwd", 0>>] = PathMemory(cwd)
      /\ \A s \in Slots : Holdings[<<"redir", s>>] = PathMemory(redirs[s].path)
      /\ {<<"args", 0>>, <<"envs", 0>>, <<"removals", 0>>, <<"cwd", 0>>} \subseteq Holders
      /\ \A s \in Slots : <<"redir", s>> \in Holders
  BY HoldersOf DEF Holdings
<1> HIDE DEF Holdings
<1>4. \A s \in Slots : PathMemory(redirs[s].path) \subseteq live
  BY <1>2, <1>3
<1> QED
  BY <1>1, <1>2, <1>3, <1>4

\* KeyAt gives positions of the list.
LEMMA KeyOwned ==
  ASSUME NEW S, NEW list \in Seq(S), Keyed(list), NEW key
  PROVE KeyMemory(list, key) \subseteq StringMemory(list)
BY OneKey DEF KeyMemory, StringMemory

\* A call that takes d1 and d2 off two holders and allocates `got`, which goes to
\* one of them or, for an empty path, to none.
Hands(got, h0, new, h1, d1, h2, d2) ==
  /\ {h0, h1, h2} \subseteq Holders /\ d1 \subseteq Holdings[h1] /\ d2 \subseteq Holdings[h2]
  /\ got \cap (live \ (d1 \cup d2)) = {} /\ new \subseteq got
  /\ empties' = empties \cup (got \ new)
  /\ \A h \in Holders :
       Holdings'[h] = (Holdings[h] \ ((IF h = h1 THEN d1 ELSE {}) \cup (IF h = h2 THEN d2 ELSE {})))
                      \cup (IF h = h0 THEN new ELSE {})
  /\ live' = (live \ (d1 \cup d2)) \cup got
  /\ misfreed' = (misfreed \/ ~(d1 \cup d2 \subseteq live))

LEMMA Handed ==
  ASSUME Inv, deinits = 0, deinits' = 0,
         NEW got, NEW h0, NEW new, NEW h1, NEW d1, NEW h2, NEW d2,
         Hands(got, h0, new, h1, d1, h2, d2)
  PROVE Ownership' /\ AfterDeinit' /\ misfreed' = FALSE
<1> DEFINE F == Holdings
           G == Holdings'
           dropped == d1 \cup d2
           S == live \ empties
           T == live' \ empties'
<1>1. OneOwner(F, S) /\ Owned(F, S) /\ empties \subseteq live /\ misfreed = FALSE
  BY Owns DEF Inv, Typed
<1>2. /\ {h0, h1, h2} \subseteq Holders /\ d1 \subseteq F[h1] /\ d2 \subseteq F[h2]
      /\ got \cap (live \ dropped) = {} /\ new \subseteq got
      /\ empties' = empties \cup (got \ new)
      /\ \A h \in Holders :
           G[h] = (F[h] \ ((IF h = h1 THEN d1 ELSE {}) \cup (IF h = h2 THEN d2 ELSE {})))
                  \cup (IF h = h0 THEN new ELSE {})
      /\ live' = (live \ dropped) \cup got
      /\ misfreed' = (misfreed \/ ~(dropped \subseteq live))
  BY DEF Hands
<1> HIDE DEF F, G
<1>3. \A h \in Holders : G[h] = (F[h] \ dropped) \cup (IF h = h0 THEN new ELSE {})
  BY <1>1, <1>2 DEF OneOwner
<1>4. dropped \subseteq S
  BY <1>1, <1>2 DEF OneOwner
<1> HIDE DEF dropped
<1>5. got \cap S \subseteq dropped /\ got \cap empties = {}
  BY <1>1, <1>2, <1>4
<1>6. T = (S \ dropped) \cup new /\ empties' \subseteq live'
  BY <1>1, <1>2, <1>4, <1>5
<1> HIDE DEF S, T
<1>7. new \cap (S \ dropped) = {}
  BY <1>2, <1>5
<1>8. OneOwner(G, (S \ dropped) \cup new)
  BY <1>1, <1>2, <1>3, <1>7 DEF OneOwner
<1>9. Owned(G, (S \ dropped) \cup new)
  BY <1>1, <1>2, <1>3 DEF Owned
<1>10. OneOwner(Holdings', live' \ empties') /\ Owned(Holdings', live' \ empties')
  BY <1>6, <1>8, <1>9 DEF G, T
<1>11. misfreed' = FALSE
  BY <1>1, <1>2, <1>4 DEF S
<1> QED
  BY <1>6, <1>10, <1>11 DEF Ownership, AfterDeinit, OneOwner, Owned

\* The vectors of variables hold entries, whose names are Keys.
LEMMA KeysNamed ==
  ASSUME Typed
  PROVE /\ \A x \in ToSet(envs) : x.key \in Keys /\ x.value \in Values
        /\ \A x \in ToSet(env_removals) : x.key \in Keys
<1>1. \A x \in ToSet(envs) : x \in Entry
  BY DEF Typed, ToSet
<1>2. \A x \in ToSet(env_removals) : x \in Removal
  BY DEF Typed, ToSet
<1> QED
  BY <1>1, <1>2 DEF Entry, Removal

\* What a caller asked for stays well formed.
LEMMA AskedType ==
  ASSUME Typed,
         \/ \E a \in Args : asked' = [asked EXCEPT !.args = Append(@, a)]
         \/ asked' = [asked EXCEPT !.args = <<>>]
         \/ \E k \in Keys, v \in Values \cup {"absent"} : asked' = [asked EXCEPT !.env[k] = v]
         \/ asked' = [asked EXCEPT !.env = [k \in Keys |-> IF @[k] = "inherited" THEN "absent" ELSE @[k]]]
         \/ asked' = asked
  PROVE asked' \in [args : Seq(Args), env : [Keys -> Values \cup {"inherited", "absent"}]]
<1> DEFINE was == asked
           Vars == [Keys -> Values \cup {"inherited", "absent"}]
           T == [args : Seq(Args), env : Vars]
<1>1. was.args \in Seq(Args) /\ was.env \in Vars /\ was \in T
  BY DEF Typed
<1>2. \/ \E a \in Args : asked' = [was EXCEPT !.args = Append(was.args, a)]
      \/ asked' = [was EXCEPT !.args = <<>>]
      \/ \E k \in Keys, v \in Values \cup {"absent"} : asked' = [was EXCEPT !.env = [was.env EXCEPT ![k] = v]]
      \/ asked' = [was EXCEPT !.env = [k \in Keys |-> IF was.env[k] = "inherited" THEN "absent" ELSE was.env[k]]]
      \/ asked' = was
  OBVIOUS
<1>3. \A a \in Args : Append(was.args, a) \in Seq(Args)
  BY <1>1
<1>4. <<>> \in Seq(Args)
  OBVIOUS
<1>5. \A k \in Keys, v \in Values \cup {"absent"} : [was.env EXCEPT ![k] = v] \in Vars
  BY <1>1
<1>6. [k \in Keys |-> IF was.env[k] = "inherited" THEN "absent" ELSE was.env[k]] \in Vars
  BY <1>1
<1> HIDE DEF was, Vars
<1>7. \A x \in Seq(Args) : [was EXCEPT !.args = x] \in T
  BY <1>1
<1>8. \A x \in Vars : [was EXCEPT !.env = x] \in T
  BY <1>1
<1> HIDE DEF T
<1>9. asked' \in T
  BY <1>1, <1>2, <1>3, <1>4, <1>5, <1>6, <1>7, <1>8
<1> QED
  BY <1>9 DEF T, Vars

LEMMA ArgInv == ASSUME Inv, NEW a \in Args, arg(a) PROVE Inv'
<1> DEFINE e == [at |-> NewAt, arg |-> a]
<1>1. /\ NewAt \in Memory /\ NewAt \notin live /\ deinits = 0
      /\ args' = Append(args, e) /\ live' = live \cup {NewAt}
      /\ asked' = [asked EXCEPT !.args = Append(@, a)]
      /\ UNCHANGED <<envs, env_removals, env_clear, cwd, redirs, failed, empties, misfreed, deinits>>
  BY NewMemory DEF arg, CanAlloc, NewAt, Fresh, Building, Inv, Typed
<1> HIDE DEF NewAt
<1>2. /\ args' \in Seq(Argument) /\ Apart(args')
      /\ StringMemory(args') = StringMemory(args) \cup {NewAt}
  <2>1. e \in Argument /\ e.at = NewAt /\ e.at \notin StringMemory(args)
    BY <1>1, Owns DEF Argument
  <2>2. args \in Seq(Argument) /\ Apart(args)
    BY DEF Inv, Typed, Shape
  <2> HIDE DEF e
  <2> QED
    BY <1>1, <2>1, <2>2, AppendedKey
<1>3. Hands({NewAt}, <<"args", 0>>, {NewAt}, <<"args", 0>>, {}, <<"args", 0>>, {})
  <2>1. \A h \in Holders : Holdings'[h] = Holdings[h] \cup (IF h = <<"args", 0>> THEN {NewAt} ELSE {})
    <3>1. Holdings[<<"args", 0>>] = StringMemory(args)
      BY HoldersOf DEF Holdings
    <3> QED
      BY <1>1, <1>2, <3>1, SwappedOne
  <2>2. misfreed' = (misfreed \/ ~({} \cup {} \subseteq live))
    BY <1>1 DEF Inv, Typed
  <2> HIDE DEF Holdings
  <2>3. /\ {NewAt} \cap (live \ ({} \cup {})) = {} /\ live' = (live \ ({} \cup {})) \cup {NewAt}
        /\ empties' = empties \cup ({NewAt} \ {NewAt})
    BY <1>1
  <2>4. <<"args", 0>> \in Holders
    BY HolderCases
  <2> DEFINE me == <<"args", 0>>
  <2> HIDE DEF me
  <2>5. \A h \in Holders :
          Holdings'[h] = (Holdings[h] \ ((IF h = me THEN {} ELSE {}) \cup (IF h = me THEN {} ELSE {})))
                         \cup (IF h = me THEN {NewAt} ELSE {})
    BY <2>1 DEF me
  <2>6. {} \subseteq Holdings[me] /\ me \in Holders /\ {NewAt} \subseteq {NewAt}
    BY <2>4 DEF me
  <2>7. Hands({NewAt}, me, {NewAt}, me, {}, me, {})
    BY <2>2, <2>3, <2>5, <2>6 DEF Hands
  <2> QED
    BY <2>7 DEF me
<1>4. Ownership' /\ AfterDeinit' /\ misfreed' = FALSE
  BY <1>1, <1>3, Handed
<1>5. Typed'
  <2>1. asked' \in [args : Seq(Args), env : [Keys -> Values \cup {"inherited", "absent"}]]
    BY <1>1, AskedType DEF Inv
  <2>2. live' \subseteq Memory
    BY <1>1 DEF Inv, Typed
  <2> QED
    BY <1>1, <1>2, <1>4, <2>1, <2>2 DEF Inv, Typed
<1>6. Shape'
  BY <1>1, <1>2 DEF Inv, Shape
<1>7. Faithful'
  <2>1. ArgsSay => ArgsSay'
    BY <1>1 DEF ArgsSay, Inv, Typed
  <2>2. EnvSays => EnvSays'
    BY <1>1 DEF EnvSays, Inv, Typed
  <2> QED
    BY <1>1, <2>1, <2>2 DEF Faithful, Inv
<1> QED
  BY <1>4, <1>5, <1>6, <1>7 DEF Inv

LEMMA ClearArgsInv == ASSUME Inv, clear_args PROVE Inv'
<1>1. /\ deinits = 0 /\ args' = <<>> /\ live' = live \ StringMemory(args)
      /\ misfreed' = (misfreed \/ ~(StringMemory(args) \subseteq live))
      /\ asked' = [asked EXCEPT !.args = <<>>]
      /\ UNCHANGED <<envs, env_removals, env_clear, cwd, redirs, failed, empties, deinits>>
  BY DEF clear_args, Free
<1>2. StringMemory(args') = {} /\ args' \in Seq(Argument) /\ Apart(args')
  BY <1>1 DEF StringMemory, Apart
<1>3. Hands({}, <<"args", 0>>, {}, <<"args", 0>>, StringMemory(args), <<"args", 0>>, {})
  <2>1. \A h \in Holders : Holdings'[h] = IF h = <<"args", 0>> THEN {} ELSE Holdings[h]
    BY <1>1, <1>2, SwappedOne
  <2>2. Holdings[<<"args", 0>>] = StringMemory(args)
    BY HoldersOf DEF Holdings
  <2> HIDE DEF Holdings
  <2> QED
    BY <1>1, <2>1, <2>2, HolderCases DEF Hands
<1>4. Ownership' /\ AfterDeinit' /\ misfreed' = FALSE
  BY <1>1, <1>3, Handed
<1>5. Typed'
  <2>1. asked' \in [args : Seq(Args), env : [Keys -> Values \cup {"inherited", "absent"}]]
    BY <1>1, AskedType DEF Inv
  <2> QED
    BY <1>1, <1>2, <1>4, <2>1 DEF Inv, Typed
<1>6. Shape'
  BY <1>1, <1>2 DEF Inv, Shape
<1>7. Faithful'
  <2>1. ArgsSay'
    BY <1>1 DEF ArgsSay, Inv, Typed
  <2>2. EnvSays => EnvSays'
    BY <1>1 DEF EnvSays, Inv, Typed
  <2> QED
    BY <1>1, <2>1, <2>2 DEF Faithful, Inv
<1> QED
  BY <1>4, <1>5, <1>6, <1>7 DEF Inv

LEMMA EnvInv == ASSUME Inv, NEW k \in Keys, NEW v \in Values, env(k, v) PROVE Inv'
<1> DEFINE e == [at |-> NewAt, key |-> k, value |-> v]
           d1 == KeyMemory(env_removals, k)
           d2 == KeyMemory(envs, k)
<1>1. /\ NewAt \in Memory /\ NewAt \notin live /\ deinits = 0 /\ ~failed
      /\ env_removals' = remove_key(env_removals, k) /\ envs' = PutKey(envs, k, e)
      /\ live' = (live \cup {NewAt}) \ (d1 \cup d2)
      /\ misfreed' = (misfreed \/ ~(d1 \cup d2 \subseteq live))
      /\ asked' = [asked EXCEPT !.env[k] = v]
      /\ UNCHANGED <<args, env_clear, cwd, redirs, failed, empties, deinits>>
  BY NewMemory DEF env, CanAlloc, NewAt, Fresh, Building, Inv, Typed
<1> HIDE DEF NewAt
<1>2. e \in Entry /\ e.at = NewAt /\ e.key = k /\ e.value = v
  BY <1>1 DEF Entry
<1> HIDE DEF e
<1>3. /\ envs' \in Seq(Entry) /\ Keyed(envs') /\ Apart(envs')
      /\ ToSet(envs') = {x \in ToSet(envs) : x.key # k} \cup {e}
      /\ StringMemory(envs') = (StringMemory(envs) \ d2) \cup {NewAt}
  <2>1. NewAt \notin StringMemory(envs)
    BY <1>1, Owns
  <2>2. envs \in Seq(Entry) /\ Keyed(envs) /\ Apart(envs)
    BY DEF Inv, Typed, Shape
  <2> QED
    BY <1>1, <1>2, <2>1, <2>2, Put
<1>4. /\ env_removals' \in Seq(Removal) /\ Keyed(env_removals') /\ Apart(env_removals')
      /\ ToSet(env_removals') = {x \in ToSet(env_removals) : x.key # k}
      /\ StringMemory(env_removals') = StringMemory(env_removals) \ d1
  BY <1>1, Removed DEF Inv, Typed, Shape
<1>5. Hands({NewAt}, <<"envs", 0>>, {NewAt}, <<"removals", 0>>, d1, <<"envs", 0>>, d2)
  <2>1. \A h \in Holders : Holdings'[h] =
           IF h = <<"envs", 0>> THEN (StringMemory(envs) \ d2) \cup {NewAt}
           ELSE IF h = <<"removals", 0>> THEN StringMemory(env_removals) \ d1 ELSE Holdings[h]
    <3>1. \A h \in Holders :
            HeldBy(args, envs', env_removals, cwd, redirs)[h] =
              IF h = <<"envs", 0>> THEN StringMemory(envs') ELSE Holdings[h]
      BY Swapped DEF Holdings
    <3>2. \A h \in Holders :
            Holdings'[h] = IF h = <<"removals", 0>> THEN StringMemory(env_removals')
                           ELSE HeldBy(args, envs', env_removals, cwd, redirs)[h]
      BY <1>1, Swapped DEF Holdings
    <3> QED
      BY <1>3, <1>4, <3>1, <3>2, HolderCases
  <2>2. Holdings[<<"envs", 0>>] = StringMemory(envs) /\ Holdings[<<"removals", 0>>] = StringMemory(env_removals)
    BY HoldersOf DEF Holdings
  <2>3. d1 \subseteq StringMemory(env_removals) /\ d2 \subseteq StringMemory(envs)
    BY KeyOwned DEF Inv, Typed, Shape
  <2>4. d2 \subseteq live /\ d1 \subseteq live
    BY <1>1, <2>3, Owns
  <2> HIDE DEF Holdings, d1, d2
  <2> QED
    BY <1>1, <2>1, <2>2, <2>3, <2>4, HolderCases DEF Hands
<1>6. Ownership' /\ AfterDeinit' /\ misfreed' = FALSE
  BY <1>1, <1>5, Handed
<1>7. Typed'
  <2>1. asked' \in [args : Seq(Args), env : [Keys -> Values \cup {"inherited", "absent"}]]
    BY <1>1, AskedType DEF Inv
  <2>2. live' \subseteq Memory
    BY <1>1 DEF Inv, Typed
  <2> QED
    BY <1>1, <1>3, <1>4, <1>6, <2>1, <2>2 DEF Inv, Typed
<1>8. Shape'
  BY <1>1, <1>3, <1>4 DEF Inv, Shape
<1>9. Faithful'
  <2>1. ArgsSay => ArgsSay'
    BY <1>1 DEF ArgsSay, Inv, Typed
  <2>2. \A x \in Keys : asked'.env[x] = IF x = k THEN v ELSE asked.env[x]
    BY <1>1 DEF Inv, Typed
  <2>3. /\ \A x \in ToSet(envs) : x.key \in Keys
        /\ \A x \in ToSet(env_removals) : x.key \in Keys
    BY KeysNamed DEF Inv
  <2>4. EnvSays => EnvSays'
    BY <1>1, <1>2, <1>3, <1>4, <2>2, <2>3 DEF EnvSays
  <2> QED
    BY <1>1, <2>1, <2>4 DEF Faithful, Inv
<1> QED
  BY <1>6, <1>7, <1>8, <1>9 DEF Inv

LEMMA EnvFailsInv == ASSUME Inv, NEW k \in Keys, env_fails(k) PROVE Inv'
<1> DEFINE d1 == KeyMemory(env_removals, k)
<1>1. /\ deinits = 0 /\ failed' = TRUE
      /\ env_removals' = remove_key(env_removals, k)
      /\ live' = live \ d1 /\ misfreed' = (misfreed \/ ~(d1 \subseteq live))
      /\ UNCHANGED <<args, envs, env_clear, cwd, redirs, empties, deinits, asked>>
  BY DEF env_fails, Building, Free
<1>2. /\ env_removals' \in Seq(Removal) /\ Keyed(env_removals') /\ Apart(env_removals')
      /\ StringMemory(env_removals') = StringMemory(env_removals) \ d1
  BY <1>1, Removed DEF Inv, Typed, Shape
<1>3. Hands({}, <<"removals", 0>>, {}, <<"removals", 0>>, d1, <<"removals", 0>>, {})
  <2>1. \A h \in Holders : Holdings'[h] =
           IF h = <<"removals", 0>> THEN StringMemory(env_removals) \ d1 ELSE Holdings[h]
    BY <1>1, <1>2, SwappedOne
  <2>2. Holdings[<<"removals", 0>>] = StringMemory(env_removals)
    BY HoldersOf DEF Holdings
  <2>3. d1 \subseteq StringMemory(env_removals)
    BY KeyOwned DEF Inv, Typed, Shape
  <2> HIDE DEF Holdings, d1
  <2> QED
    BY <1>1, <2>1, <2>2, <2>3, HolderCases DEF Hands
<1>4. Ownership' /\ AfterDeinit' /\ misfreed' = FALSE
  BY <1>1, <1>3, Handed
<1>5. Typed'
  BY <1>1, <1>2, <1>4 DEF Inv, Typed
<1>6. Shape'
  BY <1>1, <1>2 DEF Inv, Shape
<1> QED
  BY <1>1, <1>4, <1>5, <1>6 DEF Inv, Faithful

\* What both forms of env_remove do to the variables set with env().
LEMMA Unset ==
  ASSUME Inv, deinits = 0, NEW k \in Keys
  PROVE LET new == remove_key(envs, k)
            d1 == KeyMemory(envs, k)
        IN /\ new \in Seq(Entry) /\ Keyed(new) /\ Apart(new)
           /\ ToSet(new) = {x \in ToSet(envs) : x.key # k}
           /\ StringMemory(new) = StringMemory(envs) \ d1
           /\ d1 \subseteq StringMemory(envs) /\ d1 \subseteq live
           /\ StringMemory(env_removals) \subseteq live \ d1
<1>1. envs \in Seq(Entry) /\ Keyed(envs) /\ Apart(envs)
  BY DEF Inv, Typed, Shape
<1>2. KeyMemory(envs, k) \subseteq StringMemory(envs)
  BY <1>1, KeyOwned
<1>3. StringMemory(env_removals) \cap StringMemory(envs) = {}
  <2>1. Holdings[<<"removals", 0>>] \cap Holdings[<<"envs", 0>>] = {}
    BY Owns, HolderCases DEF OneOwner
  <2> QED
    BY <2>1, HoldersOf DEF Holdings
<1> QED
  BY <1>1, <1>2, <1>3, Removed, Owns

LEMMA EnvRemoveNewInv == ASSUME Inv, NEW k \in Keys, env_remove_new(k) PROVE Inv'
<1> DEFINE d1 == KeyMemory(envs, k)
           m == Min(Memory \ (live \ d1))
           r == [at |-> m, key |-> k]
<1>1. /\ deinits = 0 /\ ~failed /\ KeyAt(env_removals, k) = {}
      /\ Memory \ (live \ d1) # {}
      /\ live' = (live \ d1) \cup {m} /\ misfreed' = (misfreed \/ ~(d1 \subseteq live))
      /\ env_removals' = Append(env_removals, r) /\ envs' = remove_key(envs, k)
      /\ asked' = [asked EXCEPT !.env[k] = "absent"]
      /\ UNCHANGED <<args, env_clear, cwd, redirs, failed, empties, deinits>>
  BY DEF env_remove_new, Building
<1>2. m \in Memory /\ m \notin live \ d1
  BY <1>1, NewMemory DEF Inv, Typed
<1> HIDE DEF m
<1>3. /\ envs' \in Seq(Entry) /\ Keyed(envs') /\ Apart(envs')
      /\ ToSet(envs') = {x \in ToSet(envs) : x.key # k}
      /\ StringMemory(envs') = StringMemory(envs) \ d1
      /\ d1 \subseteq StringMemory(envs) /\ d1 \subseteq live
      /\ StringMemory(env_removals) \subseteq live \ d1
  BY <1>1, Unset
<1>4. r \in Removal /\ r.at = m /\ r.key = k
  BY <1>2 DEF Removal
<1> HIDE DEF r
<1>5. /\ env_removals' \in Seq(Removal) /\ Keyed(env_removals') /\ Apart(env_removals')
      /\ ToSet(env_removals') = ToSet(env_removals) \cup {r}
      /\ StringMemory(env_removals') = StringMemory(env_removals) \cup {m}
  <2>1. env_removals \in Seq(Removal) /\ Keyed(env_removals) /\ Apart(env_removals)
    BY DEF Inv, Typed, Shape
  <2>2. \A x \in ToSet(env_removals) : x.key # k
    <3>1. {i \in DOMAIN env_removals : env_removals[i].key = k} = {}
      BY <1>1, <2>1, OneKey
    <3> QED
      BY <3>1 DEF ToSet
  <2>3. m \notin StringMemory(env_removals)
    BY <1>2, <1>3
  <2> QED
    BY <1>1, <1>4, <2>1, <2>2, <2>3, AppendedKey
<1>6. Hands({m}, <<"removals", 0>>, {m}, <<"envs", 0>>, d1, <<"envs", 0>>, {})
  <2>1. \A h \in Holders : Holdings'[h] =
           IF h = <<"envs", 0>> THEN StringMemory(envs) \ d1
           ELSE IF h = <<"removals", 0>> THEN StringMemory(env_removals) \cup {m} ELSE Holdings[h]
    <3>1. \A h \in Holders :
            HeldBy(args, envs', env_removals, cwd, redirs)[h] =
              IF h = <<"envs", 0>> THEN StringMemory(envs') ELSE Holdings[h]
      BY Swapped DEF Holdings
    <3>2. \A h \in Holders :
            Holdings'[h] = IF h = <<"removals", 0>> THEN StringMemory(env_removals')
                           ELSE HeldBy(args, envs', env_removals, cwd, redirs)[h]
      BY <1>1, Swapped DEF Holdings
    <3> QED
      BY <1>3, <1>5, <3>1, <3>2, HolderCases
  <2>2. Holdings[<<"envs", 0>>] = StringMemory(envs) /\ Holdings[<<"removals", 0>>] = StringMemory(env_removals)
    BY HoldersOf DEF Holdings
  <2> HIDE DEF Holdings, d1
  <2> QED
    <3>1. {m} \cap (live \ (d1 \cup {})) = {} /\ live' = (live \ (d1 \cup {})) \cup {m}
          /\ misfreed' = (misfreed \/ ~(d1 \cup {} \subseteq live))
          /\ {m} \subseteq {m} /\ empties' = empties \cup ({m} \ {m})
      BY <1>1, <1>2
    <3>2. \A h \in Holders :
            Holdings'[h] = (Holdings[h] \ ((IF h = <<"envs", 0>> THEN d1 ELSE {})
                                          \cup (IF h = <<"envs", 0>> THEN {} ELSE {})))
                           \cup (IF h = <<"removals", 0>> THEN {m} ELSE {})
      BY <2>1, <2>2, HolderCases
    <3>3. {<<"removals", 0>>, <<"envs", 0>>} \subseteq Holders /\ d1 \subseteq Holdings[<<"envs", 0>>]
      BY <1>3, <2>2, HolderCases
    <3> QED
      BY <3>1, <3>2, <3>3 DEF Hands
<1>7. Ownership' /\ AfterDeinit' /\ misfreed' = FALSE
  BY <1>1, <1>6, Handed
<1>8. Typed'
  <2>1. asked' \in [args : Seq(Args), env : [Keys -> Values \cup {"inherited", "absent"}]]
    BY <1>1, AskedType DEF Inv
  <2>2. live' \subseteq Memory
    BY <1>1, <1>2 DEF Inv, Typed
  <2> QED
    BY <1>1, <1>3, <1>5, <1>7, <2>1, <2>2 DEF Inv, Typed
<1>9. Shape'
  BY <1>1, <1>3, <1>5 DEF Inv, Shape
<1>10. Faithful'
  <2>1. ArgsSay => ArgsSay'
    BY <1>1 DEF ArgsSay, Inv, Typed
  <2>2. \A x \in Keys : asked'.env[x] = IF x = k THEN "absent" ELSE asked.env[x]
    BY <1>1 DEF Inv, Typed
  <2>3. EnvSays => EnvSays'
    BY <1>1, <1>3, <1>4, <1>5, <2>2, KeysNamed DEF EnvSays, Inv
  <2> QED
    BY <1>1, <2>1, <2>3 DEF Faithful, Inv
<1> QED
  BY <1>7, <1>8, <1>9, <1>10 DEF Inv

LEMMA EnvRemoveAgainInv == ASSUME Inv, NEW k \in Keys, env_remove_again(k) PROVE Inv'
<1> DEFINE d1 == KeyMemory(envs, k)
<1>1. /\ deinits = 0 /\ ~failed /\ KeyAt(env_removals, k) # {}
      /\ live' = live \ d1 /\ misfreed' = (misfreed \/ ~(d1 \subseteq live))
      /\ envs' = remove_key(envs, k) /\ asked' = [asked EXCEPT !.env[k] = "absent"]
      /\ UNCHANGED <<args, env_removals, env_clear, cwd, redirs, failed, empties, deinits>>
  BY DEF env_remove_again, Building, Free
<1>2. /\ envs' \in Seq(Entry) /\ Keyed(envs') /\ Apart(envs')
      /\ ToSet(envs') = {x \in ToSet(envs) : x.key # k}
      /\ StringMemory(envs') = StringMemory(envs) \ d1 /\ d1 \subseteq StringMemory(envs)
  BY <1>1, Unset
<1>3. Hands({}, <<"envs", 0>>, {}, <<"envs", 0>>, d1, <<"envs", 0>>, {})
  <2>1. \A h \in Holders : Holdings'[h] = IF h = <<"envs", 0>> THEN StringMemory(envs) \ d1 ELSE Holdings[h]
    BY <1>1, <1>2, SwappedOne
  <2>2. Holdings[<<"envs", 0>>] = StringMemory(envs)
    BY HoldersOf DEF Holdings
  <2> HIDE DEF Holdings, d1
  <2> QED
    BY <1>1, <1>2, <2>1, <2>2, HolderCases DEF Hands
<1>4. Ownership' /\ AfterDeinit' /\ misfreed' = FALSE
  BY <1>1, <1>3, Handed
<1>5. Typed'
  <2>1. asked' \in [args : Seq(Args), env : [Keys -> Values \cup {"inherited", "absent"}]]
    BY <1>1, AskedType DEF Inv
  <2> QED
    BY <1>1, <1>2, <1>4, <2>1 DEF Inv, Typed
<1>6. Shape'
  BY <1>1, <1>2 DEF Inv, Shape
<1>7. Faithful'
  <2>1. ArgsSay => ArgsSay'
    BY <1>1 DEF ArgsSay, Inv, Typed
  <2>2. \A x \in Keys : asked'.env[x] = IF x = k THEN "absent" ELSE asked.env[x]
    BY <1>1 DEF Inv, Typed
  <2>3. \E r \in ToSet(env_removals) : r.key = k
    <3>1. env_removals \in Seq(Removal) /\ Keyed(env_removals)
      BY DEF Inv, Typed, Shape
    <3>2. {i \in DOMAIN env_removals : env_removals[i].key = k} # {}
      BY <1>1, <3>1, OneKey
    <3> QED
      BY <3>2 DEF ToSet
  <2>4. EnvSays => EnvSays'
    BY <1>1, <1>2, <2>2, <2>3, KeysNamed DEF EnvSays, Inv
  <2> QED
    BY <1>1, <2>1, <2>4 DEF Faithful, Inv
<1> QED
  BY <1>4, <1>5, <1>6, <1>7 DEF Inv

LEMMA EnvRemoveFailsInv == ASSUME Inv, NEW k \in Keys, env_remove_fails(k) PROVE Inv'
<1> DEFINE d1 == KeyMemory(envs, k)
<1>1. /\ deinits = 0 /\ failed' = TRUE
      /\ live' = live \ d1 /\ misfreed' = (misfreed \/ ~(d1 \subseteq live))
      /\ envs' = remove_key(envs, k)
      /\ UNCHANGED <<args, env_removals, env_clear, cwd, redirs, empties, deinits, asked>>
  BY DEF env_remove_fails, Building, Free
<1>2. /\ envs' \in Seq(Entry) /\ Keyed(envs') /\ Apart(envs')
      /\ StringMemory(envs') = StringMemory(envs) \ d1 /\ d1 \subseteq StringMemory(envs)
  BY <1>1, Unset
<1>3. Hands({}, <<"envs", 0>>, {}, <<"envs", 0>>, d1, <<"envs", 0>>, {})
  <2>1. \A h \in Holders : Holdings'[h] = IF h = <<"envs", 0>> THEN StringMemory(envs) \ d1 ELSE Holdings[h]
    BY <1>1, <1>2, SwappedOne
  <2>2. Holdings[<<"envs", 0>>] = StringMemory(envs)
    BY HoldersOf DEF Holdings
  <2> HIDE DEF Holdings, d1
  <2> QED
    BY <1>1, <1>2, <2>1, <2>2, HolderCases DEF Hands
<1>4. Ownership' /\ AfterDeinit' /\ misfreed' = FALSE
  BY <1>1, <1>3, Handed
<1>5. Typed'
  BY <1>1, <1>2, <1>4 DEF Inv, Typed
<1>6. Shape'
  BY <1>1, <1>2 DEF Inv, Shape
<1> QED
  BY <1>1, <1>4, <1>5, <1>6 DEF Inv, Faithful

LEMMA EnvClearInv == ASSUME Inv, env_clear_all PROVE Inv'
<1> DEFINE d1 == StringMemory(env_removals)
<1>1. /\ deinits = 0 /\ ~failed /\ env_removals' = <<>> /\ env_clear' = TRUE
      /\ live' = live \ d1 /\ misfreed' = (misfreed \/ ~(d1 \subseteq live))
      /\ asked' = [asked EXCEPT !.env = [k \in Keys |-> IF @[k] = "inherited" THEN "absent" ELSE @[k]]]
      /\ UNCHANGED <<args, envs, cwd, redirs, failed, empties, deinits>>
  BY DEF env_clear_all, Building, Free
<1>2. /\ StringMemory(env_removals') = {} /\ env_removals' \in Seq(Removal)
      /\ Apart(env_removals') /\ Keyed(env_removals') /\ ToSet(env_removals') = {}
  BY <1>1 DEF StringMemory, Apart, Keyed, ToSet
<1>3. Hands({}, <<"removals", 0>>, {}, <<"removals", 0>>, d1, <<"removals", 0>>, {})
  <2>1. \A h \in Holders : Holdings'[h] = IF h = <<"removals", 0>> THEN {} ELSE Holdings[h]
    BY <1>1, <1>2, SwappedOne
  <2>2. Holdings[<<"removals", 0>>] = d1
    BY HoldersOf DEF Holdings
  <2> HIDE DEF Holdings, d1
  <2> QED
    BY <1>1, <2>1, <2>2, HolderCases DEF Hands
<1>4. Ownership' /\ AfterDeinit' /\ misfreed' = FALSE
  BY <1>1, <1>3, Handed
<1>5. Typed'
  <2>1. asked' \in [args : Seq(Args), env : [Keys -> Values \cup {"inherited", "absent"}]]
    BY <1>1, AskedType DEF Inv
  <2> QED
    BY <1>1, <1>2, <1>4, <2>1 DEF Inv, Typed
<1>6. Shape'
  BY <1>1, <1>2 DEF Inv, Shape
<1>7. Faithful'
  <2>1. ArgsSay => ArgsSay'
    BY <1>1 DEF ArgsSay, Inv, Typed
  <2>2. \A x \in Keys : asked'.env[x] = IF asked.env[x] = "inherited" THEN "absent" ELSE asked.env[x]
    BY <1>1 DEF Inv, Typed
  <2>3. EnvSays => EnvSays'
    BY <1>1, <1>2, <2>2, KeysNamed, CommandAssumption DEF EnvSays, Inv
  <2> QED
    BY <1>1, <2>1, <2>3 DEF Faithful, Inv
<1> QED
  BY <1>4, <1>5, <1>6, <1>7 DEF Inv

\* A path that is stored owns its memory unless it is empty.
LEMMA NewPath ==
  ASSUME NEW m \in Memory, NEW len \in Lengths
  PROVE /\ [at |-> m, len |-> len] \in Paths
        /\ PathMemory([at |-> m, len |-> len]) = {m} \ (IF len = 0 THEN {m} ELSE {})
<1>1. len \in Nat /\ m \in Nat
  BY CommandAssumption
<1> QED
  BY <1>1 DEF Paths, PathMemory

LEMMA CurrentDirInv == ASSUME Inv, NEW len \in Lengths, current_dir(len) PROVE Inv'
<1> DEFINE d1 == PathMemory(cwd)
<1>1. /\ NewAt \in Memory /\ NewAt \notin live /\ deinits = 0
      /\ cwd' = [at |-> NewAt, len |-> len]
      /\ live' = (live \cup {NewAt}) \ d1 /\ misfreed' = (misfreed \/ ~(d1 \subseteq live))
      /\ empties' = empties \cup (IF len = 0 THEN {NewAt} ELSE {})
      /\ UNCHANGED <<args, envs, env_removals, env_clear, redirs, failed, deinits, asked>>
  BY NewMemory DEF current_dir, CanAlloc, NewAt, Fresh, Building, Replaced, Unowned, Inv, Typed
<1> HIDE DEF NewAt
<1>2. /\ cwd' \in Paths /\ PathMemory(cwd') \subseteq {NewAt}
      /\ empties' = empties \cup ({NewAt} \ PathMemory(cwd'))
  <2> DEFINE m == NewAt
  <2>1. m \in Memory /\ cwd' = [at |-> m, len |-> len]
    BY <1>1
  <2> HIDE DEF m
  <2>2. cwd' \in Paths /\ PathMemory(cwd') = {m} \ (IF len = 0 THEN {m} ELSE {})
    BY <2>1, NewPath
  <2> QED
    BY <1>1, <2>2 DEF m
<1>3. Hands({NewAt}, <<"cwd", 0>>, PathMemory(cwd'), <<"cwd", 0>>, d1, <<"cwd", 0>>, {})
  <2>1. \A h \in Holders : Holdings'[h] = IF h = <<"cwd", 0>> THEN PathMemory(cwd') ELSE Holdings[h]
    BY <1>1, SwappedOne
  <2>2. Holdings[<<"cwd", 0>>] = d1 /\ d1 \subseteq live
    BY <1>1, HoldersOf, Owns DEF Holdings
  <2> DEFINE new == PathMemory(cwd')
  <2> HIDE DEF Holdings, d1, new
  <2>3. \A h \in Holders :
          Holdings'[h] = (Holdings[h] \ ((IF h = <<"cwd", 0>> THEN d1 ELSE {})
                                        \cup (IF h = <<"cwd", 0>> THEN {} ELSE {})))
                         \cup (IF h = <<"cwd", 0>> THEN new ELSE {})
    BY <2>1, <2>2 DEF new
  <2>4. new \subseteq {NewAt} /\ empties' = empties \cup ({NewAt} \ new)
    BY <1>2 DEF new
  <2>5. {NewAt} \cap (live \ (d1 \cup {})) = {} /\ live' = (live \ (d1 \cup {})) \cup {NewAt}
        /\ misfreed' = (misfreed \/ ~(d1 \cup {} \subseteq live))
    BY <1>1, <2>2
  <2>6. Hands({NewAt}, <<"cwd", 0>>, new, <<"cwd", 0>>, d1, <<"cwd", 0>>, {})
    BY <2>2, <2>3, <2>4, <2>5, HolderCases DEF Hands
  <2> QED
    BY <2>6 DEF new
<1>4. Ownership' /\ AfterDeinit' /\ misfreed' = FALSE
  BY <1>1, <1>3, Handed
<1>5. Typed'
  BY <1>1, <1>2, <1>4 DEF Inv, Typed
<1>6. Shape'
  BY <1>1 DEF Inv, Shape
<1>7. Faithful'
  BY <1>1 DEF Faithful, ArgsSay, EnvSays, Inv
<1> QED
  BY <1>4, <1>5, <1>6, <1>7 DEF Inv

\* Both ways to redirect a stream: without a path, and with one that is allocated.
LEMMA RedirInv ==
  ASSUME Inv, NEW s \in Slots, NEW got, NEW x \in [kind : {"inherit", "pipe", "null", "file"}, path : Paths],
         deinits = 0, got \subseteq Memory \ live,
         PathMemory(x.path) \subseteq got, empties' = empties \cup (got \ PathMemory(x.path)),
         redirs' = [redirs EXCEPT ![s] = x],
         live' = (live \ PathMemory(redirs[s].path)) \cup got,
         misfreed' = (misfreed \/ ~(PathMemory(redirs[s].path) \subseteq live)),
         UNCHANGED <<args, envs, env_removals, env_clear, cwd, failed, deinits, asked>>
  PROVE Inv'
<1> DEFINE d1 == PathMemory(redirs[s].path)
           new == PathMemory(x.path)
           me == <<"redir", s>>
<1>1. Hands(got, me, new, me, d1, me, {})
  <2>1. \A h \in Holders : Holdings'[h] = IF h = me THEN new ELSE Holdings[h]
    BY SwappedRedir DEF Inv, Typed
  <2>2. Holdings[me] = d1 /\ d1 \subseteq live /\ me \in Holders
    BY HoldersOf, Owns DEF Holdings
  <2>3. /\ got \cap live = {} /\ new \subseteq got /\ empties' = empties \cup (got \ new)
        /\ live' = (live \ d1) \cup got /\ misfreed' = (misfreed \/ ~(d1 \subseteq live))
    OBVIOUS
  <2> HIDE DEF Holdings, d1, new, me
  <2>4. \A h \in Holders :
          Holdings'[h] = (Holdings[h] \ ((IF h = me THEN d1 ELSE {}) \cup (IF h = me THEN {} ELSE {})))
                         \cup (IF h = me THEN new ELSE {})
    BY <2>1, <2>2
  <2> QED
    BY <2>2, <2>3, <2>4 DEF Hands
<1>2. Ownership' /\ AfterDeinit' /\ misfreed' = FALSE
  <2> HIDE DEF d1, new, me
  <2> QED
    BY <1>1, Handed
<1>3. Typed'
  BY <1>2 DEF Inv, Typed
<1>4. Shape'
  BY DEF Inv, Shape
<1>5. Faithful'
  BY DEF Faithful, ArgsSay, EnvSays, Inv
<1> QED
  BY <1>2, <1>3, <1>4, <1>5 DEF Inv

LEMMA SetRedirInv ==
  ASSUME Inv, NEW s \in Slots, NEW kind \in {"inherit", "pipe", "null"}, set_redir(s, kind)
  PROVE Inv'
<1> DEFINE x == [kind |-> kind, path |-> NoString]
<1>1. x \in [kind : {"inherit", "pipe", "null", "file"}, path : Paths] /\ PathMemory(x.path) = {}
  BY DEF Paths, PathMemory, NoString
<1>2. /\ deinits = 0 /\ redirs' = [redirs EXCEPT ![s] = x]
      /\ live' = (live \ PathMemory(redirs[s].path)) \cup {}
      /\ misfreed' = (misfreed \/ ~(PathMemory(redirs[s].path) \subseteq live))
      /\ empties' = empties \cup ({} \ PathMemory(x.path))
      /\ UNCHANGED <<args, envs, env_removals, env_clear, cwd, failed, deinits, asked>>
  BY DEF set_redir, Building, Free
<1> HIDE DEF x
<1> QED
  BY <1>1, <1>2, RedirInv

LEMMA SetRedirFileInv ==
  ASSUME Inv, NEW s \in Slots, NEW len \in Lengths, set_redir_file(s, len)
  PROVE Inv'
<1> DEFINE x == [kind |-> "file", path |-> [at |-> NewAt, len |-> len]]
           d1 == PathMemory(redirs[s].path)
<1>1. /\ NewAt \in Memory /\ NewAt \notin live /\ deinits = 0
      /\ redirs' = [redirs EXCEPT ![s] = x]
      /\ live' = (live \cup {NewAt}) \ d1 /\ misfreed' = (misfreed \/ ~(d1 \subseteq live))
      /\ empties' = empties \cup (IF len = 0 THEN {NewAt} ELSE {})
      /\ UNCHANGED <<args, envs, env_removals, env_clear, cwd, failed, deinits, asked>>
  BY NewMemory DEF set_redir_file, CanAlloc, NewAt, Fresh, Building, Unowned, Inv, Typed
<1> HIDE DEF NewAt
<1>2. /\ x \in [kind : {"inherit", "pipe", "null", "file"}, path : Paths]
      /\ PathMemory(x.path) \subseteq {NewAt}
      /\ empties' = empties \cup ({NewAt} \ PathMemory(x.path))
  BY <1>1, NewPath
<1>3. d1 \subseteq live
  BY <1>1, Owns
<1>4. live' = (live \ d1) \cup {NewAt} /\ {NewAt} \subseteq Memory \ live
  BY <1>1, <1>3
<1> HIDE DEF x
<1> QED
  BY <1>1, <1>2, <1>4, RedirInv

LEMMA OutOfMemoryInv == ASSUME Inv, OutOfMemory PROVE Inv'
<1>1. /\ failed' = TRUE
      /\ UNCHANGED <<args, envs, env_removals, env_clear, cwd, redirs, live, empties, misfreed, deinits, asked>>
  BY DEF OutOfMemory, heap
<1>2. Typed' /\ Shape'
  BY <1>1 DEF Inv, Typed, Shape
<1>3. Holdings' = Holdings
  BY <1>1 DEF Holdings
<1>4. KeptPaths' = KeptPaths
  BY <1>1 DEF KeptPaths
<1>5. Ownership' /\ AfterDeinit'
  BY <1>1, <1>3, <1>4 DEF Inv, Ownership, AfterDeinit
<1> QED
  BY <1>1, <1>2, <1>5 DEF Inv, Faithful

\* The first deinit releases what every holder holds; what is left is the
\* memory of empty paths, and a later deinit releases the other paths again.
LEMMA DeinitInv == ASSUME Inv, deinit PROVE Inv'
<1> DEFINE strings == StringMemory(args) \cup StringMemory(envs) \cup StringMemory(env_removals)
           dropped == strings \cup KeptPaths
<1>1. /\ deinits \in Nat /\ deinits' = deinits + 1
      /\ args' = <<>> /\ envs' = <<>> /\ env_removals' = <<>>
      /\ live' = live \ dropped
      /\ misfreed' = (misfreed \/ ~(dropped \subseteq live))
      /\ UNCHANGED <<env_clear, cwd, redirs, failed, empties, asked>>
  BY DEF deinit, Free, Inv, Typed
<1>2. KeptPaths' = KeptPaths
  BY <1>1 DEF KeptPaths
<1>3. ASSUME deinits = 0
      PROVE live' = empties /\ KeptPaths \cap empties = {} /\ misfreed' = FALSE
  <2> DEFINE F == Holdings
             S == live \ empties
  <2>1. \A h \in {<<"args", 0>>, <<"envs", 0>>, <<"removals", 0>>, <<"cwd", 0>>} : F[h] \subseteq dropped
    BY HoldersOf DEF Holdings, KeptPaths
  <2>2. ASSUME NEW s \in Slots PROVE F[<<"redir", s>>] \subseteq dropped
    <3>1. F[<<"redir", s>>] = PathMemory(redirs[s].path)
      BY HoldersOf DEF Holdings
    <3>2. PathMemory(redirs[s].path) \in {PathMemory(redirs[t].path) : t \in Slots}
      OBVIOUS
    <3> QED
      BY <3>1, <3>2 DEF KeptPaths
  <2>3. /\ F[<<"args", 0>>] = StringMemory(args) /\ F[<<"envs", 0>>] = StringMemory(envs)
        /\ F[<<"removals", 0>>] = StringMemory(env_removals) /\ F[<<"cwd", 0>>] = PathMemory(cwd)
        /\ \A s \in Slots : F[<<"redir", s>>] = PathMemory(redirs[s].path)
    BY HoldersOf DEF Holdings
  <2>4. \A h \in Holders : F[h] \subseteq S
    BY <1>3, Owns DEF OneOwner
  <2>5. \A m \in S : \E h \in Holders : m \in F[h]
    BY <1>3, Owns DEF Owned
  <2> HIDE DEF F, S
  <2>6. S \subseteq dropped
    <3> HIDE DEF dropped
    <3> QED
      BY <2>1, <2>2, <2>5, HolderCases
  <2>7. KeptPaths \subseteq S
    <3>1. \A s \in Slots : PathMemory(redirs[s].path) \subseteq S
      BY <2>3, <2>4, HolderCases
    <3>2. PathMemory(cwd) \subseteq S
      BY <2>3, <2>4, HolderCases
    <3> QED
      BY <3>1, <3>2 DEF KeptPaths
  <2>8. strings \subseteq S
    BY <2>3, <2>4, HolderCases
  <2>9. live' = empties /\ dropped \subseteq live /\ KeptPaths \cap empties = {}
    <3>1. dropped \subseteq S
      BY <2>7, <2>8
    <3>2. empties \subseteq live
      BY <1>3, Owns
    <3> HIDE DEF dropped
    <3>3. live' = empties /\ dropped \subseteq live
      BY <1>1, <2>6, <3>1, <3>2 DEF S
    <3> QED
      BY <2>7, <3>3 DEF S
  <2>10. misfreed' = FALSE
    BY <1>1, <1>3, <2>9, Owns DEF Inv, Typed
  <2> QED
    BY <1>1, <1>2, <1>3, <2>9, <2>10
<1>4. ASSUME deinits > 0
      PROVE live' = empties /\ KeptPaths \cap empties = {} /\ (misfreed' <=> KeptPaths # {})
  <2>1. /\ args = <<>> /\ envs = <<>> /\ env_removals = <<>>
        /\ live = empties /\ KeptPaths \cap empties = {}
        /\ misfreed <=> deinits > 1 /\ KeptPaths # {}
    BY <1>4 DEF Inv, AfterDeinit
  <2>2. strings = {}
    BY <2>1 DEF StringMemory
  <2>3. dropped = KeptPaths
    BY <2>2
  <2> HIDE DEF dropped
  <2>4. live' = empties /\ (misfreed' <=> KeptPaths # {})
    BY <1>1, <2>1, <2>3
  <2> QED
    BY <1>1, <1>2, <1>4, <2>1, <2>4
<1> HIDE DEF dropped
<1>5. AfterDeinit' /\ misfreed' \in BOOLEAN /\ live' \subseteq Memory
  <2>1. deinits = 0 \/ deinits > 0
    BY <1>1
  <2>2. misfreed' \in BOOLEAN /\ live' \subseteq Memory
    BY <1>1 DEF Inv, Typed
  <2>3. /\ args' = <<>> /\ envs' = <<>> /\ env_removals' = <<>> /\ live' = empties'
        /\ KeptPaths' \cap empties' = {}
        /\ misfreed' <=> deinits' > 1 /\ KeptPaths' # {}
    <3>1. live' = empties' /\ KeptPaths' \cap empties' = {}
      BY <1>1, <1>2, <1>3, <1>4, <2>1
    <3>2. misfreed' <=> deinits' > 1 /\ KeptPaths # {}
      <4>1. deinits > 0 <=> deinits' > 1
        BY <1>1
      <4>2. deinits = 0 => ~misfreed'
        BY <1>3
      <4>3. deinits > 0 => (misfreed' <=> KeptPaths # {})
        BY <1>4
      <4>4. ~(deinits > 0) => deinits = 0
        BY <1>1
      <4> QED
        BY <4>1, <4>2, <4>3, <4>4
    <3> QED
      BY <1>1, <1>2, <3>1, <3>2
  <2> QED
    BY <2>2, <2>3 DEF AfterDeinit
<1>6. Typed'
  BY <1>1, <1>5 DEF Inv, Typed
<1>7. Shape'
  BY <1>1 DEF Shape, Apart, Keyed
<1> QED
  BY <1>1, <1>5, <1>6, <1>7 DEF Inv, Ownership, Faithful

LEMMA InitInv == Init => Inv
<1> SUFFICES ASSUME Init PROVE Inv
  OBVIOUS
<1>1. Typed
  <2>1. cwd \in Paths /\ redirs \in [Slots -> [kind : {"inherit", "pipe", "null", "file"}, path : Paths]]
    BY DEF Init, NoRedir, NoString, Paths
  <2>2. asked \in [args : Seq(Args), env : [Keys -> Values \cup {"inherited", "absent"}]]
    BY DEF Init
  <2>3. args \in Seq(Argument) /\ envs \in Seq(Entry) /\ env_removals \in Seq(Removal)
    BY DEF Init
  <2>4. env_clear \in BOOLEAN /\ failed \in BOOLEAN /\ misfreed \in BOOLEAN
        /\ live \subseteq Memory /\ deinits \in Nat
    BY DEF Init
  <2> QED
    BY <2>1, <2>2, <2>3, <2>4 DEF Typed
<1>2. Shape
  BY DEF Init, Shape, Apart, Keyed
<1>3. \A h \in Holders : Holdings[h] = {}
  <2>1. /\ StringMemory(args) = {} /\ StringMemory(envs) = {} /\ StringMemory(env_removals) = {}
        /\ PathMemory(cwd) = {} /\ \A s \in Slots : PathMemory(redirs[s].path) = {}
    BY DEF Init, StringMemory, PathMemory, NoString, NoRedir
  <2> QED
    BY <2>1, HoldersOf, HolderCases DEF Holdings
<1>4. Ownership /\ AfterDeinit
  BY <1>3 DEF Init, Ownership, AfterDeinit, OneOwner, Owned
<1>5. Faithful
  <2>1. ToSet(envs) = {} /\ ToSet(env_removals) = {} /\ Len(args) = 0 /\ DOMAIN args = {}
        /\ Len(asked.args) = 0
    BY DEF Init, ToSet
  <2> QED
    BY <2>1 DEF Init, Faithful, ArgsSay, EnvSays
<1> QED
  BY <1>1, <1>2, <1>4, <1>5 DEF Inv, Init

LEMMA NextInv == Inv /\ [Next]_vars => Inv'
<1> SUFFICES ASSUME Inv, [Next]_vars PROVE Inv'
  OBVIOUS
<1>1. CASE OutOfMemory
  BY <1>1, OutOfMemoryInv
<1>2. CASE clear_args
  BY <1>2, ClearArgsInv
<1>3. CASE env_clear_all
  BY <1>3, EnvClearInv
<1>4. CASE deinit
  BY <1>4, DeinitInv
<1>5. CASE \E a \in Args : arg(a)
  BY <1>5, ArgInv
<1>6. ASSUME NEW k \in Keys,
             env_remove_new(k) \/ env_remove_again(k) \/ env_fails(k) \/ env_remove_fails(k)
      PROVE Inv'
  BY <1>6, EnvRemoveNewInv, EnvRemoveAgainInv, EnvFailsInv, EnvRemoveFailsInv
<1>7. ASSUME NEW k \in Keys, NEW v \in Values, env(k, v) PROVE Inv'
  BY <1>7, EnvInv
<1>8. ASSUME NEW len \in Lengths, current_dir(len) PROVE Inv'
  BY <1>8, CurrentDirInv
<1>9. ASSUME NEW s \in Slots,
             (\E kind \in {"inherit", "pipe", "null"} : set_redir(s, kind))
             \/ \E len \in Lengths : set_redir_file(s, len)
      PROVE Inv'
  BY <1>9, SetRedirInv, SetRedirFileInv
<1>10. CASE UNCHANGED vars
  <2>1. Holdings' = Holdings
    BY <1>10 DEF vars, Holdings
  <2>2. KeptPaths' = KeptPaths
    BY <1>10 DEF vars, KeptPaths
  <2> QED
    BY <1>10, <2>1, <2>2 DEF vars, Inv, Typed, Shape, Ownership, AfterDeinit, Faithful, ArgsSay, EnvSays
<1> QED
  BY <1>1, <1>2, <1>3, <1>4, <1>5, <1>6, <1>7, <1>8, <1>9, <1>10 DEF Next

LEMMA Invariance == Spec => []Inv
  BY InitInv, NextInv, PTL DEF Spec

-----------------------------------------------------------------------------
(* The properties. *)

\* Memory is released that is not allocated exactly when deinit is called again
\* on a command that was given a path: no mutator does it, whatever was called
\* before and whichever call failed, and neither does the first deinit.
THEOREM CommandDoubleFreeOnlyByDeinit == Spec => []DoubleFreeOnlyByDeinit
<1>1. Inv => DoubleFreeOnlyByDeinit
  BY DEF Inv, Typed, Ownership, AfterDeinit, DoubleFreeOnlyByDeinit
<1> QED
  BY <1>1, Invariance, PTL

LEMMA InvOwns == ASSUME Inv PROVE LeaksOnlyEmptyPaths
<1>1. CASE deinits > 0
  BY <1>1 DEF Inv, AfterDeinit, LeaksOnlyEmptyPaths
<1>2. CASE ~(deinits > 0)
  <2>1. deinits = 0
    BY <1>2 DEF Inv, Typed
  <2> DEFINE F == Holdings
             S == live \ empties
  <2>2. OneOwner(F, S) /\ Owned(F, S) /\ empties \subseteq live
    BY <2>1, Owns
  <2>3. /\ F[<<"args", 0>>] = StringMemory(args) /\ F[<<"envs", 0>>] = StringMemory(envs)
        /\ F[<<"removals", 0>>] = StringMemory(env_removals) /\ F[<<"cwd", 0>>] = PathMemory(cwd)
        /\ \A s \in Slots : F[<<"redir", s>>] = PathMemory(redirs[s].path)
    BY HoldersOf DEF Holdings
  <2>4. /\ DOMAIN Owners = 1 .. 6
        /\ Owners[1] = F[<<"args", 0>>] /\ Owners[2] = F[<<"envs", 0>>]
        /\ Owners[3] = F[<<"removals", 0>>] /\ Owners[4] = F[<<"cwd", 0>>]
        /\ Owners[5] = UNION {PathMemory(redirs[s].path) : s \in Slots} /\ Owners[6] = empties
    BY <2>3 DEF Owners
  <2>5. \A m : m \in Owners[5] <=> \E s \in Slots : m \in F[<<"redir", s>>]
    <3>1. Owners[5] = UNION {F[<<"redir", s>>] : s \in Slots}
      BY <2>3, <2>4
    <3> HIDE DEF F
    <3> QED
      BY <3>1
  <2> HIDE DEF F
  <2>6. /\ \A h \in Holders : F[h] \subseteq S /\ \A g \in Holders : g # h => F[g] \cap F[h] = {}
        /\ \A m \in S : \E h \in Holders : m \in F[h]
    BY <2>2 DEF OneOwner, Owned
  <2> HIDE DEF S
  <2>7. \A i \in 1 .. 5 : Owners[i] \subseteq S
    <3>1. \A i \in 1 .. 4 : Owners[i] \subseteq S
      BY <2>4, <2>6, HolderCases
    <3>2. Owners[5] \subseteq S
      BY <2>5, <2>6, HolderCases
    <3> QED
      BY <3>1, <3>2
  <2>8. \A i, j \in DOMAIN Owners : i # j => Owners[i] \cap Owners[j] = {}
    <3>1. \A i, j \in 1 .. 4 : i # j => Owners[i] \cap Owners[j] = {}
      BY <2>4, <2>6, HolderCases
    <3>2. ASSUME NEW i \in 1 .. 4 PROVE Owners[i] \cap Owners[5] = {}
      <4>1. PICK h \in {<<"args", 0>>, <<"envs", 0>>, <<"removals", 0>>, <<"cwd", 0>>} : Owners[i] = F[h]
        BY <2>4
      <4>2. \A s \in Slots : F[h] \cap F[<<"redir", s>>] = {}
        BY <2>6, HolderCases
      <4> QED
        BY <2>5, <4>1, <4>2
    <3>3. ASSUME NEW i \in 1 .. 5 PROVE Owners[i] \cap Owners[6] = {}
      <4>1. Owners[6] \cap S = {}
        BY <2>4 DEF S
      <4> QED
        BY <2>7, <4>1
    <3>4. \A i, j \in 1 .. 6 : i # j =>
            \/ i \in 1 .. 4 /\ j \in 1 .. 4
            \/ i \in 1 .. 4 /\ j = 5
            \/ i = 5 /\ j \in 1 .. 4
            \/ i \in 1 .. 5 /\ j = 6
            \/ i = 6 /\ j \in 1 .. 5
      OBVIOUS
    <3>5. ASSUME NEW i \in 1 .. 6, NEW j \in 1 .. 6, i # j PROVE Owners[i] \cap Owners[j] = {}
      BY <3>1, <3>2, <3>3, <3>4, <3>5
    <3> QED
      BY <2>4, <3>5
  <2>9. live = UNION ToSet(Owners)
    <3>1. ToSet(Owners) = {Owners[i] : i \in 1 .. 6}
      BY <2>4 DEF ToSet
    <3>2. \A m \in S : \E i \in 1 .. 5 : m \in Owners[i]
      <4> SUFFICES ASSUME NEW m \in S PROVE \E i \in 1 .. 5 : m \in Owners[i]
        OBVIOUS
      <4>1. PICK h \in Holders : m \in F[h]
        BY <2>6
      <4> QED
        BY <2>4, <2>5, <4>1, HolderCases
    <3>3. live = S \cup Owners[6]
      BY <2>2, <2>4 DEF S
    <3>4. \A m : m \in live <=> \E i \in 1 .. 6 : m \in Owners[i]
      <4>1. \A i \in 1 .. 6 : i \in 1 .. 5 \/ i = 6
        OBVIOUS
      <4>2. 6 \in 1 .. 6 /\ 1 .. 5 \subseteq 1 .. 6
        OBVIOUS
      <4> QED
        BY <2>7, <3>2, <3>3, <4>1, <4>2
    <3> QED
      BY <3>1, <3>4
  <2>10. IsInjective([i \in DOMAIN args |-> args[i].at])
    BY DEF Inv, Shape, Apart, IsInjective
  <2> QED
    BY <1>2, <2>8, <2>9, <2>10 DEF LeaksOnlyEmptyPaths
<1> QED
  BY <1>1, <1>2

\* The command's fields own exactly what is allocated, each piece once, whatever
\* was called and whatever failed, and deinit leaves nothing: except the memory
\* of empty paths, which stays allocated for ever and without an owner.
THEOREM CommandOwnsItsMemory == Spec => []LeaksOnlyEmptyPaths
<1>1. Inv => LeaksOnlyEmptyPaths
  BY InvOwns
<1> QED
  BY <1>1, Invariance, PTL

LEMMA InvBuilds == ASSUME Inv PROVE BuildsWhatWasAsked
<1> SUFFICES ASSUME ~failed, deinits = 0
             PROVE /\ [i \in DOMAIN args |-> args[i].arg] = asked.args
                   /\ \A k \in Keys : build_envp(k) = {asked.env[k]} \ {"absent"}
                   /\ \A k \in Keys : Cardinality({i \in DOMAIN envs : envs[i].key = k}) <= 1
  BY DEF BuildsWhatWasAsked
<1>1. ArgsSay /\ EnvSays
  BY DEF Inv, Faithful
<1>2. [i \in DOMAIN args |-> args[i].arg] = asked.args
  <2>1. asked.args \in Seq(Args) /\ args \in Seq(Argument)
    BY DEF Inv, Typed
  <2> QED
    BY <1>1, <2>1 DEF ArgsSay
<1>3. envs \in Seq(Entry) /\ env_removals \in Seq(Removal) /\ Keyed(envs) /\ Keyed(env_removals)
  BY DEF Inv, Typed, Shape
<1>4. ASSUME NEW k \in Keys
      PROVE build_envp(k) = {asked.env[k]} \ {"absent"}
  <2>1. Overridden(k) <=> \E e \in ToSet(envs) \cup ToSet(env_removals) : e.key = k
    <3>1. KeyAt(envs, k) = {i \in DOMAIN envs : envs[i].key = k}
      BY <1>3, OneKey
    <3>2. KeyAt(env_removals, k) = {i \in DOMAIN env_removals : env_removals[i].key = k}
      BY <1>3, OneKey
    <3> QED
      BY <3>1, <3>2 DEF Overridden, ToSet
  <2>2. {envs[i].value : i \in {i \in DOMAIN envs : envs[i].key = k}}
          = {e.value : e \in {e \in ToSet(envs) : e.key = k}}
    BY DEF ToSet
  <2>3. \A e \in ToSet(envs) : e.value # "absent" /\ e.value # "inherited"
    BY KeysNamed, CommandAssumption DEF Inv
  <2>4. CASE \E e \in ToSet(envs) : e.key = k
    BY <1>1, <2>1, <2>2, <2>3, <2>4 DEF EnvSays, build_envp
  <2>5. CASE ~(\E e \in ToSet(envs) : e.key = k) /\ \E e \in ToSet(env_removals) : e.key = k
    BY <1>1, <2>1, <2>2, <2>5 DEF EnvSays, build_envp
  <2>6. CASE \A e \in ToSet(envs) \cup ToSet(env_removals) : e.key # k
    BY <1>1, <2>1, <2>2, <2>6 DEF EnvSays, build_envp
  <2> QED
    BY <2>4, <2>5, <2>6
<1>5. ASSUME NEW k \in Keys PROVE Cardinality({i \in DOMAIN envs : envs[i].key = k}) <= 1
  <2> DEFINE at == {i \in DOMAIN envs : envs[i].key = k}
  <2>1. at = {} \/ \E i \in at : at = {i}
    BY <1>3 DEF Keyed
  <2>2. CASE at = {}
    BY <2>2, FS_EmptySet
  <2>3. CASE \E i \in at : at = {i}
    BY <2>3, FS_Singleton
  <2> QED
    BY <2>1, <2>2, <2>3
<1> QED
  BY <1>2, <1>4, <1>5

\* Unless a call has failed, the child gets the arguments and the environment
\* that the calls so far ask for, in whatever order they came, and no name twice.
THEOREM CommandBuildsWhatWasAsked == Spec => []BuildsWhatWasAsked
<1>1. Inv => BuildsWhatWasAsked
  BY InvBuilds
<1> QED
  BY <1>1, Invariance, PTL
=============================================================================
