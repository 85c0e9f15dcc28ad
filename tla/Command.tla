------------------------------- MODULE Command -------------------------------
(***************************************************************************)
(* The Command builder of lib/std/process.kl: what it owns and what it     *)
(* asks for.                                                               *)
(*                                                                         *)
(* Every string a caller passes is copied into memory of the allocator; a  *)
(* copy is known here by the memory it occupies, which the allocator gives *)
(* out again once it is released.  Any allocation may fail.                *)
(***************************************************************************)
EXTENDS Integers, FiniteSetsExt, SequencesExt

CONSTANTS
  Memory,        \* pieces of memory, as numbers
  Args,          \* what arguments say
  Keys, Values,  \* names and values of environment variables
  Environ,       \* the names this process has in its own environment
  Slots,         \* the standard streams that may be redirected
  Lengths,       \* lengths of the paths passed, 0 and more
  MaxDeinits     \* how often deinit may be called

ASSUME CommandAssumption ==
  /\ IsFiniteSet(Memory) /\ Memory \subseteq Nat
  /\ Environ \subseteq Keys /\ Lengths \subseteq Nat
  /\ Values \cap {"inherited", "absent"} = {} /\ MaxDeinits \in Nat

VARIABLES
  args, envs, env_removals,   \* vectors of strings
  env_clear, cwd, redirs, failed,
  live,          \* memory allocated and not released
  empties,       \* history: memory that was allocated for empty paths
  misfreed,      \* history: memory was released that was not allocated
  deinits,       \* how often deinit was called
  asked          \* history: the arguments and variables a caller asked for

vars == <<args, envs, env_removals, env_clear, cwd, redirs, failed, live, empties, misfreed, deinits, asked>>
heap == <<live, empties, misfreed>>

\* A view of no string: its data is null.
NoString == [at |-> -1, len |-> 0]
NoRedir == [kind |-> "inherit", path |-> NoString]

Fresh == Memory \ live

\* Both paths of an allocation; a piece of memory is at hand or it is not.
CanAlloc == Fresh # {}
NewAt == Min(Fresh)

\* A release, of memory that is allocated if all is well.
Free(S) == live' = live \ S /\ misfreed' = (misfreed \/ ~(S \subseteq live))

\* A path is released only if it is not empty.
PathMemory(p) == IF p.len > 0 /\ p.at # -1 THEN {p.at} ELSE {}
StringMemory(list) == {list[i].at : i \in DOMAIN list}

-----------------------------------------------------------------------------
Init ==
  /\ args = <<>> /\ envs = <<>> /\ env_removals = <<>>
  /\ env_clear = FALSE /\ cwd = NoString /\ failed = FALSE
  /\ redirs = [s \in Slots |-> NoRedir]
  /\ live = {} /\ empties = {} /\ misfreed = FALSE /\ deinits = 0
  /\ asked = [args |-> <<>>, env |-> [k \in Keys |-> IF k \in Environ THEN "inherited" ELSE "absent"]]

\* A mutator finds the command as init or other mutators left it.
Building == deinits = 0 /\ ~failed

\* An allocation in a mutator fails, which takes back what it allocated before.
OutOfMemory ==
  /\ Building /\ failed' = TRUE
  /\ UNCHANGED <<args, envs, env_removals, env_clear, cwd, redirs, heap, deinits, asked>>

arg(a) ==
  /\ Building /\ CanAlloc
  /\ args' = Append(args, [at |-> NewAt, arg |-> a]) /\ live' = live \cup {NewAt}
  /\ asked' = [asked EXCEPT !.args = Append(@, a)]
  /\ UNCHANGED <<envs, env_removals, env_clear, cwd, redirs, failed, empties, misfreed, deinits>>

\* Works on a command that has failed, too.
clear_args ==
  /\ deinits = 0
  /\ args' = <<>> /\ Free(StringMemory(args))
  /\ asked' = [asked EXCEPT !.args = <<>>]
  /\ UNCHANGED <<envs, env_removals, env_clear, cwd, redirs, failed, empties, deinits>>

\* The first entry of the list with the key, as a set of positions.
KeyAt(list, key) ==
  LET at == {i \in DOMAIN list : list[i].key = key} IN IF at = {} THEN {} ELSE {Min(at)}

remove_key(list, key) ==
  IF KeyAt(list, key) = {} THEN list ELSE RemoveAt(list, CHOOSE i \in KeyAt(list, key) : TRUE)

KeyMemory(list, key) == {list[i].at : i \in KeyAt(list, key)}

\* replace_key, and append where the key is new.
PutKey(list, key, entry) ==
  IF KeyAt(list, key) = {} THEN Append(list, entry)
  ELSE [list EXCEPT ![CHOOSE i \in KeyAt(list, key) : TRUE] = entry]

env(k, v) ==
  /\ Building /\ CanAlloc
  /\ LET dropped == KeyMemory(env_removals, k) \cup KeyMemory(envs, k)
     IN /\ live' = (live \cup {NewAt}) \ dropped
        /\ misfreed' = (misfreed \/ ~(dropped \subseteq live))
  /\ env_removals' = remove_key(env_removals, k)
  /\ envs' = PutKey(envs, k, [at |-> NewAt, key |-> k, value |-> v])
  /\ asked' = [asked EXCEPT !.env[k] = v]
  /\ UNCHANGED <<args, env_clear, cwd, redirs, failed, empties, deinits>>

\* env cannot append when it has already taken the key off the removals.
env_fails(k) ==
  /\ Building
  /\ env_removals' = remove_key(env_removals, k) /\ Free(KeyMemory(env_removals, k))
  /\ failed' = TRUE
  /\ UNCHANGED <<args, envs, env_clear, cwd, redirs, empties, deinits, asked>>

\* The key was not removed before; memory released for it may be used again for
\* the entry that says so.
env_remove_new(k) ==
  /\ Building /\ KeyAt(env_removals, k) = {}
  /\ LET dropped == KeyMemory(envs, k)
         left == live \ dropped
     IN /\ Memory \ left # {}
        /\ live' = left \cup {Min(Memory \ left)}
        /\ misfreed' = (misfreed \/ ~(dropped \subseteq live))
        /\ env_removals' = Append(env_removals, [at |-> Min(Memory \ left), key |-> k])
  /\ envs' = remove_key(envs, k)
  /\ asked' = [asked EXCEPT !.env[k] = "absent"]
  /\ UNCHANGED <<args, env_clear, cwd, redirs, failed, empties, deinits>>

env_remove_again(k) ==
  /\ Building /\ KeyAt(env_removals, k) # {}
  /\ envs' = remove_key(envs, k) /\ Free(KeyMemory(envs, k))
  /\ asked' = [asked EXCEPT !.env[k] = "absent"]
  /\ UNCHANGED <<args, env_removals, env_clear, cwd, redirs, failed, empties, deinits>>

\* env_remove runs out of memory when it has already removed what env() set.
env_remove_fails(k) ==
  /\ Building /\ KeyAt(env_removals, k) = {}
  /\ envs' = remove_key(envs, k) /\ Free(KeyMemory(envs, k))
  /\ failed' = TRUE
  /\ UNCHANGED <<args, env_removals, env_clear, cwd, redirs, empties, deinits, asked>>

\* Faulty: the removals are released, but stay in their vector.
ClearKeepsRemovals ==
  /\ Building
  /\ Free(StringMemory(env_removals)) /\ env_clear' = TRUE
  /\ asked' = [asked EXCEPT !.env =
                 [k \in Keys |-> IF @[k] = "inherited" THEN "absent" ELSE @[k]]]
  /\ UNCHANGED <<args, envs, env_removals, cwd, redirs, failed, empties, deinits>>

\* Faulty: the variables set with env() go as well.
ClearSetOnes ==
  /\ Building
  /\ Free(StringMemory(envs)) /\ envs' = <<>> /\ env_clear' = TRUE
  /\ asked' = [asked EXCEPT !.env =
                 [k \in Keys |-> IF @[k] = "inherited" THEN "absent" ELSE @[k]]]
  /\ UNCHANGED <<args, env_removals, cwd, redirs, failed, empties, deinits>>

env_clear_all ==
  /\ Building
  /\ Free(StringMemory(env_removals)) /\ env_removals' = <<>> /\ env_clear' = TRUE
  /\ asked' = [asked EXCEPT !.env =
                 [k \in Keys |-> IF @[k] = "inherited" THEN "absent" ELSE @[k]]]
  /\ UNCHANGED <<args, envs, cwd, redirs, failed, empties, deinits>>

\* Faulty: the directory set before is forgotten.
Forgotten(p) == {}

Replaced(p) == PathMemory(p)

\* An empty path is copied, to memory of one byte, like any other.
Unowned(len) == IF len = 0 THEN {NewAt} ELSE {}

current_dir(len) ==
  /\ Building /\ CanAlloc
  /\ cwd' = [at |-> NewAt, len |-> len]
  /\ live' = (live \cup {NewAt}) \ Replaced(cwd) /\ empties' = empties \cup Unowned(len)
  /\ misfreed' = (misfreed \/ ~(Replaced(cwd) \subseteq live))
  /\ UNCHANGED <<args, envs, env_removals, env_clear, redirs, failed, deinits, asked>>

\* Inherit, pipe or null.
set_redir(slot, kind) ==
  /\ Building
  /\ Free(PathMemory(redirs[slot].path))
  /\ redirs' = [redirs EXCEPT ![slot] = [kind |-> kind, path |-> NoString]]
  /\ UNCHANGED <<args, envs, env_removals, env_clear, cwd, failed, empties, deinits, asked>>

set_redir_file(slot, len) ==
  /\ Building /\ CanAlloc
  /\ LET dropped == PathMemory(redirs[slot].path)
     IN /\ live' = (live \cup {NewAt}) \ dropped /\ empties' = empties \cup Unowned(len)
        /\ misfreed' = (misfreed \/ ~(dropped \subseteq live))
  /\ redirs' = [redirs EXCEPT ![slot] = [kind |-> "file", path |-> [at |-> NewAt, len |-> len]]]
  /\ UNCHANGED <<args, envs, env_removals, env_clear, cwd, failed, deinits, asked>>

\* The paths set and not empty.
KeptPaths == PathMemory(cwd) \cup UNION {PathMemory(redirs[s].path) : s \in Slots}

\* The vectors are empty afterwards; cwd and redirs stay what they were.
deinit ==
  /\ deinits < MaxDeinits
  /\ Free(StringMemory(args) \cup StringMemory(envs) \cup StringMemory(env_removals) \cup KeptPaths)
  /\ args' = <<>> /\ envs' = <<>> /\ env_removals' = <<>>
  /\ deinits' = deinits + 1
  /\ UNCHANGED <<env_clear, cwd, redirs, failed, empties, asked>>

Next ==
  \/ OutOfMemory \/ clear_args \/ env_clear_all \/ deinit
  \/ \E a \in Args : arg(a)
  \/ \E k \in Keys : env_remove_new(k) \/ env_remove_again(k) \/ env_fails(k) \/ env_remove_fails(k)
  \/ \E k \in Keys, v \in Values : env(k, v)
  \/ \E len \in Lengths : current_dir(len)
  \/ \E s \in Slots : \/ \E kind \in {"inherit", "pipe", "null"} : set_redir(s, kind)
                      \/ \E len \in Lengths : set_redir_file(s, len)

Spec == Init /\ [][Next]_vars

-----------------------------------------------------------------------------
\* What build_envp gives the child for a variable: values, "inherited" from
\* this process, or nothing.
Overridden(k) == KeyAt(envs, k) # {} \/ KeyAt(env_removals, k) # {}
build_envp(k) ==
  {envs[i].value : i \in {i \in DOMAIN envs : envs[i].key = k}} \cup
  {x \in {"inherited"} : k \in Environ /\ ~env_clear /\ ~Overridden(k)}

(* Properties. *)

\* Memory is released twice by a second deinit that finds a path in place, and by
\* no other order of calls: not by mutators that replace what others set, and not
\* by the first deinit.  process.kl:364 has deinit "safe to call more than once".
DoubleFreeOnlyByDeinit == misfreed <=> deinits > 1 /\ KeptPaths # {}

\* What is allocated is what the fields still refer to, each piece by one of
\* them, and after deinit nothing; but for the memory of an empty path, which no
\* call ever releases, though process.kl:364 has deinit release every buffer.
Owners ==
  << StringMemory(args), StringMemory(envs), StringMemory(env_removals), PathMemory(cwd),
     UNION {PathMemory(redirs[s].path) : s \in Slots}, empties >>

LeaksOnlyEmptyPaths ==
  IF deinits > 0 THEN live = empties
  ELSE /\ live = UNION ToSet(Owners)
       /\ \A i, j \in DOMAIN Owners : i # j => Owners[i] \cap Owners[j] = {}
       /\ IsInjective([i \in DOMAIN args |-> args[i].at])

\* Unless the command has failed, the child gets exactly the arguments and the
\* environment the calls so far ask for, in whatever order they came; no name
\* is there twice.
BuildsWhatWasAsked ==
  ~failed /\ deinits = 0 =>
    /\ [i \in DOMAIN args |-> args[i].arg] = asked.args
    /\ \A k \in Keys : build_envp(k) = {asked.env[k]} \ {"absent"}
    /\ \A k \in Keys : Cardinality({i \in DOMAIN envs : envs[i].key = k}) <= 1
=============================================================================
