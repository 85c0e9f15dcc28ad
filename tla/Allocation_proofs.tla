-------------------------- MODULE Allocation_proofs --------------------------
(***************************************************************************)
(* The register allocator never puts a value where another is still needed *)
(* (ApartWhenLive), every step that reduces its graph brings it nearer to  *)
(* the end (EveryStepCounts), and coalescing never makes it one that needs *)
(* a spill (CoalescingSafe), for every well-formed function and every      *)
(* choice of registers.                                                    *)
(*                                                                         *)
(* The argument follows a function through the allocator.  Liveness settles *)
(* at a fixed point (LivenessSettles).  The graph has an edge between what *)
(* an instruction writes and what is live behind it, and between what is   *)
(* live across a call and what the call may change, and every node is on a *)
(* worklist (GraphSound).  Taking nodes from the worklists and coalescing  *)
(* them loses no such edge between the nodes they come to stand for, and   *)
(* no node (SimplifySound, CoalesceSound, FreezeSound, SelectSpillSound),   *)
(* so that when nothing is left to do every node is coloured, and those    *)
(* with an edge differently (ColorsApart).  What a spill makes of the      *)
(* function is well formed again (RewritingKeepsForm).                     *)
(*                                                                         *)
(* While the graph is reduced no node is put back once it is on the stack  *)
(* or coalesced, and no copy is opened once it is settled (LaterShrunk); a *)
(* step that takes away neither makes something else of the measure less   *)
(* (SimplifyCounts, CoalesceCounts, FreezeCounts, SelectSpillCounts).      *)
(*                                                                         *)
(* A set of nodes is stuck when each of them has K or more neighbours among *)
(* the set and the registers; what is left when nodes with fewer are taken *)
(* away is the greatest such set (CoreStuck).  Edges between nodes that    *)
(* stand for themselves go both ways (Even), and no degree is stored that  *)
(* is below the number of neighbours (Rated).  So what passes the test of  *)
(* Briggs or George becomes a node that brings no set to be stuck that was *)
(* not stuck before (CombinedStuck).                                       *)
(***************************************************************************)
EXTENDS Allocation, Naturals, SequenceTheorems, FiniteSetTheorems, WellFoundedInduction, TLAPS

-----------------------------------------------------------------------------
(* Sets of numbers, and sequences: a least and a last element, induction, and
   the numbers below a number. *)

\* Of the subsets of a finite set that are in P, one includes no other.
LEMMA SmallestSet ==
  ASSUME NEW S, IsFiniteSet(S), NEW P, P \subseteq SUBSET S, P # {}
  PROVE  \E T \in P : \A U \in P : ~(U \subseteq T /\ U # T)
<1>1. P \subseteq FiniteSubsetsOf(S)
  BY FS_Subset DEF FiniteSubsetsOf
<1>2. PICK T \in P : \A U \in P : ~(<<U, T>> \in StrictSubsetOrdering(S))
  BY <1>1, FS_StrictSubsetOrderingWellFounded, WFMin
<1> SUFFICES ASSUME NEW U \in P, U \subseteq T, U # T PROVE FALSE
  BY <1>2
<1>3. <<U, T>> \in StrictSubsetOrdering(S)
  BY DEF StrictSubsetOrdering
<1> QED
  BY <1>2, <1>3

\* A set of naturals has a least element: the sets of what is below one of its
\* elements are finite, and so one of them is the smallest.
LEMMA MinOfNaturals ==
  ASSUME NEW S \in SUBSET Nat, S # {}
  PROVE Min(S) \in S /\ \A y \in S : Min(S) =< y
<1> DEFINE below(x) == {y \in Nat : y \in S /\ y < x}
           segments == {below(x) : x \in S}
<1>0. \A x \in S : x \in Nat
  OBVIOUS
<1>1. segments \subseteq FiniteSubsetsOf(Nat) /\ segments # {}
  <2> SUFFICES ASSUME NEW x \in S PROVE below(x) \subseteq Nat /\ IsFiniteSet(below(x))
    BY DEF FiniteSubsetsOf
  <2>0. x \in Nat
    BY <1>0
  <2>1. below(x) \in SUBSET Nat /\ \A y \in below(x) : y <= x
    BY <2>0
  <2> HIDE DEF below
  <2> QED
    BY <2>0, <2>1, FS_BoundedSetOfNaturals
<1>2. PICK T \in segments : \A U \in segments : ~(<<U, T>> \in StrictSubsetOrdering(Nat))
  <2> HIDE DEF segments
  <2> QED
    BY <1>1, FS_StrictSubsetOrderingWellFounded, WFMin
<1>3. PICK x \in S : T = below(x)
  OBVIOUS
<1>4. \A y \in S : x =< y
  <2> SUFFICES ASSUME NEW y \in S, ~(x =< y) PROVE FALSE
    OBVIOUS
  <2>0. x \in Nat /\ y \in Nat /\ y < x
    BY <1>0
  <2>1. below(y) \subseteq below(x) /\ y \in below(x) /\ y \notin below(y)
    BY <2>0
  <2>2. <<below(y), below(x)>> \in StrictSubsetOrdering(Nat)
    BY <2>1 DEF StrictSubsetOrdering
  <2> QED
    BY <1>2, <1>3, <2>2
<1> QED
  BY <1>4 DEF Min

\* Induction over the naturals, for a set of them.
LEMMA NatSet == ASSUME NEW P \in SUBSET Nat, 0 \in P, \A n \in P : n + 1 \in P PROVE \A n \in Nat : n \in P
<1> SUFFICES ASSUME NEW m \in Nat, m \notin P PROVE FALSE
  OBVIOUS
<1> DEFINE Q == {n \in Nat : n \notin P}
<1>1. Q \in SUBSET Nat /\ Q # {}
  OBVIOUS
<1> HIDE DEF Q
<1>2. Min(Q) \in Q /\ \A y \in Q : Min(Q) =< y
  BY <1>1, MinOfNaturals
<1> DEFINE k == Min(Q)
<1> HIDE DEF k
<1>3. k \in Q /\ \A y \in Q : k =< y
  BY <1>2 DEF k
<1>4. k \in Nat /\ k # 0 /\ k \notin P
  BY <1>3 DEF Q
<1>5. k - 1 \in Nat /\ k - 1 \in P
  BY <1>3, <1>4 DEF Q
<1>6. k - 1 + 1 \in P
  BY <1>5
<1> QED
  BY <1>4, <1>5, <1>6

\* A set of the first numbers has a greatest element.
LEMMA MaxIn ==
  \A k \in Nat : \A s \in SUBSET (1 .. k) : s # {} => Max(s) \in s /\ \A y \in s : y =< Max(s)
<1> DEFINE Has(s) == \E x \in s : \A y \in s : y =< x
           P == {k \in Nat : \A s \in SUBSET (1 .. k) : s # {} => Has(s)}
<1>1. 0 \in P
  <2>1. \A s \in SUBSET (1 .. 0) : s = {}
    OBVIOUS
  <2> QED BY <2>1
<1>2. ASSUME NEW k \in P PROVE k + 1 \in P
  <2>1. k \in Nat /\ \A s \in SUBSET (1 .. k) : s # {} => Has(s)
    OBVIOUS
  <2> SUFFICES ASSUME NEW s \in SUBSET (1 .. k + 1), s # {} PROVE Has(s)
    BY <2>1
  <2>2. CASE k + 1 \in s
    BY <2>1, <2>2
  <2>3. CASE k + 1 \notin s
    <3>1. s \in SUBSET (1 .. k)
      BY <2>1, <2>3
    <3> QED BY <2>1, <3>1
  <2> QED BY <2>2, <2>3
<1>3. \A k \in Nat : k \in P
  <2> HIDE DEF P
  <2>1. P \in SUBSET Nat
    BY DEF P
  <2> QED BY <1>1, <1>2, <2>1, NatSet
<1> QED BY <1>3 DEF Max

\* A set of the first numbers with, or without, the last of them.
LEMMA Top ==
  \A k \in Nat : \A s \in SUBSET (1 .. k + 1) :
    /\ s \ {Max(s)} \in SUBSET (1 .. k + 1)
    /\ s = {} => s \in SUBSET (1 .. k) /\ k + 1 \notin s
    /\ s # {} => k + 1 \notin s \ {Max(s)}
    /\ k + 1 \in s => Max(s) = k + 1
    /\ k + 1 \notin s => s \in SUBSET (1 .. k)
<1> SUFFICES ASSUME NEW k \in Nat, NEW s \in SUBSET (1 .. k + 1)
             PROVE  /\ s # {} => k + 1 \notin s \ {Max(s)}
                    /\ k + 1 \in s => Max(s) = k + 1
                    /\ k + 1 \notin s => s \in SUBSET (1 .. k)
  OBVIOUS
<1>1. k + 1 \in Nat
  OBVIOUS
<1>0. k + 1 \notin s => s \in SUBSET (1 .. k)
  OBVIOUS
<1>2. s # {} => Max(s) \in 1 .. k + 1 /\ \A y \in s : y =< Max(s)
  BY <1>1, MaxIn
<1>3. k + 1 \in s => Max(s) = k + 1
  BY <1>2
<1>4. k + 1 \in s => k + 1 \notin s \ {Max(s)}
  BY <1>3
<1> QED
  BY <1>0, <1>3, <1>4

\* What is above the last of the first i members.
LEMMA Ahead ==
  ASSUME NEW k \in Nat, NEW S \in SUBSET (1 .. k), NEW i \in 1 .. k
  PROVE  /\ i - 1 \in 0 .. k /\ i \in 0 .. k
         /\ S \cap 1 .. i \in SUBSET S /\ S \cap 1 .. i - 1 \in SUBSET S
         /\ i \notin S => S \cap 1 .. i = S \cap 1 .. i - 1
         /\ i \in S => /\ S \cap 1 .. i # {} /\ Max(S \cap 1 .. i) = i
                       /\ (S \cap 1 .. i) \ {i} = S \cap 1 .. i - 1
<1> DEFINE s == S \cap 1 .. i
<1>1. s \in SUBSET (1 .. i) /\ i \in Nat /\ \A y \in s : y =< i
  OBVIOUS
<1>2. i \in S => i \in s
  OBVIOUS
<1>3. s # {} => Max(s) \in s /\ \A y \in s : y =< Max(s)
  <2> HIDE DEF s
  <2> QED BY <1>1, MaxIn
<1>4. i \in S => Max(s) = i
  BY <1>1, <1>2, <1>3
<1>5. i \in S => s \ {i} = S \cap 1 .. i - 1
  OBVIOUS
<1>6. i \notin S => s = S \cap 1 .. i - 1
  OBVIOUS
<1> QED
  BY <1>2, <1>4, <1>5, <1>6

\* None, and all, of the first numbers.
LEMMA Ends ==
  ASSUME NEW k \in Nat, NEW S \in SUBSET (1 .. k)
  PROVE  S \cap 1 .. 0 = {} /\ {} \in SUBSET S /\ 0 \in 0 .. k /\ S \cap 1 .. k = S /\ k \in 0 .. k
<1>1. \A x \in S : x \in 1 .. k
  OBVIOUS
<1>2. S \cap 1 .. k = S
  BY <1>1, Zenon
<1>3. S \cap 1 .. 0 = {} /\ 0 \in 0 .. k /\ k \in 0 .. k
  OBVIOUS
<1> QED BY <1>2, <1>3

\* The first i numbers: the greatest of them, and what is left without it.
LEMMA Prefix ==
  ASSUME NEW k \in Nat
  PROVE  /\ 1 .. 0 = {} /\ {} \in SUBSET (1 .. k) /\ 0 \in 0 .. k /\ k \in 0 .. k /\ 1 .. k \in SUBSET (1 .. k)
         /\ \A i \in 1 .. k : /\ i - 1 \in 0 .. k /\ i \in 0 .. k
                              /\ 1 .. i \in SUBSET (1 .. k) /\ 1 .. i - 1 \in SUBSET (1 .. k)
                              /\ 1 .. i # {} /\ Max(1 .. i) = i /\ (1 .. i) \ {i} = 1 .. i - 1
<1> SUFFICES ASSUME NEW i \in 1 .. k
             PROVE  /\ 1 .. i \in SUBSET (1 .. k) /\ 1 .. i - 1 \in SUBSET (1 .. k)
                    /\ 1 .. i # {} /\ Max(1 .. i) = i /\ (1 .. i) \ {i} = 1 .. i - 1
  OBVIOUS
<1>1. i \in Nat /\ i \in 1 .. i
  OBVIOUS
<1>2. Max(1 .. i) \in 1 .. i /\ i =< Max(1 .. i)
  BY <1>1, MaxIn
<1>3. 1 .. i \in SUBSET (1 .. k) /\ 1 .. i - 1 \in SUBSET (1 .. k)
  OBVIOUS
<1>4. (1 .. i) \ {i} = 1 .. i - 1
  OBVIOUS
<1> QED BY <1>1, <1>2, <1>3, <1>4

\* A set of numbers with, or without, the first of them.
LEMMA Bottom ==
  \A m, k \in Nat : \A s \in SUBSET (m .. k) :
    /\ s \ {Min(s)} \in SUBSET (m .. k)
    /\ s = {} => s \in SUBSET (m + 1 .. k) /\ m \notin s
    /\ s # {} => m \notin s \ {Min(s)}
    /\ m \in s => Min(s) = m /\ s \ {m} \in SUBSET (m + 1 .. k)
    /\ m \notin s => s \in SUBSET (m + 1 .. k)
<1> SUFFICES ASSUME NEW m \in Nat, NEW k \in Nat, NEW s \in SUBSET (m .. k)
             PROVE  /\ s # {} => m \notin s \ {Min(s)}
                    /\ m \in s => Min(s) = m
                    /\ s \ {m} \in SUBSET (m + 1 .. k)
  OBVIOUS
<1>1. s \in SUBSET Nat /\ \A y \in s : m =< y
  OBVIOUS
<1>2. s # {} => Min(s) \in s /\ \A y \in s : Min(s) =< y
  BY <1>1, MinOfNaturals
<1>3. m \in s => Min(s) = m
  <2> SUFFICES ASSUME m \in s PROVE Min(s) = m
    OBVIOUS
  <2>1. Min(s) \in Nat /\ Min(s) =< m /\ m =< Min(s)
    BY <1>1, <1>2
  <2> QED BY <2>1
<1>4. s # {} => m \notin s \ {Min(s)}
  BY <1>3
<1> QED BY <1>3, <1>4

\* The numbers from i on: the least of them, and what is left without it.
LEMMA Suffix ==
  ASSUME NEW k \in Nat
  PROVE  /\ k + 1 .. k = {} /\ {} \in SUBSET (1 .. k) /\ 0 \in 0 .. k /\ k \in 0 .. k /\ 0 + 1 .. k = 1 .. k
         /\ \A i \in 1 .. k : /\ i - 1 \in 0 .. k /\ i \in 0 .. k /\ i - 1 + 1 = i
                              /\ i .. k \in SUBSET (1 .. k) /\ i + 1 .. k \in SUBSET (1 .. k)
                              /\ i .. k # {} /\ Min(i .. k) = i /\ (i .. k) \ {i} = i + 1 .. k
<1> SUFFICES ASSUME NEW i \in 1 .. k
             PROVE  /\ i .. k \in SUBSET (1 .. k) /\ i + 1 .. k \in SUBSET (1 .. k)
                    /\ i .. k # {} /\ Min(i .. k) = i /\ (i .. k) \ {i} = i + 1 .. k
  OBVIOUS
<1>1. i \in Nat /\ i \in i .. k
  OBVIOUS
<1>2. Min(i .. k) = i
  <2> DEFINE s == i .. k
  <2>1. s \in SUBSET Nat /\ s # {} /\ i \in s /\ \A y \in s : y \in Nat /\ i =< y
    BY <1>1
  <2> HIDE DEF s
  <2>2. Min(s) \in s /\ Min(s) =< i
    BY <2>1, MinOfNaturals
  <2>3. Min(s) \in Nat /\ i =< Min(s)
    BY <2>1, <2>2
  <2> DEFINE least == Min(s)
  <2> HIDE DEF least
  <2>4. least = i
    BY <1>1, <2>2, <2>3 DEF least
  <2> QED BY <2>4 DEF s, least
<1>3. i .. k \in SUBSET (1 .. k) /\ i + 1 .. k \in SUBSET (1 .. k)
  OBVIOUS
<1>4. (i .. k) \ {i} = i + 1 .. k
  OBVIOUS
<1> QED BY <1>1, <1>2, <1>3, <1>4

\* A sequence is one of the set of what is in it.
LEMMA SeqAmong == ASSUME NEW X, NEW Y, NEW s \in Seq(X), ToSet(s) \subseteq Y PROVE s \in Seq(Y)
<1>1. \A i \in DOMAIN s : s[i] \in Y
  BY DEF ToSet
<1>2. PICK n \in Nat : s \in [1 .. n -> X]
  BY SeqDef
<1>3. s \in [1 .. n -> Y]
  BY <1>1, <1>2
<1> QED BY <1>2, <1>3, SeqDef

\* What is in two sequences is in their concatenation.
LEMMA Joint ==
  ASSUME NEW X, NEW s \in Seq(X), NEW t \in Seq(X)
  PROVE  s \o t \in Seq(X) /\ ToSet(s \o t) = ToSet(s) \cup ToSet(t)
<1>1. /\ s \o t \in Seq(X) /\ DOMAIN (s \o t) = 1 .. Len(s) + Len(t)
      /\ DOMAIN s = 1 .. Len(s) /\ DOMAIN t = 1 .. Len(t) /\ Len(s) \in Nat /\ Len(t) \in Nat
      /\ \A i \in 1 .. Len(s) + Len(t) : (s \o t)[i] = IF i <= Len(s) THEN s[i] ELSE t[i - Len(s)]
  BY ConcatProperties
<1> DEFINE r == s \o t
<1> HIDE DEF r
<1>2. \A i \in DOMAIN s : i \in DOMAIN r /\ r[i] = s[i]
  BY <1>1 DEF r
<1>3. \A i \in DOMAIN t : i + Len(s) \in DOMAIN r /\ r[i + Len(s)] = t[i]
  BY <1>1 DEF r
<1>4. \A i \in DOMAIN r : (i \in DOMAIN s /\ r[i] = s[i]) \/ (i - Len(s) \in DOMAIN t /\ r[i] = t[i - Len(s)])
  BY <1>1 DEF r
<1>5. ToSet(s) \subseteq ToSet(r) /\ ToSet(t) \subseteq ToSet(r)
  BY <1>2, <1>3 DEF ToSet
<1>6. ToSet(r) \subseteq ToSet(s) \cup ToSet(t)
  <2> SUFFICES ASSUME NEW i \in DOMAIN r PROVE r[i] \in ToSet(s) \cup ToSet(t)
    BY DEF ToSet
  <2> QED BY <1>4 DEF ToSet
<1> QED BY <1>1, <1>5, <1>6 DEF r

\* What is in a sequence, and in the shortest ones.
LEMMA SeqOfItself ==
  /\ \A X : \A s \in Seq(X) : s \in Seq(ToSet(s))
  /\ \A X : \A s \in Seq(X) : ToSet(s) \subseteq X
  /\ \A x, y : ToSet(<<>>) = {} /\ ToSet(<<x>>) = {x} /\ ToSet(<<x, y>>) = {x, y}
  /\ \A x, y : \A X : x \in X /\ y \in X => <<>> \in Seq(X) /\ <<x>> \in Seq(X) /\ <<x, y>> \in Seq(X)
<1>1. \A X : \A s \in Seq(X) : ToSet(s) \subseteq X
  <2> SUFFICES ASSUME NEW X, NEW s \in Seq(X), NEW i \in DOMAIN s PROVE s[i] \in X
    BY DEF ToSet
  <2> QED OBVIOUS
<1>2. \A X : \A s \in Seq(X) : s \in Seq(ToSet(s))
  BY SeqAmong
<1>3. ASSUME NEW x, NEW y PROVE ToSet(<<>>) = {} /\ ToSet(<<x>>) = {x} /\ ToSet(<<x, y>>) = {x, y}
  <2>1. DOMAIN <<x>> = 1 .. 1 /\ <<x>>[1] = x /\ DOMAIN <<x, y>> = 1 .. 2 /\ <<x, y>>[1] = x /\ <<x, y>>[2] = y
    OBVIOUS
  <2>2. ToSet(<<>>) = {}
    BY DEF ToSet
  <2>3. ToSet(<<x>>) = {x}
    BY <2>1 DEF ToSet
  <2>4. ToSet(<<x, y>>) = {x, y}
    BY <2>1 DEF ToSet
  <2> QED BY <2>2, <2>3, <2>4
<1>4. \A x, y : \A X : x \in X /\ y \in X => <<>> \in Seq(X) /\ <<x>> \in Seq(X) /\ <<x, y>> \in Seq(X)
  OBVIOUS
<1> QED BY <1>1, <1>2, <1>3, <1>4

\* The shortest sequences.
LEMMA Shorts ==
  ASSUME NEW x, NEW y
  PROVE  /\ IsSeq(<<>>) /\ IsSeq(<<x>>) /\ IsSeq(<<x, y>>)
         /\ ToSet(<<>>) = {} /\ ToSet(<<x>>) = {x} /\ ToSet(<<x, y>>) = {x, y}
<1>1. <<>> \in Seq({}) /\ <<x>> \in Seq({x}) /\ <<x, y>> \in Seq({x, y})
  OBVIOUS
<1> QED BY <1>1, SeqOfItself DEF IsSeq

-----------------------------------------------------------------------------
(* Folds, one step after the other.  The folds of the community modules are
   recursive functions over sets or over the places of a sequence; each lemma
   gives the sequence h of what one of them makes, from what it begins with to
   what it returns.  That such a function exists is shown by induction over the
   numbers, for each operator that is folded on its own, as no lemma can take an
   operator as a parameter. *)

\* AddEdges, one step after the other.
AddEdgesSteps(h, G, n, k, S) ==
  /\ h[0] = G
  /\ \A i \in 1 .. k : h[i] = IF i \in S THEN irc_add_edge(h[i - 1], n, i) ELSE h[i - 1]
  /\ AddEdges(G, n, S) = h[k]

\* Such a sequence exists.
LEMMA AddEdgesUnfolds ==
  ASSUME NEW G, NEW n, NEW k \in Nat, NEW S \in SUBSET (1 .. k)
  PROVE  \E h : AddEdgesSteps(h, G, n, k, S)
<1> DEFINE Sol(it, D) == it = [s \in SUBSET D |-> IF s = {} THEN G ELSE irc_add_edge(it[s \ {Max(s)}], n, Max(s))]
           P == {j \in Nat : \E it : Sol(it, 1 .. j)}
<1>1. 0 \in P
  <2> DEFINE it == [s \in SUBSET (1 .. 0) |-> G]
  <2>1. \A s \in SUBSET (1 .. 0) : s = {}
    OBVIOUS
  <2>2. Sol(it, 1 .. 0)
    BY <2>1, Zenon
  <2> QED BY <2>2, Zenon
<1>2. ASSUME NEW j \in P PROVE j + 1 \in P
  <2>1. j \in Nat
    OBVIOUS
  <2>2. PICK it : Sol(it, 1 .. j)
    OBVIOUS
  <2> DEFINE jt == [s \in SUBSET (1 .. j + 1) |-> IF j + 1 \in s THEN irc_add_edge(it[s \ {j + 1}], n, j + 1) ELSE it[s]]
  <2>3. ASSUME NEW s \in SUBSET (1 .. j + 1)
        PROVE jt[s] = IF s = {} THEN G ELSE irc_add_edge(jt[s \ {Max(s)}], n, Max(s))
    <3>1. /\ s \ {Max(s)} \in SUBSET (1 .. j + 1)
          /\ s = {} => s \in SUBSET (1 .. j) /\ j + 1 \notin s
          /\ s # {} => j + 1 \notin s \ {Max(s)}
          /\ j + 1 \in s => Max(s) = j + 1
          /\ j + 1 \notin s => s \in SUBSET (1 .. j)
      BY <2>1, Top
    <3>2. CASE s = {}
      BY <2>2, <3>1, <3>2
    <3>3. CASE j + 1 \in s
      BY <2>2, <3>1, <3>3
    <3>4. CASE s # {} /\ j + 1 \notin s
      <4>1. s \ {Max(s)} \in SUBSET (1 .. j + 1) /\ j + 1 \notin s \ {Max(s)}
        BY <3>1, <3>4
      <4>2. jt[s \ {Max(s)}] = it[s \ {Max(s)}] /\ jt[s] = it[s]
        BY <3>4, <4>1
      <4> QED BY <2>2, <3>1, <3>4, <4>2
    <3> QED BY <3>2, <3>3, <3>4
  <2>4. Sol(jt, 1 .. j + 1)
    BY <2>3, Zenon
  <2> HIDE DEF jt, Sol
  <2> QED BY <2>1, <2>4
<1>3. PICK it : Sol(it, 1 .. k)
  <2> HIDE DEF P, Sol
  <2>1. P \in SUBSET Nat
    BY DEF P
  <2> QED BY <1>1, <1>2, <2>1, NatSet DEF P
<1>4. \E ct : Sol(ct, S)
  <2> DEFINE ct == [s \in SUBSET S |-> it[s]]
  <2>1. ASSUME NEW s \in SUBSET S
        PROVE ct[s] = IF s = {} THEN G ELSE irc_add_edge(ct[s \ {Max(s)}], n, Max(s))
    <3>1. s \in SUBSET (1 .. k) /\ s \ {Max(s)} \in SUBSET S
      OBVIOUS
    <3> QED BY <1>3, <3>1
  <2>2. Sol(ct, S)
    BY <2>1, Zenon
  <2> QED BY <2>2, Zenon
<1> DEFINE iter == CHOOSE ct : Sol(ct, S)
<1>5. Sol(iter, S)
  BY <1>4, Zenon
<1> DEFINE h == [j \in 0 .. k |-> iter[S \cap 1 .. j]]
<1>6. h[0] = G
  <2>1. S \cap 1 .. 0 = {} /\ {} \in SUBSET S /\ 0 \in 0 .. k
    BY Ends
  <2> QED BY <1>5, <2>1
<1>7. ASSUME NEW i \in 1 .. k PROVE h[i] = IF i \in S THEN irc_add_edge(h[i - 1], n, i) ELSE h[i - 1]
  <2>1. h[i] = iter[S \cap 1 .. i] /\ h[i - 1] = iter[S \cap 1 .. i - 1]
    BY Ahead
  <2>2. /\ S \cap 1 .. i \in SUBSET S /\ S \cap 1 .. i - 1 \in SUBSET S
        /\ i \notin S => S \cap 1 .. i = S \cap 1 .. i - 1
        /\ i \in S => /\ S \cap 1 .. i # {} /\ Max(S \cap 1 .. i) = i
                      /\ (S \cap 1 .. i) \ {i} = S \cap 1 .. i - 1
    BY Ahead
  <2>3. i \in S => iter[S \cap 1 .. i] = irc_add_edge(iter[(S \cap 1 .. i) \ {Max(S \cap 1 .. i)}], n, Max(S \cap 1 .. i))
    BY <1>5, <2>2
  <2> HIDE DEF h, iter
  <2> QED BY <2>1, <2>2, <2>3
<1>8. AddEdges(G, n, S) = h[k]
  <2>1. AddEdges(G, n, S) = iter[S]
    BY DEF AddEdges, Ascending, MapThenFoldSet
  <2>2. h[k] = iter[S]
    BY Ends
  <2> QED BY <2>1, <2>2
<1>9. AddEdgesSteps(h, G, n, k, S)
  <2> HIDE DEF h
  <2> QED BY <1>6, <1>7, <1>8 DEF AddEdgesSteps
<1> HIDE DEF h
<1> QED BY <1>9

\* CrossCalls, one step after the other.
CrossCallsSteps(h, G, k, S) ==
  /\ h[0] = G
  /\ \A i \in 1 .. k : h[i] = IF i \in S THEN CrossesCall(i, h[i - 1]) ELSE h[i - 1]
  /\ CrossCalls(G, S) = h[k]

\* Such a sequence exists.
LEMMA CrossCallsUnfolds ==
  ASSUME NEW G, NEW k \in Nat, NEW S \in SUBSET (1 .. k)
  PROVE  \E h : CrossCallsSteps(h, G, k, S)
<1> DEFINE Sol(it, D) == it = [s \in SUBSET D |-> IF s = {} THEN G ELSE CrossesCall(Max(s), it[s \ {Max(s)}])]
           P == {j \in Nat : \E it : Sol(it, 1 .. j)}
<1>1. 0 \in P
  <2> DEFINE it == [s \in SUBSET (1 .. 0) |-> G]
  <2>1. \A s \in SUBSET (1 .. 0) : s = {}
    OBVIOUS
  <2>2. Sol(it, 1 .. 0)
    BY <2>1, Zenon
  <2> QED BY <2>2, Zenon
<1>2. ASSUME NEW j \in P PROVE j + 1 \in P
  <2>1. j \in Nat
    OBVIOUS
  <2>2. PICK it : Sol(it, 1 .. j)
    OBVIOUS
  <2> DEFINE jt == [s \in SUBSET (1 .. j + 1) |-> IF j + 1 \in s THEN CrossesCall(j + 1, it[s \ {j + 1}]) ELSE it[s]]
  <2>3. ASSUME NEW s \in SUBSET (1 .. j + 1)
        PROVE jt[s] = IF s = {} THEN G ELSE CrossesCall(Max(s), jt[s \ {Max(s)}])
    <3>1. /\ s \ {Max(s)} \in SUBSET (1 .. j + 1)
          /\ s = {} => s \in SUBSET (1 .. j) /\ j + 1 \notin s
          /\ s # {} => j + 1 \notin s \ {Max(s)}
          /\ j + 1 \in s => Max(s) = j + 1
          /\ j + 1 \notin s => s \in SUBSET (1 .. j)
      BY <2>1, Top
    <3>2. CASE s = {}
      BY <2>2, <3>1, <3>2
    <3>3. CASE j + 1 \in s
      BY <2>2, <3>1, <3>3
    <3>4. CASE s # {} /\ j + 1 \notin s
      <4>1. s \ {Max(s)} \in SUBSET (1 .. j + 1) /\ j + 1 \notin s \ {Max(s)}
        BY <3>1, <3>4
      <4>2. jt[s \ {Max(s)}] = it[s \ {Max(s)}] /\ jt[s] = it[s]
        BY <3>4, <4>1
      <4> QED BY <2>2, <3>1, <3>4, <4>2
    <3> QED BY <3>2, <3>3, <3>4
  <2>4. Sol(jt, 1 .. j + 1)
    BY <2>3, Zenon
  <2> HIDE DEF jt, Sol
  <2> QED BY <2>1, <2>4
<1>3. PICK it : Sol(it, 1 .. k)
  <2> HIDE DEF P, Sol
  <2>1. P \in SUBSET Nat
    BY DEF P
  <2> QED BY <1>1, <1>2, <2>1, NatSet DEF P
<1>4. \E ct : Sol(ct, S)
  <2> DEFINE ct == [s \in SUBSET S |-> it[s]]
  <2>1. ASSUME NEW s \in SUBSET S
        PROVE ct[s] = IF s = {} THEN G ELSE CrossesCall(Max(s), ct[s \ {Max(s)}])
    <3>1. s \in SUBSET (1 .. k) /\ s \ {Max(s)} \in SUBSET S
      OBVIOUS
    <3> QED BY <1>3, <3>1
  <2>2. Sol(ct, S)
    BY <2>1, Zenon
  <2> QED BY <2>2, Zenon
<1> DEFINE iter == CHOOSE ct : Sol(ct, S)
<1>5. Sol(iter, S)
  BY <1>4, Zenon
<1> DEFINE h == [j \in 0 .. k |-> iter[S \cap 1 .. j]]
<1>6. h[0] = G
  <2>1. S \cap 1 .. 0 = {} /\ {} \in SUBSET S /\ 0 \in 0 .. k
    BY Ends
  <2> QED BY <1>5, <2>1
<1>7. ASSUME NEW i \in 1 .. k PROVE h[i] = IF i \in S THEN CrossesCall(i, h[i - 1]) ELSE h[i - 1]
  <2>1. h[i] = iter[S \cap 1 .. i] /\ h[i - 1] = iter[S \cap 1 .. i - 1]
    BY Ahead
  <2>2. /\ S \cap 1 .. i \in SUBSET S /\ S \cap 1 .. i - 1 \in SUBSET S
        /\ i \notin S => S \cap 1 .. i = S \cap 1 .. i - 1
        /\ i \in S => /\ S \cap 1 .. i # {} /\ Max(S \cap 1 .. i) = i
                      /\ (S \cap 1 .. i) \ {i} = S \cap 1 .. i - 1
    BY Ahead
  <2>3. i \in S => iter[S \cap 1 .. i] = CrossesCall(Max(S \cap 1 .. i), iter[(S \cap 1 .. i) \ {Max(S \cap 1 .. i)}])
    BY <1>5, <2>2
  <2> HIDE DEF h, iter
  <2> QED BY <2>1, <2>2, <2>3
<1>8. CrossCalls(G, S) = h[k]
  <2>1. CrossCalls(G, S) = iter[S]
    BY DEF CrossCalls, Ascending, MapThenFoldSet
  <2>2. h[k] = iter[S]
    BY Ends
  <2> QED BY <2>1, <2>2
<1>9. CrossCallsSteps(h, G, k, S)
  <2> HIDE DEF h
  <2> QED BY <1>6, <1>7, <1>8 DEF CrossCallsSteps
<1> HIDE DEF h
<1> QED BY <1>9

\* Worklists, one step after the other.
WorklistsSteps(h, G, k, S) ==
  /\ h[0] = G
  /\ \A i \in 1 .. k : h[i] = IF i \in S THEN Listing(h[i - 1], i, Worklist(h[i - 1], i)) ELSE h[i - 1]
  /\ irc_make_worklists(G) = h[k]

\* Such a sequence exists.
LEMMA WorklistsUnfold ==
  ASSUME NEW G, NEW k \in Nat, NEW S \in SUBSET (1 .. k), VRegNodes(G) = S
  PROVE  \E h : WorklistsSteps(h, G, k, S)
<1> DEFINE Sol(it, D) == it = [s \in SUBSET D |-> IF s = {} THEN G ELSE Listing(it[s \ {Max(s)}], Max(s), Worklist(it[s \ {Max(s)}], Max(s)))]
           P == {j \in Nat : \E it : Sol(it, 1 .. j)}
<1>1. 0 \in P
  <2> DEFINE it == [s \in SUBSET (1 .. 0) |-> G]
  <2>1. \A s \in SUBSET (1 .. 0) : s = {}
    OBVIOUS
  <2>2. Sol(it, 1 .. 0)
    BY <2>1, Zenon
  <2> QED BY <2>2, Zenon
<1>2. ASSUME NEW j \in P PROVE j + 1 \in P
  <2>1. j \in Nat
    OBVIOUS
  <2>2. PICK it : Sol(it, 1 .. j)
    OBVIOUS
  <2> DEFINE jt == [s \in SUBSET (1 .. j + 1) |-> IF j + 1 \in s THEN Listing(it[s \ {j + 1}], j + 1, Worklist(it[s \ {j + 1}], j + 1)) ELSE it[s]]
  <2>3. ASSUME NEW s \in SUBSET (1 .. j + 1)
        PROVE jt[s] = IF s = {} THEN G ELSE Listing(jt[s \ {Max(s)}], Max(s), Worklist(jt[s \ {Max(s)}], Max(s)))
    <3>1. /\ s \ {Max(s)} \in SUBSET (1 .. j + 1)
          /\ s = {} => s \in SUBSET (1 .. j) /\ j + 1 \notin s
          /\ s # {} => j + 1 \notin s \ {Max(s)}
          /\ j + 1 \in s => Max(s) = j + 1
          /\ j + 1 \notin s => s \in SUBSET (1 .. j)
      BY <2>1, Top
    <3>2. CASE s = {}
      BY <2>2, <3>1, <3>2
    <3>3. CASE j + 1 \in s
      BY <2>2, <3>1, <3>3
    <3>4. CASE s # {} /\ j + 1 \notin s
      <4>1. s \ {Max(s)} \in SUBSET (1 .. j + 1) /\ j + 1 \notin s \ {Max(s)}
        BY <3>1, <3>4
      <4>2. jt[s \ {Max(s)}] = it[s \ {Max(s)}] /\ jt[s] = it[s]
        BY <3>4, <4>1
      <4> QED BY <2>2, <3>1, <3>4, <4>2
    <3> QED BY <3>2, <3>3, <3>4
  <2>4. Sol(jt, 1 .. j + 1)
    BY <2>3, Zenon
  <2> HIDE DEF jt, Sol
  <2> QED BY <2>1, <2>4
<1>3. PICK it : Sol(it, 1 .. k)
  <2> HIDE DEF P, Sol
  <2>1. P \in SUBSET Nat
    BY DEF P
  <2> QED BY <1>1, <1>2, <2>1, NatSet DEF P
<1>4. \E ct : Sol(ct, S)
  <2> DEFINE ct == [s \in SUBSET S |-> it[s]]
  <2>1. ASSUME NEW s \in SUBSET S
        PROVE ct[s] = IF s = {} THEN G ELSE Listing(ct[s \ {Max(s)}], Max(s), Worklist(ct[s \ {Max(s)}], Max(s)))
    <3>1. s \in SUBSET (1 .. k) /\ s \ {Max(s)} \in SUBSET S
      OBVIOUS
    <3> QED BY <1>3, <3>1
  <2>2. Sol(ct, S)
    BY <2>1, Zenon
  <2> QED BY <2>2, Zenon
<1> DEFINE iter == CHOOSE ct : Sol(ct, S)
<1>5. Sol(iter, S)
  BY <1>4, Zenon
<1> DEFINE h == [j \in 0 .. k |-> iter[S \cap 1 .. j]]
<1>6. h[0] = G
  <2>1. S \cap 1 .. 0 = {} /\ {} \in SUBSET S /\ 0 \in 0 .. k
    BY Ends
  <2> QED BY <1>5, <2>1
<1>7. ASSUME NEW i \in 1 .. k PROVE h[i] = IF i \in S THEN Listing(h[i - 1], i, Worklist(h[i - 1], i)) ELSE h[i - 1]
  <2>1. h[i] = iter[S \cap 1 .. i] /\ h[i - 1] = iter[S \cap 1 .. i - 1]
    BY Ahead
  <2>2. /\ S \cap 1 .. i \in SUBSET S /\ S \cap 1 .. i - 1 \in SUBSET S
        /\ i \notin S => S \cap 1 .. i = S \cap 1 .. i - 1
        /\ i \in S => /\ S \cap 1 .. i # {} /\ Max(S \cap 1 .. i) = i
                      /\ (S \cap 1 .. i) \ {i} = S \cap 1 .. i - 1
    BY Ahead
  <2>3. i \in S => iter[S \cap 1 .. i] = Listing(iter[(S \cap 1 .. i) \ {Max(S \cap 1 .. i)}], Max(S \cap 1 .. i), Worklist(iter[(S \cap 1 .. i) \ {Max(S \cap 1 .. i)}], Max(S \cap 1 .. i)))
    BY <1>5, <2>2
  <2> HIDE DEF h, iter
  <2> QED BY <2>1, <2>2, <2>3
<1>8. irc_make_worklists(G) = h[k]
  <2>1. irc_make_worklists(G) = iter[S]
    BY DEF irc_make_worklists, Ascending, MapThenFoldSet
  <2>2. h[k] = iter[S]
    BY Ends
  <2> QED BY <2>1, <2>2
<1>9. WorklistsSteps(h, G, k, S)
  <2> HIDE DEF h
  <2> QED BY <1>6, <1>7, <1>8 DEF WorklistsSteps
<1> HIDE DEF h
<1> QED BY <1>9

\* Build, one step after the other.
BuildSteps(h, G, f, in, depth, k) ==
  /\ h[0] = G
  /\ \A i \in 1 .. k : h[i] = BuildBlock(h[i - 1], f.code[f.order[i]], LiveOut(f, in, f.order[i]), 100 * Weight(depth[f.order[i]]))
  /\ irc_build_graph(G, f, in, depth) = h[k]

\* Such a sequence exists.
LEMMA BuildUnfolds ==
  ASSUME NEW G, NEW f, NEW in, NEW depth, NEW k \in Nat, DOMAIN f.order = 1 .. k
  PROVE  \E h : BuildSteps(h, G, f, in, depth, k)
<1> DEFINE Block(H, i) == BuildBlock(H, f.code[f.order[i]], LiveOut(f, in, f.order[i]), 100 * Weight(depth[f.order[i]]))
           Sol(it, D) == it = [s \in SUBSET D |-> IF s = {} THEN G ELSE Block(it[s \ {Max(s)}], Max(s))]
           P == {j \in Nat : \E it : Sol(it, 1 .. j)}
<1> HIDE DEF Block
<1>1. 0 \in P
  <2> DEFINE it == [s \in SUBSET (1 .. 0) |-> G]
  <2>1. \A s \in SUBSET (1 .. 0) : s = {}
    OBVIOUS
  <2>2. Sol(it, 1 .. 0)
    BY <2>1, Zenon
  <2> QED BY <2>2, Zenon
<1>2. ASSUME NEW j \in P PROVE j + 1 \in P
  <2>1. j \in Nat
    OBVIOUS
  <2>2. PICK it : Sol(it, 1 .. j)
    OBVIOUS
  <2> DEFINE jt == [s \in SUBSET (1 .. j + 1) |-> IF j + 1 \in s THEN Block(it[s \ {j + 1}], j + 1) ELSE it[s]]
  <2>3. ASSUME NEW s \in SUBSET (1 .. j + 1)
        PROVE jt[s] = IF s = {} THEN G ELSE Block(jt[s \ {Max(s)}], Max(s))
    <3>1. /\ s \ {Max(s)} \in SUBSET (1 .. j + 1)
          /\ s = {} => s \in SUBSET (1 .. j) /\ j + 1 \notin s
          /\ s # {} => j + 1 \notin s \ {Max(s)}
          /\ j + 1 \in s => Max(s) = j + 1
          /\ j + 1 \notin s => s \in SUBSET (1 .. j)
      BY <2>1, Top
    <3>2. CASE s = {}
      BY <2>2, <3>1, <3>2
    <3>3. CASE j + 1 \in s
      BY <2>2, <3>1, <3>3
    <3>4. CASE s # {} /\ j + 1 \notin s
      <4>1. s \ {Max(s)} \in SUBSET (1 .. j + 1) /\ j + 1 \notin s \ {Max(s)}
        BY <3>1, <3>4
      <4>2. jt[s \ {Max(s)}] = it[s \ {Max(s)}] /\ jt[s] = it[s]
        BY <3>4, <4>1
      <4> QED BY <2>2, <3>1, <3>4, <4>2
    <3> QED BY <3>2, <3>3, <3>4
  <2>4. Sol(jt, 1 .. j + 1)
    BY <2>3, Zenon
  <2> HIDE DEF jt, Sol
  <2> QED BY <2>1, <2>4
<1>3. PICK it : Sol(it, 1 .. k)
  <2> HIDE DEF P, Sol
  <2>1. P \in SUBSET Nat
    BY DEF P
  <2> QED BY <1>1, <1>2, <2>1, NatSet DEF P
<1> DEFINE iter == CHOOSE ct : Sol(ct, 1 .. k)
<1>4. Sol(iter, 1 .. k)
  BY <1>3, Zenon
<1> DEFINE h == [j \in 0 .. k |-> iter[1 .. j]]
<1>5. h[0] = G
  <2>1. 1 .. 0 = {} /\ {} \in SUBSET (1 .. k) /\ 0 \in 0 .. k
    BY Prefix
  <2> QED BY <1>4, <2>1
<1>6. ASSUME NEW i \in 1 .. k PROVE h[i] = BuildBlock(h[i - 1], f.code[f.order[i]], LiveOut(f, in, f.order[i]), 100 * Weight(depth[f.order[i]]))
  <2>1. h[i] = iter[1 .. i] /\ h[i - 1] = iter[1 .. i - 1]
    BY Prefix
  <2>2. /\ 1 .. i \in SUBSET (1 .. k) /\ 1 .. i # {}
        /\ Max(1 .. i) = i /\ (1 .. i) \ {i} = 1 .. i - 1
    BY Prefix
  <2>3. iter[1 .. i] = Block(iter[(1 .. i) \ {Max(1 .. i)}], Max(1 .. i))
    BY <1>4, <2>2
  <2> HIDE DEF h, iter
  <2> QED BY <2>1, <2>2, <2>3 DEF Block
<1>7. irc_build_graph(G, f, in, depth) = h[k]
  <2>1. irc_build_graph(G, f, in, depth) = iter[1 .. k]
    BY DEF Block, irc_build_graph, FoldLeft, MapThenFoldSet
  <2>2. h[k] = iter[1 .. k]
    BY Prefix
  <2> QED BY <2>1, <2>2
<1>8. BuildSteps(h, G, f, in, depth, k)
  <2> HIDE DEF h
  <2> QED BY <1>5, <1>6, <1>7 DEF BuildSteps
<1> HIDE DEF h
<1> QED BY <1>8

\* Enabled, one step after the other.
EnabledSteps(h, G, n, k) ==
  /\ h[0] = G
  /\ \A i \in 1 .. k : h[i] = Enabled(h[i - 1], G.of[G.alias[n]][i])
  /\ irc_enable_moves_for_node(G, n) = h[k]

\* Such a sequence exists.
LEMMA EnabledUnfolds ==
  ASSUME NEW G, NEW n, NEW k \in Nat, DOMAIN G.of[G.alias[n]] = 1 .. k
  PROVE  \E h : EnabledSteps(h, G, n, k)
<1> DEFINE Sol(it, D) == it = [s \in SUBSET D |-> IF s = {} THEN G ELSE Enabled(it[s \ {Max(s)}], G.of[G.alias[n]][Max(s)])]
           P == {j \in Nat : \E it : Sol(it, 1 .. j)}
<1>1. 0 \in P
  <2> DEFINE it == [s \in SUBSET (1 .. 0) |-> G]
  <2>1. \A s \in SUBSET (1 .. 0) : s = {}
    OBVIOUS
  <2>2. Sol(it, 1 .. 0)
    BY <2>1, Zenon
  <2> QED BY <2>2, Zenon
<1>2. ASSUME NEW j \in P PROVE j + 1 \in P
  <2>1. j \in Nat
    OBVIOUS
  <2>2. PICK it : Sol(it, 1 .. j)
    OBVIOUS
  <2> DEFINE jt == [s \in SUBSET (1 .. j + 1) |-> IF j + 1 \in s THEN Enabled(it[s \ {j + 1}], G.of[G.alias[n]][j + 1]) ELSE it[s]]
  <2>3. ASSUME NEW s \in SUBSET (1 .. j + 1)
        PROVE jt[s] = IF s = {} THEN G ELSE Enabled(jt[s \ {Max(s)}], G.of[G.alias[n]][Max(s)])
    <3>1. /\ s \ {Max(s)} \in SUBSET (1 .. j + 1)
          /\ s = {} => s \in SUBSET (1 .. j) /\ j + 1 \notin s
          /\ s # {} => j + 1 \notin s \ {Max(s)}
          /\ j + 1 \in s => Max(s) = j + 1
          /\ j + 1 \notin s => s \in SUBSET (1 .. j)
      BY <2>1, Top
    <3>2. CASE s = {}
      BY <2>2, <3>1, <3>2
    <3>3. CASE j + 1 \in s
      BY <2>2, <3>1, <3>3
    <3>4. CASE s # {} /\ j + 1 \notin s
      <4>1. s \ {Max(s)} \in SUBSET (1 .. j + 1) /\ j + 1 \notin s \ {Max(s)}
        BY <3>1, <3>4
      <4>2. jt[s \ {Max(s)}] = it[s \ {Max(s)}] /\ jt[s] = it[s]
        BY <3>4, <4>1
      <4> QED BY <2>2, <3>1, <3>4, <4>2
    <3> QED BY <3>2, <3>3, <3>4
  <2>4. Sol(jt, 1 .. j + 1)
    BY <2>3, Zenon
  <2> HIDE DEF jt, Sol
  <2> QED BY <2>1, <2>4
<1>3. PICK it : Sol(it, 1 .. k)
  <2> HIDE DEF P, Sol
  <2>1. P \in SUBSET Nat
    BY DEF P
  <2> QED BY <1>1, <1>2, <2>1, NatSet DEF P
<1> DEFINE iter == CHOOSE ct : Sol(ct, 1 .. k)
<1>4. Sol(iter, 1 .. k)
  BY <1>3, Zenon
<1> DEFINE h == [j \in 0 .. k |-> iter[1 .. j]]
<1>5. h[0] = G
  <2>1. 1 .. 0 = {} /\ {} \in SUBSET (1 .. k) /\ 0 \in 0 .. k
    BY Prefix
  <2> QED BY <1>4, <2>1
<1>6. ASSUME NEW i \in 1 .. k PROVE h[i] = Enabled(h[i - 1], G.of[G.alias[n]][i])
  <2>1. h[i] = iter[1 .. i] /\ h[i - 1] = iter[1 .. i - 1]
    BY Prefix
  <2>2. /\ 1 .. i \in SUBSET (1 .. k) /\ 1 .. i # {}
        /\ Max(1 .. i) = i /\ (1 .. i) \ {i} = 1 .. i - 1
    BY Prefix
  <2>3. iter[1 .. i] = Enabled(iter[(1 .. i) \ {Max(1 .. i)}], G.of[G.alias[n]][Max(1 .. i)])
    BY <1>4, <2>2
  <2> HIDE DEF h, iter
  <2> QED BY <2>1, <2>2, <2>3
<1>7. irc_enable_moves_for_node(G, n) = h[k]
  <2>1. irc_enable_moves_for_node(G, n) = iter[1 .. k]
    BY DEF irc_enable_moves_for_node, FoldLeft, MapThenFoldSet
  <2>2. h[k] = iter[1 .. k]
    BY Prefix
  <2> QED BY <2>1, <2>2
<1>8. EnabledSteps(h, G, n, k)
  <2> HIDE DEF h
  <2> QED BY <1>5, <1>6, <1>7 DEF EnabledSteps
<1> HIDE DEF h
<1> QED BY <1>8

\* EnableNeighbours, one step after the other.
EnableNeighboursSteps(h, G, nodes, k) ==
  /\ h[0] = G
  /\ \A i \in 1 .. k : h[i] = EnableNeighbour(h[i - 1], nodes[i])
  /\ EnableNeighbours(G, nodes) = h[k]

\* Such a sequence exists.
LEMMA EnableNeighboursUnfolds ==
  ASSUME NEW G, NEW nodes, NEW k \in Nat, DOMAIN nodes = 1 .. k
  PROVE  \E h : EnableNeighboursSteps(h, G, nodes, k)
<1> DEFINE Sol(it, D) == it = [s \in SUBSET D |-> IF s = {} THEN G ELSE EnableNeighbour(it[s \ {Max(s)}], nodes[Max(s)])]
           P == {j \in Nat : \E it : Sol(it, 1 .. j)}
<1>1. 0 \in P
  <2> DEFINE it == [s \in SUBSET (1 .. 0) |-> G]
  <2>1. \A s \in SUBSET (1 .. 0) : s = {}
    OBVIOUS
  <2>2. Sol(it, 1 .. 0)
    BY <2>1, Zenon
  <2> QED BY <2>2, Zenon
<1>2. ASSUME NEW j \in P PROVE j + 1 \in P
  <2>1. j \in Nat
    OBVIOUS
  <2>2. PICK it : Sol(it, 1 .. j)
    OBVIOUS
  <2> DEFINE jt == [s \in SUBSET (1 .. j + 1) |-> IF j + 1 \in s THEN EnableNeighbour(it[s \ {j + 1}], nodes[j + 1]) ELSE it[s]]
  <2>3. ASSUME NEW s \in SUBSET (1 .. j + 1)
        PROVE jt[s] = IF s = {} THEN G ELSE EnableNeighbour(jt[s \ {Max(s)}], nodes[Max(s)])
    <3>1. /\ s \ {Max(s)} \in SUBSET (1 .. j + 1)
          /\ s = {} => s \in SUBSET (1 .. j) /\ j + 1 \notin s
          /\ s # {} => j + 1 \notin s \ {Max(s)}
          /\ j + 1 \in s => Max(s) = j + 1
          /\ j + 1 \notin s => s \in SUBSET (1 .. j)
      BY <2>1, Top
    <3>2. CASE s = {}
      BY <2>2, <3>1, <3>2
    <3>3. CASE j + 1 \in s
      BY <2>2, <3>1, <3>3
    <3>4. CASE s # {} /\ j + 1 \notin s
      <4>1. s \ {Max(s)} \in SUBSET (1 .. j + 1) /\ j + 1 \notin s \ {Max(s)}
        BY <3>1, <3>4
      <4>2. jt[s \ {Max(s)}] = it[s \ {Max(s)}] /\ jt[s] = it[s]
        BY <3>4, <4>1
      <4> QED BY <2>2, <3>1, <3>4, <4>2
    <3> QED BY <3>2, <3>3, <3>4
  <2>4. Sol(jt, 1 .. j + 1)
    BY <2>3, Zenon
  <2> HIDE DEF jt, Sol
  <2> QED BY <2>1, <2>4
<1>3. PICK it : Sol(it, 1 .. k)
  <2> HIDE DEF P, Sol
  <2>1. P \in SUBSET Nat
    BY DEF P
  <2> QED BY <1>1, <1>2, <2>1, NatSet DEF P
<1> DEFINE iter == CHOOSE ct : Sol(ct, 1 .. k)
<1>4. Sol(iter, 1 .. k)
  BY <1>3, Zenon
<1> DEFINE h == [j \in 0 .. k |-> iter[1 .. j]]
<1>5. h[0] = G
  <2>1. 1 .. 0 = {} /\ {} \in SUBSET (1 .. k) /\ 0 \in 0 .. k
    BY Prefix
  <2> QED BY <1>4, <2>1
<1>6. ASSUME NEW i \in 1 .. k PROVE h[i] = EnableNeighbour(h[i - 1], nodes[i])
  <2>1. h[i] = iter[1 .. i] /\ h[i - 1] = iter[1 .. i - 1]
    BY Prefix
  <2>2. /\ 1 .. i \in SUBSET (1 .. k) /\ 1 .. i # {}
        /\ Max(1 .. i) = i /\ (1 .. i) \ {i} = 1 .. i - 1
    BY Prefix
  <2>3. iter[1 .. i] = EnableNeighbour(iter[(1 .. i) \ {Max(1 .. i)}], nodes[Max(1 .. i)])
    BY <1>4, <2>2
  <2> HIDE DEF h, iter
  <2> QED BY <2>1, <2>2, <2>3
<1>7. EnableNeighbours(G, nodes) = h[k]
  <2>1. EnableNeighbours(G, nodes) = iter[1 .. k]
    BY DEF EnableNeighbours, FoldLeft, MapThenFoldSet
  <2>2. h[k] = iter[1 .. k]
    BY Prefix
  <2> QED BY <2>1, <2>2
<1>8. EnableNeighboursSteps(h, G, nodes, k)
  <2> HIDE DEF h
  <2> QED BY <1>5, <1>6, <1>7 DEF EnableNeighboursSteps
<1> HIDE DEF h
<1> QED BY <1>8

\* RefreshNeighbours, one step after the other.
RefreshNeighboursSteps(h, G, nodes, k) ==
  /\ h[0] = G
  /\ \A i \in 1 .. k : h[i] = RefreshNeighbour(h[i - 1], nodes[i])
  /\ RefreshNeighbours(G, nodes) = h[k]

\* Such a sequence exists.
LEMMA RefreshNeighboursUnfolds ==
  ASSUME NEW G, NEW nodes, NEW k \in Nat, DOMAIN nodes = 1 .. k
  PROVE  \E h : RefreshNeighboursSteps(h, G, nodes, k)
<1> DEFINE Sol(it, D) == it = [s \in SUBSET D |-> IF s = {} THEN G ELSE RefreshNeighbour(it[s \ {Max(s)}], nodes[Max(s)])]
           P == {j \in Nat : \E it : Sol(it, 1 .. j)}
<1>1. 0 \in P
  <2> DEFINE it == [s \in SUBSET (1 .. 0) |-> G]
  <2>1. \A s \in SUBSET (1 .. 0) : s = {}
    OBVIOUS
  <2>2. Sol(it, 1 .. 0)
    BY <2>1, Zenon
  <2> QED BY <2>2, Zenon
<1>2. ASSUME NEW j \in P PROVE j + 1 \in P
  <2>1. j \in Nat
    OBVIOUS
  <2>2. PICK it : Sol(it, 1 .. j)
    OBVIOUS
  <2> DEFINE jt == [s \in SUBSET (1 .. j + 1) |-> IF j + 1 \in s THEN RefreshNeighbour(it[s \ {j + 1}], nodes[j + 1]) ELSE it[s]]
  <2>3. ASSUME NEW s \in SUBSET (1 .. j + 1)
        PROVE jt[s] = IF s = {} THEN G ELSE RefreshNeighbour(jt[s \ {Max(s)}], nodes[Max(s)])
    <3>1. /\ s \ {Max(s)} \in SUBSET (1 .. j + 1)
          /\ s = {} => s \in SUBSET (1 .. j) /\ j + 1 \notin s
          /\ s # {} => j + 1 \notin s \ {Max(s)}
          /\ j + 1 \in s => Max(s) = j + 1
          /\ j + 1 \notin s => s \in SUBSET (1 .. j)
      BY <2>1, Top
    <3>2. CASE s = {}
      BY <2>2, <3>1, <3>2
    <3>3. CASE j + 1 \in s
      BY <2>2, <3>1, <3>3
    <3>4. CASE s # {} /\ j + 1 \notin s
      <4>1. s \ {Max(s)} \in SUBSET (1 .. j + 1) /\ j + 1 \notin s \ {Max(s)}
        BY <3>1, <3>4
      <4>2. jt[s \ {Max(s)}] = it[s \ {Max(s)}] /\ jt[s] = it[s]
        BY <3>4, <4>1
      <4> QED BY <2>2, <3>1, <3>4, <4>2
    <3> QED BY <3>2, <3>3, <3>4
  <2>4. Sol(jt, 1 .. j + 1)
    BY <2>3, Zenon
  <2> HIDE DEF jt, Sol
  <2> QED BY <2>1, <2>4
<1>3. PICK it : Sol(it, 1 .. k)
  <2> HIDE DEF P, Sol
  <2>1. P \in SUBSET Nat
    BY DEF P
  <2> QED BY <1>1, <1>2, <2>1, NatSet DEF P
<1> DEFINE iter == CHOOSE ct : Sol(ct, 1 .. k)
<1>4. Sol(iter, 1 .. k)
  BY <1>3, Zenon
<1> DEFINE h == [j \in 0 .. k |-> iter[1 .. j]]
<1>5. h[0] = G
  <2>1. 1 .. 0 = {} /\ {} \in SUBSET (1 .. k) /\ 0 \in 0 .. k
    BY Prefix
  <2> QED BY <1>4, <2>1
<1>6. ASSUME NEW i \in 1 .. k PROVE h[i] = RefreshNeighbour(h[i - 1], nodes[i])
  <2>1. h[i] = iter[1 .. i] /\ h[i - 1] = iter[1 .. i - 1]
    BY Prefix
  <2>2. /\ 1 .. i \in SUBSET (1 .. k) /\ 1 .. i # {}
        /\ Max(1 .. i) = i /\ (1 .. i) \ {i} = 1 .. i - 1
    BY Prefix
  <2>3. iter[1 .. i] = RefreshNeighbour(iter[(1 .. i) \ {Max(1 .. i)}], nodes[Max(1 .. i)])
    BY <1>4, <2>2
  <2> HIDE DEF h, iter
  <2> QED BY <2>1, <2>2, <2>3
<1>7. RefreshNeighbours(G, nodes) = h[k]
  <2>1. RefreshNeighbours(G, nodes) = iter[1 .. k]
    BY DEF RefreshNeighbours, FoldLeft, MapThenFoldSet
  <2>2. h[k] = iter[1 .. k]
    BY Prefix
  <2> QED BY <2>1, <2>2
<1>8. RefreshNeighboursSteps(h, G, nodes, k)
  <2> HIDE DEF h
  <2> QED BY <1>5, <1>6, <1>7 DEF RefreshNeighboursSteps
<1> HIDE DEF h
<1> QED BY <1>8

\* RefreshAround, one step after the other.
RefreshAroundSteps(h, G, n, k) ==
  /\ h[0] = G
  /\ \A i \in 1 .. k : h[i] = irc_refresh_degree(h[i - 1], G.list[n][i])
  /\ RefreshAround(G, n) = h[k]

\* Such a sequence exists.
LEMMA RefreshAroundUnfolds ==
  ASSUME NEW G, NEW n, NEW k \in Nat, DOMAIN G.list[n] = 1 .. k
  PROVE  \E h : RefreshAroundSteps(h, G, n, k)
<1> DEFINE Sol(it, D) == it = [s \in SUBSET D |-> IF s = {} THEN G ELSE irc_refresh_degree(it[s \ {Max(s)}], G.list[n][Max(s)])]
           P == {j \in Nat : \E it : Sol(it, 1 .. j)}
<1>1. 0 \in P
  <2> DEFINE it == [s \in SUBSET (1 .. 0) |-> G]
  <2>1. \A s \in SUBSET (1 .. 0) : s = {}
    OBVIOUS
  <2>2. Sol(it, 1 .. 0)
    BY <2>1, Zenon
  <2> QED BY <2>2, Zenon
<1>2. ASSUME NEW j \in P PROVE j + 1 \in P
  <2>1. j \in Nat
    OBVIOUS
  <2>2. PICK it : Sol(it, 1 .. j)
    OBVIOUS
  <2> DEFINE jt == [s \in SUBSET (1 .. j + 1) |-> IF j + 1 \in s THEN irc_refresh_degree(it[s \ {j + 1}], G.list[n][j + 1]) ELSE it[s]]
  <2>3. ASSUME NEW s \in SUBSET (1 .. j + 1)
        PROVE jt[s] = IF s = {} THEN G ELSE irc_refresh_degree(jt[s \ {Max(s)}], G.list[n][Max(s)])
    <3>1. /\ s \ {Max(s)} \in SUBSET (1 .. j + 1)
          /\ s = {} => s \in SUBSET (1 .. j) /\ j + 1 \notin s
          /\ s # {} => j + 1 \notin s \ {Max(s)}
          /\ j + 1 \in s => Max(s) = j + 1
          /\ j + 1 \notin s => s \in SUBSET (1 .. j)
      BY <2>1, Top
    <3>2. CASE s = {}
      BY <2>2, <3>1, <3>2
    <3>3. CASE j + 1 \in s
      BY <2>2, <3>1, <3>3
    <3>4. CASE s # {} /\ j + 1 \notin s
      <4>1. s \ {Max(s)} \in SUBSET (1 .. j + 1) /\ j + 1 \notin s \ {Max(s)}
        BY <3>1, <3>4
      <4>2. jt[s \ {Max(s)}] = it[s \ {Max(s)}] /\ jt[s] = it[s]
        BY <3>4, <4>1
      <4> QED BY <2>2, <3>1, <3>4, <4>2
    <3> QED BY <3>2, <3>3, <3>4
  <2>4. Sol(jt, 1 .. j + 1)
    BY <2>3, Zenon
  <2> HIDE DEF jt, Sol
  <2> QED BY <2>1, <2>4
<1>3. PICK it : Sol(it, 1 .. k)
  <2> HIDE DEF P, Sol
  <2>1. P \in SUBSET Nat
    BY DEF P
  <2> QED BY <1>1, <1>2, <2>1, NatSet DEF P
<1> DEFINE iter == CHOOSE ct : Sol(ct, 1 .. k)
<1>4. Sol(iter, 1 .. k)
  BY <1>3, Zenon
<1> DEFINE h == [j \in 0 .. k |-> iter[1 .. j]]
<1>5. h[0] = G
  <2>1. 1 .. 0 = {} /\ {} \in SUBSET (1 .. k) /\ 0 \in 0 .. k
    BY Prefix
  <2> QED BY <1>4, <2>1
<1>6. ASSUME NEW i \in 1 .. k PROVE h[i] = irc_refresh_degree(h[i - 1], G.list[n][i])
  <2>1. h[i] = iter[1 .. i] /\ h[i - 1] = iter[1 .. i - 1]
    BY Prefix
  <2>2. /\ 1 .. i \in SUBSET (1 .. k) /\ 1 .. i # {}
        /\ Max(1 .. i) = i /\ (1 .. i) \ {i} = 1 .. i - 1
    BY Prefix
  <2>3. iter[1 .. i] = irc_refresh_degree(iter[(1 .. i) \ {Max(1 .. i)}], G.list[n][Max(1 .. i)])
    BY <1>4, <2>2
  <2> HIDE DEF h, iter
  <2> QED BY <2>1, <2>2, <2>3
<1>7. RefreshAround(G, n) = h[k]
  <2>1. RefreshAround(G, n) = iter[1 .. k]
    BY DEF RefreshAround, FoldLeft, MapThenFoldSet
  <2>2. h[k] = iter[1 .. k]
    BY Prefix
  <2> QED BY <2>1, <2>2
<1>8. RefreshAroundSteps(h, G, n, k)
  <2> HIDE DEF h
  <2> QED BY <1>5, <1>6, <1>7 DEF RefreshAroundSteps
<1> HIDE DEF h
<1> QED BY <1>8

\* FreezeMoves, one step after the other.
FreezeMovesSteps(h, G, n, moves, k) ==
  /\ h[0] = G
  /\ \A i \in 1 .. k : h[i] = FreezeMove(h[i - 1], moves[i], n)
  /\ FreezeMoves(G, n, moves) = h[k]

\* Such a sequence exists.
LEMMA FreezeMovesUnfolds ==
  ASSUME NEW G, NEW n, NEW moves, NEW k \in Nat, DOMAIN moves = 1 .. k
  PROVE  \E h : FreezeMovesSteps(h, G, n, moves, k)
<1> DEFINE Sol(it, D) == it = [s \in SUBSET D |-> IF s = {} THEN G ELSE FreezeMove(it[s \ {Max(s)}], moves[Max(s)], n)]
           P == {j \in Nat : \E it : Sol(it, 1 .. j)}
<1>1. 0 \in P
  <2> DEFINE it == [s \in SUBSET (1 .. 0) |-> G]
  <2>1. \A s \in SUBSET (1 .. 0) : s = {}
    OBVIOUS
  <2>2. Sol(it, 1 .. 0)
    BY <2>1, Zenon
  <2> QED BY <2>2, Zenon
<1>2. ASSUME NEW j \in P PROVE j + 1 \in P
  <2>1. j \in Nat
    OBVIOUS
  <2>2. PICK it : Sol(it, 1 .. j)
    OBVIOUS
  <2> DEFINE jt == [s \in SUBSET (1 .. j + 1) |-> IF j + 1 \in s THEN FreezeMove(it[s \ {j + 1}], moves[j + 1], n) ELSE it[s]]
  <2>3. ASSUME NEW s \in SUBSET (1 .. j + 1)
        PROVE jt[s] = IF s = {} THEN G ELSE FreezeMove(jt[s \ {Max(s)}], moves[Max(s)], n)
    <3>1. /\ s \ {Max(s)} \in SUBSET (1 .. j + 1)
          /\ s = {} => s \in SUBSET (1 .. j) /\ j + 1 \notin s
          /\ s # {} => j + 1 \notin s \ {Max(s)}
          /\ j + 1 \in s => Max(s) = j + 1
          /\ j + 1 \notin s => s \in SUBSET (1 .. j)
      BY <2>1, Top
    <3>2. CASE s = {}
      BY <2>2, <3>1, <3>2
    <3>3. CASE j + 1 \in s
      BY <2>2, <3>1, <3>3
    <3>4. CASE s # {} /\ j + 1 \notin s
      <4>1. s \ {Max(s)} \in SUBSET (1 .. j + 1) /\ j + 1 \notin s \ {Max(s)}
        BY <3>1, <3>4
      <4>2. jt[s \ {Max(s)}] = it[s \ {Max(s)}] /\ jt[s] = it[s]
        BY <3>4, <4>1
      <4> QED BY <2>2, <3>1, <3>4, <4>2
    <3> QED BY <3>2, <3>3, <3>4
  <2>4. Sol(jt, 1 .. j + 1)
    BY <2>3, Zenon
  <2> HIDE DEF jt, Sol
  <2> QED BY <2>1, <2>4
<1>3. PICK it : Sol(it, 1 .. k)
  <2> HIDE DEF P, Sol
  <2>1. P \in SUBSET Nat
    BY DEF P
  <2> QED BY <1>1, <1>2, <2>1, NatSet DEF P
<1> DEFINE iter == CHOOSE ct : Sol(ct, 1 .. k)
<1>4. Sol(iter, 1 .. k)
  BY <1>3, Zenon
<1> DEFINE h == [j \in 0 .. k |-> iter[1 .. j]]
<1>5. h[0] = G
  <2>1. 1 .. 0 = {} /\ {} \in SUBSET (1 .. k) /\ 0 \in 0 .. k
    BY Prefix
  <2> QED BY <1>4, <2>1
<1>6. ASSUME NEW i \in 1 .. k PROVE h[i] = FreezeMove(h[i - 1], moves[i], n)
  <2>1. h[i] = iter[1 .. i] /\ h[i - 1] = iter[1 .. i - 1]
    BY Prefix
  <2>2. /\ 1 .. i \in SUBSET (1 .. k) /\ 1 .. i # {}
        /\ Max(1 .. i) = i /\ (1 .. i) \ {i} = 1 .. i - 1
    BY Prefix
  <2>3. iter[1 .. i] = FreezeMove(iter[(1 .. i) \ {Max(1 .. i)}], moves[Max(1 .. i)], n)
    BY <1>4, <2>2
  <2> HIDE DEF h, iter
  <2> QED BY <2>1, <2>2, <2>3
<1>7. FreezeMoves(G, n, moves) = h[k]
  <2>1. FreezeMoves(G, n, moves) = iter[1 .. k]
    BY DEF FreezeMoves, FoldLeft, MapThenFoldSet
  <2>2. h[k] = iter[1 .. k]
    BY Prefix
  <2> QED BY <2>1, <2>2
<1>8. FreezeMovesSteps(h, G, n, moves, k)
  <2> HIDE DEF h
  <2> QED BY <1>5, <1>6, <1>7 DEF FreezeMovesSteps
<1> HIDE DEF h
<1> QED BY <1>8

\* Inherited, one step after the other.
InheritedSteps(h, G, u, v, k) ==
  /\ h[0] = G
  /\ \A i \in 1 .. k : h[i] = Inherit(h[i - 1], u, G.list[v][i])
  /\ Inherited(G, u, v) = h[k]

\* Such a sequence exists.
LEMMA InheritedUnfolds ==
  ASSUME NEW G, NEW u, NEW v, NEW k \in Nat, DOMAIN G.list[v] = 1 .. k
  PROVE  \E h : InheritedSteps(h, G, u, v, k)
<1> DEFINE Sol(it, D) == it = [s \in SUBSET D |-> IF s = {} THEN G ELSE Inherit(it[s \ {Max(s)}], u, G.list[v][Max(s)])]
           P == {j \in Nat : \E it : Sol(it, 1 .. j)}
<1>1. 0 \in P
  <2> DEFINE it == [s \in SUBSET (1 .. 0) |-> G]
  <2>1. \A s \in SUBSET (1 .. 0) : s = {}
    OBVIOUS
  <2>2. Sol(it, 1 .. 0)
    BY <2>1, Zenon
  <2> QED BY <2>2, Zenon
<1>2. ASSUME NEW j \in P PROVE j + 1 \in P
  <2>1. j \in Nat
    OBVIOUS
  <2>2. PICK it : Sol(it, 1 .. j)
    OBVIOUS
  <2> DEFINE jt == [s \in SUBSET (1 .. j + 1) |-> IF j + 1 \in s THEN Inherit(it[s \ {j + 1}], u, G.list[v][j + 1]) ELSE it[s]]
  <2>3. ASSUME NEW s \in SUBSET (1 .. j + 1)
        PROVE jt[s] = IF s = {} THEN G ELSE Inherit(jt[s \ {Max(s)}], u, G.list[v][Max(s)])
    <3>1. /\ s \ {Max(s)} \in SUBSET (1 .. j + 1)
          /\ s = {} => s \in SUBSET (1 .. j) /\ j + 1 \notin s
          /\ s # {} => j + 1 \notin s \ {Max(s)}
          /\ j + 1 \in s => Max(s) = j + 1
          /\ j + 1 \notin s => s \in SUBSET (1 .. j)
      BY <2>1, Top
    <3>2. CASE s = {}
      BY <2>2, <3>1, <3>2
    <3>3. CASE j + 1 \in s
      BY <2>2, <3>1, <3>3
    <3>4. CASE s # {} /\ j + 1 \notin s
      <4>1. s \ {Max(s)} \in SUBSET (1 .. j + 1) /\ j + 1 \notin s \ {Max(s)}
        BY <3>1, <3>4
      <4>2. jt[s \ {Max(s)}] = it[s \ {Max(s)}] /\ jt[s] = it[s]
        BY <3>4, <4>1
      <4> QED BY <2>2, <3>1, <3>4, <4>2
    <3> QED BY <3>2, <3>3, <3>4
  <2>4. Sol(jt, 1 .. j + 1)
    BY <2>3, Zenon
  <2> HIDE DEF jt, Sol
  <2> QED BY <2>1, <2>4
<1>3. PICK it : Sol(it, 1 .. k)
  <2> HIDE DEF P, Sol
  <2>1. P \in SUBSET Nat
    BY DEF P
  <2> QED BY <1>1, <1>2, <2>1, NatSet DEF P
<1> DEFINE iter == CHOOSE ct : Sol(ct, 1 .. k)
<1>4. Sol(iter, 1 .. k)
  BY <1>3, Zenon
<1> DEFINE h == [j \in 0 .. k |-> iter[1 .. j]]
<1>5. h[0] = G
  <2>1. 1 .. 0 = {} /\ {} \in SUBSET (1 .. k) /\ 0 \in 0 .. k
    BY Prefix
  <2> QED BY <1>4, <2>1
<1>6. ASSUME NEW i \in 1 .. k PROVE h[i] = Inherit(h[i - 1], u, G.list[v][i])
  <2>1. h[i] = iter[1 .. i] /\ h[i - 1] = iter[1 .. i - 1]
    BY Prefix
  <2>2. /\ 1 .. i \in SUBSET (1 .. k) /\ 1 .. i # {}
        /\ Max(1 .. i) = i /\ (1 .. i) \ {i} = 1 .. i - 1
    BY Prefix
  <2>3. iter[1 .. i] = Inherit(iter[(1 .. i) \ {Max(1 .. i)}], u, G.list[v][Max(1 .. i)])
    BY <1>4, <2>2
  <2> HIDE DEF h, iter
  <2> QED BY <2>1, <2>2, <2>3
<1>7. Inherited(G, u, v) = h[k]
  <2>1. Inherited(G, u, v) = iter[1 .. k]
    BY DEF Inherited, FoldLeft, MapThenFoldSet
  <2>2. h[k] = iter[1 .. k]
    BY Prefix
  <2> QED BY <2>1, <2>2
<1>8. InheritedSteps(h, G, u, v, k)
  <2> HIDE DEF h
  <2> QED BY <1>5, <1>6, <1>7 DEF InheritedSteps
<1> HIDE DEF h
<1> QED BY <1>8

\* RewriteCode, one step after the other.
RewriteCodeSteps(h, G, n, f, b, fetch, put, k) ==
  /\ h[0] = [code |-> <<>>, vregs |-> f.vregs]
  /\ \A i \in 1 .. k : h[i] = RewriteInst(G, n, h[i - 1], f.code[b][i], fetch, put)
  /\ RewriteCode(G, n, f, b, fetch, put) = h[k]

\* Such a sequence exists.
LEMMA RewriteCodeUnfolds ==
  ASSUME NEW G, NEW n, NEW f, NEW b, NEW fetch, NEW put, NEW k \in Nat, DOMAIN f.code[b] = 1 .. k
  PROVE  \E h : RewriteCodeSteps(h, G, n, f, b, fetch, put, k)
<1> DEFINE Sol(it, D) == it = [s \in SUBSET D |-> IF s = {} THEN [code |-> <<>>, vregs |-> f.vregs] ELSE RewriteInst(G, n, it[s \ {Max(s)}], f.code[b][Max(s)], fetch, put)]
           P == {j \in Nat : \E it : Sol(it, 1 .. j)}
<1>1. 0 \in P
  <2> DEFINE it == [s \in SUBSET (1 .. 0) |-> [code |-> <<>>, vregs |-> f.vregs]]
  <2>1. \A s \in SUBSET (1 .. 0) : s = {}
    OBVIOUS
  <2>2. Sol(it, 1 .. 0)
    BY <2>1, Zenon
  <2> QED BY <2>2, Zenon
<1>2. ASSUME NEW j \in P PROVE j + 1 \in P
  <2>1. j \in Nat
    OBVIOUS
  <2>2. PICK it : Sol(it, 1 .. j)
    OBVIOUS
  <2> DEFINE jt == [s \in SUBSET (1 .. j + 1) |-> IF j + 1 \in s THEN RewriteInst(G, n, it[s \ {j + 1}], f.code[b][j + 1], fetch, put) ELSE it[s]]
  <2>3. ASSUME NEW s \in SUBSET (1 .. j + 1)
        PROVE jt[s] = IF s = {} THEN [code |-> <<>>, vregs |-> f.vregs] ELSE RewriteInst(G, n, jt[s \ {Max(s)}], f.code[b][Max(s)], fetch, put)
    <3>1. /\ s \ {Max(s)} \in SUBSET (1 .. j + 1)
          /\ s = {} => s \in SUBSET (1 .. j) /\ j + 1 \notin s
          /\ s # {} => j + 1 \notin s \ {Max(s)}
          /\ j + 1 \in s => Max(s) = j + 1
          /\ j + 1 \notin s => s \in SUBSET (1 .. j)
      BY <2>1, Top
    <3>2. CASE s = {}
      BY <2>2, <3>1, <3>2
    <3>3. CASE j + 1 \in s
      BY <2>2, <3>1, <3>3
    <3>4. CASE s # {} /\ j + 1 \notin s
      <4>1. s \ {Max(s)} \in SUBSET (1 .. j + 1) /\ j + 1 \notin s \ {Max(s)}
        BY <3>1, <3>4
      <4>2. jt[s \ {Max(s)}] = it[s \ {Max(s)}] /\ jt[s] = it[s]
        BY <3>4, <4>1
      <4> QED BY <2>2, <3>1, <3>4, <4>2
    <3> QED BY <3>2, <3>3, <3>4
  <2>4. Sol(jt, 1 .. j + 1)
    BY <2>3, Zenon
  <2> HIDE DEF jt, Sol
  <2> QED BY <2>1, <2>4
<1>3. PICK it : Sol(it, 1 .. k)
  <2> HIDE DEF P, Sol
  <2>1. P \in SUBSET Nat
    BY DEF P
  <2> QED BY <1>1, <1>2, <2>1, NatSet DEF P
<1> DEFINE iter == CHOOSE ct : Sol(ct, 1 .. k)
<1>4. Sol(iter, 1 .. k)
  BY <1>3, Zenon
<1> DEFINE h == [j \in 0 .. k |-> iter[1 .. j]]
<1>5. h[0] = [code |-> <<>>, vregs |-> f.vregs]
  <2>1. 1 .. 0 = {} /\ {} \in SUBSET (1 .. k) /\ 0 \in 0 .. k
    BY Prefix
  <2> QED BY <1>4, <2>1
<1>6. ASSUME NEW i \in 1 .. k PROVE h[i] = RewriteInst(G, n, h[i - 1], f.code[b][i], fetch, put)
  <2>1. h[i] = iter[1 .. i] /\ h[i - 1] = iter[1 .. i - 1]
    BY Prefix
  <2>2. /\ 1 .. i \in SUBSET (1 .. k) /\ 1 .. i # {}
        /\ Max(1 .. i) = i /\ (1 .. i) \ {i} = 1 .. i - 1
    BY Prefix
  <2>3. iter[1 .. i] = RewriteInst(G, n, iter[(1 .. i) \ {Max(1 .. i)}], f.code[b][Max(1 .. i)], fetch, put)
    BY <1>4, <2>2
  <2> HIDE DEF h, iter
  <2> QED BY <2>1, <2>2, <2>3
<1>7. RewriteCode(G, n, f, b, fetch, put) = h[k]
  <2>1. RewriteCode(G, n, f, b, fetch, put) = iter[1 .. k]
    BY DEF RewriteCode, FoldLeft, MapThenFoldSet
  <2>2. h[k] = iter[1 .. k]
    BY Prefix
  <2> QED BY <2>1, <2>2
<1>8. RewriteCodeSteps(h, G, n, f, b, fetch, put, k)
  <2> HIDE DEF h
  <2> QED BY <1>5, <1>6, <1>7 DEF RewriteCodeSteps
<1> HIDE DEF h
<1> QED BY <1>8

\* RewriteAll, one step after the other.
RewriteAllSteps(h, G, n, f, fetch, put, k) ==
  /\ h[0] = f
  /\ \A i \in 1 .. k : h[i] = InBlock(h[i - 1], f.order[i], RewriteCode(G, n, h[i - 1], f.order[i], fetch, put))
  /\ RewriteAll(G, n, f, fetch, put) = h[k]

\* Such a sequence exists.
LEMMA RewriteAllUnfolds ==
  ASSUME NEW G, NEW n, NEW f, NEW fetch, NEW put, NEW k \in Nat, DOMAIN f.order = 1 .. k
  PROVE  \E h : RewriteAllSteps(h, G, n, f, fetch, put, k)
<1> DEFINE Sol(it, D) == it = [s \in SUBSET D |-> IF s = {} THEN f ELSE InBlock(it[s \ {Max(s)}], f.order[Max(s)], RewriteCode(G, n, it[s \ {Max(s)}], f.order[Max(s)], fetch, put))]
           P == {j \in Nat : \E it : Sol(it, 1 .. j)}
<1>1. 0 \in P
  <2> DEFINE it == [s \in SUBSET (1 .. 0) |-> f]
  <2>1. \A s \in SUBSET (1 .. 0) : s = {}
    OBVIOUS
  <2>2. Sol(it, 1 .. 0)
    BY <2>1, Zenon
  <2> QED BY <2>2, Zenon
<1>2. ASSUME NEW j \in P PROVE j + 1 \in P
  <2>1. j \in Nat
    OBVIOUS
  <2>2. PICK it : Sol(it, 1 .. j)
    OBVIOUS
  <2> DEFINE jt == [s \in SUBSET (1 .. j + 1) |-> IF j + 1 \in s THEN InBlock(it[s \ {j + 1}], f.order[j + 1], RewriteCode(G, n, it[s \ {j + 1}], f.order[j + 1], fetch, put)) ELSE it[s]]
  <2>3. ASSUME NEW s \in SUBSET (1 .. j + 1)
        PROVE jt[s] = IF s = {} THEN f ELSE InBlock(jt[s \ {Max(s)}], f.order[Max(s)], RewriteCode(G, n, jt[s \ {Max(s)}], f.order[Max(s)], fetch, put))
    <3>1. /\ s \ {Max(s)} \in SUBSET (1 .. j + 1)
          /\ s = {} => s \in SUBSET (1 .. j) /\ j + 1 \notin s
          /\ s # {} => j + 1 \notin s \ {Max(s)}
          /\ j + 1 \in s => Max(s) = j + 1
          /\ j + 1 \notin s => s \in SUBSET (1 .. j)
      BY <2>1, Top
    <3>2. CASE s = {}
      BY <2>2, <3>1, <3>2
    <3>3. CASE j + 1 \in s
      BY <2>2, <3>1, <3>3
    <3>4. CASE s # {} /\ j + 1 \notin s
      <4>1. s \ {Max(s)} \in SUBSET (1 .. j + 1) /\ j + 1 \notin s \ {Max(s)}
        BY <3>1, <3>4
      <4>2. jt[s \ {Max(s)}] = it[s \ {Max(s)}] /\ jt[s] = it[s]
        BY <3>4, <4>1
      <4> QED BY <2>2, <3>1, <3>4, <4>2
    <3> QED BY <3>2, <3>3, <3>4
  <2>4. Sol(jt, 1 .. j + 1)
    BY <2>3, Zenon
  <2> HIDE DEF jt, Sol
  <2> QED BY <2>1, <2>4
<1>3. PICK it : Sol(it, 1 .. k)
  <2> HIDE DEF P, Sol
  <2>1. P \in SUBSET Nat
    BY DEF P
  <2> QED BY <1>1, <1>2, <2>1, NatSet DEF P
<1> DEFINE iter == CHOOSE ct : Sol(ct, 1 .. k)
<1>4. Sol(iter, 1 .. k)
  BY <1>3, Zenon
<1> DEFINE h == [j \in 0 .. k |-> iter[1 .. j]]
<1>5. h[0] = f
  <2>1. 1 .. 0 = {} /\ {} \in SUBSET (1 .. k) /\ 0 \in 0 .. k
    BY Prefix
  <2> QED BY <1>4, <2>1
<1>6. ASSUME NEW i \in 1 .. k PROVE h[i] = InBlock(h[i - 1], f.order[i], RewriteCode(G, n, h[i - 1], f.order[i], fetch, put))
  <2>1. h[i] = iter[1 .. i] /\ h[i - 1] = iter[1 .. i - 1]
    BY Prefix
  <2>2. /\ 1 .. i \in SUBSET (1 .. k) /\ 1 .. i # {}
        /\ Max(1 .. i) = i /\ (1 .. i) \ {i} = 1 .. i - 1
    BY Prefix
  <2>3. iter[1 .. i] = InBlock(iter[(1 .. i) \ {Max(1 .. i)}], f.order[Max(1 .. i)], RewriteCode(G, n, iter[(1 .. i) \ {Max(1 .. i)}], f.order[Max(1 .. i)], fetch, put))
    BY <1>4, <2>2
  <2> HIDE DEF h, iter
  <2> QED BY <2>1, <2>2, <2>3
<1>7. RewriteAll(G, n, f, fetch, put) = h[k]
  <2>1. RewriteAll(G, n, f, fetch, put) = iter[1 .. k]
    BY DEF RewriteAll, FoldLeft, MapThenFoldSet
  <2>2. h[k] = iter[1 .. k]
    BY Prefix
  <2> QED BY <2>1, <2>2
<1>8. RewriteAllSteps(h, G, n, f, fetch, put, k)
  <2> HIDE DEF h
  <2> QED BY <1>5, <1>6, <1>7 DEF RewriteAllSteps
<1> HIDE DEF h
<1> QED BY <1>8

\* Rewrite, one step after the other.
RewriteSteps(h, G, f, k) ==
  /\ h[0] = f
  /\ \A i \in 1 .. k : h[i] = RewriteNode(G, f, h[i - 1], G.spilled[i])
  /\ rewrite_spilled_program(G, f) = h[k]

\* Such a sequence exists.
LEMMA RewriteUnfolds ==
  ASSUME NEW G, NEW f, NEW k \in Nat, DOMAIN G.spilled = 1 .. k
  PROVE  \E h : RewriteSteps(h, G, f, k)
<1> DEFINE Sol(it, D) == it = [s \in SUBSET D |-> IF s = {} THEN f ELSE RewriteNode(G, f, it[s \ {Max(s)}], G.spilled[Max(s)])]
           P == {j \in Nat : \E it : Sol(it, 1 .. j)}
<1>1. 0 \in P
  <2> DEFINE it == [s \in SUBSET (1 .. 0) |-> f]
  <2>1. \A s \in SUBSET (1 .. 0) : s = {}
    OBVIOUS
  <2>2. Sol(it, 1 .. 0)
    BY <2>1, Zenon
  <2> QED BY <2>2, Zenon
<1>2. ASSUME NEW j \in P PROVE j + 1 \in P
  <2>1. j \in Nat
    OBVIOUS
  <2>2. PICK it : Sol(it, 1 .. j)
    OBVIOUS
  <2> DEFINE jt == [s \in SUBSET (1 .. j + 1) |-> IF j + 1 \in s THEN RewriteNode(G, f, it[s \ {j + 1}], G.spilled[j + 1]) ELSE it[s]]
  <2>3. ASSUME NEW s \in SUBSET (1 .. j + 1)
        PROVE jt[s] = IF s = {} THEN f ELSE RewriteNode(G, f, jt[s \ {Max(s)}], G.spilled[Max(s)])
    <3>1. /\ s \ {Max(s)} \in SUBSET (1 .. j + 1)
          /\ s = {} => s \in SUBSET (1 .. j) /\ j + 1 \notin s
          /\ s # {} => j + 1 \notin s \ {Max(s)}
          /\ j + 1 \in s => Max(s) = j + 1
          /\ j + 1 \notin s => s \in SUBSET (1 .. j)
      BY <2>1, Top
    <3>2. CASE s = {}
      BY <2>2, <3>1, <3>2
    <3>3. CASE j + 1 \in s
      BY <2>2, <3>1, <3>3
    <3>4. CASE s # {} /\ j + 1 \notin s
      <4>1. s \ {Max(s)} \in SUBSET (1 .. j + 1) /\ j + 1 \notin s \ {Max(s)}
        BY <3>1, <3>4
      <4>2. jt[s \ {Max(s)}] = it[s \ {Max(s)}] /\ jt[s] = it[s]
        BY <3>4, <4>1
      <4> QED BY <2>2, <3>1, <3>4, <4>2
    <3> QED BY <3>2, <3>3, <3>4
  <2>4. Sol(jt, 1 .. j + 1)
    BY <2>3, Zenon
  <2> HIDE DEF jt, Sol
  <2> QED BY <2>1, <2>4
<1>3. PICK it : Sol(it, 1 .. k)
  <2> HIDE DEF P, Sol
  <2>1. P \in SUBSET Nat
    BY DEF P
  <2> QED BY <1>1, <1>2, <2>1, NatSet DEF P
<1> DEFINE iter == CHOOSE ct : Sol(ct, 1 .. k)
<1>4. Sol(iter, 1 .. k)
  BY <1>3, Zenon
<1> DEFINE h == [j \in 0 .. k |-> iter[1 .. j]]
<1>5. h[0] = f
  <2>1. 1 .. 0 = {} /\ {} \in SUBSET (1 .. k) /\ 0 \in 0 .. k
    BY Prefix
  <2> QED BY <1>4, <2>1
<1>6. ASSUME NEW i \in 1 .. k PROVE h[i] = RewriteNode(G, f, h[i - 1], G.spilled[i])
  <2>1. h[i] = iter[1 .. i] /\ h[i - 1] = iter[1 .. i - 1]
    BY Prefix
  <2>2. /\ 1 .. i \in SUBSET (1 .. k) /\ 1 .. i # {}
        /\ Max(1 .. i) = i /\ (1 .. i) \ {i} = 1 .. i - 1
    BY Prefix
  <2>3. iter[1 .. i] = RewriteNode(G, f, iter[(1 .. i) \ {Max(1 .. i)}], G.spilled[Max(1 .. i)])
    BY <1>4, <2>2
  <2> HIDE DEF h, iter
  <2> QED BY <2>1, <2>2, <2>3
<1>7. rewrite_spilled_program(G, f) = h[k]
  <2>1. rewrite_spilled_program(G, f) = iter[1 .. k]
    BY DEF rewrite_spilled_program, FoldLeft, MapThenFoldSet
  <2>2. h[k] = iter[1 .. k]
    BY Prefix
  <2> QED BY <2>1, <2>2
<1>8. RewriteSteps(h, G, f, k)
  <2> HIDE DEF h
  <2> QED BY <1>5, <1>6, <1>7 DEF RewriteSteps
<1> HIDE DEF h
<1> QED BY <1>8

\* Live, one step after the other.
LiveSteps(h, live, code, k) ==
  /\ h[k] = live
  /\ \A i \in 1 .. k : h[i - 1] = LiveBefore(code[i], h[i])
  /\ LiveAtStart(code, live) = h[0]

\* Such a sequence exists.
LEMMA LiveUnfolds ==
  ASSUME NEW live, NEW code, NEW k \in Nat, DOMAIN code = 1 .. k
  PROVE  \E h : LiveSteps(h, live, code, k)
<1> DEFINE Sol(it, D) == it = [s \in SUBSET D |-> IF s = {} THEN live ELSE LiveBefore(code[Min(s)], it[s \ {Min(s)}])]
           P == {j \in Nat : j =< k => \E it : Sol(it, k - j + 1 .. k)}
<1>1. 0 \in P
  <2> DEFINE it == [s \in SUBSET (k - 0 + 1 .. k) |-> live]
  <2>1. \A s \in SUBSET (k - 0 + 1 .. k) : s = {}
    OBVIOUS
  <2>2. Sol(it, k - 0 + 1 .. k)
    BY <2>1, Zenon
  <2>3. \E ct : Sol(ct, k - 0 + 1 .. k)
    BY <2>2, Zenon
  <2> HIDE DEF Sol
  <2> QED BY <2>3
<1>2. ASSUME NEW j \in P, j + 1 =< k PROVE j + 1 \in P
  <2>1. j \in Nat /\ j =< k
    BY <1>2
  <2> DEFINE m == k - j
  <2>2. m \in Nat /\ m + 1 = k - j + 1 /\ m = k - (j + 1) + 1
    BY <1>2, <2>1
  <2> HIDE DEF m
  <2>3. PICK it : Sol(it, m + 1 .. k)
    BY <2>1, <2>2
  <2> DEFINE jt == [s \in SUBSET (m .. k) |-> IF m \in s THEN LiveBefore(code[m], it[s \ {m}]) ELSE it[s]]
  <2>4. ASSUME NEW s \in SUBSET (m .. k)
        PROVE jt[s] = IF s = {} THEN live ELSE LiveBefore(code[Min(s)], jt[s \ {Min(s)}])
    BY <2>2, <2>3, Bottom
  <2>5. Sol(jt, m .. k)
    BY <2>4, Zenon
  <2> HIDE DEF jt, Sol
  <2> QED BY <2>1, <2>2, <2>5
<1>3. \E it : Sol(it, 1 .. k)
  <2> HIDE DEF Sol
  <2>1. P \in SUBSET Nat /\ \A j \in P : j + 1 \in P
    BY <1>2
  <2> HIDE DEF P
  <2>2. k \in P
    BY <1>1, <2>1, NatSet
  <2>3. k =< k /\ k - k + 1 .. k = 1 .. k
    OBVIOUS
  <2> QED BY <2>2, <2>3 DEF P
<1> DEFINE iter == CHOOSE ct : Sol(ct, 1 .. k)
<1>4. Sol(iter, 1 .. k)
  BY <1>3, Zenon
<1> DEFINE h == [j \in 0 .. k |-> iter[j + 1 .. k]]
<1>5. h[k] = live
  <2>1. k + 1 .. k = {} /\ {} \in SUBSET (1 .. k) /\ k \in 0 .. k
    BY Suffix
  <2> QED BY <1>4, <2>1
<1>6. ASSUME NEW i \in 1 .. k PROVE h[i - 1] = LiveBefore(code[i], h[i])
  <2>1. h[i] = iter[i + 1 .. k] /\ h[i - 1] = iter[i .. k]
    BY Suffix
  <2>2. i .. k \in SUBSET (1 .. k) /\ i .. k # {} /\ Min(i .. k) = i /\ (i .. k) \ {i} = i + 1 .. k
    BY Suffix
  <2>3. iter[i .. k] = LiveBefore(code[Min(i .. k)], iter[(i .. k) \ {Min(i .. k)}])
    BY <1>4, <2>2
  <2> HIDE DEF h, iter
  <2> QED BY <2>1, <2>2, <2>3
<1>7. LiveAtStart(code, live) = h[0]
  <2>1. LiveAtStart(code, live) = iter[1 .. k]
    BY DEF LiveAtStart, FoldRight, MapThenFoldSet
  <2>2. h[0] = iter[1 .. k]
    BY Suffix
  <2> QED BY <2>1, <2>2
<1>8. LiveSteps(h, live, code, k)
  <2> HIDE DEF h
  <2> QED BY <1>5, <1>6, <1>7 DEF LiveSteps
<1> HIDE DEF h
<1> QED BY <1>8

\* BuildFrom, one step after the other.
BuildFromSteps(h, a, code, weight, k) ==
  /\ h[k] = a
  /\ \A i \in 1 .. k : h[i - 1] = Interfering(h[i], code[i], weight)
  /\ BuildFrom(a, code, weight) = h[0]

\* Such a sequence exists.
LEMMA BuildFromUnfolds ==
  ASSUME NEW a, NEW code, NEW weight, NEW k \in Nat, DOMAIN code = 1 .. k
  PROVE  \E h : BuildFromSteps(h, a, code, weight, k)
<1> DEFINE Sol(it, D) == it = [s \in SUBSET D |-> IF s = {} THEN a ELSE Interfering(it[s \ {Min(s)}], code[Min(s)], weight)]
           P == {j \in Nat : j =< k => \E it : Sol(it, k - j + 1 .. k)}
<1>1. 0 \in P
  <2> DEFINE it == [s \in SUBSET (k - 0 + 1 .. k) |-> a]
  <2>1. \A s \in SUBSET (k - 0 + 1 .. k) : s = {}
    OBVIOUS
  <2>2. Sol(it, k - 0 + 1 .. k)
    BY <2>1, Zenon
  <2>3. \E ct : Sol(ct, k - 0 + 1 .. k)
    BY <2>2, Zenon
  <2> HIDE DEF Sol
  <2> QED BY <2>3
<1>2. ASSUME NEW j \in P, j + 1 =< k PROVE j + 1 \in P
  <2>1. j \in Nat /\ j =< k
    BY <1>2
  <2> DEFINE m == k - j
  <2>2. m \in Nat /\ m + 1 = k - j + 1 /\ m = k - (j + 1) + 1
    BY <1>2, <2>1
  <2> HIDE DEF m
  <2>3. PICK it : Sol(it, m + 1 .. k)
    BY <2>1, <2>2
  <2> DEFINE jt == [s \in SUBSET (m .. k) |-> IF m \in s THEN Interfering(it[s \ {m}], code[m], weight) ELSE it[s]]
  <2>4. ASSUME NEW s \in SUBSET (m .. k)
        PROVE jt[s] = IF s = {} THEN a ELSE Interfering(jt[s \ {Min(s)}], code[Min(s)], weight)
    BY <2>2, <2>3, Bottom
  <2>5. Sol(jt, m .. k)
    BY <2>4, Zenon
  <2> HIDE DEF jt, Sol
  <2> QED BY <2>1, <2>2, <2>5
<1>3. \E it : Sol(it, 1 .. k)
  <2> HIDE DEF Sol
  <2>1. P \in SUBSET Nat /\ \A j \in P : j + 1 \in P
    BY <1>2
  <2> HIDE DEF P
  <2>2. k \in P
    BY <1>1, <2>1, NatSet
  <2>3. k =< k /\ k - k + 1 .. k = 1 .. k
    OBVIOUS
  <2> QED BY <2>2, <2>3 DEF P
<1> DEFINE iter == CHOOSE ct : Sol(ct, 1 .. k)
<1>4. Sol(iter, 1 .. k)
  BY <1>3, Zenon
<1> DEFINE h == [j \in 0 .. k |-> iter[j + 1 .. k]]
<1>5. h[k] = a
  <2>1. k + 1 .. k = {} /\ {} \in SUBSET (1 .. k) /\ k \in 0 .. k
    BY Suffix
  <2> QED BY <1>4, <2>1
<1>6. ASSUME NEW i \in 1 .. k PROVE h[i - 1] = Interfering(h[i], code[i], weight)
  <2>1. h[i] = iter[i + 1 .. k] /\ h[i - 1] = iter[i .. k]
    BY Suffix
  <2>2. i .. k \in SUBSET (1 .. k) /\ i .. k # {} /\ Min(i .. k) = i /\ (i .. k) \ {i} = i + 1 .. k
    BY Suffix
  <2>3. iter[i .. k] = Interfering(iter[(i .. k) \ {Min(i .. k)}], code[Min(i .. k)], weight)
    BY <1>4, <2>2
  <2> HIDE DEF h, iter
  <2> QED BY <2>1, <2>2, <2>3
<1>7. BuildFrom(a, code, weight) = h[0]
  <2>1. BuildFrom(a, code, weight) = iter[1 .. k]
    BY DEF BuildFrom, FoldRight, MapThenFoldSet
  <2>2. h[0] = iter[1 .. k]
    BY Suffix
  <2> QED BY <2>1, <2>2
<1>8. BuildFromSteps(h, a, code, weight, k)
  <2> HIDE DEF h
  <2> QED BY <1>5, <1>6, <1>7 DEF BuildFromSteps
<1> HIDE DEF h
<1> QED BY <1>8

\* Assign, one step after the other.
AssignSteps(h, G, k) ==
  /\ h[k] = [G EXCEPT !.stack = <<>>]
  /\ \A i \in 1 .. k : h[i - 1] = AssignColor(G.stack[i], h[i])
  /\ irc_assign_colors(G) = h[0]

\* Such a sequence exists.
LEMMA AssignUnfolds ==
  ASSUME NEW G, NEW k \in Nat, DOMAIN G.stack = 1 .. k
  PROVE  \E h : AssignSteps(h, G, k)
<1> DEFINE Sol(it, D) == it = [s \in SUBSET D |-> IF s = {} THEN [G EXCEPT !.stack = <<>>] ELSE AssignColor(G.stack[Min(s)], it[s \ {Min(s)}])]
           P == {j \in Nat : j =< k => \E it : Sol(it, k - j + 1 .. k)}
<1>1. 0 \in P
  <2> DEFINE it == [s \in SUBSET (k - 0 + 1 .. k) |-> [G EXCEPT !.stack = <<>>]]
  <2>1. \A s \in SUBSET (k - 0 + 1 .. k) : s = {}
    OBVIOUS
  <2>2. Sol(it, k - 0 + 1 .. k)
    BY <2>1, Zenon
  <2>3. \E ct : Sol(ct, k - 0 + 1 .. k)
    BY <2>2, Zenon
  <2> HIDE DEF Sol
  <2> QED BY <2>3
<1>2. ASSUME NEW j \in P, j + 1 =< k PROVE j + 1 \in P
  <2>1. j \in Nat /\ j =< k
    BY <1>2
  <2> DEFINE m == k - j
  <2>2. m \in Nat /\ m + 1 = k - j + 1 /\ m = k - (j + 1) + 1
    BY <1>2, <2>1
  <2> HIDE DEF m
  <2>3. PICK it : Sol(it, m + 1 .. k)
    BY <2>1, <2>2
  <2> DEFINE jt == [s \in SUBSET (m .. k) |-> IF m \in s THEN AssignColor(G.stack[m], it[s \ {m}]) ELSE it[s]]
  <2>4. ASSUME NEW s \in SUBSET (m .. k)
        PROVE jt[s] = IF s = {} THEN [G EXCEPT !.stack = <<>>] ELSE AssignColor(G.stack[Min(s)], jt[s \ {Min(s)}])
    BY <2>2, <2>3, Bottom
  <2>5. Sol(jt, m .. k)
    BY <2>4, Zenon
  <2> HIDE DEF jt, Sol
  <2> QED BY <2>1, <2>2, <2>5
<1>3. \E it : Sol(it, 1 .. k)
  <2> HIDE DEF Sol
  <2>1. P \in SUBSET Nat /\ \A j \in P : j + 1 \in P
    BY <1>2
  <2> HIDE DEF P
  <2>2. k \in P
    BY <1>1, <2>1, NatSet
  <2>3. k =< k /\ k - k + 1 .. k = 1 .. k
    OBVIOUS
  <2> QED BY <2>2, <2>3 DEF P
<1> DEFINE iter == CHOOSE ct : Sol(ct, 1 .. k)
<1>4. Sol(iter, 1 .. k)
  BY <1>3, Zenon
<1> DEFINE h == [j \in 0 .. k |-> iter[j + 1 .. k]]
<1>5. h[k] = [G EXCEPT !.stack = <<>>]
  <2>1. k + 1 .. k = {} /\ {} \in SUBSET (1 .. k) /\ k \in 0 .. k
    BY Suffix
  <2> QED BY <1>4, <2>1
<1>6. ASSUME NEW i \in 1 .. k PROVE h[i - 1] = AssignColor(G.stack[i], h[i])
  <2>1. h[i] = iter[i + 1 .. k] /\ h[i - 1] = iter[i .. k]
    BY Suffix
  <2>2. i .. k \in SUBSET (1 .. k) /\ i .. k # {} /\ Min(i .. k) = i /\ (i .. k) \ {i} = i + 1 .. k
    BY Suffix
  <2>3. iter[i .. k] = AssignColor(G.stack[Min(i .. k)], iter[(i .. k) \ {Min(i .. k)}])
    BY <1>4, <2>2
  <2> HIDE DEF h, iter
  <2> QED BY <2>1, <2>2, <2>3
<1>7. irc_assign_colors(G) = h[0]
  <2>1. irc_assign_colors(G) = iter[1 .. k]
    BY DEF irc_assign_colors, FoldRight, MapThenFoldSet
  <2>2. h[0] = iter[1 .. k]
    BY Suffix
  <2> QED BY <2>1, <2>2
<1>8. AssignSteps(h, G, k)
  <2> HIDE DEF h
  <2> QED BY <1>5, <1>6, <1>7 DEF AssignSteps
<1> HIDE DEF h
<1> QED BY <1>8

\* Cheapest, one step after the other.
CheapestSteps(h, G, k, S) ==
  /\ h[0] = 0
  /\ \A i \in 1 .. k : h[i] = IF i \in S THEN (IF Better(G, i, h[i - 1]) THEN i ELSE h[i - 1]) ELSE h[i - 1]
  /\ Cheapest(G) = h[k]

\* Such a sequence exists.
LEMMA CheapestUnfolds ==
  ASSUME NEW G, NEW k \in Nat, NEW S \in SUBSET (1 .. k), Candidates(G) = S
  PROVE  \E h : CheapestSteps(h, G, k, S)
<1> DEFINE Sol(it, D) == it = [s \in SUBSET D |-> IF s = {} THEN 0 ELSE (IF Better(G, Max(s), it[s \ {Max(s)}]) THEN Max(s) ELSE it[s \ {Max(s)}])]
           P == {j \in Nat : \E it : Sol(it, 1 .. j)}
<1>1. 0 \in P
  <2> DEFINE it == [s \in SUBSET (1 .. 0) |-> 0]
  <2>1. \A s \in SUBSET (1 .. 0) : s = {}
    OBVIOUS
  <2>2. Sol(it, 1 .. 0)
    BY <2>1, Zenon
  <2> QED BY <2>2, Zenon
<1>2. ASSUME NEW j \in P PROVE j + 1 \in P
  <2>1. j \in Nat
    OBVIOUS
  <2>2. PICK it : Sol(it, 1 .. j)
    OBVIOUS
  <2> DEFINE jt == [s \in SUBSET (1 .. j + 1) |-> IF j + 1 \in s THEN (IF Better(G, j + 1, it[s \ {j + 1}]) THEN j + 1 ELSE it[s \ {j + 1}]) ELSE it[s]]
  <2>3. ASSUME NEW s \in SUBSET (1 .. j + 1)
        PROVE jt[s] = IF s = {} THEN 0 ELSE (IF Better(G, Max(s), jt[s \ {Max(s)}]) THEN Max(s) ELSE jt[s \ {Max(s)}])
    <3>1. /\ s \ {Max(s)} \in SUBSET (1 .. j + 1)
          /\ s = {} => s \in SUBSET (1 .. j) /\ j + 1 \notin s
          /\ s # {} => j + 1 \notin s \ {Max(s)}
          /\ j + 1 \in s => Max(s) = j + 1
          /\ j + 1 \notin s => s \in SUBSET (1 .. j)
      BY <2>1, Top
    <3>2. CASE s = {}
      BY <2>2, <3>1, <3>2
    <3>3. CASE j + 1 \in s
      BY <2>2, <3>1, <3>3
    <3>4. CASE s # {} /\ j + 1 \notin s
      <4>1. s \ {Max(s)} \in SUBSET (1 .. j + 1) /\ j + 1 \notin s \ {Max(s)}
        BY <3>1, <3>4
      <4>2. jt[s \ {Max(s)}] = it[s \ {Max(s)}] /\ jt[s] = it[s]
        BY <3>4, <4>1
      <4> QED BY <2>2, <3>1, <3>4, <4>2
    <3> QED BY <3>2, <3>3, <3>4
  <2>4. Sol(jt, 1 .. j + 1)
    BY <2>3, Zenon
  <2> HIDE DEF jt, Sol
  <2> QED BY <2>1, <2>4
<1>3. PICK it : Sol(it, 1 .. k)
  <2> HIDE DEF P, Sol
  <2>1. P \in SUBSET Nat
    BY DEF P
  <2> QED BY <1>1, <1>2, <2>1, NatSet DEF P
<1>4. \E ct : Sol(ct, S)
  <2> DEFINE ct == [s \in SUBSET S |-> it[s]]
  <2>1. ASSUME NEW s \in SUBSET S
        PROVE ct[s] = IF s = {} THEN 0 ELSE (IF Better(G, Max(s), ct[s \ {Max(s)}]) THEN Max(s) ELSE ct[s \ {Max(s)}])
    <3>1. s \in SUBSET (1 .. k) /\ s \ {Max(s)} \in SUBSET S
      OBVIOUS
    <3> QED BY <1>3, <3>1
  <2>2. Sol(ct, S)
    BY <2>1, Zenon
  <2> QED BY <2>2, Zenon
<1> DEFINE iter == CHOOSE ct : Sol(ct, S)
<1>5. Sol(iter, S)
  BY <1>4, Zenon
<1> DEFINE h == [j \in 0 .. k |-> iter[S \cap 1 .. j]]
<1>6. h[0] = 0
  <2>1. S \cap 1 .. 0 = {} /\ {} \in SUBSET S /\ 0 \in 0 .. k
    BY Ends
  <2> QED BY <1>5, <2>1
<1>7. ASSUME NEW i \in 1 .. k PROVE h[i] = IF i \in S THEN (IF Better(G, i, h[i - 1]) THEN i ELSE h[i - 1]) ELSE h[i - 1]
  <2>1. h[i] = iter[S \cap 1 .. i] /\ h[i - 1] = iter[S \cap 1 .. i - 1]
    BY Ahead
  <2>2. /\ S \cap 1 .. i \in SUBSET S /\ S \cap 1 .. i - 1 \in SUBSET S
        /\ i \notin S => S \cap 1 .. i = S \cap 1 .. i - 1
        /\ i \in S => /\ S \cap 1 .. i # {} /\ Max(S \cap 1 .. i) = i
                      /\ (S \cap 1 .. i) \ {i} = S \cap 1 .. i - 1
    BY Ahead
  <2>3. i \in S => iter[S \cap 1 .. i] = (IF Better(G, Max(S \cap 1 .. i), iter[(S \cap 1 .. i) \ {Max(S \cap 1 .. i)}]) THEN Max(S \cap 1 .. i) ELSE iter[(S \cap 1 .. i) \ {Max(S \cap 1 .. i)}])
    BY <1>5, <2>2
  <2> HIDE DEF h, iter
  <2> QED BY <2>1, <2>2, <2>3
<1>8. Cheapest(G) = h[k]
  <2>1. Cheapest(G) = iter[S]
    BY DEF Cheapest, Ascending, MapThenFoldSet
  <2>2. h[k] = iter[S]
    BY Ends
  <2> QED BY <2>1, <2>2
<1>9. CheapestSteps(h, G, k, S)
  <2> HIDE DEF h
  <2> QED BY <1>6, <1>7, <1>8 DEF CheapestSteps
<1> HIDE DEF h
<1> QED BY <1>9

-----------------------------------------------------------------------------
(* Graphs, and what becomes of them while nothing is coalesced. *)

\* The fields of a graph and what some of them hold; VNodes are the nodes of virtual
\* registers.
Fields == {"adj", "list", "alias", "color", "hint", "cost", "degree", "state", "of", "length", "crosses",
           "moves", "queue", "lists", "stack", "coalesced", "spilled", "temps"}
States == {"initial", "simplify", "freeze", "spill", "stack", "coalesced", "colored", "spilled"}
MoveStates == {"worklist", "active", "frozen", "coalesced", "constrained"}
Worklists == {"simplify", "freeze", "spill"}
\* The states that only coalescing, the stack and building change.
Kept == {"initial", "stack", "coalesced"}
VNodes(N) == {n \in N : n >= FirstVReg}
Move(N) == [dst : N, src : N, state : MoveStates]

\* A graph with the nodes N: an alias stands for itself, the registers of the
\* machine too, and the lists are of nodes.
Shape(G, N) ==
  /\ N \subseteq Nat /\ Registers \subseteq N
  /\ DOMAIN G = Fields
  /\ G.alias \in [N -> N]
  /\ \A n \in N : G.alias[G.alias[n]] = G.alias[n] /\ (n < FirstVReg => G.alias[n] = n)
  /\ G.list \in [N -> Seq(N)]
  /\ G.moves \in Seq(Move(N)) /\ G.queue \in Seq(DOMAIN G.moves) /\ G.of \in [N -> Seq(DOMAIN G.moves)]
  /\ G.state \in [N -> States] /\ G.lists \in [Worklists -> Seq(VNodes(N))] /\ G.stack \in Seq(VNodes(N))

\* The node is on the stack or on the worklist of its state.
On(G, n) == n \in ToSet(G.stack) \/ (G.state[n] \in Worklists /\ n \in ToSet(G.lists[G.state[n]]))

\* Nodes that stand for themselves list each other, unless they are precolored.
Linked(G, x, y) == x # y /\ (x >= FirstVReg => Listed(G, x, y)) /\ (y >= FirstVReg => Listed(G, y, x))
\* The nodes that stand for n and m are kept apart.
Held(G, n, m) == Linked(G, G.alias[n], G.alias[m])

\* H comes from G without coalescing: edges, nodes on worklists and moves are only
\* added, a node that crosses a call now has the edges for it, and no node leaves the
\* stack, no copy is opened again and, once all nodes are on lists, none is new.
Later(G, H, N) ==
  /\ Shape(H, N)
  /\ H.alias = G.alias /\ H.stack = G.stack /\ H.color = G.color /\ H.spilled = G.spilled
  /\ DOMAIN G.moves \subseteq DOMAIN H.moves
  /\ \A n \in N : ToSet(G.list[n]) \subseteq ToSet(H.list[n])
  /\ \A n \in VNodes(N) : On(G, n) => On(H, n)
  /\ \A n \in VNodes(N), w \in Kept : H.state[n] = w <=> G.state[n] = w
  /\ \A i \in DOMAIN G.moves : Open(H.moves[i]) => Open(G.moves[i])
  /\ DOMAIN H.moves = DOMAIN G.moves \/ \E n \in VNodes(N) : G.state[n] = "initial"
  /\ \A n \in H.crosses : n \in G.crosses \/ (n \in N /\ \A r \in ToSet(CallerSaved) : Held(H, n, r))

\* The registers a call may change are registers.
LEMMA CallerRegisters == ToSet(CallerSaved) \subseteq Registers
BY DEF ToSet, CallerSaved, Registers

\* What else a later graph has in common with the graph.
LEMMA LaterShape ==
  ASSUME NEW G, NEW H, NEW N, Later(G, H, N)
  PROVE  Shape(H, N) /\ H.alias = G.alias
BY DEF Later

\* A graph is later than itself.
LEMMA LaterItself == ASSUME NEW G, NEW N, Shape(G, N) PROVE Later(G, G, N)
BY DEF Later

\* A neighbour that is listed stays listed.
LEMMA ListedLater ==
  ASSUME NEW G, NEW H, NEW N, Shape(G, N), Later(G, H, N), NEW x \in N, NEW y, Listed(G, x, y)
  PROVE  Listed(H, x, y)
<1>1. PICK i \in DOMAIN G.list[x] : G.alias[G.list[x][i]] = y
  BY DEF Listed
<1>2. G.list[x][i] \in ToSet(H.list[x]) /\ H.alias = G.alias
  BY <1>1 DEF Later, ToSet
<1>3. PICK j \in DOMAIN H.list[x] : H.list[x][j] = G.list[x][i]
  BY <1>2 DEF ToSet
<1> QED BY <1>1, <1>2, <1>3 DEF Listed

\* Nodes that are kept apart stay apart.
LEMMA HeldLater ==
  ASSUME NEW G, NEW H, NEW N, Shape(G, N), Later(G, H, N), NEW n \in N, NEW m \in N, Held(G, n, m)
  PROVE  Held(H, n, m)
<1>1. G.alias[n] \in N /\ G.alias[m] \in N /\ H.alias = G.alias
  BY DEF Shape, Later
<1> QED BY <1>1, ListedLater DEF Held, Linked

\* What is later than a later graph is later.
LEMMA LaterStill ==
  ASSUME NEW G, NEW H, NEW J, NEW N, Shape(G, N), Later(G, H, N), Later(H, J, N)
  PROVE  Later(G, J, N)
<1>1. Shape(H, N) /\ Shape(J, N)
  BY DEF Later
<1>2. J.alias = G.alias /\ J.stack = G.stack /\ J.color = G.color /\ J.spilled = G.spilled
  BY DEF Later
<1>3. DOMAIN G.moves \subseteq DOMAIN J.moves
  BY DEF Later
<1>4. \A n \in N : ToSet(G.list[n]) \subseteq ToSet(J.list[n])
  BY DEF Later
<1>5. \A n \in VNodes(N) : On(G, n) => On(J, n)
  BY DEF Later
<1>7. \A n \in VNodes(N), w \in Kept : J.state[n] = w <=> G.state[n] = w
  BY DEF Later
<1>8. \A i \in DOMAIN G.moves : Open(J.moves[i]) => Open(G.moves[i])
  BY <1>3 DEF Later
<1>6. ASSUME NEW n \in J.crosses, n \notin G.crosses
      PROVE n \in N /\ \A r \in ToSet(CallerSaved) : Held(J, n, r)
  <2>1. CASE n \notin H.crosses
    BY <2>1 DEF Later
  <2>2. CASE n \in H.crosses
    <3>1. n \in N /\ \A r \in ToSet(CallerSaved) : Held(H, n, r)
      BY <1>6, <2>2 DEF Later
    <3>2. ToSet(CallerSaved) \subseteq N
      BY CallerRegisters DEF Shape
    <3>3. ASSUME NEW r \in ToSet(CallerSaved) PROVE Held(J, n, r)
      BY <1>1, <3>1, <3>2, HeldLater
    <3> QED BY <3>1, <3>3
  <2> QED BY <2>1, <2>2
<1>9. DOMAIN J.moves = DOMAIN G.moves \/ \E n \in VNodes(N) : G.state[n] = "initial"
  BY DEF Later, Kept
<1> QED BY <1>1, <1>2, <1>3, <1>4, <1>5, <1>6, <1>7, <1>8, <1>9 DEF Later

\* A chain of graphs, each later than the one before.
LEMMA Chain ==
  ASSUME NEW k \in Nat, NEW h, NEW N, Shape(h[0], N),
         \A i \in 1 .. k : Later(h[0], h[i - 1], N) => Later(h[i - 1], h[i], N)
  PROVE  \A i \in 0 .. k : Later(h[0], h[i], N) /\ Later(h[i], h[k], N)
<1> DEFINE P == {i \in Nat : i =< k => Later(h[0], h[i], N)}
           Q == {i \in Nat : i =< k => Later(h[k - i], h[k], N)}
<1>1. 0 \in P
  BY LaterItself
<1>2. ASSUME NEW i \in P PROVE i + 1 \in P
  <2> SUFFICES ASSUME i + 1 =< k PROVE Later(h[0], h[i + 1], N)
    OBVIOUS
  <2>1. Later(h[0], h[i], N)
    OBVIOUS
  <2>3. i + 1 \in 1 .. k /\ i + 1 - 1 = i
    OBVIOUS
  <2>4. Later(h[i], h[i + 1], N)
    BY <2>1, <2>3
  <2> QED BY <2>1, <2>4, LaterStill
<1>3. \A i \in Nat : i \in P
  <2>1. P \in SUBSET Nat
    OBVIOUS
  <2> HIDE DEF P
  <2> QED BY <1>1, <1>2, <2>1, NatSet
<1>4. \A i \in 0 .. k : Later(h[0], h[i], N) /\ Shape(h[i], N)
  <2>1. \A i \in 0 .. k : i \in Nat /\ i =< k
    OBVIOUS
  <2>2. \A i \in 0 .. k : Later(h[0], h[i], N)
    BY <1>3, <2>1
  <2> QED BY <2>2 DEF Later
<1>5. 0 \in Q
  <2>1. k \in 0 .. k /\ k - 0 = k
    OBVIOUS
  <2>2. Shape(h[k], N)
    BY <1>4, <2>1
  <2>3. Later(h[k - 0], h[k], N)
    BY <2>1, <2>2, LaterItself
  <2> QED BY <2>3
<1>6. ASSUME NEW i \in Q PROVE i + 1 \in Q
  <2> SUFFICES ASSUME i + 1 =< k PROVE Later(h[k - (i + 1)], h[k], N)
    OBVIOUS
  <2>1. Later(h[k - i], h[k], N)
    OBVIOUS
  <2>2. k - i \in 1 .. k /\ k - i - 1 = k - (i + 1) /\ k - (i + 1) \in 0 .. k
    OBVIOUS
  <2>3. Later(h[0], h[k - (i + 1)], N) /\ Shape(h[k - (i + 1)], N)
    BY <1>4, <2>2
  <2>4. Later(h[k - (i + 1)], h[k - i], N)
    BY <2>2, <2>3
  <2> QED BY <2>1, <2>3, <2>4, LaterStill
<1>7. \A i \in Nat : i \in Q
  <2>1. Q \in SUBSET Nat
    OBVIOUS
  <2> HIDE DEF Q
  <2> QED BY <1>5, <1>6, <2>1, NatSet
<1>8. ASSUME NEW i \in 0 .. k PROVE Later(h[i], h[k], N)
  <2>1. k - i \in Nat /\ k - i =< k /\ k - (k - i) = i
    OBVIOUS
  <2> QED BY <1>7, <2>1
<1> QED BY <1>4, <1>8

\* A step that moves nodes between worklists and states between moves makes a
\* later graph.
LEMMA Tuning ==
  ASSUME NEW G, NEW H, NEW N, Shape(G, N), DOMAIN H = Fields,
         H.alias = G.alias, H.list = G.list, H.stack = G.stack, H.color = G.color, H.spilled = G.spilled,
         H.crosses = G.crosses, H.of = G.of, DOMAIN H.moves = DOMAIN G.moves,
         H.moves \in Seq(Move(N)), H.queue \in Seq(DOMAIN H.moves),
         H.state \in [N -> States], H.lists \in [Worklists -> Seq(VNodes(N))],
         \A n \in VNodes(N) : On(G, n) => On(H, n),
         \A n \in VNodes(N), w \in Kept : H.state[n] = w <=> G.state[n] = w,
         \A i \in DOMAIN G.moves : Open(H.moves[i]) => Open(G.moves[i])
  PROVE  Later(G, H, N)
<1>1. Shape(H, N)
  BY DEF Shape
<1> QED BY <1>1 DEF Later

\* Nothing but fields that Shape does not name is changed.
LEMMA Noting ==
  ASSUME NEW G, NEW H, NEW N, Shape(G, N), DOMAIN H = Fields,
         H.alias = G.alias, H.list = G.list, H.stack = G.stack, H.color = G.color, H.spilled = G.spilled,
         H.crosses = G.crosses, H.of = G.of, H.moves = G.moves, H.queue = G.queue, H.state = G.state, H.lists = G.lists
  PROVE  Later(G, H, N)
<1>1. \A n : On(G, n) => On(H, n)
  BY DEF On
<1> QED BY <1>1, Tuning DEF Shape

\* A node is put on a worklist.
LEMMA ListingOn ==
  ASSUME NEW G, NEW N, Shape(G, N), NEW n \in VNodes(N), NEW w \in Worklists
  PROVE  LET H == Listing(G, n, w)
         IN /\ Shape(H, N) /\ On(H, n) /\ \A m \in VNodes(N) : On(G, m) => On(H, m)
            /\ H.alias = G.alias /\ H.list = G.list /\ H.stack = G.stack /\ H.color = G.color /\ H.spilled = G.spilled
            /\ H.crosses = G.crosses /\ H.of = G.of /\ H.moves = G.moves /\ H.queue = G.queue
            /\ H.state = [G.state EXCEPT ![n] = w]
<1> DEFINE H == Listing(G, n, w)
<1>1. /\ DOMAIN H = Fields
      /\ H.alias = G.alias /\ H.list = G.list /\ H.stack = G.stack /\ H.color = G.color /\ H.spilled = G.spilled
      /\ H.crosses = G.crosses /\ H.of = G.of /\ H.moves = G.moves /\ H.queue = G.queue
      /\ H.state = [G.state EXCEPT ![n] = w] /\ H.lists = [G.lists EXCEPT ![w] = Append(@, n)]
  BY DEF Listing, Shape, Fields
<1> HIDE DEF H
<1>2. n \in N /\ w \in States
  BY DEF VNodes, Worklists, States
<1>3. H.state \in [N -> States]
  BY <1>1, <1>2 DEF Shape
<1>4. H.lists \in [Worklists -> Seq(VNodes(N))]
  BY <1>1 DEF Shape
<1>5. \A m \in VNodes(N), v \in Worklists : m \in ToSet(G.lists[v]) => m \in ToSet(H.lists[v])
  <2> SUFFICES ASSUME NEW m \in VNodes(N), NEW v \in Worklists, m \in ToSet(G.lists[v])
               PROVE  m \in ToSet(H.lists[v])
    OBVIOUS
  <2>1. PICK i \in DOMAIN G.lists[v] : G.lists[v][i] = m
    BY DEF ToSet
  <2>2. G.lists[v] \in Seq(VNodes(N))
    BY DEF Shape
  <2>3. CASE v = w
    <3>1. H.lists[v] = Append(G.lists[v], n)
      BY <1>1, <2>3 DEF Shape
    <3>2. i \in DOMAIN H.lists[v] /\ H.lists[v][i] = m
      BY <2>1, <2>2, <3>1
    <3> QED BY <3>2 DEF ToSet
  <2>4. CASE v # w
    BY <1>1, <2>4 DEF Shape
  <2> QED BY <2>3, <2>4
<1>6. n \in ToSet(H.lists[w])
  <2>1. H.lists[w] = Append(G.lists[w], n) /\ G.lists[w] \in Seq(VNodes(N))
    BY <1>1 DEF Shape
  <2>2. Len(G.lists[w]) + 1 \in DOMAIN H.lists[w] /\ H.lists[w][Len(G.lists[w]) + 1] = n
    BY <2>1
  <2> QED BY <2>2 DEF ToSet
<1>7. On(H, n)
  BY <1>1, <1>2, <1>6 DEF On, Shape
<1>8. ASSUME NEW m \in VNodes(N), On(G, m) PROVE On(H, m)
  <2>1. CASE m = n
    BY <1>7, <2>1
  <2>2. CASE m # n
    <3>1. H.state[m] = G.state[m]
      BY <1>1, <2>2 DEF Shape, VNodes
    <3> QED BY <1>1, <1>5, <1>8, <3>1 DEF On
  <2> QED BY <2>1, <2>2
<1>9. H.queue \in Seq(DOMAIN H.moves) /\ H.moves \in Seq(Move(N))
  BY <1>1 DEF Shape
<1>10. Shape(H, N)
  BY <1>1, <1>3, <1>4, <1>9 DEF Shape
<1> QED BY <1>1, <1>7, <1>8, <1>10 DEF H

\* Listing a node that is on a worklist makes a later graph.
LEMMA ListingLater ==
  ASSUME NEW G, NEW N, Shape(G, N), NEW n \in VNodes(N), NEW w \in Worklists, G.state[n] \in Worklists
  PROVE  LET H == Listing(G, n, w) IN Later(G, H, N) /\ On(H, n)
<1> DEFINE H == Listing(G, n, w)
<1>1. /\ Shape(H, N) /\ On(H, n) /\ \A m \in VNodes(N) : On(G, m) => On(H, m)
      /\ H.alias = G.alias /\ H.list = G.list /\ H.stack = G.stack /\ H.color = G.color /\ H.spilled = G.spilled
      /\ H.crosses = G.crosses /\ H.of = G.of /\ H.moves = G.moves /\ H.queue = G.queue
      /\ H.state = [G.state EXCEPT ![n] = w]
  BY ListingOn
<1> HIDE DEF H
<1>2. \A m \in VNodes(N), v \in Kept : H.state[m] = v <=> G.state[m] = v
  BY <1>1 DEF Shape, Kept, Worklists, VNodes
<1>3. \A i \in DOMAIN G.moves : Open(H.moves[i]) => Open(G.moves[i])
  BY <1>1
<1> QED BY <1>1, <1>2, <1>3, Tuning DEF H, Shape

\* A move that is enabled again.
LEMMA EnabledLater ==
  ASSUME NEW G, NEW N, Shape(G, N), NEW i \in DOMAIN G.moves
  PROVE  Later(G, Enabled(G, i), N)
<1>1. CASE G.moves[i].state # "active"
  BY <1>1, LaterItself DEF Enabled
<1>2. CASE G.moves[i].state = "active"
  <2> DEFINE H == Enabled(G, i)
  <2>1. H = [G EXCEPT !.moves[i].state = "worklist", !.queue = Append(@, i)]
    BY <1>2 DEF Enabled
  <2>2. /\ DOMAIN H = Fields
        /\ H.alias = G.alias /\ H.list = G.list /\ H.stack = G.stack /\ H.color = G.color /\ H.spilled = G.spilled
        /\ H.crosses = G.crosses /\ H.of = G.of /\ H.state = G.state /\ H.lists = G.lists
        /\ H.moves = [G.moves EXCEPT ![i].state = "worklist"] /\ H.queue = Append(G.queue, i)
    BY <2>1 DEF Shape, Fields
  <2> HIDE DEF H
  <2>3. H.moves \in Seq(Move(N)) /\ DOMAIN H.moves = DOMAIN G.moves
    <3> DEFINE m == [G.moves[i] EXCEPT !.state = "worklist"]
    <3>1. G.moves \in Seq(Move(N)) /\ G.moves[i] \in Move(N)
      BY DEF Shape
    <3>2. m \in Move(N)
      BY <3>1 DEF Move, MoveStates
    <3>3. H.moves = [G.moves EXCEPT ![i] = m]
      BY <2>2
    <3> HIDE DEF m
    <3> QED BY <3>1, <3>2, <3>3
  <2>4. H.queue \in Seq(DOMAIN H.moves)
    BY <2>2, <2>3 DEF Shape
  <2>5. \A n : On(G, n) => On(H, n)
    BY <2>2 DEF On
  <2>6. H.state \in [N -> States] /\ H.lists \in [Worklists -> Seq(VNodes(N))]
    BY <2>2 DEF Shape
  <2>7. \A j \in DOMAIN G.moves : Open(H.moves[j]) => Open(G.moves[j])
    BY <1>2, <2>2 DEF Open
  <2>8. \A n \in VNodes(N), w \in Kept : H.state[n] = w <=> G.state[n] = w
    BY <2>2
  <2> QED BY <2>2, <2>3, <2>4, <2>5, <2>6, <2>7, <2>8, Tuning DEF H
<1> QED BY <1>1, <1>2

\* The places of a sequence.
LEMMA SeqDomain == ASSUME NEW X, NEW s \in Seq(X) PROVE Len(s) \in Nat /\ DOMAIN s = 1 .. Len(s) /\ \A i \in 1 .. Len(s) : s[i] \in X
OBVIOUS

\* irc_enable_moves_for_node makes a later graph.
LEMMA EnableLater ==
  ASSUME NEW G, NEW N, Shape(G, N), NEW n \in N
  PROVE  Later(G, irc_enable_moves_for_node(G, n), N)
<1> DEFINE s == G.of[G.alias[n]]
           k == Len(s)
<1>1. s \in Seq(DOMAIN G.moves)
  BY DEF Shape
<1>2. k \in Nat /\ DOMAIN s = 1 .. k /\ \A i \in 1 .. k : s[i] \in DOMAIN G.moves
  BY <1>1
<1> HIDE DEF k
<1>3. PICK h : EnabledSteps(h, G, n, k)
  BY <1>2, EnabledUnfolds
<1> USE DEF EnabledSteps
<1> HIDE DEF s
<1>4. ASSUME NEW i \in 1 .. k, Later(h[0], h[i - 1], N) PROVE Later(h[i - 1], h[i], N)
  <2>1. Shape(h[i - 1], N) /\ s[i] \in DOMAIN h[i - 1].moves
    BY <1>2, <1>3, <1>4 DEF Later
  <2> QED BY <1>3, <2>1, EnabledLater DEF s
<1>5. \A i \in 0 .. k : Later(h[0], h[i], N)
  BY <1>2, <1>3, <1>4, Chain
<1> QED BY <1>2, <1>3, <1>5

\* Enabling the moves of neighbours makes a later graph.
LEMMA EnableNeighboursLater ==
  ASSUME NEW G, NEW N, Shape(G, N), NEW nodes \in Seq(N)
  PROVE  Later(G, EnableNeighbours(G, nodes), N)
<1> DEFINE k == Len(nodes)
<1>1. k \in Nat /\ DOMAIN nodes = 1 .. k /\ \A i \in 1 .. k : nodes[i] \in N
  OBVIOUS
<1> HIDE DEF k
<1>2. PICK h : EnableNeighboursSteps(h, G, nodes, k)
  BY <1>1, EnableNeighboursUnfolds
<1> USE DEF EnableNeighboursSteps
<1>3. ASSUME NEW i \in 1 .. k, Later(h[0], h[i - 1], N) PROVE Later(h[i - 1], h[i], N)
  <2>1. Shape(h[i - 1], N) /\ nodes[i] \in N
    BY <1>1, <1>3 DEF Later
  <2> QED BY <1>2, <2>1, EnableLater, LaterItself DEF EnableNeighbour
<1>4. \A i \in 0 .. k : Later(h[0], h[i], N)
  BY <1>1, <1>2, <1>3, Chain
<1> QED BY <1>1, <1>2, <1>4

\* irc_update_degree_state makes a later graph.
LEMMA UpdateLater ==
  ASSUME NEW G, NEW N, Shape(G, N), NEW n \in VNodes(N), NEW old, NEW new
  PROVE  Later(G, irc_update_degree_state(G, n, old, new), N)
<1>0. n \in N
  BY DEF VNodes
<1> DEFINE one == irc_enable_moves_for_node(G, n)
           two == EnableNeighbours(one, G.list[n])
<1>1. Later(G, one, N) /\ Shape(one, N)
  BY <1>0, EnableLater, LaterShape
<1>2. G.list[n] \in Seq(N)
  BY <1>0 DEF Shape
<1> HIDE DEF one
<1>3. Later(one, two, N) /\ Shape(two, N)
  BY <1>1, <1>2, EnableNeighboursLater, LaterShape
<1> HIDE DEF two
<1>4. Later(two, Leftover(two, n), N)
  BY <1>3, ListingLater, LaterItself DEF Leftover, Worklists
<1>5. Later(G, Leftover(two, n), N)
  BY <1>1, <1>3, <1>4, LaterStill
<1>6. G.state[n] \in {"freeze", "simplify"} => Later(G, Listing(G, n, "spill"), N)
  BY ListingLater DEF Worklists
<1> QED BY <1>5, <1>6, LaterItself DEF irc_update_degree_state, one, two

\* irc_refresh_degree makes a later graph.
LEMMA RefreshLater ==
  ASSUME NEW G, NEW N, Shape(G, N), NEW n \in N
  PROVE  Later(G, irc_refresh_degree(G, n), N)
<1> DEFINE m == G.alias[n]
           new == irc_compute_degree(G, m)
           H == [G EXCEPT !.degree[m] = new]
<1>1. m \in N
  BY DEF Shape
<1> HIDE DEF m, new
<1>2. Later(G, H, N) /\ Shape(H, N)
  <2>1. /\ DOMAIN H = Fields
        /\ H.alias = G.alias /\ H.list = G.list /\ H.stack = G.stack /\ H.color = G.color /\ H.spilled = G.spilled
        /\ H.crosses = G.crosses /\ H.of = G.of /\ H.moves = G.moves /\ H.queue = G.queue
        /\ H.state = G.state /\ H.lists = G.lists
    BY DEF Shape, Fields
  <2> HIDE DEF H
  <2>2. Later(G, H, N)
    BY <2>1, Noting
  <2> QED BY <2>2 DEF Later
<1> HIDE DEF H
<1>3. CASE m < FirstVReg \/ new = G.degree[m]
  BY <1>3, LaterItself DEF irc_refresh_degree, Refreshed, m, new
<1>4. CASE ~(m < FirstVReg) /\ new # G.degree[m]
  <2>1. m \in VNodes(N)
    BY <1>1, <1>4 DEF VNodes, Shape, FirstVReg
  <2>2. Later(H, irc_update_degree_state(H, m, G.degree[m], new), N)
    BY <1>2, <2>1, UpdateLater
  <2>3. irc_refresh_degree(G, n) = irc_update_degree_state(H, m, G.degree[m], new)
    BY <1>4 DEF irc_refresh_degree, Refreshed, m, new, H
  <2> QED BY <1>2, <2>2, <2>3, LaterStill
<1> QED BY <1>3, <1>4

\* The degrees of the neighbours of a node that is pushed.
LEMMA RefreshNeighboursLater ==
  ASSUME NEW G, NEW N, Shape(G, N), NEW nodes \in Seq(N)
  PROVE  Later(G, RefreshNeighbours(G, nodes), N)
<1> DEFINE k == Len(nodes)
<1>1. k \in Nat /\ DOMAIN nodes = 1 .. k /\ \A i \in 1 .. k : nodes[i] \in N
  OBVIOUS
<1> HIDE DEF k
<1>2. PICK h : RefreshNeighboursSteps(h, G, nodes, k)
  BY <1>1, RefreshNeighboursUnfolds
<1> USE DEF RefreshNeighboursSteps
<1>3. ASSUME NEW i \in 1 .. k, Later(h[0], h[i - 1], N) PROVE Later(h[i - 1], h[i], N)
  <2>1. Shape(h[i - 1], N) /\ nodes[i] \in N
    BY <1>1, <1>3 DEF Later
  <2> QED BY <1>2, <2>1, RefreshLater, LaterItself DEF RefreshNeighbour
<1>4. \A i \in 0 .. k : Later(h[0], h[i], N)
  BY <1>1, <1>2, <1>3, Chain
<1> QED BY <1>1, <1>2, <1>4

\* The degrees around a node that was coalesced.
LEMMA RefreshAroundLater ==
  ASSUME NEW G, NEW N, Shape(G, N), NEW n \in N
  PROVE  Later(G, RefreshAround(G, n), N)
<1> DEFINE nodes == G.list[n]
           k == Len(nodes)
<1>0. nodes \in Seq(N)
  BY DEF Shape
<1>1. k \in Nat /\ DOMAIN nodes = 1 .. k /\ \A i \in 1 .. k : nodes[i] \in N
  BY <1>0
<1> HIDE DEF k
<1>2. PICK h : RefreshAroundSteps(h, G, n, k)
  BY <1>1, RefreshAroundUnfolds
<1> USE DEF RefreshAroundSteps
<1> HIDE DEF nodes
<1>3. ASSUME NEW i \in 1 .. k, Later(h[0], h[i - 1], N) PROVE Later(h[i - 1], h[i], N)
  <2>1. Shape(h[i - 1], N) /\ nodes[i] \in N
    BY <1>1, <1>3 DEF Later
  <2> QED BY <1>2, <2>1, RefreshLater DEF nodes
<1>4. \A i \in 0 .. k : Later(h[0], h[i], N)
  BY <1>1, <1>2, <1>3, Chain
<1> QED BY <1>1, <1>2, <1>4

\* irc_ready_for_simplify makes a later graph.
LEMMA ReadyLater ==
  ASSUME NEW G, NEW N, Shape(G, N), NEW n \in N
  PROVE  Later(G, irc_ready_for_simplify(G, n), N)
<1>1. G.alias[n] \in N
  BY DEF Shape
<1>2. CASE irc_ready_for_simplify(G, n) = G
  BY <1>2, LaterItself
<1>3. CASE irc_ready_for_simplify(G, n) # G
  <2>1. G.alias[n] >= FirstVReg /\ irc_ready_for_simplify(G, n) = Listing(G, G.alias[n], "simplify")
    BY <1>3 DEF irc_ready_for_simplify
  <2>2. G.state[G.alias[n]] = "freeze"
    BY <1>3 DEF irc_ready_for_simplify
  <2> QED BY <1>1, <2>1, <2>2, ListingLater DEF Worklists, VNodes
<1> QED BY <1>2, <1>3

\* A move that is settled.
LEMMA SettledLater ==
  ASSUME NEW G, NEW N, Shape(G, N), NEW i \in DOMAIN G.moves, NEW w \in MoveStates, Open(G.moves[i])
  PROVE  Later(G, Settled(G, i, w), N)
<1> DEFINE H == Settled(G, i, w)
<1>1. /\ DOMAIN H = Fields
      /\ H.alias = G.alias /\ H.list = G.list /\ H.stack = G.stack /\ H.color = G.color /\ H.spilled = G.spilled
      /\ H.crosses = G.crosses /\ H.of = G.of /\ H.state = G.state /\ H.lists = G.lists
      /\ H.moves = [G.moves EXCEPT ![i].state = w] /\ H.queue = G.queue
  BY DEF Settled, Shape, Fields
<1> HIDE DEF H
<1>2. H.moves \in Seq(Move(N)) /\ DOMAIN H.moves = DOMAIN G.moves
  <2> DEFINE m == [G.moves[i] EXCEPT !.state = w]
  <2>1. G.moves \in Seq(Move(N)) /\ G.moves[i] \in Move(N)
    BY DEF Shape
  <2>2. m \in Move(N)
    BY <2>1 DEF Move, MoveStates
  <2>3. H.moves = [G.moves EXCEPT ![i] = m]
    BY <1>1
  <2> HIDE DEF m
  <2> QED BY <2>1, <2>2, <2>3
<1>3. \A n : On(G, n) => On(H, n)
  BY <1>1 DEF On
<1>4. H.state \in [N -> States] /\ H.lists \in [Worklists -> Seq(VNodes(N))] /\ H.queue \in Seq(DOMAIN H.moves)
  BY <1>1, <1>2 DEF Shape
<1>5. \A n \in VNodes(N), v \in Kept : H.state[n] = v <=> G.state[n] = v
  BY <1>1
<1>6. \A j \in DOMAIN G.moves : Open(H.moves[j]) => Open(G.moves[j])
  BY <1>1
<1> QED BY <1>1, <1>2, <1>3, <1>4, <1>5, <1>6, Tuning DEF H

\* One copy of a node after the other.
LEMMA FreezeMovesChain ==
  ASSUME NEW G, NEW N, Shape(G, N), NEW n, NEW moves, NEW k \in Nat, \A i \in 1 .. k : moves[i] \in DOMAIN G.moves,
         NEW h, FreezeMovesSteps(h, G, n, moves, k)
  PROVE  \A i \in 0 .. k : Later(G, h[i], N)
<1> USE DEF FreezeMovesSteps
<1>1. \A i \in 1 .. k : moves[i] \in DOMAIN G.moves
  OBVIOUS
<1>2. FreezeMovesSteps(h, G, n, moves, k)
  OBVIOUS
<1>3. ASSUME NEW i \in 1 .. k, Later(h[0], h[i - 1], N) PROVE Later(h[i - 1], h[i], N)
  <2> DEFINE x == h[i - 1]
             j == moves[i]
             y == Settled(x, j, "frozen")
             m == OtherEnd(x, x.moves[j], n)
  <2>1. Shape(x, N) /\ j \in DOMAIN x.moves
    BY <1>1, <1>2, <1>3 DEF Later
  <2>2. h[i] = FreezeMove(x, j, n)
    BY <1>2
  <2> HIDE DEF x, j
  <2>3. x.moves[j] \in Move(N)
    BY <2>1 DEF Shape
  <2>4. m \in N
    BY <2>1, <2>3 DEF OtherEnd, Shape, Move
  <2>5. ASSUME Open(x.moves[j]) PROVE Later(x, y, N) /\ Shape(y, N)
    BY <2>1, <2>5, SettledLater, LaterShape DEF MoveStates
  <2> HIDE DEF y, m
  <2>6. Open(x.moves[j]) => Later(y, irc_ready_for_simplify(y, m), N)
    BY <2>4, <2>5, ReadyLater
  <2>7. Open(x.moves[j]) => Later(x, irc_ready_for_simplify(y, m), N)
    BY <2>1, <2>5, <2>6, LaterStill
  <2>8. Later(x, FreezeMove(x, j, n), N)
    BY <2>1, <2>7, LaterItself DEF FreezeMove, y, m
  <2> QED BY <2>2, <2>8 DEF x
<1>4. \A i \in 0 .. k : Later(h[0], h[i], N)
  BY <1>2, <1>3, Chain
<1> QED BY <1>2, <1>4

\* The moves of a node that is frozen.
LEMMA FreezeMovesLater ==
  ASSUME NEW G, NEW N, Shape(G, N), NEW n, NEW moves \in Seq(DOMAIN G.moves)
  PROVE  Later(G, FreezeMoves(G, n, moves), N)
<1> DEFINE k == Len(moves)
<1>1. k \in Nat /\ DOMAIN moves = 1 .. k /\ \A i \in 1 .. k : moves[i] \in DOMAIN G.moves
  OBVIOUS
<1> HIDE DEF k
<1>2. PICK h : FreezeMovesSteps(h, G, n, moves, k)
  BY <1>1, FreezeMovesUnfolds
<1>3. \A i \in 0 .. k : Later(G, h[i], N)
  BY <1>1, <1>2, FreezeMovesChain
<1>4. k \in 0 .. k
  BY <1>1
<1> QED BY <1>2, <1>3, <1>4 DEF FreezeMovesSteps

-----------------------------------------------------------------------------
(* Edges. *)

\* A neighbour is listed, if the node is no register of the machine.
LEMMA LinkLater ==
  ASSUME NEW G, NEW N, Shape(G, N), NEW x \in N, NEW y \in N
  PROVE  LET H == Link(G, x, y)
         IN Later(G, H, N) /\ (x >= FirstVReg /\ G.alias[y] = y => Listed(H, x, y))
<1> DEFINE H == Link(G, x, y)
<1>0. x \in Nat /\ FirstVReg \in Nat
  BY DEF Shape, FirstVReg
<1>1. CASE x < FirstVReg \/ Listed(G, x, y)
  BY <1>0, <1>1, LaterItself DEF Link
<1>2. CASE ~(x < FirstVReg \/ Listed(G, x, y))
  <2>1. H = [G EXCEPT !.list[x] = Append(@, y)]
    BY <1>2 DEF Link
  <2>2. /\ DOMAIN H = Fields
        /\ H.alias = G.alias /\ H.stack = G.stack /\ H.color = G.color /\ H.spilled = G.spilled
        /\ H.crosses = G.crosses /\ H.of = G.of /\ H.moves = G.moves /\ H.queue = G.queue /\ H.state = G.state
        /\ H.lists = G.lists /\ H.list = [G.list EXCEPT ![x] = Append(@, y)]
    BY <2>1 DEF Shape, Fields
  <2> HIDE DEF H
  <2>3. H.list \in [N -> Seq(N)] /\ H.list[x] = Append(G.list[x], y) /\ \A n \in N \ {x} : H.list[n] = G.list[n]
    BY <2>2 DEF Shape
  <2>4. Shape(H, N)
    BY <2>2, <2>3 DEF Shape
  <2>5. G.list[x] \in Seq(N)
    BY DEF Shape
  <2>6. \A n \in N : ToSet(G.list[n]) \subseteq ToSet(H.list[n])
    <3>1. \A i \in DOMAIN G.list[x] : i \in DOMAIN H.list[x] /\ H.list[x][i] = G.list[x][i]
      BY <2>3, <2>5
    <3>2. ToSet(G.list[x]) \subseteq ToSet(H.list[x])
      BY <3>1 DEF ToSet
    <3> QED BY <2>3, <3>2
  <2>7. \A n : On(G, n) => On(H, n)
    BY <2>2 DEF On
  <2>8. Later(G, H, N)
    <3>1. \A i \in DOMAIN G.moves : Open(H.moves[i]) => Open(G.moves[i])
      BY <2>2
    <3>2. \A n \in VNodes(N), w \in Kept : H.state[n] = w <=> G.state[n] = w
      BY <2>2
    <3> QED BY <2>2, <2>4, <2>6, <2>7, <3>1, <3>2 DEF Later
  <2>9. ASSUME G.alias[y] = y PROVE Listed(H, x, y)
    <3>1. Len(G.list[x]) + 1 \in DOMAIN H.list[x] /\ H.list[x][Len(G.list[x]) + 1] = y
      BY <2>3, <2>5
    <3> QED BY <2>2, <2>9, <3>1 DEF Listed
  <2> QED BY <2>8, <2>9 DEF H
<1> QED BY <1>1, <1>2

\* Two nodes that stand for themselves are joined, whichever are precolored.
LEMMA JoinedLater ==
  ASSUME NEW G, NEW N, Shape(G, N), NEW x \in N, NEW y \in N, G.alias[x] = x, G.alias[y] = y
  PROVE  LET H == Joined(G, x, y) IN Later(G, H, N) /\ (x # y => Linked(H, x, y))
<1> DEFINE A == [G EXCEPT !.adj[x] = @ \cup {y}, !.adj[y] = @ \cup {x}]
           B == Link(A, x, y)
           C == Link(B, y, x)
<1>1. CASE x = y
  BY <1>1, LaterItself DEF Joined
<1>2. CASE x # y
  <2>1. Joined(G, x, y) = C
    BY <1>2 DEF Joined
  <2>2. Later(G, A, N)
    <3>1. /\ DOMAIN A = Fields
          /\ A.alias = G.alias /\ A.list = G.list /\ A.stack = G.stack /\ A.color = G.color /\ A.spilled = G.spilled
          /\ A.crosses = G.crosses /\ A.of = G.of /\ A.moves = G.moves /\ A.queue = G.queue /\ A.state = G.state
          /\ A.lists = G.lists
      BY DEF Shape, Fields
    <3> HIDE DEF A
    <3> QED BY <3>1, Noting
  <2>3. Shape(A, N) /\ A.alias = G.alias
    BY <2>2 DEF Later
  <2> HIDE DEF A
  <2>4. Later(A, B, N) /\ (x >= FirstVReg => Listed(B, x, y))
    BY <2>3, LinkLater
  <2>5. Shape(B, N) /\ B.alias = G.alias
    BY <2>3, <2>4 DEF Later
  <2> HIDE DEF B
  <2>6. Later(B, C, N) /\ (y >= FirstVReg => Listed(C, y, x))
    BY <2>5, LinkLater
  <2>7. x >= FirstVReg => Listed(C, x, y)
    BY <2>4, <2>5, <2>6, ListedLater
  <2>8. Linked(C, x, y)
    BY <1>2, <2>6, <2>7 DEF Linked
  <2>9. Later(G, B, N)
    BY <2>2, <2>4, LaterStill
  <2>10. Later(G, C, N)
    BY <2>6, <2>9, LaterStill
  <2> QED BY <2>1, <2>8, <2>10
<1> QED BY <1>1, <1>2

\* irc_add_edge: from then on the two nodes are kept apart.
LEMMA AddEdgeLater ==
  ASSUME NEW G, NEW N, Shape(G, N), NEW n \in N, NEW m \in N
  PROVE  LET H == irc_add_edge(G, n, m) IN Later(G, H, N) /\ (G.alias[n] # G.alias[m] => Held(H, n, m))
<1> DEFINE x == G.alias[n]
           y == G.alias[m]
           H == irc_add_edge(G, n, m)
<1>1. x \in N /\ y \in N /\ G.alias[x] = x /\ G.alias[y] = y
  BY DEF Shape
<1>2. H = Joined(G, x, y)
  BY DEF irc_add_edge
<1>3. Later(G, H, N) /\ (x # y => Linked(H, x, y))
  <2> HIDE DEF x, y, H
  <2> QED BY <1>1, <1>2, JoinedLater
<1>4. H.alias = G.alias
  BY <1>3 DEF Later
<1> QED BY <1>3, <1>4 DEF Held

\* A node is linked with all its edges are added to.
LEMMA AddEdgesLater ==
  ASSUME NEW G, NEW N, Shape(G, N), NEW n \in N, NEW k \in Nat, N = 1 .. k, NEW S \in SUBSET N
  PROVE  LET H == AddEdges(G, n, S)
         IN Later(G, H, N) /\ \A m \in S : G.alias[n] # G.alias[m] => Held(H, n, m)
<1>1. PICK h : AddEdgesSteps(h, G, n, k, S)
  BY AddEdgesUnfolds
<1> USE DEF AddEdgesSteps
<1>2. ASSUME NEW i \in 1 .. k, Later(h[0], h[i - 1], N) PROVE Later(h[i - 1], h[i], N)
  <2>1. Shape(h[i - 1], N) /\ i \in N
    BY <1>2 DEF Later
  <2>2. h[i] = IF i \in S THEN irc_add_edge(h[i - 1], n, i) ELSE h[i - 1]
    BY <1>1
  <2>3. Later(h[i - 1], irc_add_edge(h[i - 1], n, i), N)
    BY <2>1, AddEdgeLater
  <2> QED BY <2>1, <2>2, <2>3, LaterItself
<1>3. Shape(h[0], N)
  BY <1>1
<1>4. \A i \in 0 .. k : Later(h[0], h[i], N) /\ Later(h[i], h[k], N)
  BY <1>2, <1>3, Chain
<1>5. 0 \in 0 .. k /\ k \in 0 .. k
  OBVIOUS
<1>6. ASSUME NEW m \in S, G.alias[n] # G.alias[m] PROVE Held(h[k], n, m)
  <2>1. m \in 1 .. k /\ m - 1 \in 0 .. k /\ m \in 0 .. k
    OBVIOUS
  <2>2. Later(G, h[m - 1], N) /\ Later(h[m], h[k], N) /\ Later(G, h[m], N)
    BY <1>1, <1>4, <2>1
  <2>3. Shape(h[m - 1], N) /\ h[m - 1].alias = G.alias /\ Shape(h[m], N)
    BY <2>2 DEF Later
  <2>4. h[m] = irc_add_edge(h[m - 1], n, m)
    BY <1>1, <2>1
  <2>5. Held(h[m], n, m)
    BY <1>6, <2>1, <2>3, <2>4, AddEdgeLater
  <2> QED BY <2>1, <2>2, <2>3, <2>5, HeldLater
<1>7. AddEdges(G, n, S) = h[k] /\ h[0] = G
  BY <1>1
<1> QED BY <1>4, <1>5, <1>6, <1>7

\* What stands for v's neighbours is linked with u.
LEMMA InheritedLater ==
  ASSUME NEW G, NEW N, Shape(G, N), NEW u \in N, NEW v \in N, G.alias[u] = u
  PROVE  LET H == Inherited(G, u, v)
         IN Later(G, H, N) /\ \A m \in ToSet(G.list[v]) : G.alias[m] # u => Held(H, m, u)
<1> DEFINE nodes == G.list[v]
           k == Len(nodes)
<1>0. nodes \in Seq(N)
  BY DEF Shape
<1>1. k \in Nat /\ DOMAIN nodes = 1 .. k /\ \A i \in 1 .. k : nodes[i] \in N
  BY <1>0
<1> HIDE DEF k
<1>2. PICK h : InheritedSteps(h, G, u, v, k)
  BY <1>1, InheritedUnfolds
<1> USE DEF InheritedSteps
<1> HIDE DEF nodes
<1>3. ASSUME NEW i \in 1 .. k, Later(h[0], h[i - 1], N) PROVE Later(h[i - 1], h[i], N)
  <2>1. Shape(h[i - 1], N) /\ nodes[i] \in N
    BY <1>1, <1>3 DEF Later
  <2>2. h[i] = Inherit(h[i - 1], u, nodes[i])
    BY <1>2 DEF nodes
  <2> QED BY <2>1, <2>2, AddEdgeLater, LaterItself DEF Inherit
<1>4. Shape(h[0], N)
  BY <1>2
<1>5. \A i \in 0 .. k : Later(h[0], h[i], N) /\ Later(h[i], h[k], N)
  BY <1>1, <1>3, <1>4, Chain
<1>6. 0 \in 0 .. k /\ k \in 0 .. k
  BY <1>1
<1>7. ASSUME NEW m \in ToSet(nodes), G.alias[m] # u PROVE Held(h[k], m, u)
  <2>1. PICK i \in 1 .. k : nodes[i] = m
    BY <1>1 DEF ToSet
  <2>2. i \in 1 .. k /\ i - 1 \in 0 .. k /\ i \in 0 .. k /\ m \in N
    BY <1>1, <2>1
  <2>3. Later(G, h[i - 1], N) /\ Later(h[i], h[k], N) /\ Later(G, h[i], N)
    BY <1>2, <1>5, <2>2
  <2>4. Shape(h[i - 1], N) /\ h[i - 1].alias = G.alias /\ Shape(h[i], N)
    BY <2>3 DEF Later
  <2>5. h[i] = irc_add_edge(h[i - 1], m, u)
    <3>1. h[i] = Inherit(h[i - 1], u, nodes[i])
      BY <1>2, <2>2 DEF nodes
    <3> QED BY <1>7, <2>1, <2>4, <3>1 DEF Inherit
  <2>6. Held(h[i], m, u)
    BY <1>7, <2>2, <2>4, <2>5, AddEdgeLater
  <2> QED BY <2>2, <2>3, <2>4, <2>6, HeldLater
<1>8. Inherited(G, u, v) = h[k] /\ h[0] = G
  BY <1>2
<1> QED BY <1>5, <1>6, <1>7, <1>8 DEF nodes

-----------------------------------------------------------------------------
(* The parts of the invariant that speak of the graph, and coalescing. *)

\* The registers of the machine have their own colour, the others none.
Colors(N) == [n \in N |-> IF n < FirstVReg THEN n ELSE 0]

\* Nothing that clashes, which is what P says, can be coloured alike: no edge between
\* what stands for the two is missing, and no node that stands for itself, but `but`,
\* is left off the lists.
Sound(G, N, P, but) ==
  /\ Shape(G, N)
  /\ \A m \in VNodes(N) : G.alias[m] = m /\ m # but => On(G, m)
  /\ P \subseteq N \X N
  /\ \A p \in P : Held(G, p[1], p[2])
  /\ G.spilled = <<>> /\ G.color = Colors(N)

\* The nodes on the stack and those that another stands for have their states.
Tidy(G, N) ==
  /\ \A n \in ToSet(G.stack) : G.state[n] = "stack"
  /\ \A n \in VNodes(N) : G.alias[n] # n => G.state[n] = "coalesced"

\* A later graph keeps apart what the graph did.
LEMMA LaterSound ==
  ASSUME NEW G, NEW H, NEW N, NEW P, NEW but, Sound(G, N, P, but), Later(G, H, N)
  PROVE  Sound(H, N, P, but)
<1>1. Shape(G, N) /\ Shape(H, N) /\ H.alias = G.alias /\ P \subseteq N \X N
  BY DEF Sound, Later
<1>2. \A m \in VNodes(N) : H.alias[m] = m /\ m # but => On(H, m)
  BY <1>1 DEF Sound, Later
<1>3. \A p \in P : Held(H, p[1], p[2])
  BY <1>1, HeldLater DEF Sound
<1>4. H.spilled = <<>> /\ H.color = Colors(N)
  BY DEF Sound, Later
<1> QED BY <1>1, <1>2, <1>3, <1>4 DEF Sound

\* u stands for v from now on: what stands for itself is where it was.
LEMMA AliasedSound ==
  ASSUME NEW G, NEW N, NEW P, Sound(G, N, P, 0), NEW u \in N, NEW v \in VNodes(N), u # v,
         G.alias[u] = u, G.alias[v] = v
  PROVE  LET A == Aliased(G, u, v)
         IN /\ DOMAIN A = Fields
            /\ A.alias = [n \in N |-> IF G.alias[n] = v THEN u ELSE G.alias[n]]
            /\ A.list = G.list /\ A.stack = G.stack /\ A.color = G.color /\ A.spilled = G.spilled
            /\ A.crosses = G.crosses /\ A.moves = G.moves /\ A.queue = G.queue /\ A.lists = G.lists
            /\ A.of = [G.of EXCEPT ![u] = IF u < FirstVReg THEN @ ELSE @ \o G.of[v]]
            /\ A.state = [G.state EXCEPT ![v] = "coalesced"]
            /\ Shape(A, N) /\ \A m \in VNodes(N) : A.alias[m] = m => On(A, m)
<1> DEFINE A == Aliased(G, u, v)
<1>1. Shape(G, N) /\ v \in N /\ v >= FirstVReg /\ N \subseteq Nat
  BY DEF Sound, VNodes, Shape
<1>2. /\ DOMAIN A = Fields
      /\ A.alias = [n \in N |-> IF G.alias[n] = v THEN u ELSE G.alias[n]]
      /\ A.list = G.list /\ A.stack = G.stack /\ A.color = G.color /\ A.spilled = G.spilled
      /\ A.crosses = G.crosses /\ A.moves = G.moves /\ A.queue = G.queue /\ A.lists = G.lists
      /\ A.of = [G.of EXCEPT ![u] = IF u < FirstVReg THEN @ ELSE @ \o G.of[v]]
      /\ A.state = [G.state EXCEPT ![v] = "coalesced"]
  BY <1>1 DEF Aliased, Shape, Fields
<1> HIDE DEF A
<1>3. Shape(A, N)
  <2>1. A.alias \in [N -> N] /\ \A n \in N : A.alias[A.alias[n]] = A.alias[n]
    BY <1>1, <1>2 DEF Shape
  <2>2. \A n \in N : n < FirstVReg => A.alias[n] = n
    <3> SUFFICES ASSUME NEW n \in N, n < FirstVReg PROVE A.alias[n] = n
      OBVIOUS
    <3>1. G.alias[n] = n /\ n # v
      BY <1>1 DEF Shape, FirstVReg
    <3> QED BY <1>2, <3>1
  <2>3. A.of \in [N -> Seq(DOMAIN A.moves)]
    <3>1. G.of \in [N -> Seq(DOMAIN G.moves)]
      BY <1>1 DEF Shape
    <3>2. G.of[u] \o G.of[v] \in Seq(DOMAIN G.moves)
      <4>1. G.of[u] \in Seq(DOMAIN G.moves) /\ G.of[v] \in Seq(DOMAIN G.moves)
        BY <1>1, <3>1
      <4> QED BY <4>1, ConcatProperties
    <3> QED BY <1>2, <3>1, <3>2
  <2>4. A.state \in [N -> States]
    BY <1>1, <1>2 DEF Shape, States
  <2> QED BY <1>1, <1>2, <2>1, <2>2, <2>3, <2>4 DEF Shape
<1>4. \A m \in VNodes(N) : A.alias[m] = m => On(A, m)
  <2> SUFFICES ASSUME NEW m \in VNodes(N), A.alias[m] = m PROVE On(A, m)
    OBVIOUS
  <2>1. m \in N /\ m # 0
    BY DEF VNodes, FirstVReg
  <2>2. G.alias[m] = m /\ m # v
    BY <1>1, <1>2, <2>1
  <2>3. On(G, m)
    BY <2>1, <2>2 DEF Sound
  <2>4. A.state[m] = G.state[m]
    BY <1>1, <1>2, <2>1, <2>2 DEF Shape
  <2> QED BY <1>2, <2>3, <2>4 DEF On
<1> QED BY <1>2, <1>3, <1>4 DEF A

\* v is taken for u, and edges of either are those of u.
LEMMA CombineSound ==
  ASSUME NEW G, NEW N, NEW P, Sound(G, N, P, 0), NEW u \in N, NEW v \in VNodes(N), u # v,
         G.alias[u] = u, G.alias[v] = v, ~Listed(G, v, u)
  PROVE  /\ Sound(irc_combine_nodes(G, u, v), N, P, 0)
         /\ Later(Aliased(G, u, v), irc_combine_nodes(G, u, v), N)
<1> DEFINE A == Aliased(G, u, v)
           B == Merged(G, u, v)
           C == Inherited(B, u, v)
           D == irc_refresh_degree(C, u)
           E == RefreshAround(D, u)
           F == irc_combine_nodes(G, u, v)
<1>1. Shape(G, N) /\ v \in N /\ v >= FirstVReg /\ N \subseteq Nat
  BY DEF Sound, VNodes, Shape
<1>2. /\ DOMAIN A = Fields
      /\ A.alias = [n \in N |-> IF G.alias[n] = v THEN u ELSE G.alias[n]]
      /\ A.list = G.list /\ A.stack = G.stack /\ A.color = G.color /\ A.spilled = G.spilled
      /\ A.crosses = G.crosses /\ A.moves = G.moves /\ A.queue = G.queue /\ A.lists = G.lists
      /\ A.of = [G.of EXCEPT ![u] = IF u < FirstVReg THEN @ ELSE @ \o G.of[v]]
      /\ A.state = [G.state EXCEPT ![v] = "coalesced"]
      /\ Shape(A, N) /\ \A m \in VNodes(N) : A.alias[m] = m => On(A, m)
  BY AliasedSound
<1>3. B = irc_enable_moves_for_node(A, v)
  BY DEF Merged
<1> HIDE DEF A, B
<1>4. Shape(A, N)
  BY <1>2
<1>5. \A m \in VNodes(N) : A.alias[m] = m => On(A, m)
  BY <1>2
<1>6. Later(A, B, N) /\ Shape(B, N) /\ B.alias = A.alias
  BY <1>1, <1>3, <1>4, EnableLater, LaterShape
<1>7. B.alias[u] = u
  BY <1>2, <1>6
<1>8. Later(B, C, N) /\ \A m \in ToSet(B.list[v]) : B.alias[m] # u => Held(C, m, u)
  BY <1>1, <1>6, <1>7, InheritedLater
<1> HIDE DEF C
<1>9. Shape(C, N) /\ C.alias = A.alias /\ Later(A, C, N)
  BY <1>4, <1>6, <1>8, LaterStill, LaterShape
<1>10. Later(C, D, N) /\ Shape(D, N)
  BY <1>9, RefreshLater, LaterShape
<1> HIDE DEF D
<1>11. Later(D, E, N) /\ Shape(E, N) /\ Later(C, E, N)
  <2>1. Later(D, E, N)
    BY <1>10, RefreshAroundLater
  <2>2. Later(C, E, N)
    BY <1>9, <1>10, <2>1, LaterStill
  <2> QED BY <2>1, <2>2 DEF Later
<1>12. F = [E EXCEPT !.coalesced = Append(@, v)]
  BY DEF irc_combine_nodes, C, D, B
<1> HIDE DEF E, F
<1>13. Later(E, F, N)
  <2>1. /\ DOMAIN F = Fields
        /\ F.alias = E.alias /\ F.list = E.list /\ F.stack = E.stack /\ F.color = E.color /\ F.spilled = E.spilled
        /\ F.crosses = E.crosses /\ F.of = E.of /\ F.moves = E.moves /\ F.queue = E.queue /\ F.state = E.state
        /\ F.lists = E.lists
    BY <1>11, <1>12 DEF Shape, Fields
  <2> QED BY <1>11, <2>1, Noting
<1>14. Later(C, F, N)
  BY <1>9, <1>11, <1>13, LaterStill
<1>15. ASSUME NEW y, Listed(G, v, y), y # v PROVE Linked(C, y, u)
  <2>1. PICK i \in DOMAIN G.list[v] : G.alias[G.list[v][i]] = y
    BY <1>15 DEF Listed
  <2> DEFINE m == G.list[v][i]
  <2>2. m \in N /\ m \in ToSet(G.list[v])
    BY <1>1, <2>1 DEF Shape, ToSet
  <2>3. m \in ToSet(B.list[v])
    BY <1>1, <1>2, <1>6, <2>2 DEF Later
  <2>4. y # u
    BY <1>15
  <2>5. B.alias[m] = y /\ C.alias[m] = y /\ C.alias[u] = u
    BY <1>2, <1>6, <1>7, <1>9, <1>15, <2>1, <2>2
  <2>6. Held(C, m, u)
    BY <1>8, <2>3, <2>4, <2>5
  <2> QED BY <2>5, <2>6 DEF Held
<1>16. ASSUME NEW p \in P PROVE Held(C, p[1], p[2])
  <2> DEFINE x == G.alias[p[1]]
             y == G.alias[p[2]]
  <2>1. p[1] \in N /\ p[2] \in N /\ Linked(G, x, y)
    BY DEF Sound, Held
  <2>2. x \in N /\ y \in N /\ x # y
    BY <1>1, <2>1 DEF Shape, Linked
  <2>3. C.alias[p[1]] = (IF x = v THEN u ELSE x) /\ C.alias[p[2]] = (IF y = v THEN u ELSE y)
    BY <1>2, <1>9, <2>1
  <2> HIDE DEF x, y
  <2>4. CASE x = v
    <3>1. Listed(G, v, y) /\ y # v
      BY <1>1, <2>1, <2>2, <2>4 DEF Linked
    <3>2. Linked(C, y, u)
      BY <1>15, <3>1
    <3> QED BY <2>2, <2>3, <2>4, <3>2 DEF Held, Linked
  <2>5. CASE y = v
    <3>1. Listed(G, v, x) /\ x # v
      BY <1>1, <2>1, <2>2, <2>5 DEF Linked
    <3>2. Linked(C, x, u)
      BY <1>15, <3>1
    <3> QED BY <2>2, <2>3, <2>5, <3>2 DEF Held, Linked
  <2>6. CASE x # v /\ y # v
    <3>1. \A a, b \in N : b # v /\ Listed(G, a, b) => Listed(A, a, b)
      <4> SUFFICES ASSUME NEW a \in N, NEW b \in N, b # v, Listed(G, a, b) PROVE Listed(A, a, b)
        OBVIOUS
      <4>1. PICK i \in DOMAIN G.list[a] : G.alias[G.list[a][i]] = b
        BY DEF Listed
      <4>2. G.list[a][i] \in N
        BY <1>1, <4>1 DEF Shape
      <4>3. A.alias[G.list[a][i]] = b
        BY <1>2, <4>1, <4>2
      <4> QED BY <1>2, <4>1, <4>3 DEF Listed
    <3>2. Linked(A, x, y)
      BY <2>1, <2>2, <2>6, <3>1 DEF Linked
    <3>3. A.alias[p[1]] = x /\ A.alias[p[2]] = y
      BY <1>9, <2>3, <2>6
    <3>4. Held(A, p[1], p[2])
      BY <3>2, <3>3 DEF Held
    <3> QED BY <1>4, <1>9, <2>1, <3>4, HeldLater
  <2> QED BY <2>4, <2>5, <2>6
<1>17. Sound(C, N, P, 0)
  <2>1. \A m \in VNodes(N) : C.alias[m] = m => On(C, m)
    BY <1>5, <1>9 DEF Later
  <2>2. C.spilled = <<>> /\ C.color = Colors(N)
    BY <1>2, <1>9 DEF Later, Sound
  <2>3. P \subseteq N \X N
    BY DEF Sound
  <2> QED BY <1>9, <1>16, <2>1, <2>2, <2>3 DEF Sound
<1>18. Later(A, F, N)
  BY <1>4, <1>9, <1>14, LaterStill
<1> QED BY <1>14, <1>17, <1>18, LaterSound DEF A, F

-----------------------------------------------------------------------------
(* Simplifying, freezing and choosing what to spill. *)

\* The edges are those of alias and list.
LEMMA SameHeld ==
  ASSUME NEW G, NEW H, H.alias = G.alias, H.list = G.list, NEW n, NEW m, Held(G, n, m)
  PROVE  Held(H, n, m)
BY DEF Held, Linked, Listed

\* The rest of a worklist, where but for n every entry is that is on it still.
LEMMA RelistedSound ==
  ASSUME NEW G, NEW N, NEW P, Sound(G, N, P, 0), NEW w \in Worklists, NEW rest \in Seq(VNodes(N)), NEW n,
         \A m \in VNodes(N) : m # n /\ G.state[m] = w /\ m \in ToSet(G.lists[w]) => m \in ToSet(rest)
  PROVE  Sound([G EXCEPT !.lists[w] = rest], N, P, n)
<1> DEFINE H == [G EXCEPT !.lists[w] = rest]
<1>1. /\ DOMAIN H = Fields
      /\ H.alias = G.alias /\ H.list = G.list /\ H.stack = G.stack /\ H.color = G.color /\ H.spilled = G.spilled
      /\ H.of = G.of /\ H.moves = G.moves /\ H.queue = G.queue /\ H.state = G.state
      /\ H.lists = [G.lists EXCEPT ![w] = rest]
  BY DEF Sound, Shape, Fields
<1> HIDE DEF H
<1>2. H.lists \in [Worklists -> Seq(VNodes(N))]
  BY <1>1 DEF Sound, Shape
<1>3. Shape(H, N)
  BY <1>1, <1>2 DEF Sound, Shape
<1>4. ASSUME NEW m \in VNodes(N), H.alias[m] = m, m # n PROVE On(H, m)
  <2>1. On(G, m)
    BY <1>1, <1>4 DEF Sound, VNodes, FirstVReg
  <2>2. m \in N
    BY DEF VNodes
  <2>3. CASE G.state[m] = w
    BY <1>1, <1>4, <2>1, <2>3 DEF On, Sound, Shape
  <2>4. CASE G.state[m] # w
    BY <1>1, <2>1, <2>4 DEF On, Sound, Shape
  <2> QED BY <2>3, <2>4
<1>5. \A p \in P : Held(H, p[1], p[2])
  BY <1>1, SameHeld DEF Sound
<1> QED BY <1>1, <1>3, <1>4, <1>5 DEF H, Sound

\* What Popped takes from a worklist, and that it drops no node in the state of it.
LEMMA PopsValid ==
  ASSUME NEW G, NEW N, Shape(G, N), NEW w \in Worklists
  PROVE  LET top == Popped(G, w)
         IN IF top.node = 0
            THEN \A m \in VNodes(N) : G.state[m] = w => m \notin ToSet(G.lists[w])
            ELSE /\ top.node \in VNodes(N) /\ top.rest \in Seq(VNodes(N)) /\ G.state[top.node] = w
                 /\ \A m \in VNodes(N) : m # top.node /\ G.state[m] = w /\ m \in ToSet(G.lists[w]) => m \in ToSet(top.rest)
<1> DEFINE s == G.lists[w]
           live == {i \in DOMAIN s : Valid(G, w, s[i])}
           top == Popped(G, w)
<1>1. s \in Seq(VNodes(N))
  BY DEF Shape
<1>2. top = IF live = {} THEN [node |-> 0, rest |-> <<>>]
            ELSE [node |-> s[Max(live)], rest |-> SubSeq(s, 1, Max(live) - 1)]
  BY DEF Popped
<1>3. \A i \in DOMAIN s : s[i] \in VNodes(N) /\ s[i] # 0
  BY <1>1 DEF VNodes, FirstVReg
<1>4. \A i \in live : i \in DOMAIN s
  OBVIOUS
<1>5. \A i \in DOMAIN s : G.state[s[i]] = w => i \in live
  BY DEF Valid
<1> HIDE DEF top, live, s
<1>6. CASE live = {}
  <2>1. top.node = 0
    BY <1>2, <1>6
  <2>2. \A m : G.state[m] = w => m \notin ToSet(s)
    BY <1>5, <1>6 DEF ToSet
  <2> QED BY <2>1, <2>2 DEF s, top
<1>7. CASE live # {}
  <2> DEFINE a == Max(live)
  <2>1. live \in SUBSET (1 .. Len(s)) /\ Len(s) \in Nat
    BY <1>1, <1>4
  <2>2. a \in live /\ \A i \in live : i =< a
    BY <1>7, <2>1, MaxIn
  <2>3. top = [node |-> s[a], rest |-> SubSeq(s, 1, a - 1)]
    BY <1>2, <1>7
  <2> HIDE DEF a
  <2>4. a \in 1 .. Len(s) /\ a - 1 \in 0 .. Len(s)
    BY <2>1, <2>2
  <2>5. /\ SubSeq(s, 1, a - 1) \in Seq(VNodes(N)) /\ DOMAIN SubSeq(s, 1, a - 1) = 1 .. a - 1
        /\ \A i \in 1 .. a - 1 : SubSeq(s, 1, a - 1)[i] = s[i]
    BY <1>1, <2>4
  <2>6. ASSUME NEW m \in VNodes(N), m # s[a], G.state[m] = w, m \in ToSet(s) PROVE m \in ToSet(SubSeq(s, 1, a - 1))
    <3>1. PICK i \in DOMAIN s : s[i] = m
      BY <2>6 DEF ToSet
    <3>2. i \in live /\ i # a
      BY <1>5, <2>6, <3>1
    <3>3. i \in 1 .. a - 1
      BY <2>1, <2>2, <3>2
    <3> QED BY <2>5, <3>1, <3>3 DEF ToSet
  <2>7. top.node # 0 /\ top.node \in VNodes(N)
    BY <1>1, <1>3, <2>3, <2>4
  <2>8. G.state[s[a]] = w
    BY <2>2 DEF live, Valid
  <2> QED BY <2>3, <2>5, <2>6, <2>7, <2>8 DEF top, s
<1> QED BY <1>6, <1>7

\* The node that was taken goes on the stack, and what it frees is later.
LEMMA PushedSound ==
  ASSUME NEW G, NEW N, NEW P, NEW n \in VNodes(N), Sound(G, N, P, n)
  PROVE  Sound(Pushed(G, n), N, P, 0) /\ Later(Pushed(G, n), Push(G, n), N)
<1> DEFINE H == Pushed(G, n)
<1>0. n \in N /\ Shape(G, N)
  BY DEF VNodes, Sound
<1>1. /\ DOMAIN H = Fields
      /\ H.alias = G.alias /\ H.list = G.list /\ H.color = G.color /\ H.spilled = G.spilled
      /\ H.of = G.of /\ H.moves = G.moves /\ H.queue = G.queue /\ H.lists = G.lists
      /\ H.state = [G.state EXCEPT ![n] = "stack"] /\ H.stack = Append(G.stack, n)
  BY <1>0 DEF Pushed, Shape, Fields
<1> HIDE DEF H
<1>2. H.state \in [N -> States] /\ H.stack \in Seq(VNodes(N)) /\ G.stack \in Seq(VNodes(N))
  BY <1>0, <1>1 DEF Shape, States
<1>3. Shape(H, N)
  BY <1>0, <1>1, <1>2 DEF Shape
<1>4. n \in ToSet(H.stack) /\ \A m \in ToSet(G.stack) : m \in ToSet(H.stack)
  <2>1. Len(G.stack) + 1 \in DOMAIN H.stack /\ H.stack[Len(G.stack) + 1] = n
    BY <1>1, <1>2
  <2>2. \A i \in DOMAIN G.stack : i \in DOMAIN H.stack /\ H.stack[i] = G.stack[i]
    BY <1>1, <1>2
  <2> QED BY <2>1, <2>2 DEF ToSet
<1>5. ASSUME NEW m \in VNodes(N), H.alias[m] = m PROVE On(H, m)
  <2>1. CASE m = n
    BY <1>4, <2>1 DEF On
  <2>2. CASE m # n
    <3>1. On(G, m)
      BY <1>1, <1>5, <2>2 DEF Sound
    <3>2. H.state[m] = G.state[m]
      BY <1>0, <1>1, <2>2 DEF Shape, VNodes
    <3> QED BY <1>1, <1>4, <3>1, <3>2 DEF On
  <2> QED BY <2>1, <2>2
<1>6. \A p \in P : Held(H, p[1], p[2])
  BY <1>1, SameHeld DEF Sound
<1>7. Sound(H, N, P, 0)
  BY <1>1, <1>3, <1>5, <1>6 DEF Sound
<1>8. G.list[n] \in Seq(N)
  BY <1>0 DEF Shape
<1>9. Later(H, RefreshNeighbours(H, G.list[n]), N)
  BY <1>3, <1>8, RefreshNeighboursLater
<1>10. Push(G, n) = RefreshNeighbours(H, G.list[n])
  BY DEF Push, H
<1> QED BY <1>7, <1>9, <1>10 DEF H

\* The node that was taken is on no worklist, but on the stack.
LEMMA PushSound ==
  ASSUME NEW G, NEW N, NEW P, NEW n \in VNodes(N), Sound(G, N, P, n)
  PROVE  Sound(Push(G, n), N, P, 0)
<1> DEFINE H == Pushed(G, n)
           J == Push(G, n)
<1>1. Sound(H, N, P, 0) /\ Later(H, J, N)
  BY PushedSound
<1> HIDE DEF H, J
<1> QED BY <1>1, LaterSound DEF J

\* The node that was taken goes on another worklist.
LEMMA ListedSound ==
  ASSUME NEW G, NEW N, NEW P, NEW n \in VNodes(N), Sound(G, N, P, n), NEW w \in Worklists, G.state[n] \in Worklists
  PROVE  Sound(Listing(G, n, w), N, P, 0)
<1> DEFINE H == Listing(G, n, w)
<1>1. Later(G, H, N) /\ On(H, n)
  BY ListingLater DEF Sound
<1> HIDE DEF H
<1>2. Sound(H, N, P, n)
  BY <1>1, LaterSound
<1> QED BY <1>1, <1>2 DEF Sound, H

\* A worklist no node is on is emptied.
LEMMA EmptiedSound ==
  ASSUME NEW G, NEW N, NEW P, Sound(G, N, P, 0), NEW w \in Worklists,
         \A m \in VNodes(N) : G.state[m] = w => m \notin ToSet(G.lists[w])
  PROVE  Sound([G EXCEPT !.lists[w] = <<>>], N, P, 0)
<1>1. <<>> \in Seq(VNodes(N))
  OBVIOUS
<1> QED BY <1>1, RelistedSound

\* irc_simplify loses no edge and no node: the entries it drops are stale.
THEOREM SimplifySound ==
  ASSUME NEW G, NEW N, NEW P, Sound(G, N, P, 0)
  PROVE  Sound(irc_simplify(G), N, P, 0)
<1> DEFINE w == "simplify"
           top == Popped(G, w)
<1>1. w \in Worklists /\ Shape(G, N)
  BY DEF Worklists, Sound
<1>2. irc_simplify(G) = SimplifyNode(G, top)
  BY DEF irc_simplify
<1>3. IF top.node = 0
      THEN \A m \in VNodes(N) : G.state[m] = w => m \notin ToSet(G.lists[w])
      ELSE /\ top.node \in VNodes(N) /\ top.rest \in Seq(VNodes(N))
           /\ \A m \in VNodes(N) : m # top.node /\ G.state[m] = w /\ m \in ToSet(G.lists[w]) => m \in ToSet(top.rest)
  BY <1>1, PopsValid
<1> HIDE DEF top
<1>4. CASE top.node = 0
  BY <1>1, <1>2, <1>3, <1>4, EmptiedSound DEF SimplifyNode
<1>5. CASE top.node # 0
  <2>1. Sound([G EXCEPT !.lists[w] = top.rest], N, P, top.node)
    BY <1>1, <1>3, <1>5, RelistedSound
  <2>2. irc_simplify(G) = Push([G EXCEPT !.lists[w] = top.rest], top.node)
    BY <1>2, <1>5 DEF SimplifyNode
  <2> QED BY <1>3, <1>5, <2>1, <2>2, PushSound
<1> QED BY <1>4, <1>5

\* irc_freeze loses no edge and no node.
THEOREM FreezeSound ==
  ASSUME NEW G, NEW N, NEW P, Sound(G, N, P, 0)
  PROVE  Sound(irc_freeze(G), N, P, 0)
<1> DEFINE w == "freeze"
           top == Popped(G, w)
           H == [G EXCEPT !.lists[w] = top.rest]
           J == Listing(H, top.node, "simplify")
<1>1. w \in Worklists /\ Shape(G, N) /\ "simplify" \in Worklists
  BY DEF Worklists, Sound
<1>2. irc_freeze(G) = FreezeNode(G, top)
  BY DEF irc_freeze
<1>3. IF top.node = 0
      THEN \A m \in VNodes(N) : G.state[m] = w => m \notin ToSet(G.lists[w])
      ELSE /\ top.node \in VNodes(N) /\ top.rest \in Seq(VNodes(N)) /\ G.state[top.node] = w
           /\ \A m \in VNodes(N) : m # top.node /\ G.state[m] = w /\ m \in ToSet(G.lists[w]) => m \in ToSet(top.rest)
  BY <1>1, PopsValid
<1> HIDE DEF top
<1>4. CASE top.node = 0
  <2>1. irc_freeze(G) = [G EXCEPT !.lists[w] = <<>>]
    BY <1>2, <1>4 DEF FreezeNode
  <2>2. Sound([G EXCEPT !.lists[w] = <<>>], N, P, 0)
    BY <1>1, <1>3, <1>4, EmptiedSound
  <2> QED BY <2>1, <2>2
<1>5. CASE top.node # 0
  <2>1. Sound(H, N, P, top.node)
    BY <1>1, <1>3, <1>5, RelistedSound
  <2>0. H.state[top.node] \in Worklists
    BY <1>1, <1>3, <1>5 DEF Shape, Fields
  <2>2. irc_freeze(G) = FreezeMoves(J, top.node, G.of[top.node])
    BY <1>2, <1>5 DEF FreezeNode
  <2>3. J.moves = G.moves
    <3>1. H.moves = G.moves
      BY <1>1 DEF Shape, Fields
    <3>2. DOMAIN H = Fields
      BY <1>1 DEF Shape
    <3> HIDE DEF H
    <3> QED BY <3>1, <3>2 DEF Listing, Fields
  <2>4. top.node \in N
    BY <1>3, <1>5 DEF VNodes
  <2>5. G.of[top.node] \in Seq(DOMAIN G.moves)
    BY <1>1, <2>4 DEF Shape
  <2> HIDE DEF H
  <2>6. Sound(J, N, P, 0)
    BY <1>1, <1>3, <1>5, <2>0, <2>1, ListedSound
  <2> HIDE DEF J
  <2>7. Later(J, FreezeMoves(J, top.node, G.of[top.node]), N)
    BY <2>3, <2>5, <2>6, FreezeMovesLater DEF Sound
  <2> QED BY <2>2, <2>6, <2>7, LaterSound
<1> QED BY <1>4, <1>5

\* The one chosen to be spilled is in the state of the worklist.
LEMMA CheapestIsCandidate ==
  ASSUME NEW G, NEW N, Shape(G, N), Candidates(G) # {}
  PROVE  Cheapest(G) \in Candidates(G)
<1> DEFINE S == Candidates(G)
           s == G.lists["spill"]
           k == Len(s)
<1>1. s \in Seq(VNodes(N))
  BY DEF Shape, Worklists
<1>2. k \in Nat /\ S \in SUBSET (1 .. k)
  BY <1>1 DEF Candidates
<1> HIDE DEF k, S, s
<1>3. PICK h : CheapestSteps(h, G, k, S)
  BY <1>2, CheapestUnfolds DEF S
<1> USE DEF CheapestSteps
<1> DEFINE Q == {i \in Nat : i =< k => h[i] \in S \cup {0} /\ \A j \in S : j =< i => h[i] # 0}
<1>4. 0 \in Q
  BY <1>2, <1>3
<1>5. ASSUME NEW i \in Q PROVE i + 1 \in Q
  <2> SUFFICES ASSUME i + 1 =< k PROVE h[i + 1] \in S \cup {0} /\ \A j \in S : j =< i + 1 => h[i + 1] # 0
    OBVIOUS
  <2>1. i + 1 \in 1 .. k /\ i + 1 - 1 = i /\ h[i] \in S \cup {0} /\ \A j \in S : j =< i => h[i] # 0
    BY <1>2
  <2>2. h[i + 1] = IF i + 1 \in S THEN (IF Better(G, i + 1, h[i]) THEN i + 1 ELSE h[i]) ELSE h[i]
    BY <1>3, <2>1
  <2>3. h[i] = 0 => Better(G, i + 1, h[i])
    BY DEF Better
  <2>4. \A j \in S : j \in Nat /\ j =< i + 1 /\ j # i + 1 => j =< i
    BY <1>2
  <2> QED BY <1>2, <2>1, <2>2, <2>3, <2>4
<1>6. \A i \in Nat : i \in Q
  <2>1. Q \in SUBSET Nat
    OBVIOUS
  <2> HIDE DEF Q
  <2> QED BY <1>4, <1>5, <2>1, NatSet
<1>7. h[k] \in S \cup {0} /\ \A j \in S : j =< k => h[k] # 0
  BY <1>2, <1>6
<1>8. PICK j \in S : j =< k
  BY <1>2 DEF S
<1>9. Cheapest(G) = h[k]
  BY <1>3
<1> QED BY <1>7, <1>8, <1>9 DEF S

\* Taking an entry, which the last one replaces, loses no other node.
LEMMA TakenRest ==
  ASSUME NEW V, NEW s \in Seq(V), NEW i \in DOMAIN s
  PROVE  Taken(s, i) \in Seq(V) /\ \A m \in ToSet(s) : m # s[i] => m \in ToSet(Taken(s, i))
<1> DEFINE k == Len(s)
           t == [s EXCEPT ![i] = s[k]]
<1>1. k \in Nat /\ i \in 1 .. k /\ k - 1 \in 0 .. k /\ k \in 1 .. k
  OBVIOUS
<1>2. Taken(s, i) = SubSeq(t, 1, k - 1)
  BY DEF Taken, Last
<1>3. t \in Seq(V) /\ Len(t) = k
  BY <1>1
<1>4. \A j \in 1 .. k : t[j] = IF j = i THEN s[k] ELSE s[j]
  BY <1>1
<1> HIDE DEF t
<1>5. /\ Taken(s, i) \in Seq(V) /\ DOMAIN Taken(s, i) = 1 .. k - 1
      /\ \A j \in 1 .. k - 1 : Taken(s, i)[j] = t[j]
  <2> HIDE DEF k
  <2> QED BY <1>1, <1>2, <1>3
<1>6. ASSUME NEW m \in ToSet(s), m # s[i] PROVE m \in ToSet(Taken(s, i))
  <2>1. PICK j \in 1 .. k : s[j] = m
    BY DEF ToSet
  <2>2. CASE j = k
    <3>1. i \in 1 .. k - 1
      BY <1>1, <1>6, <2>1, <2>2
    <3>2. Taken(s, i)[i] = m
      BY <1>1, <1>4, <1>5, <2>1, <2>2, <3>1
    <3> QED BY <1>5, <3>1, <3>2 DEF ToSet
  <2>3. CASE j # k
    <3>1. j \in 1 .. k - 1 /\ j # i
      BY <1>1, <1>6, <2>1, <2>3
    <3>2. Taken(s, i)[j] = m
      BY <1>1, <1>4, <1>5, <2>1, <3>1
    <3> QED BY <1>5, <3>1, <3>2 DEF ToSet
  <2> QED BY <2>2, <2>3
<1> QED BY <1>5, <1>6

\* irc_select_spill loses no edge and no node.
THEOREM SelectSpillSound ==
  ASSUME NEW G, NEW N, NEW P, Sound(G, N, P, 0)
  PROVE  Sound(irc_select_spill(G), N, P, 0)
<1> DEFINE w == "spill"
           s == G.lists[w]
           i == Cheapest(G)
           n == s[i]
           H == [G EXCEPT !.lists[w] = Taken(@, i)]
<1>1. w \in Worklists /\ Shape(G, N)
  BY DEF Worklists, Sound
<1>2. s \in Seq(VNodes(N))
  BY <1>1 DEF Shape
<1>3. CASE Candidates(G) = {}
  <2>1. \A m \in VNodes(N) : G.state[m] = w => m \notin ToSet(s)
    BY <1>3 DEF Candidates, ToSet
  <2> QED BY <1>1, <1>3, <2>1, EmptiedSound DEF irc_select_spill
<1>4. CASE Candidates(G) # {}
  <2>1. i \in DOMAIN s
    BY <1>1, <1>4, CheapestIsCandidate DEF Candidates
  <2>2. irc_select_spill(G) = Push(H, n)
    BY <1>4 DEF irc_select_spill
  <2> HIDE DEF i
  <2>3. Taken(s, i) \in Seq(VNodes(N)) /\ \A m \in ToSet(s) : m # n => m \in ToSet(Taken(s, i))
    BY <1>2, <2>1, TakenRest
  <2>4. H = [G EXCEPT !.lists[w] = Taken(s, i)]
    OBVIOUS
  <2>5. n \in VNodes(N)
    BY <1>2, <2>1
  <2> HIDE DEF n, s, H
  <2>6. Sound(H, N, P, n)
    BY <1>1, <2>3, <2>4, RelistedSound DEF s
  <2> QED BY <2>2, <2>5, <2>6, PushSound
<1> QED BY <1>3, <1>4

-----------------------------------------------------------------------------
(* Trying a copy. *)

\* The first entries of a sequence.
LEMMA Shortened ==
  ASSUME NEW X, NEW s \in Seq(X), NEW a \in 1 .. Len(s)
  PROVE  SubSeq(s, 1, a - 1) \in Seq(X) /\ Len(SubSeq(s, 1, a - 1)) = a - 1
<1>1. a - 1 \in 0 .. Len(s)
  OBVIOUS
<1> QED BY <1>1

\* The moves to try say nothing of edges and nodes.
LEMMA QueueLater ==
  ASSUME NEW G, NEW N, Shape(G, N), NEW q \in Seq(DOMAIN G.moves)
  PROVE  Later(G, [G EXCEPT !.queue = q], N)
<1> DEFINE H == [G EXCEPT !.queue = q]
<1>1. /\ DOMAIN H = Fields
      /\ H.alias = G.alias /\ H.list = G.list /\ H.stack = G.stack /\ H.color = G.color /\ H.spilled = G.spilled
      /\ H.crosses = G.crosses /\ H.of = G.of /\ H.moves = G.moves /\ H.state = G.state /\ H.lists = G.lists
      /\ H.queue = q
  BY DEF Shape, Fields
<1> HIDE DEF H
<1>2. \A n : On(G, n) => On(H, n)
  BY <1>1 DEF On
<1>3. H.moves \in Seq(Move(N)) /\ H.queue \in Seq(DOMAIN H.moves) /\ H.state \in [N -> States]
      /\ H.lists \in [Worklists -> Seq(VNodes(N))]
  BY <1>1 DEF Shape
<1>4. \A n \in VNodes(N), w \in Kept : H.state[n] = w <=> G.state[n] = w
  BY <1>1
<1>5. \A i \in DOMAIN G.moves : Open(H.moves[i]) => Open(G.moves[i])
  BY <1>1
<1> QED BY <1>1, <1>2, <1>3, <1>4, <1>5, Tuning DEF H

\* A move that is settled leaves the edges alone.
LEMMA SettledSame ==
  ASSUME NEW G, NEW N, Shape(G, N), NEW i \in DOMAIN G.moves, NEW w
  PROVE  Settled(G, i, w).alias = G.alias /\ Settled(G, i, w).list = G.list
BY DEF Settled, Shape, Fields

\* Whatever becomes of a move.
LEMMA TrySound ==
  ASSUME NEW G, NEW N, NEW P, Sound(G, N, P, 0), NEW i \in DOMAIN G.moves, Open(G.moves[i]),
         NEW u \in N, NEW v \in N, G.alias[u] = u, G.alias[v] = v
  PROVE  Sound(Try(G, i, u, v), N, P, 0)
<1>1. Shape(G, N) /\ N \subseteq Nat
  BY DEF Sound, Shape
<1>2. \A H : Sound(H, N, P, 0) => Shape(H, N)
  BY DEF Sound
<1>3. \A H : \A n \in N : Sound(H, N, P, 0) => Sound(irc_ready_for_simplify(H, n), N, P, 0)
  BY <1>2, ReadyLater, LaterSound
<1>4. \A H : \A n \in N : Sound(H, N, P, 0) => Sound(irc_enable_moves_for_node(H, n), N, P, 0)
  BY <1>2, EnableLater, LaterSound
<1>5. \A w \in MoveStates : Sound(Settled(G, i, w), N, P, 0)
  BY <1>1, SettledLater, LaterSound
<1> DEFINE C == Settled(G, i, "coalesced")
           frozen == Settled(G, i, "frozen")
           coalesced == irc_enable_moves_for_node(C, u)
           constrained == irc_enable_moves_for_node(irc_enable_moves_for_node(Settled(G, i, "constrained"), u), v)
           combined == irc_combine_nodes(C, u, v)
           active == Settled(G, i, "active")
<1>6. Sound(C, N, P, 0) /\ Sound(frozen, N, P, 0) /\ Sound(active, N, P, 0) /\ Sound(Settled(G, i, "constrained"), N, P, 0)
  BY <1>5 DEF MoveStates
<1>7. Sound(coalesced, N, P, 0) /\ Sound(constrained, N, P, 0)
  BY <1>4, <1>6
<1>8. ASSUME u # v, ~(v < FirstVReg), ~irc_is_adjacent(G, u, v) PROVE Sound(combined, N, P, 0)
  <2>1. v \in VNodes(N)
    BY <1>1, <1>8 DEF VNodes, FirstVReg
  <2>2. ~Listed(G, v, u)
    BY <1>8 DEF irc_is_adjacent, Near
  <2>3. C.alias = G.alias /\ C.list = G.list
    BY <1>1, SettledSame
  <2>4. ~Listed(C, v, u) /\ C.alias[u] = u /\ C.alias[v] = v
    BY <2>2, <2>3 DEF Listed
  <2> HIDE DEF C
  <2> QED BY <1>6, <1>8, <2>1, <2>4, CombineSound
<1>9. Sound(irc_ready_for_simplify(coalesced, u), N, P, 0)
  BY <1>3, <1>7
<1>10. Sound(irc_ready_for_simplify(irc_ready_for_simplify(frozen, u), v), N, P, 0)
  BY <1>3, <1>6
<1>11. Sound(irc_ready_for_simplify(irc_ready_for_simplify(constrained, u), v), N, P, 0)
  BY <1>3, <1>7
<1>12. u # v /\ ~(v < FirstVReg) /\ ~irc_is_adjacent(G, u, v) => Sound(irc_ready_for_simplify(combined, u), N, P, 0)
  BY <1>3, <1>8
<1> QED BY <1>6, <1>9, <1>10, <1>11, <1>12 DEF Try

\* irc_coalesce keeps apart what was kept apart, whatever it makes of the copy: when
\* one node comes to stand for another, it gets the edges of all nodes that one
\* stood for, and the node that goes stands for none.
THEOREM CoalesceSound ==
  ASSUME NEW G, NEW N, NEW P, Sound(G, N, P, 0)
  PROVE  Sound(irc_coalesce(G), N, P, 0)
<1>1. Shape(G, N) /\ N \subseteq Nat
  BY DEF Sound, Shape
<1>2. G.queue \in Seq(DOMAIN G.moves)
  BY <1>1 DEF Shape
<1>3. CASE LastOpen(G) = {}
  <2>1. irc_coalesce(G) = [G EXCEPT !.queue = <<>>]
    BY <1>3 DEF irc_coalesce
  <2>2. <<>> \in Seq(DOMAIN G.moves)
    OBVIOUS
  <2>3. Later(G, [G EXCEPT !.queue = <<>>], N)
    BY <1>1, <2>2, QueueLater
  <2> QED BY <2>1, <2>3, LaterSound
<1>4. CASE LastOpen(G) # {}
  <2> DEFINE a == Max(LastOpen(G))
             rest == SubSeq(G.queue, 1, a - 1)
             i == G.queue[a]
             H == [G EXCEPT !.queue = rest]
             x == H.alias[H.moves[i].dst]
             y == H.alias[H.moves[i].src]
  <2>1. a \in DOMAIN G.queue /\ a \in 1 .. Len(G.queue) /\ Len(G.queue) \in Nat /\ G.moves[G.queue[a]].state = "worklist"
    <3>1. LastOpen(G) \in SUBSET (1 .. Len(G.queue)) /\ Len(G.queue) \in Nat
      BY <1>2 DEF LastOpen
    <3>2. Max(LastOpen(G)) \in LastOpen(G)
      BY <1>4, <3>1, MaxIn
    <3>3. G.moves[G.queue[a]].state = "worklist"
      BY <3>2 DEF LastOpen
    <3> QED BY <1>2, <3>1, <3>2, <3>3
  <2>2. irc_coalesce(G) = TryMove(H, i)
    BY <1>4 DEF irc_coalesce
  <2> HIDE DEF a
  <2>10. Open(G.moves[i])
    BY <2>1 DEF Open
  <2>3. rest \in Seq(DOMAIN G.moves) /\ i \in DOMAIN G.moves
    <3>1. \A s \in Seq(DOMAIN G.moves) : \A b \in 1 .. Len(s) : SubSeq(s, 1, b - 1) \in Seq(DOMAIN G.moves)
      BY Shortened
    <3>2. G.queue[a] \in DOMAIN G.moves
      BY <1>2, <2>1
    <3> QED BY <1>2, <2>1, <3>1, <3>2
  <2> HIDE DEF rest, i
  <2>4. Later(G, H, N)
    BY <1>1, <2>3, QueueLater
  <2>5. Sound(H, N, P, 0) /\ Shape(H, N) /\ H.moves = G.moves
    <3>1. H.moves = G.moves
      BY <1>1 DEF Shape, Fields
    <3> HIDE DEF H
    <3> QED BY <2>4, <3>1, LaterSound DEF Later
  <2> HIDE DEF H
  <2>6. H.moves[i] \in Move(N) /\ i \in DOMAIN H.moves
    BY <2>3, <2>5 DEF Shape
  <2>7. x \in N /\ y \in N /\ H.alias[x] = x /\ H.alias[y] = y
    BY <2>5, <2>6 DEF Shape, Move
  <2>8. Sound(Try(H, i, y, x), N, P, 0) /\ Sound(Try(H, i, x, y), N, P, 0)
    <3> HIDE DEF x, y
    <3> QED BY <2>5, <2>6, <2>7, <2>10, TrySound
  <2>9. TryMove(H, i) = Try(H, i, y, x) \/ TryMove(H, i) = Try(H, i, x, y)
    BY DEF TryMove
  <2> HIDE DEF x, y
  <2> QED BY <2>2, <2>8, <2>9
<1> QED BY <1>3, <1>4

-----------------------------------------------------------------------------
(* Colours. *)

\* First gives a register of the list that is not taken, or none.
LEMMA FirstIsFree ==
  ASSUME NEW regs, NEW k \in Nat, DOMAIN regs = 1 .. k, NEW taken
  PROVE  First(regs, taken) = 0 \/ (First(regs, taken) \notin taken /\ \E i \in 1 .. k : First(regs, taken) = regs[i])
<1> DEFINE free == {i \in DOMAIN regs : regs[i] \notin taken}
<1>1. free # {} => Min(free) \in free
  <2>1. free \in SUBSET Nat
    OBVIOUS
  <2> HIDE DEF free
  <2> QED BY <2>1, MinOfNaturals
<1>2. First(regs, taken) = IF free = {} THEN 0 ELSE regs[Min(free)]
  BY DEF First
<1> DEFINE a == Min(free)
<1>3. free # {} => a \in 1 .. k /\ regs[a] \notin taken
  BY <1>1
<1> HIDE DEF free, a
<1> QED BY <1>2, <1>3 DEF a

\* ColorFor gives no register that a neighbour has.
LEMMA ColorForFree ==
  ASSUME NEW G, NEW n, NEW taken
  PROVE  ColorFor(G, n, taken) = 0 \/ ColorFor(G, n, taken) \notin taken
<1> DEFINE a == IF G.hint[n] \in taken THEN 0 ELSE G.hint[n]
           b == First(IF n \in G.crosses THEN CalleeSaved ELSE CallerSavedFree, taken)
           c == First(Allocatable, taken)
<1>1. ColorFor(G, n, taken) = First(<<a, b, c>>, {0})
  BY DEF ColorFor, FirstOf
<1>2. a = 0 \/ a \notin taken
  OBVIOUS
<1>3. CallerSavedFree \in Seq(1 .. 16) /\ CalleeSaved \in Seq(1 .. 16)
  BY RegistersAssumption
<1>4. Allocatable \in Seq(1 .. 16)
  BY <1>3, ConcatProperties DEF Allocatable
<1>5. \A regs \in Seq(1 .. 16) : First(regs, taken) = 0 \/ First(regs, taken) \notin taken
  BY FirstIsFree
<1>6. (b = 0 \/ b \notin taken) /\ (c = 0 \/ c \notin taken)
  BY <1>3, <1>4, <1>5
<1> HIDE DEF a, b, c
<1>7. DOMAIN <<a, b, c>> = 1 .. 3 /\ \A i \in 1 .. 3 : <<a, b, c>>[i] \in {a, b, c}
  OBVIOUS
<1>8. First(<<a, b, c>>, {0}) \in {0, a, b, c}
  <2> DEFINE s == <<a, b, c>>
  <2>1. DOMAIN s = 1 .. 3 /\ \A i \in 1 .. 3 : s[i] \in {a, b, c}
    BY <1>7
  <2> HIDE DEF s
  <2>2. First(s, {0}) = 0 \/ \E i \in 1 .. 3 : First(s, {0}) = s[i]
    BY <2>1, FirstIsFree
  <2> QED BY <2>1, <2>2 DEF s
<1> QED BY <1>1, <1>2, <1>6, <1>8

\* J comes of G by colouring nodes, from the last one on the stack to the one behind i.
Colouring(G, J, N, i) ==
  /\ DOMAIN J = Fields
  /\ J.alias = G.alias /\ J.list = G.list /\ J.spilled \in Seq(VNodes(N)) /\ DOMAIN J.color = N
  /\ J.spilled = <<>> =>
       /\ \A r \in Registers : J.color[r] = r
       /\ \A x, y \in N : x # y /\ Linked(G, x, y) => J.color[x] # J.color[y] \/ J.color[x] = 0 \/ J.color[y] = 0
       /\ \A j \in DOMAIN G.stack : i < j /\ G.alias[G.stack[j]] = G.stack[j] => J.color[G.stack[j]] # 0

\* Append makes a sequence that is not empty.
LEMMA AppendedNotEmpty ==
  ASSUME NEW X, NEW s \in Seq(X), NEW x \in X
  PROVE  Append(s, x) \in Seq(X) /\ Append(s, x) # <<>>
<1>1. Append(s, x) \in Seq(X) /\ Len(Append(s, x)) = Len(s) + 1 /\ Len(s) \in Nat
  OBVIOUS
<1>2. Len(<<>>) = 0
  OBVIOUS
<1> QED BY <1>1, <1>2

\* Once a node is spilled nothing more is claimed.
LEMMA SpilledColouring ==
  ASSUME NEW G, NEW J, NEW N, NEW i, Colouring(G, J, N, i), NEW n \in VNodes(N)
  PROVE  \A m : LET H == Spilled(J, n) IN
           Colouring(G, H, N, m) /\ H.spilled # <<>>
<1> DEFINE H == Spilled(J, n)
<1>1. /\ DOMAIN H = Fields
      /\ H.alias = G.alias /\ H.list = G.list /\ DOMAIN H.color = N /\ H.spilled = Append(J.spilled, n)
  BY DEF Spilled, Colouring, Fields
<1> HIDE DEF H
<1>2. H.spilled \in Seq(VNodes(N)) /\ H.spilled # <<>>
  BY <1>1, AppendedNotEmpty DEF Colouring
<1> QED BY <1>1, <1>2 DEF H, Colouring

\* Nor when a temporary takes the register of a node that is spilled for it.
LEMMA EvictingColouring ==
  ASSUME NEW G, NEW J, NEW N, Shape(G, N), NEW i, Colouring(G, J, N, i), NEW n \in VNodes(N)
  PROVE  \A m : LET H == Evicting(J, n, Victims(J, n)) IN
           Colouring(G, H, N, m) /\ H.spilled # <<>>
<1> DEFINE victims == Victims(J, n)
<1>1. CASE victims = {}
  BY <1>1, SpilledColouring DEF Evicting
<1>2. CASE victims # {}
  <2> DEFINE m == J.alias[J.list[n][Min(victims)]]
             S == Spilled(J, m)
             H == Evicting(J, n, victims)
  <2>1. H = Painted(S, n, J.color[m])
    BY <1>2 DEF Evicting
  <2>2. J.list[n] \in Seq(N) /\ \A a \in N : J.alias[a] \in N
    BY DEF Colouring, Shape, VNodes
  <2>3. victims \in SUBSET Nat /\ \A j \in victims : J.alias[J.list[n][j]] \in VNodes(N)
    BY <2>2 DEF Victims, VNodes
  <2>4. Min(victims) \in victims
    <3> HIDE DEF victims
    <3> QED BY <1>2, <2>3, MinOfNaturals
  <2>5. m \in VNodes(N)
    BY <2>3, <2>4
  <2> HIDE DEF m, H
  <2>6. \A j : Colouring(G, S, N, j) /\ S.spilled # <<>>
    BY <2>5, SpilledColouring
  <2> HIDE DEF S
  <2>7. /\ DOMAIN H = Fields
        /\ H.alias = S.alias /\ H.list = S.list /\ DOMAIN H.color = DOMAIN S.color /\ H.spilled = S.spilled
    BY <2>1, <2>6 DEF Painted, Colouring, Fields
  <2>8. \A j : Colouring(G, H, N, j) /\ H.spilled # <<>>
    BY <2>6, <2>7 DEF Colouring
  <2> QED BY <2>8 DEF H
<1> QED BY <1>1, <1>2

\* A register no neighbour has keeps the colouring proper.
LEMMA PaintedColouring ==
  ASSUME NEW G, NEW J, NEW N, Shape(G, N), NEW i \in DOMAIN G.stack, Colouring(G, J, N, i),
         NEW r, r # 0, r \notin Excluded(J, G.stack[i])
  PROVE  Colouring(G, Painted(J, G.stack[i], r), N, i - 1)
<1> DEFINE n == G.stack[i]
           H == Painted(J, n, r)
<1>1. G.stack \in Seq(VNodes(N)) /\ N \subseteq Nat /\ Registers \subseteq N
  BY DEF Shape
<1>2. n \in N /\ n >= FirstVReg /\ i \in Nat
  BY <1>1 DEF VNodes
<1>3. /\ DOMAIN H = Fields
      /\ H.alias = G.alias /\ H.list = G.list /\ DOMAIN H.color = N /\ H.spilled = J.spilled
      /\ H.color = [J.color EXCEPT ![n] = r]
  BY DEF Painted, Colouring, Fields
<1> HIDE DEF H
<1>4. H.color[n] = r /\ \A m \in N \ {n} : H.color[m] = J.color[m]
  BY <1>2, <1>3 DEF Colouring
<1> HIDE DEF n
<1> SUFFICES ASSUME J.spilled = <<>>
             PROVE  /\ \A x \in Registers : H.color[x] = x
                    /\ \A x, y \in N : x # y /\ Linked(G, x, y)
                          => H.color[x] # H.color[y] \/ H.color[x] = 0 \/ H.color[y] = 0
                    /\ \A j \in DOMAIN G.stack : i - 1 < j /\ G.alias[G.stack[j]] = G.stack[j]
                          => H.color[G.stack[j]] # 0
  <2>1. H.spilled \in Seq(VNodes(N))
    BY <1>3 DEF Colouring
  <2> QED BY <1>3, <2>1 DEF Colouring, H, n
<1>5. \A x \in Registers : H.color[x] = x
  <2> SUFFICES ASSUME NEW x \in Registers PROVE H.color[x] = x
    OBVIOUS
  <2>1. x \in N /\ x # n
    <3>1. x \in N /\ x \in 1 .. 16
      BY <1>1 DEF Registers
    <3>2. n \in Nat /\ n >= 17
      BY <1>1, <1>2 DEF FirstVReg
    <3> QED BY <3>1, <3>2
  <2> QED BY <1>4, <2>1 DEF Colouring
<1>6. ASSUME NEW y \in N, Listed(G, n, y) PROVE J.color[y] # r
  <2>1. PICK a \in DOMAIN G.list[n] : G.alias[G.list[n][a]] = y
    BY <1>6 DEF Listed
  <2>2. J.list[n][a] \in ToSet(J.list[n]) /\ J.alias[J.list[n][a]] = y
    BY <2>1 DEF Colouring, ToSet
  <2>3. J.color[y] \in Excluded(J, n)
    BY <2>2 DEF Excluded
  <2> QED BY <2>3 DEF n
<1>7. ASSUME NEW x \in N, NEW y \in N, x # y, Linked(G, x, y)
      PROVE H.color[x] # H.color[y] \/ H.color[x] = 0 \/ H.color[y] = 0
  <2>1. CASE x = n
    <3>1. Listed(G, n, y)
      BY <1>2, <1>7, <2>1 DEF Linked
    <3> QED BY <1>4, <1>6, <1>7, <2>1, <3>1
  <2>2. CASE y = n
    <3>1. Listed(G, n, x)
      BY <1>2, <1>7, <2>2 DEF Linked
    <3> QED BY <1>4, <1>6, <1>7, <2>2, <3>1
  <2>3. CASE x # n /\ y # n
    BY <1>4, <1>7, <2>3 DEF Colouring
  <2> QED BY <2>1, <2>2, <2>3
<1>8. ASSUME NEW j \in DOMAIN G.stack, i - 1 < j, G.alias[G.stack[j]] = G.stack[j]
      PROVE H.color[G.stack[j]] # 0
  <2>1. G.stack[j] \in N /\ j \in Nat
    BY <1>1 DEF VNodes
  <2>2. CASE G.stack[j] = n
    BY <1>4, <2>2
  <2>3. CASE G.stack[j] # n
    <3>1. i < j
      BY <1>2, <1>8, <2>1, <2>3 DEF n
    <3> QED BY <1>4, <1>8, <2>1, <2>3, <3>1 DEF Colouring
  <2> QED BY <2>2, <2>3
<1> QED BY <1>5, <1>7, <1>8

\* One node from the stack is given a register, or spilled.
LEMMA AssignColouring ==
  ASSUME NEW G, NEW J, NEW N, Shape(G, N), NEW i \in DOMAIN G.stack, Colouring(G, J, N, i)
  PROVE  Colouring(G, AssignColor(G.stack[i], J), N, i - 1)
<1> DEFINE n == G.stack[i]
           r == ColorFor(J, n, Excluded(J, n))
<1>1. G.stack \in Seq(VNodes(N))
  BY DEF Shape
<1>2. n \in VNodes(N) /\ i \in Nat
  BY <1>1
<1>3. CASE J.alias[n] # n
  <2>1. AssignColor(n, J) = J
    BY <1>3 DEF AssignColor
  <2>2. \A j \in DOMAIN G.stack : i - 1 < j /\ G.alias[G.stack[j]] = G.stack[j] => i < j
    BY <1>1, <1>2, <1>3 DEF Colouring
  <2> QED BY <2>1, <2>2 DEF Colouring
<1>4. CASE J.alias[n] = n
  <2>1. AssignColor(n, J) = Assign(J, n, r)
    BY <1>4 DEF AssignColor
  <2>2. r = 0 \/ r \notin Excluded(J, n)
    BY ColorForFree
  <2>3. CASE r # 0
    <3>1. Assign(J, n, r) = Painted(J, n, r)
      BY <2>3 DEF Assign
    <3> HIDE DEF r
    <3> QED BY <2>1, <2>2, <2>3, <3>1, PaintedColouring
  <2>4. CASE r = 0
    <3>1. Assign(J, n, r) \in {Evicting(J, n, Victims(J, n)), Spilled(J, n)}
      BY <2>4 DEF Assign
    <3> HIDE DEF r, n
    <3>2. Colouring(G, Evicting(J, n, Victims(J, n)), N, i - 1) /\ Colouring(G, Spilled(J, n), N, i - 1)
      BY <1>2, EvictingColouring, SpilledColouring
    <3> QED BY <2>1, <3>1, <3>2 DEF n
  <2> QED BY <2>3, <2>4
<1> QED BY <1>3, <1>4

\* All nodes from the stack are.
LEMMA ColouredAll ==
  ASSUME NEW G, NEW N, NEW P, Sound(G, N, P, 0)
  PROVE  Colouring(G, irc_assign_colors(G), N, 0)
<1> DEFINE k == Len(G.stack)
           J == [G EXCEPT !.stack = <<>>]
<1>1. Shape(G, N) /\ N \subseteq Nat /\ Registers \subseteq N /\ G.color = Colors(N) /\ G.spilled = <<>>
  BY DEF Sound, Shape
<1>2. G.stack \in Seq(VNodes(N))
  BY <1>1 DEF Shape
<1>3. k \in Nat /\ DOMAIN G.stack = 1 .. k
  BY <1>2
<1> HIDE DEF k
<1>4. PICK h : AssignSteps(h, G, k)
  BY <1>3, AssignUnfolds
<1> USE DEF AssignSteps
<1>5. Colouring(G, J, N, k)
  <2>1. /\ DOMAIN J = Fields
        /\ J.alias = G.alias /\ J.list = G.list /\ J.spilled = <<>> /\ J.color = Colors(N)
    BY <1>1 DEF Shape, Fields
  <2> HIDE DEF J
  <2>2. \A r \in Registers : J.color[r] = r
    BY <1>1, <2>1 DEF Colors, Registers, FirstVReg
  <2>3. \A x, y \in N : x # y => J.color[x] # J.color[y] \/ J.color[x] = 0 \/ J.color[y] = 0
    BY <1>1, <2>1 DEF Colors
  <2>4. \A j \in DOMAIN G.stack : ~(k < j)
    BY <1>3
  <2>5. <<>> \in Seq(VNodes(N)) /\ DOMAIN J.color = N
    BY <2>1 DEF Colors
  <2> QED BY <2>1, <2>2, <2>3, <2>4, <2>5 DEF Colouring
<1> HIDE DEF J
<1> DEFINE Q == {a \in Nat : a =< k => Colouring(G, h[k - a], N, k - a)}
<1>6. 0 \in Q
  BY <1>3, <1>4, <1>5 DEF J
<1>7. ASSUME NEW a \in Q PROVE a + 1 \in Q
  <2> SUFFICES ASSUME a + 1 =< k PROVE Colouring(G, h[k - (a + 1)], N, k - (a + 1))
    OBVIOUS
  <2>1. k - a \in 1 .. k /\ k - (a + 1) = k - a - 1 /\ Colouring(G, h[k - a], N, k - a)
    BY <1>3
  <2>2. h[k - a - 1] = AssignColor(G.stack[k - a], h[k - a])
    BY <1>4, <2>1
  <2> QED BY <1>1, <1>3, <2>1, <2>2, AssignColouring
<1>8. \A a \in Nat : a \in Q
  <2>1. Q \in SUBSET Nat
    OBVIOUS
  <2> HIDE DEF Q
  <2> QED BY <1>6, <1>7, <2>1, NatSet
<1>9. k \in Q /\ k - k = 0
  BY <1>3, <1>8
<1>10. Colouring(G, h[0], N, 0)
  BY <1>3, <1>9
<1> QED BY <1>4, <1>10

\* Once nothing is left to reduce, and no node found no register.
THEOREM ColorsApart ==
  ASSUME NEW G, NEW N, NEW P, Sound(G, N, P, 0), 0 \notin N, ~Working(G), irc_assign_colors(G).spilled = <<>>
  PROVE  LET H == irc_assign_colors(G)
         IN /\ H.alias = G.alias /\ \A r \in Registers : ColorOf(H, r) = r
            /\ \A p \in P : ColorOf(H, p[1]) # ColorOf(H, p[2])
<1> DEFINE H == irc_assign_colors(G)
<1>1. Colouring(G, H, N, 0)
  BY ColouredAll
<1>2. Shape(G, N) /\ N \subseteq Nat /\ Registers \subseteq N
  BY DEF Sound, Shape
<1> HIDE DEF H
<1>3. H.alias = G.alias /\ H.spilled = <<>>
  BY <1>1 DEF Colouring, H
<1>4. ASSUME NEW x \in N, G.alias[x] = x PROVE H.color[x] # 0
  <2>1. CASE x >= FirstVReg
    <3>1. On(G, x)
      BY <1>4, <2>1 DEF Sound, VNodes, FirstVReg
    <3>2. \A w \in Worklists : G.lists[w] = <<>>
      BY <1>2 DEF Working, Shape
    <3>3. \A w \in Worklists : x \notin ToSet(G.lists[w])
      BY <3>2 DEF ToSet
    <3>4. x \in ToSet(G.stack)
      BY <3>1, <3>3 DEF On
    <3>5. PICK j \in DOMAIN G.stack : G.stack[j] = x
      BY <3>4 DEF ToSet
    <3>6. 0 < j
      BY <1>2, <3>5 DEF Shape
    <3> QED BY <1>1, <1>3, <1>4, <3>5, <3>6 DEF Colouring
  <2>2. CASE ~(x >= FirstVReg)
    <3>1. x \in Registers
      <4>1. x \in Nat /\ x # 0 /\ ~(x >= 17)
        BY <1>2, <2>2 DEF FirstVReg
      <4> QED BY <4>1 DEF Registers
    <3>2. H.color[x] = x
      BY <1>1, <1>3, <3>1 DEF Colouring
    <3> QED BY <3>2
  <2> QED BY <2>1, <2>2
<1>5. \A r \in Registers : ColorOf(H, r) = r
  <2> SUFFICES ASSUME NEW r \in Registers PROVE ColorOf(H, r) = r
    OBVIOUS
  <2>1. r \in N /\ r < FirstVReg
    BY <1>2 DEF Registers, FirstVReg
  <2>2. G.alias[r] = r
    BY <1>2, <2>1 DEF Shape
  <2> QED BY <1>1, <1>3, <2>2 DEF ColorOf, Colouring
<1>6. ASSUME NEW p \in P PROVE ColorOf(H, p[1]) # ColorOf(H, p[2])
  <2> DEFINE x == G.alias[p[1]]
             y == G.alias[p[2]]
  <2>1. p[1] \in N /\ p[2] \in N /\ Linked(G, x, y)
    BY DEF Sound, Held
  <2>2. x \in N /\ y \in N /\ G.alias[x] = x /\ G.alias[y] = y /\ x # y
    BY <1>2, <2>1 DEF Shape, Linked
  <2>3. ColorOf(H, p[1]) = H.color[x] /\ ColorOf(H, p[2]) = H.color[y]
    BY <1>3 DEF ColorOf
  <2> HIDE DEF x, y
  <2>4. H.color[x] # 0 /\ H.color[y] # 0
    BY <1>4, <2>2
  <2>5. H.color[x] # H.color[y] \/ H.color[x] = 0 \/ H.color[y] = 0
    BY <1>1, <1>3, <2>1, <2>2 DEF Colouring
  <2> QED BY <2>3, <2>4, <2>5
<1> QED BY <1>3, <1>5, <1>6 DEF H

-----------------------------------------------------------------------------
(* What is live is virtual registers of the function. *)

\* The operands an instruction reads.
LEMMA UsedOperands ==
  ASSUME NEW inst, NEW vregs, NEW blocks, ProperInst(inst, vregs, blocks)
  PROVE  /\ ToSet(Uses(inst)) = (IF inst.op \in ReadsDst THEN {inst.dst} ELSE {}) \cup {inst.src1, inst.src2} \cup ToSet(inst.args)
         /\ Uses(inst) \in Seq(ToSet(Uses(inst)))
<1> DEFINE A == IF inst.op \in ReadsDst THEN <<inst.dst>> ELSE <<>>
           B == <<inst.src1, inst.src2>>
           C == inst.args
           X == {inst.dst, inst.src1, inst.src2} \cup ToSet(inst.args)
<1>1. Uses(inst) = A \o B \o C
  BY DEF Uses, ProperInst
<1>2. C \in Seq(ToSet(C)) /\ ToSet(C) \subseteq X
  BY DEF ProperInst, IsSeq
<1>3. A \in Seq(X) /\ ToSet(A) = (IF inst.op \in ReadsDst THEN {inst.dst} ELSE {})
  <2>1. <<inst.dst>> \in Seq(X) /\ <<>> \in Seq(X)
    OBVIOUS
  <2>2. ToSet(<<inst.dst>>) = {inst.dst} /\ ToSet(<<>>) = {}
    BY Shorts
  <2> QED BY <2>1, <2>2
<1>4. B \in Seq(X) /\ ToSet(B) = {inst.src1, inst.src2}
  <2>1. B \in Seq(X)
    OBVIOUS
  <2>2. ToSet(B) = {inst.src1, inst.src2}
    BY Shorts
  <2> QED BY <2>1, <2>2
<1> HIDE DEF A, B, C, X
<1>5. C \in Seq(X)
  BY <1>2, SeqAmong
<1>6. A \o B \in Seq(X) /\ ToSet(A \o B) = ToSet(A) \cup ToSet(B)
  BY <1>3, <1>4, Joint
<1>7. Uses(inst) \in Seq(X) /\ ToSet(Uses(inst)) = ToSet(A) \cup ToSet(B) \cup ToSet(C)
  <2> DEFINE D == A \o B
  <2>1. D \in Seq(X)
    BY <1>6
  <2>2. Uses(inst) = D \o C
    BY <1>1
  <2> HIDE DEF D
  <2>3. D \o C \in Seq(X) /\ ToSet(D \o C) = ToSet(D) \cup ToSet(C)
    BY <1>5, <2>1, Joint
  <2> QED BY <1>6, <2>2, <2>3 DEF D
<1>8. Uses(inst) \in Seq(ToSet(Uses(inst)))
  <2> DEFINE Y == ToSet(Uses(inst))
             s == Uses(inst)
  <2>1. s \in Seq(X) /\ ToSet(s) \subseteq Y
    BY <1>7
  <2> HIDE DEF Y, s
  <2>2. s \in Seq(Y)
    BY <2>1, SeqAmong
  <2> QED BY <2>2 DEF Y, s
<1> QED BY <1>3, <1>4, <1>7, <1>8 DEF C

\* The nodes of a function, and that of an operand.
LEMMA ProperNodes ==
  ASSUME NEW f, WellFormed(f)
  PROVE  /\ Nodes(f) = 1 .. FirstVReg + f.vregs - 1 /\ FirstVReg + f.vregs - 1 \in Nat
         /\ \A o : ProperOperand(o, f.vregs) => NodeOf(o) \in VNodes(Nodes(f)) \cup {0}
<1>1. f.vregs \in Nat
  BY DEF WellFormed
<1>2. ASSUME NEW o, ProperOperand(o, f.vregs) PROVE NodeOf(o) \in VNodes(Nodes(f)) \cup {0}
  <2>1. CASE IsVReg(o)
    <3>1. o.id \in 0 .. f.vregs - 1
      BY <1>2, <2>1 DEF ProperOperand
    <3>2. NodeOf(o) = FirstVReg + o.id
      BY <2>1 DEF NodeOf, IsVReg
    <3> QED BY <1>1, <3>1, <3>2 DEF VNodes, Nodes, FirstVReg
  <2>2. CASE ~IsVReg(o)
    <3>1. NodeOf(o) = 0
      BY <1>2, <2>2 DEF NodeOf, ProperOperand
    <3> QED BY <3>1
  <2> QED BY <2>1, <2>2
<1> QED BY <1>1, <1>2 DEF Nodes, FirstVReg

\* An instruction reads and writes virtual registers of the function.
LEMMA ProperUses ==
  ASSUME NEW f, WellFormed(f), NEW inst, ProperInst(inst, f.vregs, Blocks(f))
  PROVE  UsedBy(inst) \subseteq VNodes(Nodes(f)) /\ DefinedBy(inst) \in VNodes(Nodes(f)) \cup {0}
<1>1. \A o \in ToSet(Uses(inst)) : ProperOperand(o, f.vregs)
  BY UsedOperands DEF ProperInst
<1>2. ProperOperand(inst.dst, f.vregs)
  BY DEF ProperInst
<1> QED BY <1>1, <1>2, ProperNodes DEF UsedBy, DefinedBy

\* Walking back, nothing else becomes live.
LEMMA LiveStepsIn ==
  ASSUME NEW f, WellFormed(f), NEW b \in Blocks(f), NEW V, VNodes(Nodes(f)) \subseteq V, NEW live \in SUBSET V,
         NEW k \in Nat, DOMAIN f.code[b] = 1 .. k, NEW h, LiveSteps(h, live, f.code[b], k)
  PROVE  \A i \in 0 .. k : h[i] \in SUBSET V
<1> USE DEF LiveSteps
<1> DEFINE Q == {a \in Nat : a =< k => h[k - a] \in SUBSET V}
<1>1. 0 \in Q
  OBVIOUS
<1>2. ASSUME NEW a \in Q PROVE a + 1 \in Q
  <2> SUFFICES ASSUME a + 1 =< k PROVE h[k - (a + 1)] \in SUBSET V
    OBVIOUS
  <2>1. k - a \in 1 .. k /\ k - (a + 1) = k - a - 1 /\ h[k - a] \in SUBSET V
    OBVIOUS
  <2> DEFINE inst == f.code[b][k - a]
  <2>2. h[k - a - 1] = LiveBefore(inst, h[k - a])
    BY <2>1
  <2>3. ProperInst(inst, f.vregs, Blocks(f))
    BY <2>1 DEF WellFormed, ToSet
  <2> HIDE DEF inst
  <2>4. UsedBy(inst) \subseteq V
    BY <2>3, ProperUses
  <2> QED BY <2>1, <2>2, <2>4 DEF LiveBefore
<1>3. \A a \in Nat : a \in Q
  <2>1. Q \in SUBSET Nat
    OBVIOUS
  <2> HIDE DEF Q
  <2> QED BY <1>1, <1>2, <2>1, NatSet
<1>4. ASSUME NEW i \in 0 .. k PROVE h[i] \in SUBSET V
  <2>1. k - i \in Nat /\ k - i =< k /\ k - (k - i) = i
    OBVIOUS
  <2> QED BY <1>3, <2>1
<1> QED BY <1>4

\* The places in the code of a block.
LEMMA CodeLen ==
  ASSUME NEW f, WellFormed(f), NEW b \in Blocks(f)
  PROVE  Len(f.code[b]) \in Nat /\ DOMAIN f.code[b] = 1 .. Len(f.code[b])
BY DEF WellFormed, IsSeq

\* What is live at the start of a block.
LEMMA LiveAtStartIn ==
  ASSUME NEW f, WellFormed(f), NEW b \in Blocks(f), NEW V, VNodes(Nodes(f)) \subseteq V, NEW live \in SUBSET V
  PROVE  LiveAtStart(f.code[b], live) \in SUBSET V
<1> DEFINE k == Len(f.code[b])
<1>1. k \in Nat /\ DOMAIN f.code[b] = 1 .. k
  BY CodeLen
<1> HIDE DEF k
<1>2. PICK h : LiveSteps(h, live, f.code[b], k)
  BY <1>1, LiveUnfolds
<1>3. h[0] \in SUBSET V
  <2>1. \A i \in 0 .. k : h[i] \in SUBSET V
    BY <1>1, <1>2, LiveStepsIn
  <2> QED BY <1>1, <2>1
<1> QED BY <1>2, <1>3 DEF LiveSteps

\* More that is live behind leaves more live before.
LEMMA LiveAtStartGrows ==
  ASSUME NEW f, WellFormed(f), NEW b \in Blocks(f), NEW less, NEW more, less \subseteq more
  PROVE  LiveAtStart(f.code[b], less) \subseteq LiveAtStart(f.code[b], more)
<1> DEFINE k == Len(f.code[b])
<1>1. k \in Nat /\ DOMAIN f.code[b] = 1 .. k
  BY CodeLen
<1> HIDE DEF k
<1>2. PICK h : LiveSteps(h, less, f.code[b], k)
  BY <1>1, LiveUnfolds
<1>3. PICK j : LiveSteps(j, more, f.code[b], k)
  BY <1>1, LiveUnfolds
<1> USE DEF LiveSteps
<1> DEFINE Q == {a \in Nat : a =< k => h[k - a] \subseteq j[k - a]}
<1>4. 0 \in Q
  BY <1>1, <1>2, <1>3
<1>5. ASSUME NEW a \in Q PROVE a + 1 \in Q
  <2> SUFFICES ASSUME a + 1 =< k PROVE h[k - (a + 1)] \subseteq j[k - (a + 1)]
    OBVIOUS
  <2>1. k - a \in 1 .. k /\ k - (a + 1) = k - a - 1 /\ h[k - a] \subseteq j[k - a]
    BY <1>1
  <2>2. h[k - a - 1] = LiveBefore(f.code[b][k - a], h[k - a]) /\ j[k - a - 1] = LiveBefore(f.code[b][k - a], j[k - a])
    BY <1>2, <1>3, <2>1
  <2> QED BY <2>1, <2>2 DEF LiveBefore
<1>6. \A a \in Nat : a \in Q
  <2>1. Q \in SUBSET Nat
    OBVIOUS
  <2> HIDE DEF Q
  <2> QED BY <1>4, <1>5, <2>1, NatSet
<1>7. k \in Q /\ k - k = 0
  BY <1>1, <1>6
<1>8. h[0] \subseteq j[0]
  BY <1>1, <1>7
<1> QED BY <1>2, <1>3, <1>8

\* Control goes on in a block that is laid out.
LEMMA SuccessorsPlaced ==
  ASSUME NEW f, WellFormed(f), NEW b \in Blocks(f)
  PROVE  ToSet(Successors(f, b)) \subseteq Blocks(f)
<1> DEFINE term == LastInst(f, b)
           k == Len(f.code[b])
           next == NextBlock(f, b)
<1>1. f.code[b] = <<>> => term = Nop
  BY DEF LastInst
<1>2. f.code[b] # <<>> => ProperInst(term, f.vregs, Blocks(f))
  <2> SUFFICES ASSUME f.code[b] # <<>> PROVE ProperInst(term, f.vregs, Blocks(f))
    OBVIOUS
  <2>1. f.code[b] \in Seq(ToSet(f.code[b]))
    BY DEF WellFormed, IsSeq
  <2>2. k \in DOMAIN f.code[b]
    BY <2>1
  <2>3. term = f.code[b][k]
    BY DEF LastInst, Last
  <2> QED BY <2>2, <2>3 DEF WellFormed, ToSet
<1>3. next = NoBlock \/ next \in Blocks(f)
  <2>1. f.order \in Seq(DOMAIN f.code)
    BY DEF WellFormed
  <2>2. PICK i \in DOMAIN f.order : f.order[i] = b
    BY DEF Blocks, ToSet
  <2>3. Position(f, b) \in DOMAIN f.order
    BY <2>2 DEF Position
  <2>4. Position(f, b) < Len(f.order) => Position(f, b) + 1 \in DOMAIN f.order
    BY <2>1, <2>3
  <2> QED BY <2>4 DEF NextBlock, Blocks, ToSet
<1>4. \A x, y : ToSet(<<>>) = {} /\ ToSet(<<x>>) = {x} /\ ToSet(<<x, y>>) = {x, y}
  BY SeqOfItself
<1>5. Nop.op = "NOP"
  BY DEF Nop, Inst
<1>6. Successors(f, b) =
        CASE term.op = "JMP" -> <<term.dst.id>>
          [] term.op = "BR" -> IF term.src1.id = term.src2.id THEN <<term.src1.id>> ELSE <<term.src1.id, term.src2.id>>
          [] term.op \in {"RET"} \cup TailCalls -> <<>>
          [] OTHER -> IF next = NoBlock THEN <<>> ELSE <<next>>
  BY DEF Successors
<1> HIDE DEF term, next
<1>7. CASE term.op = "JMP"
  <2>1. Successors(f, b) = <<term.dst.id>> /\ term.dst.id \in Blocks(f)
    BY <1>1, <1>2, <1>5, <1>6, <1>7 DEF ProperInst, TailCalls
  <2> QED BY <1>4, <2>1
<1>8. CASE term.op = "BR"
  <2>1. term.src1.id \in Blocks(f) /\ term.src2.id \in Blocks(f)
    BY <1>1, <1>2, <1>5, <1>8 DEF ProperInst
  <2>2. Successors(f, b) \in {<<term.src1.id>>, <<term.src1.id, term.src2.id>>}
    BY <1>6, <1>8 DEF TailCalls
  <2> QED BY <1>4, <2>1, <2>2
<1>9. CASE term.op \notin {"JMP", "BR"}
  <2>1. Successors(f, b) = <<>> \/ (next # NoBlock /\ Successors(f, b) = <<next>>)
    BY <1>6, <1>9
  <2> QED BY <1>3, <1>4, <2>1
<1> QED BY <1>7, <1>8, <1>9

-----------------------------------------------------------------------------
(* Liveness settles. *)

\* What is live in each block, of the nodes V.
Among(f, V) == [Blocks(f) -> SUBSET V]

\* What is live at the end of a block.
LEMMA LiveOutIn ==
  ASSUME NEW f, WellFormed(f), NEW V, NEW in \in Among(f, V), NEW b \in Blocks(f)
  PROVE  LiveOut(f, in, b) \in SUBSET V
<1>1. \A s \in ToSet(Successors(f, b)) : in[s] \in SUBSET V
  BY SuccessorsPlaced DEF Among
<1> QED BY <1>1 DEF LiveOut

\* Every register of the program may be live, and no other node has to be.
LEMMA FlowedIn ==
  ASSUME NEW f, WellFormed(f), NEW V, VNodes(Nodes(f)) \subseteq V, NEW in \in Among(f, V)
  PROVE  Flowed(f, in) \in Among(f, V)
<1>1. \A b \in Blocks(f) : LiveAtStart(f.code[b], LiveOut(f, in, b)) \in SUBSET V
  BY LiveOutIn, LiveAtStartIn
<1> QED BY <1>1 DEF Flowed, Among

\* What liveness is sought among has more nodes than may become live.
LEMMA LivesAmong ==
  ASSUME NEW f, WellFormed(f)
  PROVE  /\ VNodes(Nodes(f)) \subseteq Nodes(f)
         /\ Lives(f) = Among(f, Nodes(f)) /\ Among(f, VNodes(Nodes(f))) \subseteq Lives(f)
<1>1. VNodes(Nodes(f)) \subseteq Nodes(f)
  BY DEF VNodes
<1> QED BY <1>1 DEF Lives, Among

\* What flows back grows with what is live.
LEMMA FlowedGrows ==
  ASSUME NEW f, WellFormed(f), NEW less, NEW more,
         \A b \in Blocks(f) : less[b] \subseteq more[b]
  PROVE  \A b \in Blocks(f) : Flowed(f, less)[b] \subseteq Flowed(f, more)[b]
<1> SUFFICES ASSUME NEW b \in Blocks(f) PROVE Flowed(f, less)[b] \subseteq Flowed(f, more)[b]
  OBVIOUS
<1>1. \A s \in ToSet(Successors(f, b)) : less[s] \subseteq more[s]
  BY SuccessorsPlaced
<1>2. LiveOut(f, less, b) \subseteq LiveOut(f, more, b)
  BY <1>1 DEF LiveOut
<1> QED BY <1>2, LiveAtStartGrows DEF Flowed

\* The function that compute_liveness defines.
Settling(f, s) == s = [in \in Lives(f) |-> LET next == Flowed(f, in) IN IF next = in THEN in ELSE s[next]]

\* What flows back until it is all: the fixed point that is reached, if one is.
LEMMA SettlingExists ==
  ASSUME NEW f, WellFormed(f)
  PROVE  \E s : Settling(f, s)
<1> DEFINE L == Lives(f)
           Closed(C) == \A y \in C : Flowed(f, y) \in C
           Reach(x) == {y \in L : \A C \in SUBSET L : x \in C /\ Closed(C) => y \in C}
           Fixed(x) == {y \in Reach(x) : Flowed(f, y) = y}
           s == [x \in L |-> CHOOSE y : y \in Fixed(x)]
<1>1. \A x \in L : Flowed(f, x) \in L
  BY FlowedIn, LivesAmong
<1>2. ASSUME NEW x \in L, Flowed(f, x) = x PROVE Fixed(x) = {x}
  <2>1. {x} \in SUBSET L /\ Closed({x})
    BY <1>2
  <2>2. \A y \in Reach(x) : y \in {x}
    BY <2>1
  <2>3. x \in Reach(x)
    OBVIOUS
  <2> QED BY <1>2, <2>2, <2>3
<1>3. ASSUME NEW x \in L, Flowed(f, x) # x PROVE Fixed(x) = Fixed(Flowed(f, x))
  <2> DEFINE next == Flowed(f, x)
  <2>1. next \in L
    BY <1>1
  <2>2. ASSUME NEW y \in Fixed(next) PROVE y \in Fixed(x)
    <3>1. \A C \in SUBSET L : x \in C /\ Closed(C) => next \in C /\ Closed(C)
      OBVIOUS
    <3> QED BY <3>1
  <2>3. ASSUME NEW y \in Fixed(x) PROVE y \in Fixed(next)
    <3>1. y # x /\ y \in L /\ Flowed(f, y) = y
      BY <1>3
    <3>2. ASSUME NEW C \in SUBSET L, next \in C, Closed(C) PROVE y \in C
      <4>1. C \cup {x} \in SUBSET L /\ x \in C \cup {x} /\ Closed(C \cup {x})
        BY <3>2
      <4>2. y \in C \cup {x}
        BY <4>1
      <4> QED BY <3>1, <4>2
    <3> QED BY <3>1, <3>2
  <2> QED BY <2>2, <2>3
<1>4. ASSUME NEW x \in L PROVE s[x] = LET next == Flowed(f, x) IN IF next = x THEN x ELSE s[next]
  <2>1. s[x] = CHOOSE y : y \in Fixed(x)
    OBVIOUS
  <2>2. s[Flowed(f, x)] = CHOOSE y : y \in Fixed(Flowed(f, x))
    BY <1>1
  <2> HIDE DEF s, Fixed
  <2>3. CASE Flowed(f, x) = x
    BY <1>2, <2>1, <2>3
  <2>4. CASE Flowed(f, x) # x
    BY <1>3, <2>1, <2>2, <2>4
  <2> QED BY <2>3, <2>4
<1>5. Settling(f, s)
  <2>1. s = [x \in L |-> s[x]]
    OBVIOUS
  <2> HIDE DEF s
  <2> QED BY <1>4, <2>1 DEF Settling
<1> QED BY <1>5

\* There is only so much that may be live.
LEMMA FinitelyLive ==
  ASSUME NEW f, WellFormed(f)
  PROVE  IsFiniteSet(Blocks(f) \X Nodes(f))
<1>1. IsFiniteSet(Nodes(f))
  BY ProperNodes, FS_Interval
<1>2. IsFiniteSet(Blocks(f))
  <2>1. Len(f.code) \in Nat /\ DOMAIN f.code = 1 .. Len(f.code)
    BY DEF WellFormed, IsSeq
  <2>2. Blocks(f) \subseteq DOMAIN f.code
    BY DEF WellFormed, Blocks, ToSet
  <2>3. IsFiniteSet(1 .. Len(f.code))
    BY <2>1, FS_Interval
  <2> QED BY <2>1, <2>2, <2>3, FS_Subset
<1> QED BY <1>1, <1>2, FS_Product

\* What is found to be live is what flows back into every block, and nothing that
\* need not be: it is the least that flows back, which is what compute_liveness
\* finds in whatever order it takes the blocks.
THEOREM LivenessSettles ==
  ASSUME NEW f, WellFormed(f)
  PROVE  LET in == compute_liveness(f)
         IN /\ in \in Among(f, VNodes(Nodes(f))) /\ Flowed(f, in) = in
            /\ \A other : Flowed(f, other) = other => \A b \in Blocks(f) : in[b] \subseteq other[b]
<1> DEFINE L == Among(f, VNodes(Nodes(f)))
           s == CHOOSE t : Settling(f, t)
           bottom == [b \in Blocks(f) |-> {}]
           S == Blocks(f) \X Nodes(f)
           Free(x) == {p \in S : p[2] \notin x[p[1]]}
           Least(x) == \A other : Flowed(f, other) = other => \A b \in Blocks(f) : x[b] \subseteq other[b]
           Ended(x) == s[x] \in L /\ Flowed(f, s[x]) = s[x] /\ Least(s[x])
           Growing(x) == \A b \in Blocks(f) : x[b] \subseteq Flowed(f, x)[b]
           Bad == {x \in L : Growing(x) /\ Least(x) /\ ~Ended(x)}
<1>1. compute_liveness(f) = s[bottom]
  BY DEF compute_liveness, Settling
<1>2. Settling(f, s)
  BY SettlingExists
<1> HIDE DEF s
<1>3. \A x \in L : s[x] = IF Flowed(f, x) = x THEN x ELSE s[Flowed(f, x)]
  BY <1>2, LivesAmong DEF Settling
<1>4. bottom \in L /\ Growing(bottom) /\ Least(bottom)
  BY DEF Among
<1>5. ASSUME Bad # {} PROVE FALSE
  <2> DEFINE P == {Free(x) : x \in Bad}
  <2>1. P \subseteq SUBSET S /\ P # {}
    <3>1. \A x : Free(x) \in SUBSET S
      OBVIOUS
    <3>2. PICK x \in Bad : TRUE
      BY <1>5
    <3> HIDE DEF Bad, Free
    <3>3. Free(x) \in P
      BY <3>2
    <3> QED BY <3>1, <3>3
  <2>2. PICK T \in P : \A U \in P : ~(U \subseteq T /\ U # T)
    <3>1. IsFiniteSet(S)
      BY FinitelyLive
    <3> HIDE DEF P, S
    <3> QED BY <2>1, <3>1, SmallestSet
  <2>3. PICK x \in Bad : T = Free(x)
    OBVIOUS
  <2> DEFINE next == Flowed(f, x)
  <2>4. x \in L /\ next \in L
    BY <2>3, FlowedIn
  <2>5. next # x
    BY <1>3, <2>3, <2>4
  <2>6. Growing(next)
    BY <2>3, <2>4, FlowedGrows
  <2>11. Least(next)
    <3> SUFFICES ASSUME NEW other, Flowed(f, other) = other PROVE \A b \in Blocks(f) : next[b] \subseteq other[b]
      OBVIOUS
    <3>1. \A b \in Blocks(f) : x[b] \subseteq other[b]
      BY <2>3
    <3>2. \A b \in Blocks(f) : next[b] \subseteq Flowed(f, other)[b]
      BY <3>1, FlowedGrows
    <3> QED BY <3>2
  <2>7. next \in Bad
    <3>1. s[x] = s[next]
      BY <1>3, <2>4, <2>5
    <3> QED BY <2>3, <2>4, <2>6, <2>11, <3>1
  <2>8. Free(next) \in P
    BY <2>7
  <2>9. Free(next) \subseteq T
    BY <2>3
  <2>10. Free(next) # T
    <3>1. PICK b \in Blocks(f) : next[b] # x[b]
      BY <2>4, <2>5 DEF Among
    <3>2. PICK n \in next[b] : n \notin x[b]
      BY <2>3, <3>1
    <3>3. <<b, n>> \in S
      BY <2>4, <3>1, <3>2, LivesAmong DEF Among
    <3>4. <<b, n>> \in Free(x) /\ <<b, n>> \notin Free(next)
      BY <3>2, <3>3
    <3> QED BY <2>3, <3>4
  <2> QED BY <2>2, <2>8, <2>9, <2>10
<1>6. Ended(bottom)
  BY <1>4, <1>5
<1> QED BY <1>1, <1>6

-----------------------------------------------------------------------------
(* The graph is built: what each part of an instruction adds. *)

(* The interference graph. *)

\* No node stands for another yet or is on the stack, and those that cross a call
\* have its edges.
Fresh(G, N) ==
  /\ Shape(G, N)
  /\ \A n \in N : G.alias[n] = n
  /\ G.stack = <<>> /\ \A n \in VNodes(N) : G.state[n] = "initial"
  /\ \A n \in G.crosses : n \in N /\ \A r \in ToSet(CallerSaved) : Held(G, n, r)

\* Building goes on from the graph so far.
LEMMA FreshLater ==
  ASSUME NEW G, NEW H, NEW N, Fresh(G, N), Later(G, H, N)
  PROVE  Fresh(H, N)
<1>1. Shape(G, N) /\ Shape(H, N) /\ H.alias = G.alias
  BY DEF Fresh, Later
<1>2. ToSet(CallerSaved) \subseteq N
  BY <1>1, CallerRegisters DEF Shape
<1>3. ASSUME NEW n \in H.crosses PROVE n \in N /\ \A r \in ToSet(CallerSaved) : Held(H, n, r)
  <2>1. CASE n \in G.crosses
    <3>1. n \in N /\ \A r \in ToSet(CallerSaved) : Held(G, n, r)
      BY <2>1 DEF Fresh
    <3>2. ASSUME NEW r \in ToSet(CallerSaved) PROVE Held(H, n, r)
      BY <1>1, <1>2, <3>1, HeldLater
    <3> QED BY <3>1, <3>2
  <2>2. CASE n \notin G.crosses
    BY <2>2 DEF Later
  <2> QED BY <2>1, <2>2
<1>4. H.stack = <<>> /\ \A n \in VNodes(N) : H.state[n] = "initial"
  BY DEF Fresh, Later, Kept
<1> QED BY <1>1, <1>3, <1>4 DEF Fresh

\* A node live across a call has edges to what the call may change.
LEMMA CrossesLater ==
  ASSUME NEW G, NEW N, NEW k \in Nat, N = 1 .. k, Fresh(G, N), NEW n \in VNodes(N)
  PROVE  LET H == CrossesCall(n, G) IN Later(G, H, N) /\ \A r \in ToSet(CallerSaved) : Held(H, n, r)
<1> DEFINE H == CrossesCall(n, G)
           C == ToSet(CallerSaved)
           A == AddEdges(G, n, C)
<1>1. Shape(G, N) /\ n \in N /\ n >= FirstVReg /\ C \in SUBSET N /\ n \in Nat
  BY CallerRegisters DEF Fresh, Shape, VNodes
<1>2. CASE n \in G.crosses
  BY <1>1, <1>2, LaterItself DEF CrossesCall, Fresh
<1>3. CASE n \notin G.crosses
  <2>1. H = [A EXCEPT !.crosses = @ \cup {n}]
    BY <1>3 DEF CrossesCall
  <2>2. \A r \in C : r \in 1 .. 16
    BY CallerRegisters DEF Registers
  <2>3. \A r \in C : r \in N /\ n # r
    BY <1>1, <2>2 DEF FirstVReg
  <2> HIDE DEF C
  <2>4. Later(G, A, N) /\ \A r \in C : G.alias[n] # G.alias[r] => Held(A, n, r)
    BY <1>1, AddEdgesLater
  <2>5. \A r \in C : Held(A, n, r)
    BY <1>1, <2>3, <2>4 DEF Fresh
  <2> HIDE DEF A, H
  <2>6. Shape(A, N)
    BY <2>4 DEF Later
  <2>7. /\ DOMAIN H = Fields
        /\ H.alias = A.alias /\ H.list = A.list /\ H.stack = A.stack /\ H.color = A.color /\ H.spilled = A.spilled
        /\ H.of = A.of /\ H.moves = A.moves /\ H.queue = A.queue /\ H.state = A.state /\ H.lists = A.lists
        /\ H.crosses = A.crosses \cup {n}
    BY <2>1, <2>6 DEF Shape, Fields
  <2>8. Shape(H, N) /\ \A m : On(A, m) => On(H, m)
    BY <2>6, <2>7 DEF Shape, On
  <2>9. \A r \in C : Held(H, n, r)
    BY <2>5, <2>7, SameHeld
  <2>10. Later(A, H, N)
    <3>1. \A i \in DOMAIN A.moves : Open(H.moves[i]) => Open(A.moves[i])
      BY <2>7
    <3>2. \A m \in VNodes(N), w \in Kept : H.state[m] = w <=> A.state[m] = w
      BY <2>7
    <3> QED BY <1>1, <2>7, <2>8, <2>9, <3>1, <3>2 DEF Later, C
  <2> QED BY <1>1, <2>4, <2>9, <2>10, LaterStill DEF H, C
<1> QED BY <1>2, <1>3

\* All nodes live across a call have.
LEMMA CrossCallsLater ==
  ASSUME NEW G, NEW N, NEW k \in Nat, N = 1 .. k, Fresh(G, N), NEW S \in SUBSET VNodes(N)
  PROVE  LET H == CrossCalls(G, S) IN Later(G, H, N) /\ \A n \in S, r \in ToSet(CallerSaved) : Held(H, n, r)
<1>0. S \in SUBSET (1 .. k)
  BY DEF VNodes
<1>1. PICK h : CrossCallsSteps(h, G, k, S)
  BY <1>0, CrossCallsUnfolds
<1> USE DEF CrossCallsSteps
<1>2. h[0] = G /\ Shape(h[0], N)
  BY <1>1 DEF Fresh
<1>3. ASSUME NEW i \in 1 .. k, Later(h[0], h[i - 1], N) PROVE Later(h[i - 1], h[i], N)
  <2>1. Fresh(h[i - 1], N)
    BY <1>2, <1>3, FreshLater
  <2>2. Shape(h[i - 1], N)
    BY <2>1 DEF Fresh
  <2>3. CASE i \in S
    <3>1. h[i] = CrossesCall(i, h[i - 1])
      BY <1>1, <2>3
    <3> QED BY <2>1, <2>3, <3>1, CrossesLater
  <2>4. CASE i \notin S
    <3>1. h[i] = h[i - 1]
      BY <1>1, <2>4
    <3> QED BY <2>2, <3>1, LaterItself
  <2> QED BY <2>3, <2>4
<1>4. \A i \in 0 .. k : Later(h[0], h[i], N) /\ Later(h[i], h[k], N)
  BY <1>2, <1>3, Chain
<1>5. ASSUME NEW n \in S, NEW r \in ToSet(CallerSaved) PROVE Held(h[k], n, r)
  <2>1. n \in 1 .. k /\ n - 1 \in 0 .. k /\ n \in 0 .. k
    BY <1>0
  <2>2. Later(G, h[n - 1], N) /\ Later(h[n], h[k], N) /\ Later(G, h[n], N)
    BY <1>2, <1>4, <2>1
  <2>3. Fresh(h[n - 1], N) /\ Shape(h[n], N)
    BY <2>2, FreshLater, LaterShape
  <2>4. h[n] = CrossesCall(n, h[n - 1])
    BY <1>1, <2>1
  <2>5. Held(h[n], n, r)
    BY <2>3, <2>4, CrossesLater
  <2>6. n \in N /\ r \in N
    BY <2>1, CallerRegisters DEF Fresh, Shape
  <2> QED BY <2>2, <2>3, <2>5, <2>6, HeldLater
<1>6. Later(h[0], h[k], N)
  <2>1. k \in 0 .. k
    OBVIOUS
  <2> QED BY <1>4, <2>1
<1> QED BY <1>1, <1>2, <1>5, <1>6

\* A copy is noted, and the register to be preferred.
LEMMA MoveLater ==
  ASSUME NEW G, NEW N, Fresh(G, N), NEW dst \in VNodes(N), NEW src \in N, NEW r
  PROVE  Later(G, [irc_add_move(G, dst, src) EXCEPT !.hint[dst] = r], N)
<1> DEFINE H == [irc_add_move(G, dst, src) EXCEPT !.hint[dst] = r]
           m == [dst |-> dst, src |-> src, state |-> "worklist"]
           k == Len(G.moves)
           of == [n \in N |-> IF n \in {dst, src} THEN Append(G.of[n], k + 1) ELSE G.of[n]]
<1>0. Shape(G, N) /\ dst \in N /\ G.state[dst] = "initial"
  BY DEF Fresh, VNodes
<1>1. /\ DOMAIN H = Fields
      /\ H.alias = G.alias /\ H.list = G.list /\ H.stack = G.stack /\ H.color = G.color /\ H.spilled = G.spilled
      /\ H.crosses = G.crosses /\ H.state = G.state /\ H.lists = G.lists
      /\ H.moves = Append(G.moves, m) /\ H.queue = Append(G.queue, k + 1)
      /\ H.of = of
  <2> DEFINE A == irc_add_move(G, dst, src)
  <2>1. /\ DOMAIN A = Fields
        /\ A.alias = G.alias /\ A.list = G.list /\ A.stack = G.stack /\ A.color = G.color /\ A.spilled = G.spilled
        /\ A.crosses = G.crosses /\ A.state = G.state /\ A.lists = G.lists
    BY <1>0 DEF irc_add_move, Shape, Fields
  <2>2. A.moves = Append(G.moves, m) /\ A.queue = Append(G.queue, k + 1)
    BY <1>0 DEF irc_add_move, Shape, Fields
  <2>3. A.of = of
    BY <1>0 DEF irc_add_move, Shape, Fields
  <2> HIDE DEF A
  <2>4. H = [A EXCEPT !.hint[dst] = r]
    BY DEF A
  <2> HIDE DEF H
  <2> QED BY <2>1, <2>2, <2>3, <2>4 DEF Fields
<1> HIDE DEF H
<1>2. m \in Move(N) /\ G.moves \in Seq(Move(N))
  BY <1>0 DEF Move, MoveStates, Shape
<1> HIDE DEF m
<1>3. /\ H.moves \in Seq(Move(N)) /\ DOMAIN G.moves \subseteq DOMAIN H.moves /\ k + 1 \in DOMAIN H.moves
  BY <1>1, <1>2
<1> HIDE DEF k
<1>4. \A s \in Seq(DOMAIN G.moves) : s \in Seq(DOMAIN H.moves)
  BY <1>3, SeqMonotonic
<1>5. H.queue \in Seq(DOMAIN H.moves)
  <2>1. G.queue \in Seq(DOMAIN H.moves)
    BY <1>0, <1>4 DEF Shape
  <2> QED BY <1>1, <1>3, <2>1
<1>6. H.of \in [N -> Seq(DOMAIN H.moves)]
  <2>1. G.of \in [N -> Seq(DOMAIN H.moves)]
    BY <1>0, <1>4 DEF Shape
  <2> DEFINE D == DOMAIN H.moves
  <2>2. k + 1 \in D /\ G.of \in [N -> Seq(D)]
    BY <1>3, <2>1
  <2> HIDE DEF D
  <2>3. \A n \in N : Append(G.of[n], k + 1) \in Seq(D) /\ G.of[n] \in Seq(D)
    BY <2>2
  <2>4. of \in [N -> Seq(D)]
    BY <2>3
  <2> QED BY <1>1, <2>4 DEF D
<1>7. Shape(H, N)
  BY <1>0, <1>1, <1>3, <1>5, <1>6 DEF Shape
<1>8. \A n : On(G, n) => On(H, n)
  BY <1>1 DEF On
<1>9. \A n \in VNodes(N), w \in Kept : H.state[n] = w <=> G.state[n] = w
  BY <1>1
<1>10. \A i \in DOMAIN G.moves : Open(H.moves[i]) => Open(G.moves[i])
  BY <1>1, <1>2
<1> QED BY <1>0, <1>1, <1>3, <1>7, <1>8, <1>9, <1>10 DEF Later, H

-----------------------------------------------------------------------------
\* The graph so far, and what is live.
Going(a, N) == DOMAIN a = {"g", "live"} /\ Fresh(a.g, N) /\ a.live \in SUBSET N

\* A call.
LEMMA CrossingGoing ==
  ASSUME NEW a, NEW N, NEW k \in Nat, N = 1 .. k, Going(a, N), NEW inst
  PROVE  LET z == Crossing(a, inst)
         IN /\ Going(z, N) /\ Later(a.g, z.g, N) /\ z.live = a.live
            /\ inst.op \in Calls => \A n \in a.live, r \in ToSet(CallerSaved) : n >= FirstVReg => Held(z.g, n, r)
<1> DEFINE z == Crossing(a, inst)
           S == {n \in a.live : n >= FirstVReg}
<1>1. Fresh(a.g, N) /\ Shape(a.g, N) /\ S \in SUBSET VNodes(N)
  BY DEF Going, Fresh, VNodes
<1>2. CASE inst.op \notin Calls
  BY <1>1, <1>2, LaterItself DEF Crossing
<1>3. CASE inst.op \in Calls
  <2>1. z = [a EXCEPT !.g = CrossCalls(@, S)]
    BY <1>3 DEF Crossing
  <2>2. DOMAIN z = {"g", "live"} /\ z.g = CrossCalls(a.g, S) /\ z.live = a.live
    BY <2>1 DEF Going
  <2> HIDE DEF z, S
  <2>3. Later(a.g, z.g, N) /\ \A n \in S, r \in ToSet(CallerSaved) : Held(z.g, n, r)
    BY <1>1, <2>2, CrossCallsLater
  <2>4. Fresh(z.g, N)
    BY <1>1, <2>3, FreshLater
  <2> QED BY <2>2, <2>3, <2>4 DEF Going, S, z
<1> QED BY <1>2, <1>3

\* The register a parameter is passed in.
LEMMA ParamRegisters ==
  ASSUME NEW inst, NEW vregs, NEW blocks, ProperInst(inst, vregs, blocks)
  PROVE  /\ ParamRegister(inst) \in Registers \cup {0}
         /\ ParamRegister(inst) # 0 => inst.op = "PARAM" /\ IsVReg(inst.dst)
<1>1. Len(ArgumentRegisters) = 6 /\ \A i \in 0 .. 5 : ArgumentRegisters[i + 1] \in 1 .. 16
  BY DEF ArgumentRegisters
<1>2. CASE inst.op = "PARAM" /\ IsVReg(inst.dst) /\ inst.src1.id < Len(ArgumentRegisters)
  <2>1. inst.src1.id \in 0 .. 5
    BY <1>1, <1>2 DEF ProperInst
  <2> QED BY <1>1, <1>2, <2>1 DEF ParamRegister, Registers
<1>3. CASE ~(inst.op = "PARAM" /\ IsVReg(inst.dst) /\ inst.src1.id < Len(ArgumentRegisters))
  BY <1>3 DEF ParamRegister
<1> QED BY <1>2, <1>3

\* What is copied is used, or is the register of the parameter.
LEMMA CopySources ==
  ASSUME NEW f, WellFormed(f), NEW inst, ProperInst(inst, f.vregs, Blocks(f)), CopySource(inst) # 0
  PROVE  /\ CopySource(inst) \in Nodes(f) /\ NodeOf(inst.dst) \in VNodes(Nodes(f))
         /\ CopySource(inst) \in UsedBy(inst) \cup {ParamRegister(inst)}
<1>1. Registers \subseteq Nodes(f)
  <2>1. 16 =< FirstVReg + f.vregs - 1 /\ FirstVReg + f.vregs - 1 \in Nat
    BY DEF WellFormed, FirstVReg
  <2> QED BY <2>1, ProperNodes DEF Registers
<1>2. \A o \in {inst.dst, inst.src1} : NodeOf(o) \in VNodes(Nodes(f)) \cup {0}
  BY ProperNodes DEF ProperInst
<1>3. IsVReg(inst.dst) => NodeOf(inst.dst) \in VNodes(Nodes(f))
  <2> SUFFICES ASSUME IsVReg(inst.dst) PROVE NodeOf(inst.dst) # 0
    BY <1>2
  <2>1. inst.dst.id \in 0 .. f.vregs - 1
    BY DEF ProperInst, ProperOperand
  <2>2. NodeOf(inst.dst) = FirstVReg + inst.dst.id
    BY DEF NodeOf, IsVReg
  <2> QED BY <2>1, <2>2 DEF FirstVReg, WellFormed
<1>4. CASE inst.op = "MOV" /\ IsVReg(inst.dst) /\ NodeOf(inst.src1) # NodeOf(inst.dst)
  <2>1. CopySource(inst) = NodeOf(inst.src1)
    BY <1>4 DEF CopySource
  <2>2. inst.src1 \in ToSet(Uses(inst)) /\ ~IsNop(inst)
    BY <1>4, UsedOperands DEF IsNop
  <2>3. NodeOf(inst.src1) \in UsedBy(inst)
    BY <2>1, <2>2 DEF UsedBy
  <2> QED BY <1>2, <1>3, <1>4, <2>1, <2>3 DEF VNodes
<1>5. CASE ~(inst.op = "MOV" /\ IsVReg(inst.dst) /\ NodeOf(inst.src1) # NodeOf(inst.dst))
  <2>1. CopySource(inst) = ParamRegister(inst)
    BY <1>5 DEF CopySource
  <2> QED BY <1>1, <1>3, <2>1, ParamRegisters DEF VNodes
<1> QED BY <1>4, <1>5

\* A copy.
LEMMA CopyingGoing ==
  ASSUME NEW f, WellFormed(f), NEW a, Going(a, Nodes(f)), NEW inst, ProperInst(inst, f.vregs, Blocks(f))
  PROVE  LET z == Copying(a, inst)
         IN Going(z, Nodes(f)) /\ Later(a.g, z.g, Nodes(f)) /\ z.live = a.live \ {CopySource(inst)}
<1> DEFINE z == Copying(a, inst)
           N == Nodes(f)
           d == NodeOf(inst.dst)
           s == CopySource(inst)
<1>1. Fresh(a.g, N) /\ Shape(a.g, N)
  BY DEF Going, Fresh
<1>2. CASE s = 0
  <2>1. 0 \notin a.live
    BY ProperNodes DEF Going
  <2>2. z = a
    BY <1>2 DEF Copying
  <2> QED BY <1>1, <1>2, <2>1, <2>2, LaterItself
<1>3. CASE s # 0
  <2>1. PICK r : z = [a EXCEPT !.g = [irc_add_move(@, d, s) EXCEPT !.hint[d] = r], !.live = @ \ {s}]
    BY <1>3 DEF Copying
  <2>2. DOMAIN z = {"g", "live"} /\ z.g = [irc_add_move(a.g, d, s) EXCEPT !.hint[d] = r] /\ z.live = a.live \ {s}
    BY <2>1 DEF Going
  <2>3. d \in VNodes(N) /\ s \in N
    BY <1>3, CopySources
  <2> HIDE DEF z, d, s, N
  <2>4. Later(a.g, z.g, N)
    BY <1>1, <2>2, <2>3, MoveLater
  <2>5. Fresh(z.g, N)
    BY <1>1, <2>4, FreshLater
  <2> QED BY <2>2, <2>4, <2>5 DEF Going, z, N, s
<1> QED BY <1>2, <1>3

\* What an instruction writes is kept apart from what is live behind it.
LEMMA DefiningGoing ==
  ASSUME NEW a, NEW N, NEW k \in Nat, N = 1 .. k, Going(a, N), NEW inst, DefinedBy(inst) \in N \cup {0}, NEW weight
  PROVE  LET z == Defining(a, inst, weight)
             d == DefinedBy(inst)
         IN /\ Going(z, N) /\ Later(a.g, z.g, N) /\ z.live = a.live \ {d}
            /\ d # 0 => \A n \in a.live : n # d => Held(z.g, d, n)
<1> DEFINE z == Defining(a, inst, weight)
           d == DefinedBy(inst)
           A == Costlier(a.g, d, weight)
<1>1. Fresh(a.g, N) /\ Shape(a.g, N) /\ a.live \in SUBSET N /\ DOMAIN a = {"g", "live"}
  BY DEF Going, Fresh
<1>2. CASE d = 0
  <2>1. 0 \notin a.live
    BY <1>1
  <2>2. z = a
    BY <1>2 DEF Defining
  <2> QED BY <1>1, <1>2, <2>1, <2>2, LaterItself
<1>3. CASE d # 0
  <2>1. z.g = AddEdges(A, d, a.live) /\ z.live = a.live \ {d} /\ DOMAIN z = {"g", "live"}
    BY <1>1, <1>3 DEF Defining
  <2> HIDE DEF z
  <2>2. Later(a.g, A, N)
    <3>1. /\ DOMAIN A = Fields
          /\ A.alias = a.g.alias /\ A.list = a.g.list /\ A.stack = a.g.stack /\ A.color = a.g.color
          /\ A.spilled = a.g.spilled /\ A.crosses = a.g.crosses /\ A.of = a.g.of /\ A.moves = a.g.moves
          /\ A.queue = a.g.queue /\ A.state = a.g.state /\ A.lists = a.g.lists
      BY <1>1 DEF Shape, Fields, Costlier
    <3> HIDE DEF A
    <3> QED BY <1>1, <3>1, Noting
  <2> HIDE DEF A
  <2>3. Fresh(A, N) /\ Shape(A, N)
    BY <1>1, <2>2, FreshLater DEF Later
  <2>4. d \in N
    BY <1>3
  <2> HIDE DEF d
  <2> DEFINE S == a.live
  <2>10. S \in SUBSET N /\ z.g = AddEdges(A, d, S)
    BY <1>1, <2>1
  <2> HIDE DEF S
  <2>11. Later(A, z.g, N) /\ \A m \in S : A.alias[d] # A.alias[m] => Held(z.g, d, m)
    <3>1. /\ Later(A, AddEdges(A, d, S), N)
          /\ \A m \in S : A.alias[d] # A.alias[m] => Held(AddEdges(A, d, S), d, m)
      BY <2>3, <2>4, <2>10, AddEdgesLater
    <3> QED BY <2>10, <3>1
  <2>5. Later(A, z.g, N) /\ \A m \in a.live : A.alias[d] # A.alias[m] => Held(z.g, d, m)
    BY <2>11 DEF S
  <2>6. \A m \in a.live : m # d => Held(z.g, d, m)
    BY <1>1, <2>3, <2>4, <2>5 DEF Fresh
  <2>7. Later(a.g, z.g, N)
    BY <1>1, <2>2, <2>5, LaterStill
  <2>8. Fresh(z.g, N)
    BY <1>1, <2>7, FreshLater
  <2>9. Going(z, N)
    BY <1>1, <2>1, <2>8 DEF Going
  <2> QED BY <2>1, <2>6, <2>7, <2>9 DEF z, d
<1> QED BY <1>2, <1>3

\* What an instruction reads is live before it.
LEMMA UsingGoing ==
  ASSUME NEW a, NEW N, Going(a, N), NEW inst, NEW weight,
         UsedBy(inst) \subseteq N, ParamRegister(inst) \in N \cup {0}
  PROVE  LET z == Using(a, inst, weight)
         IN /\ Going(z, N) /\ Later(a.g, z.g, N)
            /\ z.live = a.live \cup ({ParamRegister(inst)} \ {0}) \cup UsedBy(inst)
<1> DEFINE z == Using(a, inst, weight)
<1>1. Fresh(a.g, N) /\ Shape(a.g, N) /\ a.live \in SUBSET N /\ DOMAIN a = {"g", "live"}
  BY DEF Going, Fresh
<1>2. PICK c : z = [a EXCEPT !.g.cost = c, !.live = @ \cup ({ParamRegister(inst)} \ {0}) \cup UsedBy(inst)]
  BY DEF Using
<1> HIDE DEF z
<1> DEFINE A == [a.g EXCEPT !.cost = c]
<1>3. z.g = A /\ z.live = a.live \cup ({ParamRegister(inst)} \ {0}) \cup UsedBy(inst) /\ DOMAIN z = {"g", "live"}
  BY <1>1, <1>2
<1>4. Later(a.g, A, N)
  <2>1. /\ DOMAIN A = Fields
        /\ A.alias = a.g.alias /\ A.list = a.g.list /\ A.stack = a.g.stack /\ A.color = a.g.color
        /\ A.spilled = a.g.spilled /\ A.crosses = a.g.crosses /\ A.of = a.g.of /\ A.moves = a.g.moves
        /\ A.queue = a.g.queue /\ A.state = a.g.state /\ A.lists = a.g.lists
    BY <1>1 DEF Shape, Fields
  <2> HIDE DEF A
  <2> QED BY <1>1, <2>1, Noting
<1> HIDE DEF A
<1>5. Fresh(A, N)
  BY <1>1, <1>4, FreshLater
<1>6. Going(z, N)
  BY <1>1, <1>3, <1>5 DEF Going
<1> QED BY <1>3, <1>4, <1>6 DEF z

\* What is live behind an instruction has the edges that keep it apart from what
\* the instruction writes.
Apart(G, inst, L) ==
  \A n \in L \ {DefinedBy(inst), CopySource(inst)} :
    /\ DefinedBy(inst) # 0 => Held(G, DefinedBy(inst), n)
    /\ inst.op \in Calls => \A r \in ToSet(CallerSaved) : Held(G, n, r)

\* What is kept apart stays apart.
LEMMA ApartLater ==
  ASSUME NEW f, WellFormed(f), NEW inst, ProperInst(inst, f.vregs, Blocks(f)), NEW L \in SUBSET Nodes(f),
         NEW G, NEW H, Shape(G, Nodes(f)), Later(G, H, Nodes(f)), Apart(G, inst, L)
  PROVE  Apart(H, inst, L)
<1> DEFINE N == Nodes(f)
           d == DefinedBy(inst)
<1>1. d \in N \cup {0}
  BY ProperUses DEF VNodes
<1>2. ToSet(CallerSaved) \subseteq N
  BY CallerRegisters DEF Shape
<1> HIDE DEF N, d
<1> SUFFICES ASSUME NEW n \in L \ {d, CopySource(inst)}
             PROVE  /\ d # 0 => Held(H, d, n)
                    /\ inst.op \in Calls => \A r \in ToSet(CallerSaved) : Held(H, n, r)
  BY DEF Apart, d
<1>3. n \in N
  BY DEF N
<1>4. /\ d # 0 => Held(G, d, n)
      /\ inst.op \in Calls => \A r \in ToSet(CallerSaved) : Held(G, n, r)
  BY DEF Apart, d
<1>5. \A x, y \in N : Held(G, x, y) => Held(H, x, y)
  BY HeldLater DEF N
<1> QED BY <1>1, <1>2, <1>3, <1>4, <1>5

\* One instruction: what it writes is kept apart from what is live behind it, but
\* for the source of a copy, and what is live before it is taken to be so.
LEMMA InterferingLater ==
  ASSUME NEW f, WellFormed(f), NEW a, Going(a, Nodes(f)), NEW inst, ProperInst(inst, f.vregs, Blocks(f)),
         NEW weight, NEW L \in SUBSET VNodes(Nodes(f)), L \subseteq a.live
  PROVE  LET z == Interfering(a, inst, weight)
         IN /\ Going(z, Nodes(f)) /\ Later(a.g, z.g, Nodes(f))
            /\ LiveBefore(inst, L) \subseteq z.live
            /\ Apart(z.g, inst, L)
<1> DEFINE N == Nodes(f)
           d == DefinedBy(inst)
           s == CopySource(inst)
           k == FirstVReg + f.vregs - 1
           z == Interfering(a, inst, weight)
<1>1. k \in Nat /\ N = 1 .. k
  BY ProperNodes
<1>2. UsedBy(inst) \subseteq N /\ d \in N \cup {0} /\ L \subseteq N /\ \A n \in L : n >= FirstVReg /\ n # 0
  BY <1>1, ProperUses DEF VNodes
<1>3. Shape(a.g, N)
  BY DEF Going, Fresh
<1>4. CASE IsNop(inst)
  <2>1. z = a
    BY <1>4 DEF Interfering
  <2>2. d = 0 /\ UsedBy(inst) = {} /\ inst.op \notin Calls
    BY <1>4 DEF DefinedBy, UsedBy, IsNop, Calls, TailCalls
  <2>3. LiveBefore(inst, L) \subseteq L
    BY <2>2 DEF LiveBefore
  <2>4. Apart(a.g, inst, L)
    BY <2>2 DEF Apart
  <2> QED BY <1>3, <2>1, <2>3, <2>4, LaterItself
<1>5. CASE ~IsNop(inst)
  <2> DEFINE b == Crossing(a, inst)
             c == Copying(b, inst)
             e == Defining(c, inst, weight)
             p == ParamRegister(inst)
  <2>1. z = Using(e, inst, weight)
    BY <1>5 DEF Interfering
  <2>2. p \in N \cup {0}
    BY <1>3, ParamRegisters DEF Shape
  <2>3. /\ Going(b, N) /\ Later(a.g, b.g, N) /\ b.live = a.live
        /\ inst.op \in Calls => \A n \in a.live, r \in ToSet(CallerSaved) : n >= FirstVReg => Held(b.g, n, r)
    BY <1>1, CrossingGoing
  <2> HIDE DEF b
  <2>4. Going(c, N) /\ Later(b.g, c.g, N) /\ c.live = b.live \ {s}
    BY <2>3, CopyingGoing
  <2> HIDE DEF c
  <2>5. /\ Going(e, N) /\ Later(c.g, e.g, N) /\ e.live = c.live \ {d}
        /\ d # 0 => \A n \in c.live : n # d => Held(e.g, d, n)
    BY <1>1, <1>2, <2>4, DefiningGoing
  <2> HIDE DEF e, z
  <2>6. Going(z, N) /\ Later(e.g, z.g, N) /\ z.live = e.live \cup ({p} \ {0}) \cup UsedBy(inst)
    BY <1>2, <2>1, <2>2, <2>5, UsingGoing
  <2>7. s # 0 => s \in UsedBy(inst) \cup {p}
    BY CopySources
  <2> HIDE DEF N, d, s, p
  <2>8. Shape(b.g, N) /\ Shape(c.g, N) /\ Shape(e.g, N)
    BY <2>3, <2>4, <2>5 DEF Later
  <2>9. Later(b.g, e.g, N)
    BY <2>4, <2>5, <2>8, LaterStill
  <2>10. Later(b.g, z.g, N)
    BY <2>6, <2>8, <2>9, LaterStill
  <2>11. Later(a.g, z.g, N)
    BY <1>3, <2>3, <2>10, LaterStill
  <2>12. LiveBefore(inst, L) \subseteq z.live
    <3>1. LiveBefore(inst, L) = (L \ {d}) \cup UsedBy(inst)
      BY DEF LiveBefore, d
    <3> QED BY <1>2, <2>3, <2>4, <2>5, <2>6, <2>7, <3>1
  <2>13. ASSUME NEW n \in L \ {d, s}, d # 0 PROVE Held(z.g, d, n)
    <3>1. n \in c.live /\ n \in N
      BY <1>2, <2>3, <2>4
    <3>2. Held(e.g, d, n)
      BY <2>5, <2>13, <3>1
    <3> QED BY <1>2, <2>6, <2>8, <2>13, <3>1, <3>2, HeldLater
  <2>14. ASSUME NEW n \in L, NEW r \in ToSet(CallerSaved), inst.op \in Calls PROVE Held(z.g, n, r)
    <3>1. Held(b.g, n, r)
      BY <1>2, <2>3, <2>14
    <3>2. n \in N /\ r \in N
      BY <1>2, <1>3, CallerRegisters DEF Shape
    <3> QED BY <2>8, <2>10, <3>1, <3>2, HeldLater
  <2>15. Apart(z.g, inst, L)
    BY <2>13, <2>14 DEF Apart, d, s
  <2> QED BY <2>6, <2>11, <2>12, <2>15 DEF N, z
<1> QED BY <1>4, <1>5

\* What is live behind an instruction is what the walk from the end finds.
LEMMA WalkBack ==
  ASSUME NEW live, NEW code, IsSeq(code), NEW k \in Nat, k = Len(code), NEW h, LiveSteps(h, live, code, k),
         NEW i \in 0 .. k
  PROVE  LiveAtStart(SubSeq(code, i + 1, k), live) = h[i]
<1> DEFINE rest == SubSeq(code, i + 1, k)
<1>1. code \in Seq(ToSet(code)) /\ DOMAIN code = 1 .. k
  BY DEF IsSeq
<1>2. \A j \in i + 1 .. k : code[j] \in ToSet(code)
  BY <1>1 DEF ToSet
<1>3. /\ rest \in Seq(ToSet(code)) /\ Len(rest) = k - i
      /\ \A j \in 1 .. k - i : rest[j] = code[i + j]
  <2>1. i + 1 \in Int /\ k \in Int /\ k - (i + 1) + 1 = k - i
    OBVIOUS
  <2>2. /\ rest \in Seq(ToSet(code)) /\ Len(rest) = (IF i + 1 =< k THEN k - (i + 1) + 1 ELSE 0)
        /\ \A j \in 1 .. k - (i + 1) + 1 : rest[j] = code[i + 1 + j - 1]
    BY <1>2, <2>1, SubSeqProperties
  <2> HIDE DEF rest
  <2>3. \A j \in 1 .. k - i : i + 1 + j - 1 = i + j
    OBVIOUS
  <2> QED BY <2>1, <2>2, <2>3
<1> HIDE DEF rest
<1>4. DOMAIN rest = 1 .. k - i /\ k - i \in Nat
  BY <1>3
<1>5. PICK j : LiveSteps(j, live, rest, k - i)
  BY <1>4, LiveUnfolds
<1> USE DEF LiveSteps
<1> DEFINE Q == {a \in Nat : a =< k - i => j[k - i - a] = h[k - a]}
<1>6. 0 \in Q
  BY <1>5
<1>7. ASSUME NEW a \in Q PROVE a + 1 \in Q
  <2> SUFFICES ASSUME a + 1 =< k - i PROVE j[k - i - (a + 1)] = h[k - (a + 1)]
    OBVIOUS
  <2>1. /\ k - i - a \in 1 .. k - i /\ k - i - (a + 1) = k - i - a - 1
        /\ k - a \in 1 .. k /\ k - (a + 1) = k - a - 1 /\ i + (k - i - a) = k - a
        /\ j[k - i - a] = h[k - a]
    OBVIOUS
  <2>2. rest[k - i - a] = code[k - a]
    BY <1>3, <2>1
  <2>3. j[k - i - a - 1] = LiveBefore(rest[k - i - a], j[k - i - a])
    BY <1>5, <2>1
  <2>4. h[k - a - 1] = LiveBefore(code[k - a], h[k - a])
    BY <2>1
  <2> QED BY <2>1, <2>2, <2>3, <2>4
<1>8. \A a \in Nat : a \in Q
  <2>1. Q \in SUBSET Nat
    OBVIOUS
  <2> HIDE DEF Q
  <2> QED BY <1>6, <1>7, <2>1, NatSet
<1>9. k - i \in Q /\ k - i - (k - i) = 0 /\ k - (k - i) = i
  BY <1>4, <1>8
<1>10. j[0] = h[i]
  BY <1>9
<1> QED BY <1>5, <1>10 DEF rest

\* All instructions of a block, from the last.
LEMMA BuildBlockLater ==
  ASSUME NEW f, WellFormed(f), NEW b \in Blocks(f), NEW G, Fresh(G, Nodes(f)),
         NEW live \in SUBSET VNodes(Nodes(f)), NEW weight
  PROVE  LET H == BuildBlock(G, f.code[b], live, weight)
         IN /\ Later(G, H, Nodes(f))
            /\ \A i \in DOMAIN f.code[b] :
                 Apart(H, f.code[b][i], LiveAtStart(SubSeq(f.code[b], i + 1, Len(f.code[b])), live))
<1> DEFINE N == Nodes(f)
           code == f.code[b]
           k == Len(code)
           a == [g |-> G, live |-> live]
<1>1. k \in Nat /\ DOMAIN code = 1 .. k
  BY CodeLen
<1>2. \A i \in 1 .. k : ProperInst(code[i], f.vregs, Blocks(f))
  BY <1>1 DEF WellFormed, ToSet
<1>3. IsSeq(code)
  BY DEF WellFormed
<1>21. k = Len(code)
  OBVIOUS
<1> HIDE DEF k
<1>4. PICK x : BuildFromSteps(x, a, code, weight, k)
  BY <1>1, BuildFromUnfolds
<1>5. PICK h : LiveSteps(h, live, code, k)
  BY <1>1, LiveUnfolds
<1>6. \A i \in 0 .. k : h[i] \in SUBSET VNodes(N)
  BY <1>1, <1>5, LiveStepsIn
<1>22. \A i \in 0 .. k : LiveAtStart(SubSeq(code, i + 1, k), live) = h[i]
  BY <1>1, <1>3, <1>5, <1>21, WalkBack
<1> USE DEF BuildFromSteps, LiveSteps
<1> DEFINE Fine(i) == Going(x[i], N) /\ h[i] \subseteq x[i].live
<1>7. Going(a, N)
  BY DEF Going, VNodes
<1>8. Fine(k)
  BY <1>4, <1>5, <1>7
<1> HIDE DEF a, code
<1>9. ASSUME NEW i \in 1 .. k, Fine(i)
      PROVE Fine(i - 1) /\ Later(x[i].g, x[i - 1].g, N) /\ Apart(x[i - 1].g, code[i], h[i])
  <2> DEFINE z == Interfering(x[i], code[i], weight)
  <2>1. x[i - 1] = z /\ h[i - 1] = LiveBefore(code[i], h[i])
    BY <1>4, <1>5
  <2>2. h[i] \in SUBSET VNodes(N) /\ h[i] \subseteq x[i].live /\ Going(x[i], N) /\ ProperInst(code[i], f.vregs, Blocks(f))
    BY <1>2, <1>6, <1>9
  <2>3. /\ Going(z, N) /\ Later(x[i].g, z.g, N)
        /\ LiveBefore(code[i], h[i]) \subseteq z.live
        /\ Apart(z.g, code[i], h[i])
    BY <2>2, InterferingLater
  <2> HIDE DEF z
  <2> QED BY <2>1, <2>3
<1> DEFINE Q == {c \in Nat : c =< k => Fine(k - c)}
<1>10. 0 \in Q
  BY <1>1, <1>8
<1>11. ASSUME NEW c \in Q PROVE c + 1 \in Q
  <2> SUFFICES ASSUME c + 1 =< k PROVE Fine(k - (c + 1))
    OBVIOUS
  <2>1. k - c \in 1 .. k /\ k - (c + 1) = k - c - 1 /\ Fine(k - c)
    BY <1>1
  <2> HIDE DEF Fine
  <2> QED BY <1>9, <2>1
<1>12. \A c \in Nat : c \in Q
  <2>1. Q \in SUBSET Nat
    OBVIOUS
  <2> HIDE DEF Q
  <2> QED BY <1>10, <1>11, <2>1, NatSet
<1>13. \A i \in 0 .. k : Fine(i)
  <2> SUFFICES ASSUME NEW i \in 0 .. k PROVE Fine(i)
    OBVIOUS
  <2>1. k - i \in Nat /\ k - i =< k /\ k - (k - i) = i
    BY <1>1
  <2> HIDE DEF Fine
  <2> QED BY <1>12, <2>1
<1>14. \A i \in 1 .. k : Later(x[i].g, x[i - 1].g, N) /\ Apart(x[i - 1].g, code[i], h[i])
  <2> HIDE DEF Fine
  <2>1. \A i \in 1 .. k : i \in 0 .. k
    OBVIOUS
  <2> QED BY <1>9, <1>13, <2>1
<1>15. \A i \in 0 .. k : Shape(x[i].g, N)
  BY <1>13 DEF Going, Fresh
<1> DEFINE y == [j \in 0 .. k |-> x[k - j].g]
<1>16. \A i \in 0 .. k : Later(y[0], y[i], N) /\ Later(y[i], y[k], N)
  <2>1. Shape(y[0], N)
    BY <1>1, <1>15
  <2>2. ASSUME NEW i \in 1 .. k PROVE Later(y[i - 1], y[i], N)
    <3>1. k - (i - 1) \in 1 .. k /\ k - (i - 1) - 1 = k - i /\ i - 1 \in 0 .. k /\ i \in 0 .. k
      BY <1>1
    <3>2. Later(x[k - (i - 1)].g, x[k - i].g, N)
      BY <1>14, <3>1
    <3> QED BY <3>1, <3>2
  <2> HIDE DEF y
  <2> QED BY <1>1, <2>1, <2>2, Chain
<1>17. \A i \in 0 .. k : Later(x[k].g, x[i].g, N) /\ Later(x[i].g, x[0].g, N)
  <2> SUFFICES ASSUME NEW i \in 0 .. k PROVE Later(x[k].g, x[i].g, N) /\ Later(x[i].g, x[0].g, N)
    OBVIOUS
  <2>1. k - i \in 0 .. k /\ k - (k - i) = i /\ 0 \in 0 .. k /\ k \in 0 .. k /\ k - k = 0 /\ k - 0 = k
    BY <1>1
  <2>2. y[k - i] = x[i].g /\ y[0] = x[k].g /\ y[k] = x[0].g
    BY <2>1
  <2> HIDE DEF y
  <2> QED BY <1>16, <2>1, <2>2
<1>18. BuildBlock(G, code, live, weight) = x[0].g /\ x[k].g = G
  BY <1>4 DEF BuildBlock, a
<1>19. ASSUME NEW i \in 1 .. k PROVE Apart(x[0].g, code[i], LiveAtStart(SubSeq(code, i + 1, k), live))
  <2>1. i \in 0 .. k /\ i - 1 \in 0 .. k
    BY <1>1
  <2>2. LiveAtStart(SubSeq(code, i + 1, k), live) = h[i]
    BY <1>22, <2>1
  <2>3. Apart(x[i - 1].g, code[i], h[i])
    BY <1>14
  <2>4. Shape(x[i - 1].g, N) /\ Later(x[i - 1].g, x[0].g, N) /\ h[i] \in SUBSET N
    BY <1>6, <1>15, <1>17, <2>1 DEF VNodes
  <2>5. Apart(x[0].g, code[i], h[i])
    BY <1>2, <2>3, <2>4, ApartLater
  <2> QED BY <2>2, <2>5
<1>20. Later(G, x[0].g, N)
  <2>1. 0 \in 0 .. k
    BY <1>1
  <2> QED BY <1>17, <1>18, <2>1
<1> QED BY <1>1, <1>18, <1>19, <1>20 DEF k, code

-----------------------------------------------------------------------------
(* The graph of a function. *)

\* What is live behind an instruction.
LEMMA BehindIn ==
  ASSUME NEW f, WellFormed(f), NEW in \in Among(f, VNodes(Nodes(f))), NEW b \in Blocks(f), NEW i \in DOMAIN f.code[b]
  PROVE  LiveBehind(f, in, b, i) \in SUBSET VNodes(Nodes(f))
<1> DEFINE code == f.code[b]
           k == Len(code)
           live == LiveOut(f, in, b)
<1>1. k \in Nat /\ DOMAIN code = 1 .. k /\ IsSeq(code) /\ k = Len(code)
  BY CodeLen DEF WellFormed
<1>2. live \in SUBSET VNodes(Nodes(f))
  BY LiveOutIn
<1>3. i \in 0 .. k
  BY <1>1
<1>4. LiveBehind(f, in, b, i) = LiveAtStart(SubSeq(code, i + 1, k), live)
  BY DEF LiveBehind
<1> HIDE DEF live, k, code
<1>5. PICK h : LiveSteps(h, live, code, k)
  BY <1>1, LiveUnfolds
<1>6. LiveAtStart(SubSeq(code, i + 1, k), live) = h[i]
  BY <1>1, <1>3, <1>5, WalkBack
<1>7. \A j \in 0 .. k : h[j] \in SUBSET VNodes(Nodes(f))
  <2> DEFINE V == VNodes(Nodes(f))
  <2>1. VNodes(Nodes(f)) \subseteq V /\ live \in SUBSET V
    BY <1>2
  <2> HIDE DEF V
  <2>2. DOMAIN f.code[b] = 1 .. k /\ LiveSteps(h, live, f.code[b], k)
    BY <1>1, <1>5 DEF code
  <2>3. k \in Nat
    BY <1>1
  <2>4. \A j \in 0 .. k : h[j] \in SUBSET V
    BY <2>1, <2>2, <2>3, LiveStepsIn
  <2> QED BY <2>4 DEF V
<1> QED BY <1>3, <1>4, <1>6, <1>7

\* All blocks of a function.
LEMMA BuildLater ==
  ASSUME NEW f, WellFormed(f), NEW in \in Among(f, VNodes(Nodes(f))), NEW G, Fresh(G, Nodes(f)), NEW depth
  PROVE  LET H == irc_build_graph(G, f, in, depth)
         IN /\ Later(G, H, Nodes(f))
            /\ \A b \in Blocks(f) : \A i \in DOMAIN f.code[b] : Apart(H, f.code[b][i], LiveBehind(f, in, b, i))
<1> DEFINE N == Nodes(f)
           k == Len(f.order)
<1>1. k \in Nat /\ DOMAIN f.order = 1 .. k
  BY DEF WellFormed
<1>2. \A m \in 1 .. k : f.order[m] \in Blocks(f)
  BY <1>1 DEF Blocks, ToSet
<1> HIDE DEF k
<1>3. PICK h : BuildSteps(h, G, f, in, depth, k)
  BY <1>1, BuildUnfolds
<1> USE DEF BuildSteps
<1>4. Shape(h[0], N) /\ Fresh(h[0], N) /\ h[0] = G
  BY <1>3 DEF Fresh
<1>5. ASSUME NEW m \in 1 .. k, Later(h[0], h[m - 1], N)
      PROVE  /\ Later(h[m - 1], h[m], N)
             /\ \A i \in DOMAIN f.code[f.order[m]] :
                  Apart(h[m], f.code[f.order[m]][i], LiveBehind(f, in, f.order[m], i))
  <2> DEFINE b == f.order[m]
             live == LiveOut(f, in, b)
             weight == 100 * Weight(depth[b])
  <2>1. h[m] = BuildBlock(h[m - 1], f.code[b], live, weight)
    BY <1>3
  <2>2. Fresh(h[m - 1], N)
    BY <1>4, <1>5, FreshLater
  <2>3. b \in Blocks(f)
    BY <1>2
  <2>4. live \in SUBSET VNodes(N)
    BY <2>3, LiveOutIn
  <2>5. \A i \in DOMAIN f.code[b] :
          LiveBehind(f, in, b, i) = LiveAtStart(SubSeq(f.code[b], i + 1, Len(f.code[b])), live)
    BY DEF LiveBehind
  <2> HIDE DEF live, weight, b
  <2>6. /\ Later(h[m - 1], h[m], N)
        /\ \A i \in DOMAIN f.code[b] :
             Apart(h[m], f.code[b][i], LiveAtStart(SubSeq(f.code[b], i + 1, Len(f.code[b])), live))
    BY <2>1, <2>2, <2>3, <2>4, BuildBlockLater
  <2> QED BY <2>5, <2>6 DEF b
<1>6. \A i \in 0 .. k : Later(h[0], h[i], N) /\ Later(h[i], h[k], N)
  BY <1>1, <1>4, <1>5, Chain
<1>7. ASSUME NEW b \in Blocks(f), NEW i \in DOMAIN f.code[b]
      PROVE  Apart(h[k], f.code[b][i], LiveBehind(f, in, b, i))
  <2>1. PICK m \in 1 .. k : f.order[m] = b
    BY <1>1 DEF Blocks, ToSet
  <2>2. m - 1 \in 0 .. k /\ m \in 0 .. k
    BY <1>1
  <2>3. Apart(h[m], f.code[b][i], LiveBehind(f, in, b, i))
    BY <1>5, <1>6, <2>1, <2>2
  <2>4. Shape(h[m], N) /\ Later(h[m], h[k], N)
    BY <1>6, <2>2 DEF Later
  <2>5. LiveBehind(f, in, b, i) \in SUBSET N /\ ProperInst(f.code[b][i], f.vregs, Blocks(f))
    BY BehindIn DEF VNodes, WellFormed, ToSet
  <2> QED BY <2>3, <2>4, <2>5, ApartLater
<1>8. Later(h[0], h[k], N)
  <2>1. 0 \in 0 .. k
    BY <1>1
  <2> QED BY <1>6, <2>1
<1> QED BY <1>3, <1>4, <1>7, <1>8

\* The graph of a function without its edges.
LEMMA UncostedFresh ==
  ASSUME NEW f, WellFormed(f), NEW first
  PROVE  LET G == Uncosted(f, first)
         IN Fresh(G, Nodes(f)) /\ G.spilled = <<>> /\ G.color = Colors(Nodes(f))
<1> DEFINE G == Uncosted(f, first)
           N == Nodes(f)
<1>1. N = 1 .. FirstVReg + f.vregs - 1 /\ FirstVReg + f.vregs - 1 \in Nat /\ N \subseteq Nat
  BY ProperNodes
<1>2. Registers \subseteq N
  <2>1. f.vregs \in Nat
    BY DEF WellFormed
  <2> QED BY <1>1, <2>1 DEF Registers, FirstVReg
<1>3. /\ DOMAIN G = Fields
      /\ G.alias = [n \in N |-> n] /\ G.list = [n \in N |-> <<>>] /\ G.of = [n \in N |-> <<>>]
      /\ G.color = [n \in N |-> IF n < FirstVReg THEN n ELSE 0]
      /\ G.state = [n \in N |-> "initial"]
      /\ G.crosses = {} /\ G.moves = <<>> /\ G.queue = <<>> /\ G.stack = <<>> /\ G.spilled = <<>>
      /\ G.lists = [simplify |-> <<>>, freeze |-> <<>>, spill |-> <<>>]
  BY <1>1 DEF Uncosted, Fields
<1> HIDE DEF G, N
<1>4. \A X : <<>> \in Seq(X)
  OBVIOUS
<1>5. G.lists \in [Worklists -> Seq(VNodes(N))]
  <2> DEFINE E == Seq(VNodes(N))
  <2>1. <<>> \in E
    BY <1>4
  <2> HIDE DEF E
  <2> DEFINE none == <<>>
  <2>2. none \in E /\ G.lists = [simplify |-> none, freeze |-> none, spill |-> none]
    BY <1>3, <2>1
  <2> HIDE DEF none
  <2>3. [simplify |-> none, freeze |-> none, spill |-> none] = [w \in Worklists |-> none]
    BY DEF Worklists
  <2>4. [w \in Worklists |-> none] \in [Worklists -> E]
    BY <2>2
  <2> QED BY <2>2, <2>3, <2>4 DEF E
<1>6. G.state \in [N -> States]
  BY <1>3 DEF States
<1>7. /\ G.alias \in [N -> N] /\ \A n \in N : G.alias[G.alias[n]] = G.alias[n] /\ G.alias[n] = n
      /\ G.list \in [N -> Seq(N)] /\ G.of \in [N -> Seq(DOMAIN G.moves)]
  BY <1>3, <1>4
<1>8. G.moves \in Seq(Move(N)) /\ G.queue \in Seq(DOMAIN G.moves) /\ G.stack \in Seq(VNodes(N))
  BY <1>3, <1>4
<1>9. Shape(G, N)
  BY <1>1, <1>2, <1>3, <1>5, <1>6, <1>7, <1>8 DEF Shape
<1>10. \A n \in VNodes(N) : G.state[n] = "initial"
  BY <1>3 DEF VNodes
<1> QED BY <1>3, <1>7, <1>9, <1>10 DEF Fresh, Colors, G, N

\* Degrees, lengths and costs are none of the edges.
LEMMA CostedLater ==
  ASSUME NEW G, NEW N, Shape(G, N), NEW f, NEW in, NEW depth
  PROVE  Later(G, Costed(G, f, in, depth), N)
<1> DEFINE H == Costed(G, f, in, depth)
<1>1. PICK degree, length, cost : H = [G EXCEPT !.degree = degree, !.length = length, !.cost = cost]
  BY DEF Costed
<1> HIDE DEF H
<1>2. /\ DOMAIN H = Fields
      /\ H.alias = G.alias /\ H.list = G.list /\ H.stack = G.stack /\ H.color = G.color /\ H.spilled = G.spilled
      /\ H.crosses = G.crosses /\ H.of = G.of /\ H.moves = G.moves /\ H.queue = G.queue /\ H.state = G.state
      /\ H.lists = G.lists
  BY <1>1 DEF Shape, Fields
<1>3. Later(G, H, N)
  BY <1>2, Noting
<1> QED BY <1>3 DEF H

\* Every virtual register is put on a worklist, and nothing else is changed.
Enlisted(G, H, N) ==
  /\ Shape(H, N)
  /\ H.alias = G.alias /\ H.list = G.list /\ H.stack = G.stack /\ H.color = G.color /\ H.spilled = G.spilled
  /\ \A m \in VNodes(N) : On(G, m) => On(H, m)

\* irc_make_worklists puts every virtual register on a list.
LEMMA ListedAll ==
  ASSUME NEW G, NEW N, NEW k \in Nat, N = 1 .. k, Shape(G, N)
  PROVE  LET H == irc_make_worklists(G) IN Enlisted(G, H, N) /\ \A n \in VNodes(N) : On(H, n)
<1> DEFINE S == VNodes(N)
<1>1. VRegNodes(G) = S /\ S \in SUBSET (1 .. k)
  BY DEF VRegNodes, VNodes, Shape
<1>2. PICK h : WorklistsSteps(h, G, k, S)
  BY <1>1, WorklistsUnfold
<1> USE DEF WorklistsSteps
<1>3. ASSUME NEW i \in 1 .. k, Enlisted(G, h[i - 1], N)
      PROVE  Enlisted(h[i - 1], h[i], N) /\ (i \in S => On(h[i], i))
  <2>1. Shape(h[i - 1], N)
    BY <1>3 DEF Enlisted
  <2>2. CASE i \in S
    <3> DEFINE w == Worklist(h[i - 1], i)
    <3>1. h[i] = Listing(h[i - 1], i, w)
      BY <1>2, <2>2
    <3>2. w \in Worklists
      BY DEF Worklist, Worklists
    <3> HIDE DEF w
    <3> DEFINE J == h[i - 1]
               H == Listing(J, i, w)
    <3>3. /\ Shape(H, N) /\ On(H, i) /\ \A m \in VNodes(N) : On(J, m) => On(H, m)
          /\ H.alias = J.alias /\ H.list = J.list /\ H.stack = J.stack /\ H.color = J.color /\ H.spilled = J.spilled
          /\ H.crosses = J.crosses /\ H.of = J.of /\ H.moves = J.moves /\ H.queue = J.queue
          /\ H.state = [J.state EXCEPT ![i] = w]
      <4> HIDE DEF J
      <4> QED BY <2>1, <2>2, <3>2, ListingOn DEF J
    <3>4. h[i] = H
      BY <3>1
    <3> HIDE DEF H
    <3> QED BY <3>3, <3>4 DEF Enlisted
  <2>3. CASE i \notin S
    BY <1>2, <2>1, <2>3 DEF Enlisted
  <2> QED BY <2>2, <2>3
<1> DEFINE Q == {i \in Nat : i =< k => Enlisted(G, h[i], N) /\ \A n \in S : n =< i => On(h[i], n)}
<1>4. 0 \in Q
  <2>1. \A n \in S : ~(n =< 0)
    BY <1>1
  <2> QED BY <1>2, <2>1 DEF Enlisted
<1>5. ASSUME NEW i \in Q PROVE i + 1 \in Q
  <2> SUFFICES ASSUME i + 1 =< k PROVE Enlisted(G, h[i + 1], N) /\ \A n \in S : n =< i + 1 => On(h[i + 1], n)
    OBVIOUS
  <2>1. i \in Nat /\ i + 1 \in 1 .. k /\ i + 1 - 1 = i
    OBVIOUS
  <2>2. Enlisted(G, h[i], N) /\ \A n \in S : n =< i => On(h[i], n)
    OBVIOUS
  <2> HIDE DEF Q
  <2>3. Enlisted(h[i], h[i + 1], N) /\ (i + 1 \in S => On(h[i + 1], i + 1))
    <3> HIDE DEF WorklistsSteps
    <3> QED BY <1>3, <2>1, <2>2
  <2>4. \A n \in S : n =< i + 1 => n =< i \/ n = i + 1
    BY <1>1, <2>1
  <2>5. Enlisted(G, h[i + 1], N)
    <3> HIDE DEF WorklistsSteps
    <3>1. \A m \in VNodes(N) : On(G, m) => On(h[i + 1], m)
      BY <2>2, <2>3 DEF Enlisted
    <3> QED BY <2>2, <2>3, <3>1 DEF Enlisted
  <2>6. \A n \in S : n =< i => On(h[i + 1], n)
    BY <2>2, <2>3 DEF Enlisted
  <2> QED BY <2>3, <2>4, <2>5, <2>6
<1>6. \A i \in Nat : i \in Q
  <2>1. Q \in SUBSET Nat
    OBVIOUS
  <2> HIDE DEF Q
  <2> QED BY <1>4, <1>5, <2>1, NatSet
<1>7. Enlisted(G, h[k], N) /\ \A n \in S : n =< k => On(h[k], n)
  BY <1>6
<1>8. \A n \in S : n =< k
  BY <1>1
<1> QED BY <1>2, <1>7, <1>8

-----------------------------------------------------------------------------
\* What an instruction writes, or a call changes, and what is live behind it.
Clashes(f, in) ==
  {p \in Nodes(f) \X Nodes(f) :
     \E b \in Blocks(f) : \E i \in DOMAIN f.code[b] :
       /\ p[2] \in LiveBehind(f, in, b, i) \ {DefinedBy(f.code[b][i]), CopySource(f.code[b][i])}
       /\ \/ p[1] = DefinedBy(f.code[b][i])
          \/ f.code[b][i].op \in Calls /\ p[1] \in ToSet(CallerSaved)}

\* What clashes is kept apart.
LEMMA ClashesHeld ==
  ASSUME NEW f, WellFormed(f), NEW in, NEW G,
         \A b \in Blocks(f) : \A i \in DOMAIN f.code[b] : Apart(G, f.code[b][i], LiveBehind(f, in, b, i))
  PROVE  \A p \in Clashes(f, in) : Held(G, p[1], p[2])
<1> SUFFICES ASSUME NEW p \in Clashes(f, in) PROVE Held(G, p[1], p[2])
  OBVIOUS
<1>1. PICK b \in Blocks(f) : \E i \in DOMAIN f.code[b] :
        /\ p[2] \in LiveBehind(f, in, b, i) \ {DefinedBy(f.code[b][i]), CopySource(f.code[b][i])}
        /\ \/ p[1] = DefinedBy(f.code[b][i])
           \/ f.code[b][i].op \in Calls /\ p[1] \in ToSet(CallerSaved)
  BY DEF Clashes
<1>2. PICK i \in DOMAIN f.code[b] :
        /\ p[2] \in LiveBehind(f, in, b, i) \ {DefinedBy(f.code[b][i]), CopySource(f.code[b][i])}
        /\ \/ p[1] = DefinedBy(f.code[b][i])
           \/ f.code[b][i].op \in Calls /\ p[1] \in ToSet(CallerSaved)
  BY <1>1
<1>3. Apart(G, f.code[b][i], LiveBehind(f, in, b, i))
  OBVIOUS
<1>4. p[1] # 0
  BY ProperNodes DEF Clashes
<1>5. CASE p[1] = DefinedBy(f.code[b][i])
  BY <1>2, <1>3, <1>4, <1>5 DEF Apart
<1>6. CASE f.code[b][i].op \in Calls /\ p[1] \in ToSet(CallerSaved)
  <2>1. Held(G, p[2], p[1])
    BY <1>2, <1>3, <1>6 DEF Apart
  <2> QED BY <2>1 DEF Held, Linked
<1> QED BY <1>2, <1>5, <1>6

\* The interference graph of a function keeps apart what clashes in it.
THEOREM GraphSound ==
  ASSUME NEW f, WellFormed(f), NEW first
  PROVE  LET G == InterferenceGraph(f, first)
         IN Sound(G, Nodes(f), Clashes(f, compute_liveness(f)), 0) /\ Tidy(G, Nodes(f))
<1> DEFINE N == Nodes(f)
           k == FirstVReg + f.vregs - 1
           in == compute_liveness(f)
           depth == compute_loop_depths(f)
           A == Uncosted(f, first)
           B == irc_build_graph(A, f, in, depth)
           C == Costed(B, f, in, depth)
           D == irc_make_worklists(C)
           P == Clashes(f, in)
<1>1. N = 1 .. k /\ k \in Nat
  BY ProperNodes
<1>2. in \in Among(f, VNodes(Nodes(f)))
  BY LivenessSettles
<1>3. InterferenceGraph(f, first) = D
  BY DEF InterferenceGraph, Prepared
<1>4. Fresh(A, N) /\ A.spilled = <<>> /\ A.color = Colors(N) /\ A.alias \in [N -> N]
  BY UncostedFresh DEF Fresh, Shape
<1> HIDE DEF A, k, in, depth
<1>5. /\ Later(A, B, N)
      /\ \A b \in Blocks(f) : \A i \in DOMAIN f.code[b] : Apart(B, f.code[b][i], LiveBehind(f, in, b, i))
  BY <1>2, <1>4, BuildLater
<1> HIDE DEF B
<1>6. \A p \in P : Held(B, p[1], p[2])
  BY <1>5, ClashesHeld
<1>7. Shape(B, N)
  BY <1>5 DEF Later
<1>8. Later(B, C, N)
  BY <1>7, CostedLater
<1> HIDE DEF C, N
<1>9. Shape(C, N)
  BY <1>8 DEF Later
<1>10. Enlisted(C, D, N) /\ \A n \in VNodes(N) : On(D, n)
  BY <1>1, <1>9, ListedAll
<1> HIDE DEF D
<1>11. Shape(D, N)
  BY <1>10 DEF Enlisted
<1>12. Later(A, C, N)
  BY <1>4, <1>5, <1>8, LaterStill DEF Fresh
<1>13. P \subseteq N \X N
  BY DEF Clashes, N
<1>14. \A p \in P : p[1] \in N /\ p[2] \in N
  BY <1>13
<1> HIDE DEF P
<1>15. \A p \in P : Held(D, p[1], p[2])
  <2> SUFFICES ASSUME NEW p \in P PROVE Held(D, p[1], p[2])
    OBVIOUS
  <2>1. Held(B, p[1], p[2]) /\ p[1] \in N /\ p[2] \in N
    BY <1>6, <1>14
  <2>2. Held(C, p[1], p[2])
    BY <1>7, <1>8, <2>1, HeldLater
  <2> QED BY <1>10, <2>2, SameHeld DEF Enlisted
<1>16. D.spilled = <<>> /\ D.color = Colors(N)
  BY <1>4, <1>10, <1>12 DEF Later, Enlisted
<1>17. Sound(D, N, P, 0)
  BY <1>10, <1>11, <1>13, <1>15, <1>16 DEF Sound
<1>18. Fresh(C, N)
  BY <1>4, <1>12, FreshLater
<1>19. Tidy(D, N)
  BY <1>10, <1>18 DEF Fresh, Tidy, Enlisted, ToSet, VNodes
<1> QED BY <1>3, <1>17, <1>19 DEF N, P, in

-----------------------------------------------------------------------------
(* Rewriting keeps the form of a function. *)

(* The code of a spill: new registers, numbered behind those there are. *)

\* An instruction is proper if more registers are made.
LEMMA ProperLater ==
  ASSUME NEW inst, NEW v \in Nat, NEW w \in Nat, v =< w, NEW blocks, ProperInst(inst, v, blocks)
  PROVE  ProperInst(inst, w, blocks)
<1>1. \A o : ProperOperand(o, v) => ProperOperand(o, w)
  BY DEF ProperOperand
<1> QED BY <1>1 DEF ProperInst

\* A function on the first numbers is a sequence.
LEMMA Seals ==
  ASSUME NEW k \in Nat, NEW s, DOMAIN s = 1 .. k, s = [i \in 1 .. k |-> s[i]]
  PROVE  s \in Seq(ToSet(s)) /\ s \o <<>> = s
<1>1. s \in [1 .. k -> ToSet(s)]
  BY DEF ToSet
<1>2. s \in Seq(ToSet(s))
  BY <1>1, SeqDef
<1> QED BY <1>2, ConcatEmptySeq

\* The operands an instruction reads, each replaced.
LEMMA RenamedProper ==
  ASSUME NEW G, NEW n, NEW v \in Nat, NEW o, ProperOperand(o, v)
  PROVE  /\ ProperOperand(Renamed(G, n, o, v), v + 1)
         /\ Renamed(G, n, o, v).kind = o.kind
         /\ ~IsVReg(o) => Renamed(G, n, o, v) = o
<1>1. CASE irc_operand_is_spilled_node(G, o, n)
  <2> DEFINE r == [o EXCEPT !.id = v]
  <2>1. Renamed(G, n, o, v) = r /\ IsVReg(o)
    BY <1>1 DEF Renamed, irc_operand_is_spilled_node
  <2>2. DOMAIN o = {"kind", "id", "size", "signed"} /\ o.kind # "reg"
    BY <2>1 DEF ProperOperand
  <2>3. DOMAIN r = {"kind", "id", "size", "signed"} /\ r.id = v /\ r.kind = o.kind
    BY <2>2
  <2> HIDE DEF r
  <2> QED BY <2>1, <2>2, <2>3 DEF ProperOperand
<1>2. CASE ~irc_operand_is_spilled_node(G, o, n)
  <2>1. Renamed(G, n, o, v) = o
    BY <1>2 DEF Renamed
  <2> QED BY <2>1 DEF ProperOperand
<1> QED BY <1>1, <1>2

\* An instruction that reads a new register.
LEMMA UsesRenamed ==
  ASSUME NEW G, NEW n, NEW v \in Nat, NEW blocks, NEW inst, ProperInst(inst, v, blocks)
  PROVE  ProperInst(Reading(G, n, inst, v), v + 1, blocks)
<1> DEFINE R(o) == Renamed(G, n, o, v)
           z == Reading(G, n, inst, v)
           args == [i \in DOMAIN inst.args |-> R(inst.args[i])]
           dst == IF inst.op \in ReadsDst THEN R(inst.dst) ELSE inst.dst
           k == Len(inst.args)
<1>1. DOMAIN inst = {"op", "dst", "src1", "src2", "args", "sym"} /\ ~IsPhi(inst) /\ IsSeq(inst.args)
  BY DEF ProperInst
<1>2. k \in Nat /\ DOMAIN inst.args = 1 .. k
  BY <1>1 DEF IsSeq
<1>3. args \in Seq(ToSet(args)) /\ args \o <<>> = args
  <2>1. DOMAIN args = 1 .. k /\ args = [i \in 1 .. k |-> args[i]]
    BY <1>2
  <2> HIDE DEF args
  <2> QED BY <1>2, <2>1, Seals
<1>4. z = [inst EXCEPT !.dst = dst, !.src1 = R(inst.src1), !.src2 = R(inst.src2), !.args = args]
  BY <1>1, <1>3 DEF Reading, MapUses, MapSeq
<1>5. \A o : ProperOperand(o, v) => ProperOperand(o, v + 1) /\ ProperOperand(R(o), v + 1) /\ R(o).kind = o.kind
                                    /\ (~IsVReg(o) => R(o) = o)
  BY RenamedProper DEF ProperOperand
<1> HIDE DEF R, z
<1>6. ProperOperand(dst, v + 1) /\ dst.kind = inst.dst.kind /\ (~IsVReg(inst.dst) => dst = inst.dst)
  BY <1>5 DEF ProperInst
<1>7. \A o \in {inst.src1, inst.src2} : ProperOperand(R(o), v + 1) /\ (~IsVReg(o) => R(o) = o)
  BY <1>5 DEF ProperInst
<1>8. \A o \in ToSet(args) : ProperOperand(o, v + 1)
  <2> SUFFICES ASSUME NEW i \in DOMAIN inst.args PROVE ProperOperand(R(inst.args[i]), v + 1)
    BY DEF ToSet
  <2>1. inst.args[i] \in ToSet(inst.args)
    BY DEF ToSet
  <2>2. ProperOperand(inst.args[i], v)
    BY <2>1 DEF ProperInst
  <2> QED BY <1>5, <2>2
<1> HIDE DEF dst, args
<1>9. /\ DOMAIN z = {"op", "dst", "src1", "src2", "args", "sym"}
      /\ z.op = inst.op /\ z.dst = dst /\ z.src1 = R(inst.src1) /\ z.src2 = R(inst.src2) /\ z.args = args
  BY <1>1, <1>4
<1>10. ~IsPhi(z) /\ IsSeq(z.args)
  BY <1>1, <1>3, <1>9 DEF IsPhi, IsSeq
<1>11. \A o \in {z.dst, z.src1, z.src2} \cup ToSet(z.args) : ProperOperand(o, v + 1)
  BY <1>6, <1>7, <1>8, <1>9
<1>12. z.op = "JMP" => z.dst.kind = "block" /\ z.dst.id \in blocks
  BY <1>6, <1>9 DEF ProperInst, IsVReg
<1>13. z.op = "BR" => \A o \in {z.src1, z.src2} : o.kind = "block" /\ o.id \in blocks
  BY <1>7, <1>9 DEF ProperInst, IsVReg
<1>14. z.op = "PARAM" => IsConst(z.src1) /\ z.src1.id \in Nat
  BY <1>7, <1>9 DEF ProperInst, IsVReg, IsConst
<1> QED BY <1>9, <1>10, <1>11, <1>12, <1>13, <1>14 DEF ProperInst, z, R

\* The code of a block made so far, and the next register.
Made(a, least, blocks) ==
  /\ DOMAIN a = {"code", "vregs"} /\ a.vregs \in Nat /\ least =< a.vregs
  /\ IsSeq(a.code) /\ \A inst \in ToSet(a.code) : ProperInst(inst, a.vregs, blocks)

\* Instructions are added to those of a block.
LEMMA MadeMore ==
  ASSUME NEW a, NEW least \in Nat, NEW blocks, Made(a, least, blocks), NEW more, NEW v \in Nat, a.vregs =< v,
         IsSeq(more), \A inst \in ToSet(more) : ProperInst(inst, v, blocks),
         NEW z, DOMAIN z = {"code", "vregs"}, z.code = a.code \o more, z.vregs = v
  PROVE  Made(z, least, blocks)
<1> DEFINE X == ToSet(a.code) \cup ToSet(more)
           s == a.code
<1>1. s \in Seq(ToSet(s)) /\ more \in Seq(ToSet(more)) /\ ToSet(s) \subseteq X /\ ToSet(more) \subseteq X
  BY DEF Made, IsSeq
<1> HIDE DEF X, s
<1>2. s \in Seq(X) /\ more \in Seq(X)
  BY <1>1, SeqAmong
<1>3. s \o more \in Seq(X) /\ ToSet(s \o more) = ToSet(s) \cup ToSet(more)
  BY <1>2, Joint
<1>4. s \o more \in Seq(ToSet(s \o more))
  BY <1>3, SeqOfItself
<1>5. \A inst \in ToSet(s) : ProperInst(inst, v, blocks)
  BY ProperLater DEF Made, s
<1> QED BY <1>3, <1>4, <1>5 DEF Made, IsSeq, s

\* What gets the value of a spilled node, and what puts it in its slot.
Fetcher(i) ==
  \E op \in {"MOV", "ADDR"} : \E size, signed, src :
    src.kind \notin {"reg", "vreg"} /\ i = Inst(op, ir_op_vreg(0, size, signed), src, ir_op_none)
Putter(i) ==
  i = Nop \/ \E slot, size, signed : slot.kind = "stack" /\ i = MOV(slot, ir_op_vreg(0, size, signed))

\* No operand is proper.
LEMMA NoneProper == \A v : ProperOperand(ir_op_none, v)
BY DEF ProperOperand, ir_op_none, Operand, IsVReg

\* So is a register that was made last.
LEMMA NumberedProper ==
  \A size, signed : \A v \in Nat : ProperOperand([ir_op_vreg(0, size, signed) EXCEPT !.id = v], v + 1)
BY DEF ProperOperand, ir_op_vreg, Operand, IsVReg

\* An instruction that is no jump, PHI or PARAM.
LEMMA MadeInst ==
  ASSUME NEW i, DOMAIN i = {"op", "dst", "src1", "src2", "args", "sym"}, i.op \notin {"PHI", "JMP", "BR", "PARAM"},
         NEW v, NEW blocks, ProperOperand(i.dst, v), ProperOperand(i.src1, v), i.src2 = ir_op_none, i.args = <<>>
  PROVE  ProperInst(i, v, blocks)
<1>1. IsSeq(<<>>) /\ ToSet(<<>>) = {}
  BY SeqOfItself DEF IsSeq
<1>2. \A o \in {i.dst, i.src1, i.src2} \cup ToSet(i.args) : ProperOperand(o, v)
  BY <1>1, NoneProper
<1> QED BY <1>1, <1>2 DEF ProperInst, IsPhi

\* The empty instruction is proper.
LEMMA NopProper == \A v, blocks : ProperInst(Nop, v, blocks)
<1>1. /\ DOMAIN Nop = {"op", "dst", "src1", "src2", "args", "sym"} /\ Nop.op = "NOP"
      /\ Nop.dst = ir_op_none /\ Nop.src1 = ir_op_none /\ Nop.src2 = ir_op_none /\ Nop.args = <<>>
  BY DEF Nop, Inst
<1> QED BY <1>1, NoneProper, MadeInst

\* What gets a value into a new register is.
LEMMA FetchProper ==
  ASSUME NEW i, Fetcher(i), NEW v \in Nat, NEW blocks
  PROVE  ProperInst([i EXCEPT !.dst.id = v], v + 1, blocks)
<1>1. PICK op \in {"MOV", "ADDR"} : \E size, signed, src :
        src.kind \notin {"reg", "vreg"} /\ i = Inst(op, ir_op_vreg(0, size, signed), src, ir_op_none)
  BY DEF Fetcher
<1>2. PICK size, signed, src :
        src.kind \notin {"reg", "vreg"} /\ i = Inst(op, ir_op_vreg(0, size, signed), src, ir_op_none)
  BY <1>1
<1> DEFINE d == [i.dst EXCEPT !.id = v]
           z == [i EXCEPT !.dst = d]
<1>3. /\ DOMAIN i = {"op", "dst", "src1", "src2", "args", "sym"} /\ i.op = op
      /\ i.dst = ir_op_vreg(0, size, signed) /\ i.src1 = src /\ i.src2 = ir_op_none /\ i.args = <<>>
  BY <1>2 DEF Inst
<1>4. ProperOperand(d, v + 1)
  BY <1>3, NumberedProper
<1>5. ProperOperand(src, v + 1)
  BY <1>2 DEF ProperOperand, IsVReg
<1>6. [i EXCEPT !.dst.id = v] = z
  OBVIOUS
<1> HIDE DEF d
<1>7. /\ DOMAIN z = {"op", "dst", "src1", "src2", "args", "sym"} /\ z.op = op
      /\ z.dst = d /\ z.src1 = src /\ z.src2 = ir_op_none /\ z.args = <<>>
  BY <1>3
<1> HIDE DEF z
<1>8. ProperInst(z, v + 1, blocks)
  BY <1>1, <1>4, <1>5, <1>7, MadeInst
<1> QED BY <1>6, <1>8

\* What puts the value of a new register is.
LEMMA PutProper ==
  ASSUME NEW i, Putter(i), NEW v \in Nat, NEW blocks
  PROVE  ProperInst([i EXCEPT !.src1.id = v], v + 1, blocks)
<1> DEFINE d == [i.src1 EXCEPT !.id = v]
           z == [i EXCEPT !.src1 = d]
<1>1. /\ DOMAIN i = {"op", "dst", "src1", "src2", "args", "sym"} /\ i.op \in {"NOP", "MOV"}
      /\ i.src2 = ir_op_none /\ i.args = <<>>
      /\ ProperOperand(i.dst, v + 1) /\ ProperOperand(d, v + 1)
  <2>1. CASE i = Nop
    <3>1. /\ DOMAIN i = {"op", "dst", "src1", "src2", "args", "sym"} /\ i.op = "NOP"
          /\ i.dst = ir_op_none /\ i.src1 = ir_op_none /\ i.src2 = ir_op_none /\ i.args = <<>>
      BY <2>1 DEF Nop, Inst
    <3>2. ProperOperand(d, v + 1)
      BY <3>1 DEF ProperOperand, ir_op_none, Operand, IsVReg
    <3> QED BY <3>1, <3>2, NoneProper
  <2>2. CASE i # Nop
    <3>1. PICK slot, size, signed : slot.kind = "stack" /\ i = MOV(slot, ir_op_vreg(0, size, signed))
      BY <2>2 DEF Putter
    <3>2. /\ DOMAIN i = {"op", "dst", "src1", "src2", "args", "sym"} /\ i.op = "MOV"
          /\ i.dst = slot /\ i.src1 = ir_op_vreg(0, size, signed) /\ i.src2 = ir_op_none /\ i.args = <<>>
      BY <3>1 DEF MOV, Inst
    <3>3. ProperOperand(d, v + 1)
      BY <3>2, NumberedProper
    <3>4. ProperOperand(slot, v + 1)
      BY <3>1 DEF ProperOperand, IsVReg
    <3> QED BY <3>2, <3>3, <3>4
  <2> QED BY <2>1, <2>2
<1>2. [i EXCEPT !.src1.id = v] = z
  OBVIOUS
<1> HIDE DEF d
<1>3. /\ DOMAIN z = {"op", "dst", "src1", "src2", "args", "sym"} /\ z.op = i.op
      /\ z.dst = i.dst /\ z.src1 = d /\ z.src2 = ir_op_none /\ z.args = <<>>
  BY <1>1
<1> HIDE DEF z
<1>4. ProperInst(z, v + 1, blocks)
  BY <1>1, <1>3, MadeInst
<1> QED BY <1>2, <1>4

\* One instruction is added.
LEMMA MadeAppended ==
  ASSUME NEW a, NEW least \in Nat, NEW blocks, Made(a, least, blocks), NEW inst, ProperInst(inst, a.vregs, blocks)
  PROVE  LET z == [a EXCEPT !.code = Append(@, inst)] IN Made(z, least, blocks) /\ z.code # <<>>
<1> DEFINE z == [a EXCEPT !.code = Append(@, inst)]
           s == a.code
           X == ToSet(s) \cup {inst}
<1>1. DOMAIN z = {"code", "vregs"} /\ z.code = Append(s, inst) /\ z.vregs = a.vregs
  BY DEF Made
<1> HIDE DEF z
<1>2. s \in Seq(ToSet(s)) /\ inst \in X /\ ToSet(s) \subseteq X
  BY DEF Made, IsSeq
<1> HIDE DEF X, s
<1>3. s \in Seq(X)
  BY <1>2, SeqAmong
<1>4. Append(s, inst) = s \o <<inst>> /\ Append(s, inst) # <<>>
  BY <1>2, <1>3
<1> DEFINE more == <<inst>>
<1>5. IsSeq(more) /\ ToSet(more) = {inst} /\ z.code = s \o more
  BY <1>1, <1>4, Shorts
<1> HIDE DEF more
<1>6. a.vregs \in Nat /\ a.vregs =< a.vregs
  BY DEF Made
<1>7. Made(z, least, blocks)
  BY <1>1, <1>5, <1>6, MadeMore DEF s
<1> QED BY <1>1, <1>4, <1>7 DEF z

\* Fetching adds one or two.
LEMMA FetchingMade ==
  ASSUME NEW a, NEW least \in Nat, NEW blocks, Made(a, least, blocks), NEW inst, ProperInst(inst, a.vregs, blocks),
         NEW fetch, Fetcher(fetch), NEW G, NEW n
  PROVE  LET z == Fetching(G, n, a, inst, fetch) IN Made(z, least, blocks) /\ z.code # <<>>
<1> DEFINE z == Fetching(G, n, a, inst, fetch)
           v == a.vregs
           x == [fetch EXCEPT !.dst.id = v]
           y == Reading(G, n, inst, v)
           reads == \E o \in ToSet(Uses(inst)) : irc_operand_is_spilled_node(G, o, n)
           s == a.code
<1>1. v \in Nat /\ v + 1 \in Nat /\ v =< v + 1
  BY DEF Made
<1>2. CASE reads
  <2>1. z = [code |-> s \o <<x, y>>, vregs |-> v + 1]
    BY <1>2 DEF Fetching
  <2>2. ProperInst(x, v + 1, blocks)
    BY <1>1, FetchProper
  <2>3. ProperInst(y, v + 1, blocks)
    BY <1>1, UsesRenamed
  <2> HIDE DEF x, y
  <2>4. DOMAIN z = {"code", "vregs"} /\ z.code = s \o <<x, y>> /\ z.vregs = v + 1
    BY <2>1
  <2> HIDE DEF z
  <2> DEFINE more == <<x, y>>
  <2>5. IsSeq(more) /\ ToSet(more) = {x, y} /\ Len(more) = 2
    BY Shorts
  <2> HIDE DEF more
  <2>6. \A i \in ToSet(more) : ProperInst(i, v + 1, blocks)
    BY <2>2, <2>3, <2>5
  <2>7. Made(z, least, blocks)
    <3>1. z.code = a.code \o more /\ z.vregs = v + 1
      BY <2>4 DEF more
    <3> QED BY <1>1, <2>4, <2>5, <2>6, <3>1, MadeMore
  <2>8. s \o more # <<>>
    <3>1. s \in Seq(ToSet(s)) /\ more \in Seq(ToSet(more)) /\ Len(more) = 2
      BY <2>5 DEF Made, IsSeq
    <3> HIDE DEF s
    <3>2. s \in Seq(ToSet(s) \cup ToSet(more)) /\ more \in Seq(ToSet(s) \cup ToSet(more))
      BY <3>1, SeqAmong
    <3>3. ToSet(s \o more) = ToSet(s) \cup ToSet(more)
      BY <3>2, Joint
    <3>4. x \in ToSet(s \o more) /\ ToSet(<<>>) = {}
      BY <2>5, <3>3, Shorts
    <3> QED BY <3>4
  <2> QED BY <2>4, <2>7, <2>8 DEF z, more
<1>3. CASE ~reads
  <2> DEFINE longer == [a EXCEPT !.code = Append(@, inst)]
  <2>1. z = longer
    BY <1>3 DEF Fetching
  <2>2. Made(longer, least, blocks) /\ longer.code # <<>>
    BY MadeAppended
  <2> QED BY <2>1, <2>2
<1> QED BY <1>2, <1>3

\* An instruction that writes a new register.
LEMMA DstProper ==
  ASSUME NEW inst, NEW v \in Nat, NEW blocks, ProperInst(inst, v, blocks), IsVReg(inst.dst)
  PROVE  ProperInst([inst EXCEPT !.dst.id = v], v + 1, blocks)
<1> DEFINE d == [inst.dst EXCEPT !.id = v]
           z == [inst EXCEPT !.dst = d]
<1>1. [inst EXCEPT !.dst.id = v] = z
  OBVIOUS
<1>2. ProperInst(inst, v + 1, blocks)
  BY ProperLater
<1>3. DOMAIN inst.dst = {"kind", "id", "size", "signed"} /\ inst.dst.kind = "vreg"
  BY DEF ProperInst, ProperOperand, IsVReg
<1>4. ProperOperand(d, v + 1)
  BY <1>3 DEF ProperOperand, IsVReg
<1> HIDE DEF d
<1>5. DOMAIN inst = {"op", "dst", "src1", "src2", "args", "sym"} /\ inst.op # "JMP"
  BY <1>3 DEF ProperInst
<1>6. /\ DOMAIN z = {"op", "dst", "src1", "src2", "args", "sym"}
      /\ z.op = inst.op /\ z.dst = d /\ z.src1 = inst.src1 /\ z.src2 = inst.src2 /\ z.args = inst.args
  BY <1>5
<1> HIDE DEF z
<1>7. ProperInst(z, v + 1, blocks)
  BY <1>2, <1>4, <1>5, <1>6 DEF ProperInst, IsPhi
<1> QED BY <1>1, <1>7

\* Storing replaces the last, and adds one.
LEMMA StoringMade ==
  ASSUME NEW a, NEW least \in Nat, NEW blocks, Made(a, least, blocks), a.code # <<>>,
         NEW put, Putter(put), NEW G, NEW n
  PROVE  Made(Storing(G, n, a, put), least, blocks)
<1> DEFINE z == Storing(G, n, a, put)
           v == a.vregs
           s == a.code
           last == Last(s)
           writes == last.op \notin ReadsDst /\ irc_operand_is_spilled_node(G, last.dst, n)
           x == [last EXCEPT !.dst.id = v]
           y == [put EXCEPT !.src1.id = v]
<1>1. v \in Nat /\ v + 1 \in Nat /\ v =< v + 1 /\ least =< v
  BY DEF Made
<1>2. CASE writes
  <2>1. z = [code |-> Front(s) \o <<x, y>>, vregs |-> v + 1]
    BY <1>2 DEF Storing
  <2>2. s \in Seq(ToSet(s)) /\ s # <<>>
    BY DEF Made, IsSeq
  <2>3. last \in ToSet(s) /\ Front(s) \in Seq(ToSet(s))
    <3> HIDE DEF s
    <3>1. Len(s) \in DOMAIN s /\ Len(s) \in Nat
      BY <2>2
    <3>2. \A i \in 1 .. Len(s) - 1 : s[i] \in ToSet(s)
      BY <2>2
    <3>3. SubSeq(s, 1, Len(s) - 1) \in Seq(ToSet(s))
      BY <3>1, <3>2, SubSeqProperties
    <3> QED BY <3>1, <3>3 DEF Front, Last, ToSet
  <2>4. ProperInst(last, v, blocks)
    BY <2>3 DEF Made
  <2>5. IsVReg(last.dst)
    BY <1>2 DEF irc_operand_is_spilled_node
  <2> HIDE DEF last
  <2>6. ProperInst(x, v + 1, blocks)
    BY <1>1, <2>4, <2>5, DstProper
  <2>7. ProperInst(y, v + 1, blocks)
    BY <1>1, PutProper
  <2> HIDE DEF x, y
  <2> DEFINE more == <<x, y>>
             front == Front(s)
             fore == [code |-> front, vregs |-> v]
  <2>8. DOMAIN z = {"code", "vregs"} /\ z.code = front \o more /\ z.vregs = v + 1
    BY <2>1
  <2> HIDE DEF z
  <2>9. IsSeq(more) /\ ToSet(more) = {x, y}
    BY Shorts
  <2> HIDE DEF more
  <2>10. \A i \in ToSet(more) : ProperInst(i, v + 1, blocks)
    BY <2>6, <2>7, <2>9
  <2>11. Made(fore, least, blocks)
    <3>1. IsSeq(front) /\ ToSet(front) \subseteq ToSet(s)
      <4> HIDE DEF s, front
      <4> QED BY <2>3, SeqOfItself DEF IsSeq, front
    <3> QED BY <1>1, <3>1 DEF Made
  <2>12. z.code = fore.code \o more /\ fore.vregs =< v + 1
    BY <1>1, <2>8
  <2> HIDE DEF fore
  <2>13. Made(z, least, blocks)
    BY <1>1, <2>8, <2>9, <2>10, <2>11, <2>12, MadeMore
  <2> QED BY <2>13 DEF z
<1>3. CASE ~writes
  BY <1>3 DEF Storing
<1> QED BY <1>2, <1>3

\* An instruction is rewritten.
LEMMA RewriteInstMade ==
  ASSUME NEW a, NEW least \in Nat, NEW blocks, Made(a, least, blocks), NEW inst, ProperInst(inst, a.vregs, blocks),
         NEW fetch, Fetcher(fetch), NEW put, Putter(put), NEW G, NEW n
  PROVE  Made(RewriteInst(G, n, a, inst, fetch, put), least, blocks)
<1>1. CASE IsNop(inst)
  BY <1>1, MadeAppended DEF RewriteInst
<1>2. CASE ~IsNop(inst)
  <2> DEFINE z == Fetching(G, n, a, inst, fetch)
  <2>1. Made(z, least, blocks) /\ z.code # <<>>
    BY FetchingMade
  <2>2. RewriteInst(G, n, a, inst, fetch, put) = Storing(G, n, z, put)
    BY <1>2 DEF RewriteInst
  <2> HIDE DEF z
  <2> QED BY <2>1, <2>2, StoringMade
<1> QED BY <1>1, <1>2

\* The code of a block is.
LEMMA RewriteCodeMade ==
  ASSUME NEW f, WellFormed(f), NEW b \in Blocks(f),
         NEW fetch, Fetcher(fetch), NEW put, Putter(put), NEW G, NEW n
  PROVE  Made(RewriteCode(G, n, f, b, fetch, put), f.vregs, Blocks(f))
<1> DEFINE k == Len(f.code[b])
           B == Blocks(f)
           a == [code |-> <<>>, vregs |-> f.vregs]
<1>1. k \in Nat /\ DOMAIN f.code[b] = 1 .. k
  BY CodeLen
<1>2. \A i \in 1 .. k : ProperInst(f.code[b][i], f.vregs, B)
  BY <1>1 DEF WellFormed, ToSet
<1> HIDE DEF k
<1>3. PICK h : RewriteCodeSteps(h, G, n, f, b, fetch, put, k)
  BY <1>1, RewriteCodeUnfolds
<1> USE DEF RewriteCodeSteps
<1>4. f.vregs \in Nat
  BY DEF WellFormed
<1>5. Made(a, f.vregs, B)
  <2>1. IsSeq(<<>>) /\ ToSet(<<>>) = {}
    BY Shorts
  <2> QED BY <1>4, <2>1 DEF Made
<1> HIDE DEF B
<1> DEFINE Q == {i \in Nat : i =< k => Made(h[i], f.vregs, B)}
<1>6. 0 \in Q
  BY <1>3, <1>5
<1>7. ASSUME NEW i \in Q PROVE i + 1 \in Q
  <2> SUFFICES ASSUME i + 1 =< k PROVE Made(h[i + 1], f.vregs, B)
    OBVIOUS
  <2>1. i + 1 \in 1 .. k /\ i + 1 - 1 = i /\ Made(h[i], f.vregs, B)
    BY <1>1
  <2>2. h[i + 1] = RewriteInst(G, n, h[i], f.code[b][i + 1], fetch, put)
    BY <1>3, <2>1
  <2>3. ProperInst(f.code[b][i + 1], h[i].vregs, B)
    BY <1>2, <1>4, <2>1, ProperLater DEF Made
  <2> QED BY <1>4, <2>1, <2>2, <2>3, RewriteInstMade
<1>8. \A i \in Nat : i \in Q
  <2>1. Q \in SUBSET Nat
    OBVIOUS
  <2> HIDE DEF Q
  <2> QED BY <1>6, <1>7, <2>1, NatSet
<1>9. Made(h[k], f.vregs, B)
  BY <1>1, <1>8
<1> QED BY <1>3, <1>9 DEF B

\* A function with the same blocks.
Same(f, h) == WellFormed(h) /\ h.order = f.order

\* The blocks laid out are blocks.
LEMMA OrderBlocks ==
  ASSUME NEW f, WellFormed(f)
  PROVE  Blocks(f) \subseteq DOMAIN f.code /\ Len(f.code) \in Nat /\ DOMAIN f.code = 1 .. Len(f.code)
<1>1. f.order \in Seq(DOMAIN f.code) /\ f.code \in Seq(ToSet(f.code))
  BY DEF WellFormed, IsSeq
<1>2. ToSet(f.order) \subseteq DOMAIN f.code
  BY <1>1, SeqOfItself
<1> QED BY <1>1, <1>2 DEF Blocks

\* A block with other code.
LEMMA InBlockSame ==
  ASSUME NEW f, WellFormed(f), NEW b \in Blocks(f), NEW a, Made(a, f.vregs, Blocks(f))
  PROVE  Same(f, InBlock(f, b, a))
<1> DEFINE z == InBlock(f, b, a)
           k == Len(f.code)
           B == Blocks(f)
<1>1. k \in Nat /\ DOMAIN f.code = 1 .. k /\ B \subseteq 1 .. k
  BY OrderBlocks
<1>2. /\ DOMAIN z = {"code", "order", "vregs", "slots", "frame", "saved", "ret"}
      /\ z.order = f.order /\ z.vregs = a.vregs /\ z.code = [f.code EXCEPT ![b] = a.code]
  BY DEF InBlock, WellFormed
<1> HIDE DEF z, k
<1>3. DOMAIN z.code = 1 .. k /\ z.code = [i \in 1 .. k |-> z.code[i]]
  BY <1>1, <1>2
<1>4. IsSeq(z.code)
  BY <1>1, <1>3, Seals DEF IsSeq
<1>5. Blocks(z) = B
  BY <1>2 DEF Blocks
<1>6. a.vregs \in Nat /\ f.vregs \in Nat /\ f.vregs =< a.vregs
  BY DEF Made, WellFormed
<1>7. ASSUME NEW c \in B
      PROVE  IsSeq(z.code[c]) /\ \A inst \in ToSet(z.code[c]) : ProperInst(inst, z.vregs, B)
  <2>1. CASE c = b
    <3>1. z.code[c] = a.code
      BY <1>1, <1>2, <2>1
    <3> QED BY <1>2, <3>1 DEF Made
  <2>2. CASE c # b
    <3>1. z.code[c] = f.code[c]
      BY <1>1, <1>2, <2>2
    <3>2. IsSeq(f.code[c]) /\ \A inst \in ToSet(f.code[c]) : ProperInst(inst, f.vregs, B)
      BY DEF WellFormed
    <3> HIDE DEF B
    <3>3. \A inst \in ToSet(f.code[c]) : ProperInst(inst, a.vregs, B)
      BY <1>6, <3>2, ProperLater
    <3> QED BY <1>2, <3>1, <3>2, <3>3
  <2> QED BY <2>1, <2>2
<1>8. z.order \in Seq(DOMAIN z.code)
  BY <1>1, <1>2, <1>3 DEF WellFormed
<1> QED BY <1>2, <1>4, <1>5, <1>6, <1>7, <1>8 DEF WellFormed, Same, z

\* All blocks with other code.
LEMMA RewriteAllSame ==
  ASSUME NEW f, WellFormed(f), NEW fetch, Fetcher(fetch), NEW put, Putter(put), NEW G, NEW n
  PROVE  Same(f, RewriteAll(G, n, f, fetch, put))
<1> DEFINE k == Len(f.order)
<1>1. k \in Nat /\ DOMAIN f.order = 1 .. k
  BY DEF WellFormed
<1> HIDE DEF k
<1>2. PICK h : RewriteAllSteps(h, G, n, f, fetch, put, k)
  BY <1>1, RewriteAllUnfolds
<1> USE DEF RewriteAllSteps
<1> DEFINE Q == {i \in Nat : i =< k => Same(f, h[i])}
<1>3. 0 \in Q
  BY <1>2 DEF Same
<1>4. ASSUME NEW i \in Q PROVE i + 1 \in Q
  <2> SUFFICES ASSUME i + 1 =< k PROVE Same(f, h[i + 1])
    OBVIOUS
  <2>1. i + 1 \in 1 .. k /\ i + 1 - 1 = i /\ Same(f, h[i])
    BY <1>1
  <2> DEFINE b == f.order[i + 1]
             F == h[i]
             a == RewriteCode(G, n, F, b, fetch, put)
  <2>2. h[i + 1] = InBlock(F, b, a)
    BY <1>2, <2>1
  <2>3. WellFormed(F) /\ F.order = f.order
    BY <2>1 DEF Same
  <2>4. b \in Blocks(F)
    BY <1>1, <2>1, <2>3 DEF Blocks, ToSet
  <2> HIDE DEF F, b
  <2>5. Made(a, F.vregs, Blocks(F))
    BY <2>3, <2>4, RewriteCodeMade
  <2> HIDE DEF a
  <2>6. Same(F, InBlock(F, b, a))
    BY <2>3, <2>4, <2>5, InBlockSame
  <2> QED BY <2>2, <2>3, <2>6 DEF Same
<1>5. \A i \in Nat : i \in Q
  <2>1. Q \in SUBSET Nat
    OBVIOUS
  <2> HIDE DEF Q
  <2> QED BY <1>3, <1>4, <2>1, NatSet
<1>6. Same(f, h[k])
  BY <1>1, <1>5
<1> QED BY <1>2, <1>6

\* The register to read or write is not numbered yet.
LEMMA SizedNew == \A f, n : \E size, signed : Sized(f, n) = ir_op_vreg(0, size, signed)
<1> SUFFICES ASSUME NEW f, NEW n PROVE \E size, signed : Sized(f, n) = ir_op_vreg(0, size, signed)
  OBVIOUS
<1> DEFINE uses == SelectSeq(Insts(f), LAMBDA inst : IsVReg(inst.src1) /\ NodeOf(inst.src1) = n)
           a == Last(DefsOf(f, n)).dst
           b == Head(uses).src1
<1>1. \/ Sized(f, n) = Unnumbered(a)
      \/ Sized(f, n) = Unnumbered(b)
      \/ Sized(f, n) = ir_op_vreg(0, 8, FALSE)
  BY DEF Sized
<1> HIDE DEF a, b
<1>2. Unnumbered(a) = ir_op_vreg(0, a.size, a.signed) /\ Unnumbered(b) = ir_op_vreg(0, b.size, b.signed)
  BY DEF Unnumbered
<1> QED BY <1>1, <1>2

\* A node is given a slot.
LEMMA SpillNodeSame ==
  ASSUME NEW f, WellFormed(f), NEW G, NEW n, NEW o, NEW size, NEW signed, o = ir_op_vreg(0, size, signed)
  PROVE  Same(f, SpillNode(G, n, f, o))
<1> DEFINE align == IF o.size >= 8 THEN 8 ELSE IF o.size >= 4 THEN 4 ELSE o.size
           grown == ir_func_alloc_stack_slot(f, o.size, align)
           slot == ir_op_stack(Last(grown.slots).offset, o.size, o.signed)
           fetch == MOV(o, slot)
           put == MOV(slot, o)
<1>1. SpillNode(G, n, f, o) = RewriteAll(G, n, grown, fetch, put)
  BY DEF SpillNode, InSlot
<1>2. PICK frame, slots : grown = [f EXCEPT !.frame = frame, !.slots = slots]
  BY DEF ir_func_alloc_stack_slot
<1> HIDE DEF grown
<1>3. /\ DOMAIN grown = {"code", "order", "vregs", "slots", "frame", "saved", "ret"}
      /\ grown.order = f.order /\ grown.vregs = f.vregs /\ grown.code = f.code
  BY <1>2 DEF WellFormed
<1>4. WellFormed(grown)
  BY <1>3 DEF WellFormed, Blocks
<1>5. slot.kind = "stack"
  BY DEF ir_op_stack, Operand
<1> HIDE DEF slot
<1>6. Fetcher(fetch)
  <2>1. slot.kind \notin {"reg", "vreg"} /\ fetch = Inst("MOV", ir_op_vreg(0, size, signed), slot, ir_op_none)
    BY <1>5 DEF MOV
  <2> HIDE DEF fetch
  <2> QED BY <2>1 DEF Fetcher
<1>7. Putter(put)
  BY <1>5 DEF Putter
<1> HIDE DEF fetch, put
<1>8. Same(grown, RewriteAll(G, n, grown, fetch, put))
  BY <1>4, <1>6, <1>7, RewriteAllSame
<1> QED BY <1>1, <1>3, <1>8 DEF Same

\* What writes a node is left out.
LEMMA WithoutDefsSame ==
  ASSUME NEW f, WellFormed(f), NEW n
  PROVE  Same(f, WithoutDefs(f, n))
<1> DEFINE z == WithoutDefs(f, n)
           k == Len(f.code)
           B == Blocks(f)
           Without(inst) == IF DefinedBy(inst) = n THEN Nop ELSE inst
           Of(b) == [i \in DOMAIN f.code[b] |-> Without(f.code[b][i])]
           code == [b \in DOMAIN f.code |-> IF b \in B THEN Of(b) \o <<>> ELSE f.code[b]]
<1>1. k \in Nat /\ DOMAIN f.code = 1 .. k /\ B \subseteq 1 .. k
  BY OrderBlocks
<1>2. z = [f EXCEPT !.code = code \o <<>>]
  BY DEF WithoutDefs, MapInsts, MapSeq
<1>3. \A b \in B : IsSeq(Of(b)) /\ Of(b) \o <<>> = Of(b)
  <2> SUFFICES ASSUME NEW b \in B PROVE Of(b) \in Seq(ToSet(Of(b))) /\ Of(b) \o <<>> = Of(b)
    BY DEF IsSeq
  <2> DEFINE s == Of(b)
             m == Len(f.code[b])
  <2>1. m \in Nat /\ DOMAIN f.code[b] = 1 .. m
    BY CodeLen
  <2>2. DOMAIN s = 1 .. m /\ s = [i \in 1 .. m |-> s[i]]
    BY <2>1
  <2> HIDE DEF s, m
  <2>3. s \in Seq(ToSet(s)) /\ s \o <<>> = s
    BY <2>1, <2>2, Seals
  <2> QED BY <2>3 DEF s
<1>4. \A b \in B : \A inst \in ToSet(Of(b)) : ProperInst(inst, f.vregs, B)
  <2> SUFFICES ASSUME NEW b \in B, NEW i \in DOMAIN f.code[b] PROVE ProperInst(Without(f.code[b][i]), f.vregs, B)
    BY DEF ToSet
  <2>1. ProperInst(f.code[b][i], f.vregs, B)
    BY DEF WellFormed, ToSet
  <2> QED BY <2>1, NopProper
<1> HIDE DEF Of
<1>5. code \o <<>> = code
  <2>1. DOMAIN code = 1 .. k /\ code = [b \in 1 .. k |-> code[b]]
    BY <1>1
  <2> HIDE DEF code, k
  <2> QED BY <1>1, <2>1, Seals
<1>6. DOMAIN code = 1 .. k /\ code = [b \in 1 .. k |-> code[b]] /\ \A b \in B : code[b] = Of(b)
  BY <1>1, <1>3
<1> HIDE DEF code, z, k
<1>7. /\ DOMAIN z = {"code", "order", "vregs", "slots", "frame", "saved", "ret"}
      /\ z.order = f.order /\ z.vregs = f.vregs /\ z.code = code
  BY <1>2, <1>5 DEF WellFormed
<1>8. IsSeq(z.code)
  BY <1>1, <1>6, <1>7, Seals DEF IsSeq
<1>9. Blocks(z) = B
  BY <1>7 DEF Blocks
<1>10. z.order \in Seq(DOMAIN z.code)
  BY <1>1, <1>6, <1>7 DEF WellFormed
<1>11. \A b \in B : IsSeq(z.code[b]) /\ \A inst \in ToSet(z.code[b]) : ProperInst(inst, z.vregs, B)
  BY <1>3, <1>4, <1>6, <1>7
<1>12. z.vregs \in Nat
  BY <1>7 DEF WellFormed
<1> QED BY <1>7, <1>8, <1>9, <1>10, <1>11, <1>12 DEF WellFormed, Same, z

\* A node is computed again where it is needed.
LEMMA RematerializeSame ==
  ASSUME NEW f, WellFormed(f), NEW G, NEW n, NEW o, NEW size, NEW signed, o = ir_op_vreg(0, size, signed),
         NEW def, is_rematerializable_inst(def)
  PROVE  Same(f, Rematerialize(G, n, f, o, def))
<1> DEFINE less == WithoutDefs(f, n)
           fetch == Inst(def.op, o, def.src1, ir_op_none)
<1>1. Same(f, less)
  BY WithoutDefsSame
<1>2. Rematerialize(G, n, f, o, def) = RewriteAll(G, n, less, fetch, Nop)
  BY DEF Rematerialize
<1>3. def.op \in {"MOV", "ADDR"} /\ def.src1.kind \notin {"reg", "vreg"}
  BY DEF is_rematerializable_inst, IsConst, InMemory
<1>4. Fetcher(fetch)
  BY <1>3 DEF Fetcher
<1>5. Putter(Nop)
  BY DEF Putter
<1> HIDE DEF fetch, less
<1>6. Same(less, RewriteAll(G, n, less, fetch, Nop))
  BY <1>1, <1>4, <1>5, RewriteAllSame DEF Same
<1> QED BY <1>1, <1>2, <1>6 DEF Same

\* One spilled node.
LEMMA RewriteNodeSame ==
  ASSUME NEW f, WellFormed(f), NEW G, NEW before, NEW n
  PROVE  Same(f, RewriteNode(G, before, f, n))
<1>1. PICK size, signed : Sized(before, n) = ir_op_vreg(0, size, signed)
  BY SizedNew
<1>2. CASE Rematerializable(before, n)
  <2>1. is_rematerializable_inst(DefsOf(before, n)[1])
    BY <1>2 DEF Rematerializable
  <2>2. RewriteNode(G, before, f, n) = Rematerialize(G, n, f, Sized(before, n), DefsOf(before, n)[1])
    BY <1>2 DEF RewriteNode
  <2> QED BY <1>1, <2>1, <2>2, RematerializeSame
<1>3. CASE ~Rematerializable(before, n)
  <2>1. RewriteNode(G, before, f, n) = SpillNode(G, n, f, Sized(before, n))
    BY <1>3 DEF RewriteNode
  <2> QED BY <1>1, <2>1, SpillNodeSame
<1> QED BY <1>2, <1>3

\* What a spill makes of a function is a function again.
THEOREM RewritingKeepsForm ==
  ASSUME NEW f, WellFormed(f), NEW G, NEW X, G.spilled \in Seq(X)
  PROVE  WellFormed(rewrite_spilled_program(G, f))
<1> DEFINE k == Len(G.spilled)
<1>1. k \in Nat /\ DOMAIN G.spilled = 1 .. k
  OBVIOUS
<1> HIDE DEF k
<1>2. PICK h : RewriteSteps(h, G, f, k)
  BY <1>1, RewriteUnfolds
<1> USE DEF RewriteSteps
<1> DEFINE Q == {i \in Nat : i =< k => WellFormed(h[i])}
<1>3. 0 \in Q
  BY <1>2
<1>4. ASSUME NEW i \in Q PROVE i + 1 \in Q
  <2> SUFFICES ASSUME i + 1 =< k PROVE WellFormed(h[i + 1])
    OBVIOUS
  <2>1. i + 1 \in 1 .. k /\ i + 1 - 1 = i /\ WellFormed(h[i])
    BY <1>1
  <2>2. h[i + 1] = RewriteNode(G, f, h[i], G.spilled[i + 1])
    BY <1>2, <2>1
  <2> QED BY <2>1, <2>2, RewriteNodeSame DEF Same
<1>5. \A i \in Nat : i \in Q
  <2>1. Q \in SUBSET Nat
    OBVIOUS
  <2> HIDE DEF Q
  <2> QED BY <1>3, <1>4, <2>1, NatSet
<1>6. WellFormed(h[k])
  BY <1>1, <1>5
<1> QED BY <1>2, <1>6

-----------------------------------------------------------------------------
(* Reducing comes to an end: every step makes the measure of Allocation smaller. *)

\* Of two tuples of naturals one comes first if, at a place it is less at, it is
\* not greater at any before.
LEMMA Lexical ==
  ASSUME NEW k \in Nat, NEW x, NEW y, DOMAIN x = 1 .. k, \A i \in 1 .. k : x[i] \in Nat /\ y[i] \in Nat,
         NEW i \in 1 .. k, x[i] < y[i], \A j \in 1 .. i - 1 : x[j] =< y[j]
  PROVE  Smaller(x, y)
<1> DEFINE S == {j \in Nat : j \in 1 .. k /\ x[j] < y[j]}
           m == Min(S)
<1>1. S \in SUBSET Nat /\ i \in S
  OBVIOUS
<1>2. m \in S /\ \A j \in S : m =< j
  <2> HIDE DEF S
  <2> QED BY <1>1, MinOfNaturals
<1> HIDE DEF m
<1>3. m \in 1 .. k /\ x[m] < y[m] /\ m =< i
  BY <1>1, <1>2
<1>4. ASSUME NEW j \in 1 .. m - 1 PROVE x[j] = y[j]
  <2>1. j \in 1 .. k /\ j \in 1 .. i - 1 /\ j \in Nat /\ ~(m =< j)
    BY <1>3
  <2>2. ~(x[j] < y[j])
    BY <1>2, <2>1
  <2> QED BY <2>1, <2>2
<1> QED BY <1>3, <1>4 DEF Smaller

\* A subset that is not all has fewer elements.
LEMMA Fewer ==
  ASSUME NEW S, IsFiniteSet(S), NEW T \in SUBSET S
  PROVE  /\ IsFiniteSet(T) /\ Cardinality(S) \in Nat /\ Cardinality(T) \in Nat
         /\ Cardinality(T) =< Cardinality(S) /\ (T # S => Cardinality(T) < Cardinality(S))
<1>1. IsFiniteSet(T) /\ Cardinality(T) =< Cardinality(S) /\ (Cardinality(S) = Cardinality(T) => S = T)
  BY FS_Subset
<1>2. Cardinality(S) \in Nat /\ Cardinality(T) \in Nat
  BY <1>1, FS_CardinalityType
<1> QED BY <1>1, <1>2

\* The entries of the worklists.
Entries(G) == Len(G.lists["simplify"]) + Len(G.lists["freeze"]) + Len(G.lists["spill"])

\* The measure is six naturals.
LEMMA MeasureShape ==
  ASSUME NEW G, NEW N, Shape(G, N), IsFiniteSet(N)
  PROVE  /\ IsFiniteSet(Left(G)) /\ IsFiniteSet(Unsettled(G))
         /\ IsFiniteSet(InState(G, "spill")) /\ IsFiniteSet(InState(G, "freeze"))
         /\ DOMAIN Measure(G) = 1 .. 6 /\ \A i \in 1 .. 6 : Measure(G)[i] \in Nat
         /\ Measure(G)[1] = Cardinality(Left(G)) /\ Measure(G)[2] = Cardinality(Unsettled(G))
         /\ Measure(G)[3] = Len(G.queue) /\ Measure(G)[4] = Cardinality(InState(G, "spill"))
         /\ Measure(G)[5] = Cardinality(InState(G, "freeze")) /\ Measure(G)[6] = Entries(G)
<1>1. Left(G) \subseteq N /\ \A w : InState(G, w) \subseteq N
  BY DEF Left, InState, VRegNodes, Shape
<1>2. Unsettled(G) \subseteq 1 .. Len(G.moves) /\ Len(G.moves) \in Nat
  BY DEF Unsettled, Shape
<1>3. IsFiniteSet(1 .. Len(G.moves))
  BY <1>2, FS_Interval
<1>4. /\ IsFiniteSet(Left(G)) /\ IsFiniteSet(Unsettled(G))
      /\ IsFiniteSet(InState(G, "spill")) /\ IsFiniteSet(InState(G, "freeze"))
  BY <1>1, <1>2, <1>3, FS_Subset
<1>5. /\ Cardinality(Left(G)) \in Nat /\ Cardinality(Unsettled(G)) \in Nat
      /\ Cardinality(InState(G, "spill")) \in Nat /\ Cardinality(InState(G, "freeze")) \in Nat
  BY <1>4, FS_CardinalityType
<1>6. Len(G.queue) \in Nat /\ Entries(G) \in Nat
  <2>1. G.queue \in Seq(DOMAIN G.moves)
    BY DEF Shape
  <2>2. \A w \in Worklists : G.lists[w] \in Seq(VNodes(N))
    BY DEF Shape
  <2>3. \A w \in Worklists : Len(G.lists[w]) \in Nat
    BY <2>2
  <2>4. "simplify" \in Worklists /\ "freeze" \in Worklists /\ "spill" \in Worklists
    BY DEF Worklists
  <2> DEFINE c(w) == Len(G.lists[w])
  <2>6. c("simplify") \in Nat /\ c("freeze") \in Nat /\ c("spill") \in Nat
    BY <2>3, <2>4
  <2> HIDE DEF c
  <2>7. c("simplify") + c("freeze") + c("spill") \in Nat
    BY <2>6
  <2>5. Entries(G) \in Nat
    BY <2>7 DEF Entries, c
  <2> QED BY <2>1, <2>5
<1> DEFINE a == Cardinality(Left(G))
           b == Cardinality(Unsettled(G))
           c == Len(G.queue)
           d == Cardinality(InState(G, "spill"))
           e == Cardinality(InState(G, "freeze"))
           t == Entries(G)
<1>7. Measure(G) = <<a, b, c, d, e, t>>
  BY DEF Measure, Entries
<1> HIDE DEF a, b, c, d, e, t
<1>8. /\ DOMAIN <<a, b, c, d, e, t>> = 1 .. 6
      /\ <<a, b, c, d, e, t>>[1] = a /\ <<a, b, c, d, e, t>>[2] = b /\ <<a, b, c, d, e, t>>[3] = c
      /\ <<a, b, c, d, e, t>>[4] = d /\ <<a, b, c, d, e, t>>[5] = e /\ <<a, b, c, d, e, t>>[6] = t
  OBVIOUS
<1>9. a \in Nat /\ b \in Nat /\ c \in Nat /\ d \in Nat /\ e \in Nat /\ t \in Nat
  BY <1>5, <1>6 DEF a, b, c, d, e, t
<1>10. /\ DOMAIN Measure(G) = 1 .. 6 /\ Measure(G)[1] = a /\ Measure(G)[2] = b /\ Measure(G)[3] = c
       /\ Measure(G)[4] = d /\ Measure(G)[5] = e /\ Measure(G)[6] = t
  BY <1>7, <1>8
<1>11. \A i \in 1 .. 6 : Measure(G)[i] \in Nat
  <2>1. \A i \in 1 .. 6 : i = 1 \/ i = 2 \/ i = 3 \/ i = 4 \/ i = 5 \/ i = 6
    OBVIOUS
  <2> QED BY <1>9, <1>10, <2>1
<1> QED BY <1>4, <1>10, <1>11 DEF a, b, c, d, e, t

\* No node is put back, and no copy that is settled is open again.
Shrunk(G, H) == Left(H) \subseteq Left(G) /\ Unsettled(H) \subseteq Unsettled(G)

\* What makes the measure smaller, when no node is put back and no copy opened.
LEMMA Counts ==
  ASSUME NEW G, NEW H, NEW N, Shape(G, N), Shape(H, N), IsFiniteSet(N), Shrunk(G, H),
         \/ Left(H) # Left(G)
         \/ Unsettled(H) # Unsettled(G)
         \/ Len(H.queue) < Len(G.queue)
         \/ /\ H.queue = G.queue
            /\ InState(H, "spill") \subseteq InState(G, "spill")
            /\ InState(H, "freeze") \subseteq InState(G, "freeze") /\ InState(H, "freeze") # InState(G, "freeze")
         \/ H.queue = G.queue /\ H.state = G.state /\ H.alias = G.alias /\ Entries(H) < Entries(G)
  PROVE  Smaller(Measure(H), Measure(G))
<1> DEFINE x == Measure(H)
           y == Measure(G)
<1>1. /\ DOMAIN x = 1 .. 6 /\ \A i \in 1 .. 6 : x[i] \in Nat /\ y[i] \in Nat
      /\ x[1] = Cardinality(Left(H)) /\ y[1] = Cardinality(Left(G))
      /\ x[2] = Cardinality(Unsettled(H)) /\ y[2] = Cardinality(Unsettled(G))
      /\ x[3] = Len(H.queue) /\ y[3] = Len(G.queue)
      /\ x[4] = Cardinality(InState(H, "spill")) /\ y[4] = Cardinality(InState(G, "spill"))
      /\ x[5] = Cardinality(InState(H, "freeze")) /\ y[5] = Cardinality(InState(G, "freeze"))
      /\ x[6] = Entries(H) /\ y[6] = Entries(G)
  BY MeasureShape
<1>2. /\ IsFiniteSet(Left(G)) /\ IsFiniteSet(Unsettled(G))
      /\ IsFiniteSet(InState(G, "spill")) /\ IsFiniteSet(InState(G, "freeze"))
  BY MeasureShape
<1> HIDE DEF x, y
<1>3. x[1] =< y[1] /\ (Left(H) # Left(G) => x[1] < y[1])
  BY <1>1, <1>2, Fewer DEF Shrunk
<1>4. x[2] =< y[2] /\ (Unsettled(H) # Unsettled(G) => x[2] < y[2])
  BY <1>1, <1>2, Fewer DEF Shrunk
<1>5. /\ InState(H, "spill") \subseteq InState(G, "spill") => x[4] =< y[4]
      /\ InState(H, "freeze") \subseteq InState(G, "freeze") => x[5] =< y[5]
      /\ InState(H, "freeze") \subseteq InState(G, "freeze") /\ InState(H, "freeze") # InState(G, "freeze") => x[5] < y[5]
  BY <1>1, <1>2, Fewer
<1>6. ASSUME NEW i \in 1 .. 6, x[i] < y[i], \A j \in 1 .. i - 1 : x[j] =< y[j] PROVE Smaller(x, y)
  BY <1>1, <1>6, Lexical
<1>7. CASE Left(H) # Left(G)
  <2>1. \A j \in 1 .. 1 - 1 : x[j] =< y[j]
    OBVIOUS
  <2>2. 1 \in 1 .. 6 /\ x[1] < y[1]
    BY <1>3, <1>7
  <2> QED BY <1>6, <2>1, <2>2 DEF x, y
<1>8. CASE Unsettled(H) # Unsettled(G)
  <2>1. \A j \in 1 .. 2 - 1 : x[j] =< y[j]
    <3>1. \A j \in 1 .. 2 - 1 : j = 1
      OBVIOUS
    <3> QED BY <1>3, <3>1
  <2>2. 2 \in 1 .. 6 /\ x[2] < y[2]
    BY <1>4, <1>8
  <2> QED BY <1>6, <2>1, <2>2 DEF x, y
<1>9. CASE Len(H.queue) < Len(G.queue)
  <2>1. \A j \in 1 .. 3 - 1 : x[j] =< y[j]
    <3>1. \A j \in 1 .. 3 - 1 : j = 1 \/ j = 2
      OBVIOUS
    <3> QED BY <1>3, <1>4, <3>1
  <2>2. 3 \in 1 .. 6 /\ x[3] < y[3]
    BY <1>1, <1>9
  <2> QED BY <1>6, <2>1, <2>2 DEF x, y
<1>10. CASE /\ H.queue = G.queue
            /\ InState(H, "spill") \subseteq InState(G, "spill")
            /\ InState(H, "freeze") \subseteq InState(G, "freeze") /\ InState(H, "freeze") # InState(G, "freeze")
  <2>1. x[3] =< y[3] /\ x[4] =< y[4] /\ x[5] < y[5]
    BY <1>1, <1>5, <1>10
  <2>2. \A j \in 1 .. 5 - 1 : x[j] =< y[j]
    <3>1. \A j \in 1 .. 5 - 1 : j = 1 \/ j = 2 \/ j = 3 \/ j = 4
      OBVIOUS
    <3> QED BY <1>3, <1>4, <2>1, <3>1
  <2>3. 5 \in 1 .. 6
    OBVIOUS
  <2> QED BY <1>6, <2>1, <2>2, <2>3 DEF x, y
<1>11. CASE H.queue = G.queue /\ H.state = G.state /\ H.alias = G.alias /\ Entries(H) < Entries(G)
  <2>1. \A w : InState(H, w) = InState(G, w)
    BY <1>11 DEF InState, VRegNodes
  <2>2. x[3] =< y[3] /\ x[4] =< y[4] /\ x[5] =< y[5] /\ x[6] < y[6]
    BY <1>1, <1>5, <1>11, <2>1
  <2>3. \A j \in 1 .. 6 - 1 : x[j] =< y[j]
    <3>1. \A j \in 1 .. 6 - 1 : j = 1 \/ j = 2 \/ j = 3 \/ j = 4 \/ j = 5
      OBVIOUS
    <3> QED BY <1>3, <1>4, <2>2, <3>1
  <2>4. 6 \in 1 .. 6
    OBVIOUS
  <2> QED BY <1>6, <2>2, <2>3, <2>4 DEF x, y
<1> QED BY <1>7, <1>8, <1>9, <1>10, <1>11

\* The graph between two steps, but for its edges.
Orderly(G, N) == Sound(G, N, {}, 0) /\ Tidy(G, N)

\* The states of the nodes between two steps.
LEMMA OrderlyStates ==
  ASSUME NEW G, NEW N, Orderly(G, N), NEW n \in VNodes(N)
  PROVE  G.state[n] \in IF G.alias[n] = n THEN Worklists \cup {"stack"} ELSE {"coalesced"}
<1>1. n # 0
  BY DEF VNodes, FirstVReg
<1>2. CASE G.alias[n] # n
  BY <1>2 DEF Orderly, Tidy
<1>3. CASE G.alias[n] = n
  <2>1. On(G, n)
    BY <1>1, <1>3 DEF Orderly, Sound
  <2>2. n \in ToSet(G.stack) => G.state[n] = "stack"
    BY DEF Orderly, Tidy
  <2> QED BY <1>3, <2>1, <2>2 DEF On
<1> QED BY <1>2, <1>3

\* A later graph has no more nodes to do away with, and no more open copies.
LEMMA LaterShrunk ==
  ASSUME NEW G, NEW H, NEW N, Orderly(G, N), Later(G, H, N)
  PROVE  Shrunk(G, H) /\ Orderly(H, N)
<1>1. Shape(G, N) /\ Shape(H, N) /\ H.alias = G.alias /\ H.stack = G.stack
  BY DEF Orderly, Sound, Later
<1>2. \A n \in VNodes(N), w \in Kept : H.state[n] = w <=> G.state[n] = w
  BY DEF Later
<1>3. \A n \in ToSet(G.stack) : n \in VNodes(N)
  BY <1>1 DEF Shape, ToSet
<1>4. Tidy(H, N)
  BY <1>1, <1>2, <1>3 DEF Orderly, Tidy, Kept
<1>5. Sound(H, N, {}, 0)
  BY LaterSound DEF Orderly
<1>6. Left(H) \subseteq Left(G)
  <2> SUFFICES ASSUME NEW n \in Left(H) PROVE n \in Left(G)
    OBVIOUS
  <2>1. n \in VNodes(N) /\ G.alias[n] = n /\ H.state[n] \in Worklists
    BY <1>1 DEF Left, VRegNodes, VNodes, Worklists, Shape
  <2>2. G.state[n] # "stack"
    BY <1>2, <2>1 DEF Kept, Worklists
  <2>3. G.state[n] \in Worklists
    BY <2>1, <2>2, OrderlyStates
  <2> QED BY <1>1, <2>1, <2>3 DEF Left, VRegNodes, VNodes, Worklists, Shape
<1>7. DOMAIN H.moves = DOMAIN G.moves
  <2>1. \A n \in VNodes(N) : G.state[n] # "initial"
    BY OrderlyStates DEF Worklists
  <2> QED BY <2>1 DEF Later
<1>8. Unsettled(H) \subseteq Unsettled(G)
  BY <1>7 DEF Later, Unsettled
<1> QED BY <1>4, <1>5, <1>6, <1>8 DEF Shrunk, Orderly

\* What has shrunk twice has shrunk.
LEMMA ShrunkStill ==
  ASSUME NEW G, NEW H, NEW J, Shrunk(G, H), Shrunk(H, J)
  PROVE  /\ Shrunk(G, J)
         /\ Left(H) # Left(G) => Left(J) # Left(G)
         /\ Unsettled(H) # Unsettled(G) => Unsettled(J) # Unsettled(G)
BY DEF Shrunk

\* A worklist is emptied.
LEMMA EmptiedCounts ==
  ASSUME NEW G, NEW N, IsFiniteSet(N), Orderly(G, N), NEW w \in Worklists, G.lists[w] # <<>>,
         \A m \in VNodes(N) : G.state[m] = w => m \notin ToSet(G.lists[w])
  PROVE  LET H == [G EXCEPT !.lists[w] = <<>>] IN Orderly(H, N) /\ Smaller(Measure(H), Measure(G))
<1> DEFINE H == [G EXCEPT !.lists[w] = <<>>]
<1>1. Shape(G, N)
  BY DEF Orderly, Sound
<1>2. Sound(H, N, {}, 0)
  BY EmptiedSound DEF Orderly
<1>3. /\ H.alias = G.alias /\ H.stack = G.stack /\ H.moves = G.moves /\ H.queue = G.queue /\ H.state = G.state
      /\ H.lists = [G.lists EXCEPT ![w] = <<>>]
  BY <1>1 DEF Shape, Fields
<1> HIDE DEF H
<1>4. Orderly(H, N) /\ Shape(H, N)
  BY <1>2, <1>3 DEF Orderly, Tidy, Sound
<1>5. Left(H) = Left(G) /\ Unsettled(H) = Unsettled(G)
  BY <1>3 DEF Left, VRegNodes, Unsettled
<1>6. Entries(H) < Entries(G)
  <2>1. \A v \in Worklists : G.lists[v] \in Seq(VNodes(N)) /\ H.lists[v] = (IF v = w THEN <<>> ELSE G.lists[v])
    BY <1>1, <1>3 DEF Shape
  <2>2. \A v \in Worklists : Len(G.lists[v]) \in Nat /\ Len(H.lists[v]) = (IF v = w THEN 0 ELSE Len(G.lists[v]))
    BY <2>1
  <2>3. Len(G.lists[w]) # 0
    BY <2>1, EmptySeq
  <2>4. "simplify" \in Worklists /\ "freeze" \in Worklists /\ "spill" \in Worklists
    BY DEF Worklists
  <2>5. w = "simplify" \/ w = "freeze" \/ w = "spill"
    BY DEF Worklists
  <2> DEFINE a(v) == Len(G.lists[v])
             b(v) == Len(H.lists[v])
  <2>6. /\ a("simplify") \in Nat /\ a("freeze") \in Nat /\ a("spill") \in Nat /\ a(w) # 0
        /\ b("simplify") = (IF "simplify" = w THEN 0 ELSE a("simplify"))
        /\ b("freeze") = (IF "freeze" = w THEN 0 ELSE a("freeze"))
        /\ b("spill") = (IF "spill" = w THEN 0 ELSE a("spill"))
    BY <2>2, <2>3, <2>4
  <2> HIDE DEF a, b
  <2>7. b("simplify") + b("freeze") + b("spill") < a("simplify") + a("freeze") + a("spill")
    BY <2>5, <2>6
  <2> QED BY <2>7 DEF Entries, a, b
<1>7. Smaller(Measure(H), Measure(G))
  BY <1>1, <1>3, <1>4, <1>5, <1>6, Counts DEF Shrunk
<1> QED BY <1>4, <1>7 DEF H

\* A node that is on a worklist is put on the stack.
LEMMA PushCounts ==
  ASSUME NEW G, NEW N, IsFiniteSet(N), Orderly(G, N), NEW w \in Worklists, NEW rest \in Seq(VNodes(N)),
         NEW n \in VNodes(N), G.state[n] = w,
         \A m \in VNodes(N) : m # n /\ G.state[m] = w /\ m \in ToSet(G.lists[w]) => m \in ToSet(rest)
  PROVE  LET H == Push([G EXCEPT !.lists[w] = rest], n) IN Orderly(H, N) /\ Smaller(Measure(H), Measure(G))
<1> DEFINE A == [G EXCEPT !.lists[w] = rest]
           B == Pushed(A, n)
           C == Push(A, n)
<1>1. Shape(G, N) /\ n \in N
  BY DEF Orderly, Sound, VNodes
<1>2. Sound(A, N, {}, n)
  BY RelistedSound DEF Orderly
<1>3. A.alias = G.alias /\ A.stack = G.stack /\ A.moves = G.moves /\ A.queue = G.queue /\ A.state = G.state
  BY <1>1 DEF Shape, Fields
<1> HIDE DEF A
<1>4. Sound(B, N, {}, 0) /\ Later(B, C, N)
  BY <1>2, PushedSound
<1>5. B.alias = G.alias /\ B.moves = G.moves /\ B.state = [G.state EXCEPT ![n] = "stack"] /\ B.stack = Append(G.stack, n)
  BY <1>2, <1>3 DEF Pushed, Sound, Shape, Fields
<1> HIDE DEF B, C
<1>6. G.alias[n] = n
  BY OrderlyStates DEF Worklists
<1>7. Tidy(B, N)
  <2>1. \A m \in ToSet(B.stack) : m \in ToSet(G.stack) \/ m = n
    <3>1. G.stack \in Seq(VNodes(N))
      BY <1>1 DEF Shape
    <3>2. \A i \in DOMAIN Append(G.stack, n) : (i \in DOMAIN G.stack /\ Append(G.stack, n)[i] = G.stack[i]) \/ Append(G.stack, n)[i] = n
      BY <3>1
    <3> QED BY <1>5, <3>2 DEF ToSet
  <2>2. \A m \in ToSet(G.stack) : m \in N /\ G.state[m] = "stack"
    BY <1>1 DEF Orderly, Tidy, Shape, ToSet, VNodes
  <2>3. \A m \in ToSet(B.stack) : B.state[m] = "stack"
    BY <1>1, <1>5, <2>1, <2>2 DEF Shape
  <2>4. \A m \in VNodes(N) : B.alias[m] # m => B.state[m] = "coalesced"
    BY <1>1, <1>5, <1>6 DEF Orderly, Tidy, Shape, VNodes
  <2> QED BY <2>3, <2>4 DEF Tidy
<1>8. Orderly(B, N) /\ Shape(B, N)
  BY <1>4, <1>7 DEF Orderly, Sound
<1>9. Shrunk(G, B) /\ Left(B) # Left(G)
  <2>1. \A m \in Left(B) : m \in Left(G)
    BY <1>1, <1>5 DEF Left, VRegNodes, Shape
  <2>2. n \in Left(G) /\ n \notin Left(B)
    BY <1>1, <1>5, <1>6 DEF Left, VRegNodes, Worklists, VNodes, Shape
  <2>3. Unsettled(B) = Unsettled(G)
    BY <1>5 DEF Unsettled
  <2> QED BY <2>1, <2>2, <2>3 DEF Shrunk
<1>10. Shrunk(B, C) /\ Orderly(C, N) /\ Shape(C, N)
  BY <1>4, <1>8, LaterShrunk, LaterShape
<1>11. Shrunk(G, C) /\ Left(C) # Left(G)
  BY <1>9, <1>10, ShrunkStill
<1>12. Smaller(Measure(C), Measure(G))
  BY <1>1, <1>10, <1>11, Counts
<1> QED BY <1>10, <1>12 DEF A, C

\* irc_simplify takes away a node, or the stale entries of its worklist.
LEMMA SimplifyCounts ==
  ASSUME NEW G, NEW N, IsFiniteSet(N), Orderly(G, N), G.lists["simplify"] # <<>>
  PROVE  Orderly(irc_simplify(G), N) /\ Smaller(Measure(irc_simplify(G)), Measure(G))
<1> DEFINE w == "simplify"
           top == Popped(G, w)
<1>1. w \in Worklists /\ Shape(G, N)
  BY DEF Worklists, Orderly, Sound
<1>2. irc_simplify(G) = SimplifyNode(G, top)
  BY DEF irc_simplify
<1>3. IF top.node = 0
      THEN \A m \in VNodes(N) : G.state[m] = w => m \notin ToSet(G.lists[w])
      ELSE /\ top.node \in VNodes(N) /\ top.rest \in Seq(VNodes(N)) /\ G.state[top.node] = w
           /\ \A m \in VNodes(N) : m # top.node /\ G.state[m] = w /\ m \in ToSet(G.lists[w]) => m \in ToSet(top.rest)
  BY <1>1, PopsValid
<1> HIDE DEF top
<1>4. CASE top.node = 0
  BY <1>1, <1>2, <1>3, <1>4, EmptiedCounts DEF SimplifyNode
<1>5. CASE top.node # 0
  <2> DEFINE n == top.node
             rest == top.rest
             J == Push([G EXCEPT !.lists[w] = rest], n)
  <2>1. irc_simplify(G) = J
    BY <1>2, <1>5 DEF SimplifyNode
  <2>2. /\ n \in VNodes(N) /\ rest \in Seq(VNodes(N)) /\ G.state[n] = w
        /\ \A m \in VNodes(N) : m # n /\ G.state[m] = w /\ m \in ToSet(G.lists[w]) => m \in ToSet(rest)
    BY <1>3, <1>5
  <2> HIDE DEF n, rest
  <2>3. Orderly(J, N) /\ Smaller(Measure(J), Measure(G))
    BY <1>1, <2>2, PushCounts
  <2> QED BY <2>1, <2>3
<1> QED BY <1>4, <1>5

\* irc_select_spill does the same.
LEMMA SelectSpillCounts ==
  ASSUME NEW G, NEW N, IsFiniteSet(N), Orderly(G, N), G.lists["spill"] # <<>>
  PROVE  Orderly(irc_select_spill(G), N) /\ Smaller(Measure(irc_select_spill(G)), Measure(G))
<1> DEFINE w == "spill"
           s == G.lists[w]
           i == Cheapest(G)
           n == s[i]
           rest == Taken(s, i)
<1>1. w \in Worklists /\ Shape(G, N)
  BY DEF Worklists, Orderly, Sound
<1>2. s \in Seq(VNodes(N))
  BY <1>1 DEF Shape
<1>3. CASE Candidates(G) = {}
  <2>1. \A m \in VNodes(N) : G.state[m] = w => m \notin ToSet(s)
    BY <1>3 DEF Candidates, ToSet
  <2> QED BY <1>1, <1>3, <2>1, EmptiedCounts DEF irc_select_spill
<1>4. CASE Candidates(G) # {}
  <2>1. i \in DOMAIN s /\ G.state[n] = w
    BY <1>1, <1>4, CheapestIsCandidate DEF Candidates
  <2>2. irc_select_spill(G) = Push([G EXCEPT !.lists[w] = rest], n)
    BY <1>4 DEF irc_select_spill
  <2> HIDE DEF i
  <2>3. rest \in Seq(VNodes(N)) /\ \A m \in ToSet(s) : m # n => m \in ToSet(rest)
    BY <1>2, <2>1, TakenRest
  <2>4. n \in VNodes(N)
    BY <1>2, <2>1
  <2> HIDE DEF n, rest
  <2> QED BY <1>1, <2>1, <2>2, <2>3, <2>4, PushCounts DEF s
<1> QED BY <1>3, <1>4

-----------------------------------------------------------------------------
\* A copy that is given up or done stays so, whatever follows.
LEMMA SettledCounts ==
  ASSUME NEW G, NEW N, Orderly(G, N), NEW i \in DOMAIN G.moves, Open(G.moves[i]), NEW w \in MoveStates,
         w \notin {"worklist", "active"}
  PROVE  LET H == Settled(G, i, w) IN Orderly(H, N) /\ Shrunk(G, H) /\ Unsettled(H) # Unsettled(G)
<1> DEFINE H == Settled(G, i, w)
<1>1. Shape(G, N)
  BY DEF Orderly, Sound
<1>2. Later(G, H, N)
  BY <1>1, SettledLater
<1>3. H.moves = [G.moves EXCEPT ![i].state = w]
  BY <1>1 DEF Settled, Shape, Fields
<1>4. G.moves[i] \in Move(N)
  BY <1>1 DEF Shape
<1> HIDE DEF H
<1>5. H.moves[i].state = w
  BY <1>3, <1>4 DEF Move
<1>6. i \in Unsettled(G) /\ i \notin Unsettled(H)
  BY <1>5 DEF Unsettled, Open
<1>7. Shrunk(G, H) /\ Orderly(H, N)
  BY <1>2, LaterShrunk
<1> QED BY <1>6, <1>7 DEF H

\* What is coalesced is left no more.
LEMMA AliasedShrunk ==
  ASSUME NEW G, NEW N, Orderly(G, N), NEW u \in N, NEW v \in VNodes(N), u # v,
         G.alias[u] = u, G.alias[v] = v, G.state[v] # "stack"
  PROVE  Orderly(Aliased(G, u, v), N) /\ Shrunk(G, Aliased(G, u, v))
<1> DEFINE A == Aliased(G, u, v)
<1>1. /\ A.alias = [n \in N |-> IF G.alias[n] = v THEN u ELSE G.alias[n]]
      /\ A.stack = G.stack /\ A.color = G.color /\ A.spilled = G.spilled /\ A.moves = G.moves
      /\ A.state = [G.state EXCEPT ![v] = "coalesced"]
      /\ Shape(A, N) /\ \A m \in VNodes(N) : A.alias[m] = m => On(A, m)
  <2> DEFINE P == {}
  <2>1. Sound(G, N, P, 0)
    BY DEF Orderly
  <2> HIDE DEF P
  <2>2. /\ DOMAIN A = Fields
        /\ A.alias = [n \in N |-> IF G.alias[n] = v THEN u ELSE G.alias[n]]
        /\ A.list = G.list /\ A.stack = G.stack /\ A.color = G.color /\ A.spilled = G.spilled
        /\ A.crosses = G.crosses /\ A.moves = G.moves /\ A.queue = G.queue /\ A.lists = G.lists
        /\ A.of = [G.of EXCEPT ![u] = IF u < FirstVReg THEN @ ELSE @ \o G.of[v]]
        /\ A.state = [G.state EXCEPT ![v] = "coalesced"]
        /\ Shape(A, N) /\ \A m \in VNodes(N) : A.alias[m] = m => On(A, m)
    BY <2>1, AliasedSound
  <2> QED BY <2>2
<1>2. Shape(G, N) /\ v \in N
  BY DEF Orderly, Sound, VNodes
<1> HIDE DEF A
<1>3. Sound(A, N, {}, 0)
  BY <1>1 DEF Orderly, Sound
<1>4. \A n \in ToSet(A.stack) : A.state[n] = "stack"
  <2>1. \A n \in ToSet(G.stack) : n \in N /\ G.state[n] = "stack"
    BY <1>2 DEF Orderly, Tidy, Shape, ToSet, VNodes
  <2> QED BY <1>1, <1>2, <2>1 DEF Shape
<1>5. ASSUME NEW n \in VNodes(N), A.alias[n] # n PROVE A.state[n] = "coalesced"
  <2>1. n \in N
    BY DEF VNodes
  <2>2. CASE n = v
    BY <1>1, <1>2, <2>2 DEF Shape
  <2>3. CASE n # v
    <3>1. G.alias[n] # n
      BY <1>1, <1>5, <2>1, <2>3
    <3>2. G.state[n] = "coalesced"
      BY <3>1 DEF Orderly, Tidy
    <3> QED BY <1>1, <1>2, <2>1, <2>3, <3>2 DEF Shape
  <2> QED BY <2>2, <2>3
<1>6. Left(A) \subseteq Left(G)
  <2> SUFFICES ASSUME NEW n \in Left(A) PROVE n \in Left(G)
    OBVIOUS
  <2>1. n \in N /\ n >= FirstVReg /\ A.alias[n] = n /\ A.state[n] \in Worklists
    BY <1>1 DEF Left, VRegNodes, Worklists
  <2>2. n # v
    BY <1>1, <2>1 DEF Shape
  <2>3. G.alias[n] = n /\ G.state[n] \in Worklists
    BY <1>1, <1>2, <2>1, <2>2 DEF Shape
  <2> QED BY <1>2, <2>1, <2>3 DEF Left, VRegNodes, Worklists, Shape
<1>7. Unsettled(A) = Unsettled(G)
  BY <1>1 DEF Unsettled
<1> QED BY <1>3, <1>4, <1>5, <1>6, <1>7 DEF A, Orderly, Tidy, Shrunk

\* Trying a copy settles it, or leaves it for when something has changed.
LEMMA TryCounts ==
  ASSUME NEW G, NEW N, Orderly(G, N), NEW i \in DOMAIN G.moves, Open(G.moves[i]),
         NEW u \in N, NEW v \in N, G.alias[u] = u, G.alias[v] = v
  PROVE  LET H == Try(G, i, u, v)
         IN Orderly(H, N) /\ Shrunk(G, H) /\ (Unsettled(H) # Unsettled(G) \/ H.queue = G.queue)
<1> DEFINE Reduced(H) == Orderly(H, N) /\ Shrunk(G, H) /\ Unsettled(H) # Unsettled(G)
           C == Settled(G, i, "coalesced")
           frozen == Settled(G, i, "frozen")
           constrained == Settled(G, i, "constrained")
           active == Settled(G, i, "active")
           combined == irc_combine_nodes(C, u, v)
<1>1. Shape(G, N) /\ N \subseteq Nat
  BY DEF Orderly, Sound, Shape
<1>2. Reduced(C) /\ Reduced(frozen) /\ Reduced(constrained)
  BY SettledCounts DEF MoveStates
<1>3. ASSUME NEW H, NEW J, Reduced(H), Later(H, J, N) PROVE Reduced(J)
  <2>1. Orderly(J, N) /\ Shrunk(H, J)
    BY <1>3, LaterShrunk
  <2> QED BY <1>3, <2>1, ShrunkStill
<1>4. \A H : Reduced(H) => Shape(H, N)
  BY DEF Orderly, Sound
<1>5. C.alias = G.alias /\ C.list = G.list /\ C.state = G.state
  BY <1>1 DEF Settled, Shape, Fields
<1> HIDE DEF Reduced
<1>6. \A H : \A n \in N : Reduced(H) => Reduced(irc_ready_for_simplify(H, n))
  <2> SUFFICES ASSUME NEW H, NEW n \in N, Reduced(H) PROVE Reduced(irc_ready_for_simplify(H, n))
    OBVIOUS
  <2>1. Later(H, irc_ready_for_simplify(H, n), N)
    BY <1>4, ReadyLater
  <2> QED BY <1>3, <2>1
<1>7. \A H : \A n \in N : Reduced(H) => Reduced(irc_enable_moves_for_node(H, n))
  <2> SUFFICES ASSUME NEW H, NEW n \in N, Reduced(H) PROVE Reduced(irc_enable_moves_for_node(H, n))
    OBVIOUS
  <2>1. Later(H, irc_enable_moves_for_node(H, n), N)
    BY <1>4, EnableLater
  <2> QED BY <1>3, <2>1
<1>8. Reduced(irc_ready_for_simplify(irc_ready_for_simplify(frozen, u), v))
  <2> HIDE DEF frozen
  <2> QED BY <1>2, <1>6
<1>9. Reduced(irc_ready_for_simplify(irc_enable_moves_for_node(C, u), u))
  <2> HIDE DEF C
  <2> QED BY <1>2, <1>6, <1>7
<1>10. Reduced(irc_ready_for_simplify(irc_ready_for_simplify(
         irc_enable_moves_for_node(irc_enable_moves_for_node(constrained, u), v), u), v))
  <2> HIDE DEF constrained
  <2> DEFINE one == irc_enable_moves_for_node(constrained, u)
             two == irc_enable_moves_for_node(one, v)
             three == irc_ready_for_simplify(two, u)
  <2>1. Reduced(one)
    BY <1>2, <1>7
  <2> HIDE DEF one
  <2>2. Reduced(two)
    BY <1>7, <2>1
  <2> HIDE DEF two
  <2>3. Reduced(three)
    BY <1>6, <2>2
  <2> HIDE DEF three
  <2>4. Reduced(irc_ready_for_simplify(three, v))
    BY <1>6, <2>3
  <2> QED BY <2>4 DEF one, two, three
<1>11. ASSUME u # v, ~(v < FirstVReg), ~irc_is_adjacent(G, u, v), "stack" \notin {G.state[u], G.state[v]}
       PROVE Reduced(irc_ready_for_simplify(combined, u))
  <2>1. v \in VNodes(N)
    BY <1>1, <1>11 DEF VNodes, FirstVReg
  <2>2. ~Listed(G, v, u)
    BY <1>11 DEF irc_is_adjacent, Near
  <2>3. ~Listed(C, v, u) /\ C.alias[u] = u /\ C.alias[v] = v /\ C.state[v] # "stack"
    BY <1>5, <1>11, <2>2 DEF Listed
  <2> DEFINE A == Aliased(C, u, v)
  <2> HIDE DEF C
  <2>4. Orderly(C, N) /\ Shrunk(G, C) /\ Unsettled(C) # Unsettled(G) /\ Sound(C, N, {}, 0)
    BY <1>2 DEF Reduced, Orderly
  <2>5. Orderly(A, N) /\ Shrunk(C, A)
    BY <1>11, <2>1, <2>3, <2>4, AliasedShrunk
  <2>6. Reduced(A)
    BY <2>4, <2>5, ShrunkStill DEF Reduced
  <2>7. Later(A, combined, N)
    BY <1>11, <2>1, <2>3, <2>4, CombineSound
  <2> HIDE DEF A, combined
  <2>8. Reduced(combined)
    BY <1>3, <2>6, <2>7
  <2> QED BY <1>6, <2>8
<1>12. Orderly(active, N) /\ Shrunk(G, active) /\ active.queue = G.queue
  <2>1. Later(G, active, N)
    BY <1>1, SettledLater DEF MoveStates
  <2>2. active.queue = G.queue
    BY <1>1 DEF Settled, Shape, Fields
  <2> HIDE DEF active
  <2> QED BY <2>1, <2>2, LaterShrunk
<1>13. LET H == Try(G, i, u, v) IN Reduced(H) \/ H = active
  <2> HIDE DEF active
  <2> QED BY <1>8, <1>9, <1>10, <1>11 DEF Try, active
<1> QED BY <1>12, <1>13 DEF Reduced

\* irc_coalesce settles a copy, or takes one from those to try.
LEMMA CoalesceCounts ==
  ASSUME NEW G, NEW N, IsFiniteSet(N), Orderly(G, N), G.queue # <<>>
  PROVE  Orderly(irc_coalesce(G), N) /\ Smaller(Measure(irc_coalesce(G)), Measure(G))
<1>1. Shape(G, N) /\ N \subseteq Nat
  BY DEF Orderly, Sound, Shape
<1>2. G.queue \in Seq(DOMAIN G.moves)
  BY <1>1 DEF Shape
<1>3. CASE LastOpen(G) = {}
  <2> DEFINE H == [G EXCEPT !.queue = <<>>]
  <2>1. irc_coalesce(G) = H
    BY <1>3 DEF irc_coalesce
  <2>2. <<>> \in Seq(DOMAIN G.moves)
    OBVIOUS
  <2>3. Later(G, H, N)
    BY <1>1, <2>2, QueueLater
  <2>4. H.queue = <<>>
    BY <1>1 DEF Shape, Fields
  <2> HIDE DEF H
  <2>5. Shrunk(G, H) /\ Orderly(H, N) /\ Shape(H, N)
    BY <2>3, LaterShrunk, LaterShape
  <2>6. Len(H.queue) < Len(G.queue)
    <3>1. Len(G.queue) # 0 /\ Len(G.queue) \in Nat
      BY <1>2, EmptySeq
    <3>2. Len(H.queue) = 0
      BY <2>4
    <3> QED BY <3>1, <3>2
  <2> QED BY <1>1, <2>1, <2>5, <2>6, Counts
<1>4. CASE LastOpen(G) # {}
  <2> DEFINE a == Max(LastOpen(G))
             rest == SubSeq(G.queue, 1, a - 1)
             i == G.queue[a]
             H == [G EXCEPT !.queue = rest]
             x == H.alias[H.moves[i].dst]
             y == H.alias[H.moves[i].src]
             J == TryMove(H, i)
  <2>1. a \in 1 .. Len(G.queue) /\ Len(G.queue) \in Nat /\ G.moves[i].state = "worklist"
    <3>1. LastOpen(G) \in SUBSET (1 .. Len(G.queue)) /\ Len(G.queue) \in Nat
      BY <1>2 DEF LastOpen
    <3>2. Max(LastOpen(G)) \in LastOpen(G)
      BY <1>4, <3>1, MaxIn
    <3> QED BY <3>1, <3>2 DEF LastOpen
  <2>2. irc_coalesce(G) = J
    BY <1>4 DEF irc_coalesce
  <2> HIDE DEF a
  <2>3. i \in DOMAIN G.moves /\ Open(G.moves[i])
    BY <1>2, <2>1 DEF Open
  <2>4. rest \in Seq(DOMAIN G.moves) /\ Len(rest) < Len(G.queue)
    <3>1. \A s \in Seq(DOMAIN G.moves) : \A b \in 1 .. Len(s) :
            SubSeq(s, 1, b - 1) \in Seq(DOMAIN G.moves) /\ Len(SubSeq(s, 1, b - 1)) = b - 1
      BY Shortened
    <3>2. rest \in Seq(DOMAIN G.moves) /\ Len(rest) = a - 1
      BY <1>2, <2>1, <3>1
    <3> QED BY <2>1, <3>2
  <2> HIDE DEF rest, i
  <2>5. Later(G, H, N) /\ H.queue = rest /\ H.moves = G.moves
    <3>1. Later(G, H, N)
      BY <1>1, <2>4, QueueLater
    <3>2. H.queue = rest /\ H.moves = G.moves
      BY <1>1 DEF Shape, Fields
    <3> QED BY <3>1, <3>2
  <2> HIDE DEF H
  <2>6. Orderly(H, N) /\ Shrunk(G, H) /\ Shape(H, N)
    BY <2>5, LaterShrunk, LaterShape
  <2>7. Unsettled(H) = Unsettled(G)
    BY <2>5 DEF Unsettled
  <2>8. H.moves[i] \in Move(N) /\ i \in DOMAIN H.moves /\ Open(H.moves[i])
    BY <2>3, <2>5, <2>6 DEF Shape
  <2>9. x \in N /\ y \in N /\ H.alias[x] = x /\ H.alias[y] = y
    BY <2>6, <2>8 DEF Shape, Move
  <2>10. J = Try(H, i, y, x) \/ J = Try(H, i, x, y)
    BY DEF TryMove
  <2>11. Orderly(J, N) /\ Shrunk(H, J) /\ (Unsettled(J) # Unsettled(H) \/ J.queue = H.queue)
    <3> HIDE DEF x, y, J
    <3> QED BY <2>6, <2>8, <2>9, <2>10, TryCounts
  <2> HIDE DEF x, y, J
  <2>12. Shrunk(G, J) /\ Shape(J, N)
    BY <2>6, <2>11, ShrunkStill DEF Orderly, Sound
  <2>13. Unsettled(J) # Unsettled(G) \/ Len(J.queue) < Len(G.queue)
    BY <2>4, <2>5, <2>7, <2>11
  <2>14. Smaller(Measure(J), Measure(G))
    BY <1>1, <2>12, <2>13, Counts
  <2> QED BY <2>2, <2>11, <2>14
<1> QED BY <1>3, <1>4

-----------------------------------------------------------------------------
\* Freezing moves nothing to the copies to try, nor to the nodes to freeze or spill.
Freed(G, H, N) ==
  /\ H.queue = G.queue
  /\ \A n \in VNodes(N) : H.state[n] \in {"spill", "freeze"} => G.state[n] = H.state[n]

\* A copy that is frozen.
LEMMA FreedOne ==
  ASSUME NEW G, NEW N, Shape(G, N), NEW i, NEW u
  PROVE  Freed(G, FreezeMove(G, i, u), N)
<1> DEFINE x == Settled(G, i, "frozen")
           n == OtherEnd(G, G.moves[i], u)
           m == x.alias[n]
           H == irc_ready_for_simplify(x, n)
<1>1. DOMAIN x = Fields /\ x.queue = G.queue /\ x.state = G.state
  BY DEF Settled, Shape, Fields
<1> HIDE DEF x
<1>2. CASE H = x
  BY <1>1, <1>2 DEF Freed, FreezeMove, x
<1>3. CASE H # x
  <2>1. H = Listing(x, m, "simplify")
    BY <1>3 DEF irc_ready_for_simplify
  <2> HIDE DEF m
  <2>2. H.queue = x.queue /\ H.state = [x.state EXCEPT ![m] = "simplify"]
    BY <1>1, <2>1 DEF Listing, Fields
  <2> HIDE DEF H
  <2>3. DOMAIN x.state = N
    BY <1>1 DEF Shape
  <2>4. \A k \in VNodes(N) : H.state[k] = IF k = m THEN "simplify" ELSE G.state[k]
    BY <1>1, <2>2, <2>3 DEF VNodes
  <2>5. Freed(G, H, N)
    BY <1>1, <2>2, <2>4 DEF Freed
  <2> QED BY <2>5 DEF Freed, FreezeMove, x, H
<1> QED BY <1>2, <1>3

\* All copies of a node.
LEMMA FreezeMovesFreed ==
  ASSUME NEW G, NEW N, Shape(G, N), NEW n, NEW moves \in Seq(DOMAIN G.moves)
  PROVE  Freed(G, FreezeMoves(G, n, moves), N)
<1> DEFINE k == Len(moves)
<1>1. k \in Nat /\ DOMAIN moves = 1 .. k /\ \A i \in 1 .. k : moves[i] \in DOMAIN G.moves
  OBVIOUS
<1> HIDE DEF k
<1>2. PICK h : FreezeMovesSteps(h, G, n, moves, k)
  BY <1>1, FreezeMovesUnfolds
<1>3. \A i \in 0 .. k : Later(G, h[i], N)
  BY <1>1, <1>2, FreezeMovesChain
<1> DEFINE Q == {i \in Nat : i =< k => Freed(G, h[i], N)}
<1>4. 0 \in Q
  BY <1>2 DEF FreezeMovesSteps, Freed
<1>5. ASSUME NEW i \in Q PROVE i + 1 \in Q
  <2> SUFFICES ASSUME i + 1 =< k PROVE Freed(G, h[i + 1], N)
    OBVIOUS
  <2>1. i \in Nat /\ i + 1 \in 1 .. k /\ i + 1 - 1 = i /\ i \in 0 .. k
    BY <1>1
  <2>2. Freed(G, h[i], N)
    BY <1>1
  <2>3. Shape(h[i], N)
    BY <1>3, <2>1, LaterShape
  <2>4. h[i + 1] = FreezeMove(h[i], moves[i + 1], n)
    BY <1>2, <2>1 DEF FreezeMovesSteps
  <2> HIDE DEF Q
  <2>5. Freed(h[i], h[i + 1], N)
    BY <2>3, <2>4, FreedOne
  <2> QED BY <2>2, <2>5 DEF Freed
<1>6. \A i \in Nat : i \in Q
  <2>1. Q \in SUBSET Nat
    OBVIOUS
  <2> HIDE DEF Q
  <2> QED BY <1>4, <1>5, <2>1, NatSet
<1>7. Freed(G, h[k], N)
  BY <1>1, <1>6
<1> QED BY <1>2, <1>7 DEF FreezeMovesSteps

\* irc_freeze has fewer nodes to freeze behind it, or no stale entries, and gives no
\* copy back to be tried.
LEMMA FreezeCounts ==
  ASSUME NEW G, NEW N, IsFiniteSet(N), Orderly(G, N), G.lists["freeze"] # <<>>
  PROVE  Orderly(irc_freeze(G), N) /\ Smaller(Measure(irc_freeze(G)), Measure(G))
<1> DEFINE w == "freeze"
           top == Popped(G, w)
           n == top.node
           H == [G EXCEPT !.lists[w] = top.rest]
           J == Listing(H, n, "simplify")
           F == FreezeMoves(J, n, G.of[n])
<1>1. w \in Worklists /\ "simplify" \in Worklists /\ Shape(G, N) /\ Sound(G, N, {}, 0)
  BY DEF Worklists, Orderly, Sound
<1>2. irc_freeze(G) = FreezeNode(G, top)
  BY DEF irc_freeze
<1>3. IF top.node = 0
      THEN \A m \in VNodes(N) : G.state[m] = w => m \notin ToSet(G.lists[w])
      ELSE /\ top.node \in VNodes(N) /\ top.rest \in Seq(VNodes(N)) /\ G.state[top.node] = w
           /\ \A m \in VNodes(N) : m # top.node /\ G.state[m] = w /\ m \in ToSet(G.lists[w]) => m \in ToSet(top.rest)
  BY <1>1, PopsValid
<1> HIDE DEF top
<1>4. CASE top.node = 0
  <2>1. irc_freeze(G) = [G EXCEPT !.lists[w] = <<>>]
    BY <1>2, <1>4 DEF FreezeNode
  <2>2. LET A == [G EXCEPT !.lists[w] = <<>>] IN Orderly(A, N) /\ Smaller(Measure(A), Measure(G))
    BY <1>1, <1>3, <1>4, EmptiedCounts
  <2> QED BY <2>1, <2>2
<1>5. CASE top.node # 0
  <2>1. irc_freeze(G) = F
    BY <1>2, <1>5 DEF FreezeNode
  <2>2. n \in VNodes(N) /\ n \in N /\ G.state[n] = w
    BY <1>3, <1>5 DEF VNodes
  <2>3. G.alias[n] = n
    BY <2>2, OrderlyStates DEF Worklists
  <2>4. Sound(H, N, {}, n)
    BY <1>1, <1>3, <1>5, RelistedSound
  <2>5. /\ DOMAIN H = Fields /\ H.alias = G.alias /\ H.stack = G.stack /\ H.moves = G.moves
        /\ H.queue = G.queue /\ H.state = G.state
    BY <1>1 DEF Shape, Fields
  <2> HIDE DEF n, H
  <2>6. Sound(J, N, {}, 0)
    BY <1>1, <2>2, <2>4, <2>5, ListedSound
  <2>7. /\ J.alias = G.alias /\ J.stack = G.stack /\ J.moves = G.moves /\ J.queue = G.queue
        /\ J.state = [G.state EXCEPT ![n] = "simplify"]
    BY <2>5 DEF Listing, Fields
  <2> HIDE DEF J
  <2>8. Tidy(J, N)
    <3>1. \A m \in ToSet(G.stack) : m \in N /\ G.state[m] = "stack"
      BY <1>1 DEF Orderly, Tidy, Shape, ToSet, VNodes
    <3>2. \A m \in ToSet(J.stack) : J.state[m] = "stack"
      BY <1>1, <2>2, <2>7, <3>1 DEF Shape
    <3>3. \A m \in VNodes(N) : J.alias[m] # m => J.state[m] = "coalesced"
      BY <1>1, <2>2, <2>3, <2>7 DEF Orderly, Tidy, Shape, VNodes
    <3> QED BY <3>2, <3>3 DEF Tidy
  <2>9. Orderly(J, N) /\ Shape(J, N)
    BY <2>6, <2>8 DEF Orderly, Sound
  <2>10. Shrunk(G, J)
    <3>1. Left(J) = Left(G)
      BY <1>1, <2>2, <2>7 DEF Left, VRegNodes, Shape
    <3>2. Unsettled(J) = Unsettled(G)
      BY <2>7 DEF Unsettled
    <3> QED BY <3>1, <3>2 DEF Shrunk
  <2>11. Freed(G, J, N)
    BY <1>1, <2>2, <2>7 DEF Freed, Shape, VNodes
  <2>12. G.of[n] \in Seq(DOMAIN J.moves)
    BY <1>1, <2>2, <2>7 DEF Shape
  <2>13. Later(J, F, N) /\ Freed(J, F, N)
    BY <2>9, <2>12, FreezeMovesLater, FreezeMovesFreed
  <2> HIDE DEF F
  <2>14. Orderly(F, N) /\ Shrunk(J, F) /\ Shape(F, N)
    BY <2>9, <2>13, LaterShrunk, LaterShape
  <2>15. Shrunk(G, F) /\ Freed(G, F, N)
    BY <2>10, <2>11, <2>13, <2>14, ShrunkStill DEF Freed
  <2>16. \A v \in {"spill", "freeze"} : InState(F, v) \subseteq InState(G, v)
    BY <1>1, <2>14, <2>15 DEF InState, VRegNodes, Freed, Shape, VNodes
  <2>17. n \in InState(G, "freeze") /\ n \notin InState(F, "freeze")
    <3>1. J.state[n] = "simplify"
      BY <1>1, <2>2, <2>7 DEF Shape
    <3>2. F.state[n] # "freeze"
      BY <2>2, <2>13, <3>1 DEF Freed
    <3> QED BY <1>1, <2>2, <3>2 DEF InState, VRegNodes, VNodes, Shape
  <2>18. F.queue = G.queue
    BY <2>15 DEF Freed
  <2>19. Smaller(Measure(F), Measure(G))
    BY <1>1, <2>14, <2>15, <2>16, <2>17, <2>18, Counts
  <2> QED BY <2>1, <2>14, <2>19
<1> QED BY <1>4, <1>5

-----------------------------------------------------------------------------
(* Degrees: what changes them, and what leaves edges and degrees alone. *)

\* Nodes that are no neighbours any more.
Gone(G, n) == G.state[n] \in {"stack", "coalesced"}
\* The neighbours that irc_compute_degree counts.
Beside(G, n) == {m \in {G.alias[w] : w \in ToSet(G.list[n])} : m # n /\ ~Gone(G, m)}

\* H comes from G without new edges: the degree of a node is what it was, or has
\* been computed anew.
Steady(G, H, N) ==
  /\ Shape(H, N) /\ H.degree \in [N -> Nat]
  /\ H.adj = G.adj /\ H.list = G.list /\ H.alias = G.alias
  /\ \A n \in N : Gone(H, n) <=> Gone(G, n)
  /\ \A n \in N : H.degree[n] = G.degree[n] \/ (n >= FirstVReg /\ H.degree[n] = irc_compute_degree(G, n))

\* Nothing that matters to edges and degrees is changed.
Still(G, H, N) ==
  /\ Shape(H, N)
  /\ H.adj = G.adj /\ H.list = G.list /\ H.alias = G.alias /\ H.degree = G.degree
  /\ \A n \in N : Gone(H, n) <=> Gone(G, n)

\* The nodes on the lists.
LEMMA ListedNodes == ASSUME NEW G, NEW N, Shape(G, N), NEW n \in N PROVE ToSet(G.list[n]) \in SUBSET N
<1> SUFFICES ASSUME NEW w \in ToSet(G.list[n]) PROVE w \in N
  OBVIOUS
<1> DEFINE s == G.list[n]
<1>1. s \in Seq(N) /\ w \in ToSet(s)
  BY DEF Shape
<1> HIDE DEF s
<1>2. PICK i \in DOMAIN s : s[i] = w
  BY <1>1 DEF ToSet
<1> QED BY <1>1, <1>2

\* The degree of a node is the number of its neighbours.
LEMMA DegreeCounts ==
  ASSUME NEW G, NEW N, Shape(G, N), IsFiniteSet(N), NEW n \in N
  PROVE  /\ Beside(G, n) \subseteq N /\ IsFiniteSet(Beside(G, n))
         /\ irc_compute_degree(G, n) = Cardinality(Beside(G, n)) /\ irc_compute_degree(G, n) \in Nat
<1>2. \A w \in ToSet(G.list[n]) : G.alias[w] \in N
  BY ListedNodes DEF Shape
<1>3. Beside(G, n) \subseteq N
  BY <1>2 DEF Beside
<1>4. irc_compute_degree(G, n) = Cardinality(Beside(G, n))
  BY DEF irc_compute_degree, Beside, Gone
<1> QED BY <1>3, <1>4, FS_Subset, FS_CardinalityType

\* It depends on the lists, the aliases and what is gone.
LEMMA DegreeSame ==
  ASSUME NEW G, NEW H, NEW N, Shape(G, N), H.list = G.list, H.alias = G.alias, \A n \in N : Gone(H, n) <=> Gone(G, n),
         NEW n \in N
  PROVE  irc_compute_degree(H, n) = irc_compute_degree(G, n)
<1>1. ToSet(G.list[n]) \in SUBSET N
  BY ListedNodes
<1>2. \A w \in ToSet(G.list[n]) : G.alias[w] \in N
  BY <1>1 DEF Shape
<1>3. Beside(H, n) = Beside(G, n)
  BY <1>2 DEF Beside
<1> QED BY <1>3 DEF irc_compute_degree, Beside, Gone

\* What is as it was is steady.
LEMMA StillSteady ==
  ASSUME NEW G, NEW H, NEW N, Still(G, H, N), G.degree \in [N -> Nat]
  PROVE  Steady(G, H, N)
BY DEF Steady, Still

\* A chain of graphs that are as they were.
LEMMA StillChain ==
  ASSUME NEW k \in Nat, NEW h, NEW N, Shape(h[0], N), \A i \in 1 .. k : Still(h[0], h[i - 1], N) => Still(h[i - 1], h[i], N)
  PROVE  Still(h[0], h[k], N)
<1> DEFINE P == {i \in Nat : i =< k => Still(h[0], h[i], N)}
<1>1. 0 \in P
  BY DEF Still
<1>2. ASSUME NEW i \in P PROVE i + 1 \in P
  <2> SUFFICES ASSUME i + 1 =< k PROVE Still(h[0], h[i + 1], N)
    OBVIOUS
  <2>1. Still(h[0], h[i], N)
    OBVIOUS
  <2>2. i + 1 \in 1 .. k /\ i + 1 - 1 = i
    OBVIOUS
  <2>3. Still(h[i], h[i + 1], N)
    BY <2>1, <2>2
  <2> QED BY <2>1, <2>3 DEF Still
<1>3. \A i \in Nat : i \in P
  <2>1. P \in SUBSET Nat
    OBVIOUS
  <2> HIDE DEF P
  <2> QED BY <1>1, <1>2, <2>1, NatSet
<1> QED BY <1>3

\* Steady steps add up.
LEMMA SteadyStill ==
  ASSUME NEW G, NEW H, NEW J, NEW N, Shape(G, N), Steady(G, H, N), Steady(H, J, N)
  PROVE  Steady(G, J, N)
<1>1. \A n \in N : irc_compute_degree(H, n) = irc_compute_degree(G, n)
  BY DegreeSame DEF Steady
<1> QED BY <1>1 DEF Steady

\* A chain of them.
LEMMA SteadyChain ==
  ASSUME NEW k \in Nat, NEW h, NEW N, Shape(h[0], N), h[0].degree \in [N -> Nat],
         \A i \in 1 .. k : Shape(h[i - 1], N) /\ h[i - 1].degree \in [N -> Nat] => Steady(h[i - 1], h[i], N)
  PROVE  Steady(h[0], h[k], N)
<1> DEFINE P == {i \in Nat : i =< k => Steady(h[0], h[i], N)}
<1>1. 0 \in P
  BY DEF Steady
<1>2. ASSUME NEW i \in P PROVE i + 1 \in P
  <2> SUFFICES ASSUME i + 1 =< k PROVE Steady(h[0], h[i + 1], N)
    OBVIOUS
  <2>1. Steady(h[0], h[i], N)
    OBVIOUS
  <2>2. i + 1 \in 1 .. k /\ i + 1 - 1 = i
    OBVIOUS
  <2>3. Steady(h[i], h[i + 1], N)
    BY <2>1, <2>2 DEF Steady
  <2> QED BY <2>1, <2>3, SteadyStill
<1>3. \A i \in Nat : i \in P
  <2>1. P \in SUBSET Nat
    OBVIOUS
  <2> HIDE DEF P
  <2> QED BY <1>1, <1>2, <2>1, NatSet
<1> QED BY <1>3

\* A node goes from one worklist to another.
LEMMA ListingStill ==
  ASSUME NEW G, NEW N, Shape(G, N), NEW n \in VNodes(N), NEW w \in Worklists, G.state[n] \in Worklists
  PROVE  Still(G, Listing(G, n, w), N)
<1> DEFINE H == Listing(G, n, w)
<1>1. Shape(H, N)
  BY ListingLater, LaterShape
<1>2. H.adj = G.adj /\ H.degree = G.degree /\ H.list = G.list /\ H.alias = G.alias /\ H.state = [G.state EXCEPT ![n] = w]
  BY DEF Listing, Shape, Fields
<1> HIDE DEF H
<1>3. \A m \in N : Gone(H, m) <=> Gone(G, m)
  BY <1>2 DEF Gone, Worklists, Shape
<1> QED BY <1>1, <1>2, <1>3 DEF H, Still

\* A move that is enabled again.
LEMMA EnabledStill ==
  ASSUME NEW G, NEW N, Shape(G, N), NEW i \in DOMAIN G.moves
  PROVE  Still(G, Enabled(G, i), N)
<1> DEFINE H == Enabled(G, i)
<1>1. Shape(H, N)
  BY EnabledLater, LaterShape
<1>2. H.adj = G.adj /\ H.degree = G.degree /\ H.list = G.list /\ H.alias = G.alias /\ H.state = G.state
  BY DEF Enabled, Shape, Fields
<1> HIDE DEF H
<1> QED BY <1>1, <1>2 DEF H, Gone, Still

\* A move that is settled.
LEMMA SettledStill ==
  ASSUME NEW G, NEW N, Shape(G, N), NEW i \in DOMAIN G.moves, NEW w \in MoveStates, Open(G.moves[i])
  PROVE  Still(G, Settled(G, i, w), N)
<1> DEFINE H == Settled(G, i, w)
<1>1. Shape(H, N)
  BY SettledLater, LaterShape
<1>2. H.adj = G.adj /\ H.degree = G.degree /\ H.list = G.list /\ H.alias = G.alias /\ H.state = G.state
  BY DEF Settled, Shape, Fields
<1> HIDE DEF H
<1> QED BY <1>1, <1>2 DEF H, Gone, Still

\* irc_ready_for_simplify.
LEMMA ReadyStill ==
  ASSUME NEW G, NEW N, Shape(G, N), NEW n \in N
  PROVE  Still(G, irc_ready_for_simplify(G, n), N)
<1>1. G.alias[n] \in N
  BY DEF Shape
<1>2. CASE irc_ready_for_simplify(G, n) = G
  BY <1>2 DEF Still
<1>3. CASE irc_ready_for_simplify(G, n) # G
  <2>1. G.alias[n] >= FirstVReg /\ irc_ready_for_simplify(G, n) = Listing(G, G.alias[n], "simplify")
    BY <1>3 DEF irc_ready_for_simplify
  <2>2. G.state[G.alias[n]] = "freeze"
    BY <1>3 DEF irc_ready_for_simplify
  <2> QED BY <1>1, <2>1, <2>2, ListingStill DEF Worklists, VNodes
<1> QED BY <1>2, <1>3

\* irc_enable_moves_for_node.
LEMMA EnableStill ==
  ASSUME NEW G, NEW N, Shape(G, N), NEW n \in N
  PROVE  Still(G, irc_enable_moves_for_node(G, n), N)
<1> DEFINE s == G.of[G.alias[n]]
           k == Len(s)
<1>1. s \in Seq(DOMAIN G.moves)
  BY DEF Shape
<1>2. k \in Nat /\ DOMAIN s = 1 .. k /\ \A i \in 1 .. k : s[i] \in DOMAIN G.moves
  BY <1>1
<1> HIDE DEF k
<1>3. PICK h : EnabledSteps(h, G, n, k)
  BY <1>2, EnabledUnfolds
<1> USE DEF EnabledSteps
<1> HIDE DEF s
<1>4. ASSUME NEW i \in 1 .. k, Later(h[0], h[i - 1], N) PROVE Later(h[i - 1], h[i], N)
  <2>1. Shape(h[i - 1], N) /\ s[i] \in DOMAIN h[i - 1].moves
    BY <1>2, <1>3, <1>4 DEF Later
  <2> QED BY <1>3, <2>1, EnabledLater DEF s
<1>5. \A i \in 0 .. k : Later(h[0], h[i], N)
  BY <1>2, <1>3, <1>4, Chain
<1>6. ASSUME NEW i \in 1 .. k PROVE Still(h[i - 1], h[i], N)
  <2>1. i - 1 \in 0 .. k
    BY <1>2
  <2>2. Shape(h[i - 1], N) /\ s[i] \in DOMAIN h[i - 1].moves
    BY <1>2, <1>3, <1>5, <2>1 DEF Later
  <2>3. h[i] = Enabled(h[i - 1], s[i])
    BY <1>3 DEF s
  <2> QED BY <2>2, <2>3, EnabledStill
<1>7. h[0] = G
  BY <1>3
<1>8. Still(h[0], h[k], N)
  BY <1>2, <1>6, <1>7, StillChain
<1> QED BY <1>2, <1>3, <1>8

\* Enabling the moves of neighbours.
LEMMA EnableNeighboursStill ==
  ASSUME NEW G, NEW N, Shape(G, N), NEW nodes \in Seq(N)
  PROVE  Still(G, EnableNeighbours(G, nodes), N)
<1> DEFINE k == Len(nodes)
<1>1. k \in Nat /\ DOMAIN nodes = 1 .. k /\ \A i \in 1 .. k : nodes[i] \in N
  OBVIOUS
<1> HIDE DEF k
<1>2. PICK h : EnableNeighboursSteps(h, G, nodes, k)
  BY <1>1, EnableNeighboursUnfolds
<1> USE DEF EnableNeighboursSteps
<1>3. ASSUME NEW i \in 1 .. k, Still(h[0], h[i - 1], N) PROVE Still(h[i - 1], h[i], N)
  <2>1. Shape(h[i - 1], N)
    BY <1>3 DEF Still
  <2>2. Still(h[i - 1], irc_enable_moves_for_node(h[i - 1], nodes[i]), N)
    BY <1>1, <2>1, EnableStill
  <2>3. Still(h[i - 1], h[i - 1], N)
    BY <2>1 DEF Still
  <2> QED BY <1>2, <2>2, <2>3 DEF EnableNeighbour
<1>4. h[0] = G
  BY <1>2
<1>5. Still(h[0], h[k], N)
  BY <1>1, <1>3, <1>4, StillChain
<1> QED BY <1>1, <1>2, <1>5

\* irc_update_degree_state.
LEMMA UpdateStill ==
  ASSUME NEW G, NEW N, Shape(G, N), NEW n \in VNodes(N), NEW old, NEW new
  PROVE  Still(G, irc_update_degree_state(G, n, old, new), N)
<1>0. n \in N
  BY DEF VNodes
<1> DEFINE one == irc_enable_moves_for_node(G, n)
           two == EnableNeighbours(one, G.list[n])
<1>1. Still(G, one, N) /\ Shape(one, N)
  BY <1>0, EnableStill DEF Still
<1>2. G.list[n] \in Seq(N)
  BY <1>0 DEF Shape
<1> HIDE DEF one
<1>3. Still(one, two, N) /\ Shape(two, N)
  BY <1>1, <1>2, EnableNeighboursStill DEF Still
<1> HIDE DEF two
<1>4. Still(two, two, N)
  BY <1>3 DEF Still
<1>5. Still(two, Leftover(two, n), N)
  BY <1>3, <1>4, ListingStill DEF Leftover, Worklists
<1>6. Still(G, Leftover(two, n), N)
  BY <1>1, <1>3, <1>5 DEF Still
<1>7. G.state[n] \in {"freeze", "simplify"} => Still(G, Listing(G, n, "spill"), N)
  BY ListingStill DEF Worklists
<1>8. Still(G, G, N)
  BY DEF Still
<1> QED BY <1>6, <1>7, <1>8 DEF irc_update_degree_state, one, two

\* irc_refresh_degree computes the degree of the node anew.
LEMMA RefreshSteady ==
  ASSUME NEW G, NEW N, Shape(G, N), IsFiniteSet(N), G.degree \in [N -> Nat], NEW n \in N
  PROVE  LET H == irc_refresh_degree(G, n)
         IN Steady(G, H, N) /\ (G.alias[n] >= FirstVReg => H.degree[G.alias[n]] = irc_compute_degree(G, G.alias[n]))
<1> DEFINE m == G.alias[n]
           new == irc_compute_degree(G, m)
           H == [G EXCEPT !.degree[m] = new]
<1>1. m \in N /\ new \in Nat
  BY DegreeCounts DEF Shape
<1>0. m \in Nat /\ FirstVReg \in Nat
  BY <1>1 DEF Shape, FirstVReg
<1>5. Steady(G, G, N)
  BY DEF Steady
<1> HIDE DEF m, new
<1>2. CASE m < FirstVReg \/ new = G.degree[m]
  BY <1>0, <1>2, <1>5 DEF irc_refresh_degree, Refreshed, m, new
<1>3. CASE ~(m < FirstVReg) /\ new # G.degree[m]
  <2>1. m \in VNodes(N)
    BY <1>0, <1>1, <1>3 DEF VNodes
  <2>2. /\ DOMAIN H = Fields /\ H.degree = [G.degree EXCEPT ![m] = new] /\ H.adj = G.adj
        /\ H.alias = G.alias /\ H.list = G.list /\ H.stack = G.stack /\ H.of = G.of /\ H.moves = G.moves
        /\ H.queue = G.queue /\ H.state = G.state /\ H.lists = G.lists
    BY DEF Shape, Fields
  <2> DEFINE J == irc_update_degree_state(H, m, G.degree[m], new)
  <2>3. irc_refresh_degree(G, n) = J
    BY <1>3 DEF irc_refresh_degree, Refreshed, m, new
  <2> HIDE DEF H
  <2>4. Shape(H, N)
    BY <2>2 DEF Shape
  <2>5. Still(H, J, N)
    BY <2>1, <2>4, UpdateStill
  <2> HIDE DEF J
  <2>6. Steady(G, J, N) /\ J.degree[m] = new
    BY <1>1, <2>1, <2>2, <2>5 DEF Steady, Still, Gone, VNodes, new
  <2> QED BY <2>3, <2>6 DEF m, new
<1> QED BY <1>2, <1>3

\* The degrees of the neighbours of a node that is pushed.
LEMMA RefreshNeighboursSteady ==
  ASSUME NEW G, NEW N, Shape(G, N), IsFiniteSet(N), G.degree \in [N -> Nat], NEW nodes \in Seq(N)
  PROVE  Steady(G, RefreshNeighbours(G, nodes), N)
<1> DEFINE k == Len(nodes)
<1>1. k \in Nat /\ DOMAIN nodes = 1 .. k /\ \A i \in 1 .. k : nodes[i] \in N
  OBVIOUS
<1> HIDE DEF k
<1>2. PICK h : RefreshNeighboursSteps(h, G, nodes, k)
  BY <1>1, RefreshNeighboursUnfolds
<1> USE DEF RefreshNeighboursSteps
<1>3. ASSUME NEW i \in 1 .. k, Shape(h[i - 1], N), h[i - 1].degree \in [N -> Nat] PROVE Steady(h[i - 1], h[i], N)
  <2>1. Steady(h[i - 1], irc_refresh_degree(h[i - 1], nodes[i]), N)
    BY <1>1, <1>3, RefreshSteady
  <2>2. Steady(h[i - 1], h[i - 1], N)
    BY <1>3 DEF Steady
  <2> QED BY <1>2, <2>1, <2>2 DEF RefreshNeighbour
<1>4. h[0] = G
  BY <1>2
<1>5. Steady(h[0], h[k], N)
  BY <1>1, <1>3, <1>4, SteadyChain
<1> QED BY <1>1, <1>2, <1>5

\* The degrees around a node that was coalesced.
LEMMA RefreshAroundSteady ==
  ASSUME NEW G, NEW N, Shape(G, N), IsFiniteSet(N), G.degree \in [N -> Nat], NEW n \in N
  PROVE  Steady(G, RefreshAround(G, n), N)
<1> DEFINE nodes == G.list[n]
           k == Len(nodes)
<1>0. nodes \in Seq(N)
  BY DEF Shape
<1>1. k \in Nat /\ DOMAIN nodes = 1 .. k /\ \A i \in 1 .. k : nodes[i] \in N
  BY <1>0
<1> HIDE DEF k
<1>2. PICK h : RefreshAroundSteps(h, G, n, k)
  BY <1>1, RefreshAroundUnfolds
<1> USE DEF RefreshAroundSteps
<1> HIDE DEF nodes
<1>3. ASSUME NEW i \in 1 .. k, Shape(h[i - 1], N), h[i - 1].degree \in [N -> Nat] PROVE Steady(h[i - 1], h[i], N)
  <2>1. h[i] = irc_refresh_degree(h[i - 1], nodes[i]) /\ nodes[i] \in N
    BY <1>1, <1>2 DEF nodes
  <2>2. Steady(h[i - 1], irc_refresh_degree(h[i - 1], nodes[i]), N)
    BY <1>3, <2>1, RefreshSteady
  <2> QED BY <2>1, <2>2
<1>4. h[0] = G
  BY <1>2
<1>5. Steady(h[0], h[k], N)
  BY <1>1, <1>3, <1>4, SteadyChain
<1> QED BY <1>1, <1>2, <1>5

\* The moves of a node that is frozen.
LEMMA FreezeMovesStill ==
  ASSUME NEW G, NEW N, Shape(G, N), NEW n, NEW moves \in Seq(DOMAIN G.moves)
  PROVE  Still(G, FreezeMoves(G, n, moves), N)
<1> DEFINE k == Len(moves)
<1>1. k \in Nat /\ DOMAIN moves = 1 .. k /\ \A i \in 1 .. k : moves[i] \in DOMAIN G.moves
  OBVIOUS
<1> HIDE DEF k
<1>2. PICK h : FreezeMovesSteps(h, G, n, moves, k)
  BY <1>1, FreezeMovesUnfolds
<1>3. \A i \in 0 .. k : Later(G, h[i], N)
  BY <1>1, <1>2, FreezeMovesChain
<1> USE DEF FreezeMovesSteps
<1>4. ASSUME NEW i \in 1 .. k PROVE Still(h[i - 1], h[i], N)
  <2> DEFINE x == h[i - 1]
             j == moves[i]
             y == Settled(x, j, "frozen")
             m == OtherEnd(x, x.moves[j], n)
  <2>1. i - 1 \in 0 .. k
    BY <1>1
  <2>2. Shape(x, N) /\ j \in DOMAIN x.moves
    BY <1>1, <1>3, <2>1 DEF Later
  <2>3. h[i] = FreezeMove(x, j, n)
    BY <1>2
  <2> HIDE DEF x, j
  <2>4. x.moves[j] \in Move(N)
    BY <2>2 DEF Shape
  <2>5. m \in N
    BY <2>2, <2>4 DEF OtherEnd, Shape, Move
  <2>6. ASSUME Open(x.moves[j]) PROVE Still(x, y, N) /\ Shape(y, N)
    BY <2>2, <2>6, SettledStill DEF MoveStates, Still
  <2> HIDE DEF y, m
  <2>7. Open(x.moves[j]) => Still(y, irc_ready_for_simplify(y, m), N)
    BY <2>5, <2>6, ReadyStill
  <2>8. Open(x.moves[j]) => Still(x, irc_ready_for_simplify(y, m), N)
    BY <2>6, <2>7 DEF Still
  <2>9. Still(x, x, N)
    BY <2>2 DEF Still
  <2>10. Still(x, FreezeMove(x, j, n), N)
    BY <2>8, <2>9 DEF FreezeMove, y, m
  <2> QED BY <2>3, <2>10 DEF x
<1>5. h[0] = G
  BY <1>2
<1>6. Still(h[0], h[k], N)
  BY <1>1, <1>4, <1>5, StillChain
<1> QED BY <1>1, <1>2, <1>6

-----------------------------------------------------------------------------
(* Edges that go both ways, and degrees that are not too low: simplifying,
   freezing and choosing what to spill. *)

\* What is in the matrix is listed.  A register of the machine lists nothing, is
\* always a neighbour, and its degree is as high as can be.
Filed(G, N) ==
  /\ Shape(G, N) /\ G.adj \in [N -> SUBSET N] /\ G.degree \in [N -> Nat]
  /\ \A r \in N : r < FirstVReg => G.list[r] = <<>> /\ G.degree[r] = 1000000 /\ ~Gone(G, r)
  /\ \A n \in VNodes(N) : \A m \in G.adj[n] : Listed(G, n, G.alias[m])

\* Edges go both ways: two nodes that stand for themselves list each other.
Even(G, N) ==
  /\ Filed(G, N)
  /\ \A n, m \in VNodes(N) : G.alias[n] = n /\ G.alias[m] = m /\ Listed(G, n, m) => Listed(G, m, n)

\* No node, but `but`, has more neighbours than its degree says.
Rated(G, N, but) ==
  \A n \in VNodes(N) : G.alias[n] = n /\ n # but => irc_compute_degree(G, n) =< G.degree[n]

\* What is listed depends on lists and aliases.
LEMMA ListedSame == ASSUME NEW G, NEW H, H.list = G.list, H.alias = G.alias PROVE \A n, m : Listed(H, n, m) <=> Listed(G, n, m)
BY DEF Listed

\* Steady steps keep edges even.
LEMMA SteadyEven ==
  ASSUME NEW G, NEW H, NEW N, Even(G, N), Steady(G, H, N)
  PROVE  Even(H, N)
<1>1. \A n, m : Listed(H, n, m) <=> Listed(G, n, m)
  BY ListedSame DEF Steady
<1>2. \A r \in N : r < FirstVReg => H.degree[r] = G.degree[r]
  <2>1. \A r \in N : ~(r < FirstVReg /\ r >= FirstVReg)
    BY DEF Even, Filed, Shape, FirstVReg
  <2> QED BY <2>1 DEF Steady
<1>3. H.adj \in [N -> SUBSET N] /\ H.degree \in [N -> Nat] /\ Shape(H, N)
  BY DEF Steady, Even, Filed
<1>4. \A r \in N : r < FirstVReg => H.list[r] = <<>> /\ H.degree[r] = 1000000 /\ ~Gone(H, r)
  BY <1>2 DEF Steady, Even, Filed
<1>5. \A n \in VNodes(N) : \A m \in H.adj[n] : Listed(H, n, H.alias[m])
  BY <1>1 DEF Steady, Even, Filed
<1>6. \A n, m \in VNodes(N) : H.alias[n] = n /\ H.alias[m] = m /\ Listed(H, n, m) => Listed(H, m, n)
  BY <1>1 DEF Steady, Even, Filed
<1> QED BY <1>3, <1>4, <1>5, <1>6 DEF Even, Filed

\* And ratings.
LEMMA SteadyRated ==
  ASSUME NEW G, NEW H, NEW N, IsFiniteSet(N), Even(G, N), NEW but, Rated(G, N, but), Steady(G, H, N)
  PROVE  Rated(H, N, but)
<1> SUFFICES ASSUME NEW n \in VNodes(N), H.alias[n] = n, n # but PROVE irc_compute_degree(H, n) =< H.degree[n]
  BY DEF Rated
<1>1. n \in N /\ Shape(G, N)
  BY DEF VNodes, Even, Filed
<1>2. irc_compute_degree(H, n) = irc_compute_degree(G, n) /\ irc_compute_degree(G, n) \in Nat
  BY <1>1, DegreeSame, DegreeCounts DEF Steady
<1>3. G.alias[n] = n
  BY DEF Steady
<1>4. irc_compute_degree(G, n) =< G.degree[n]
  BY <1>3 DEF Rated
<1> QED BY <1>1, <1>2, <1>4 DEF Steady

\* What is as it was keeps both.
LEMMA StillEven ==
  ASSUME NEW G, NEW H, NEW N, IsFiniteSet(N), Even(G, N), Still(G, H, N)
  PROVE  Even(H, N) /\ \A but : Rated(G, N, but) => Rated(H, N, but)
<1>1. Steady(G, H, N)
  BY StillSteady DEF Even, Filed
<1> QED BY <1>1, SteadyEven, SteadyRated

\* Nothing but the state of a node that is not gone yet is changed: its neighbours
\* have one less.
LEMMA PushEven ==
  ASSUME NEW G, NEW N, IsFiniteSet(N), Even(G, N), Rated(G, N, 0), NEW n \in VNodes(N)
  PROVE  Even(Push(G, n), N) /\ Rated(Push(G, n), N, 0)
<1> DEFINE H == Pushed(G, n)
<1>0. n \in N /\ n >= FirstVReg /\ Shape(G, N)
  BY DEF VNodes, Even, Filed
<1>1. /\ DOMAIN H = Fields
      /\ H.alias = G.alias /\ H.list = G.list /\ H.adj = G.adj /\ H.degree = G.degree
      /\ H.of = G.of /\ H.moves = G.moves /\ H.queue = G.queue /\ H.lists = G.lists
      /\ H.state = [G.state EXCEPT ![n] = "stack"] /\ H.stack = Append(G.stack, n)
  BY <1>0 DEF Pushed, Shape, Fields
<1> HIDE DEF H
<1>2. H.state \in [N -> States] /\ H.stack \in Seq(VNodes(N))
  BY <1>0, <1>1 DEF Shape, States
<1>3. Shape(H, N)
  BY <1>0, <1>1, <1>2 DEF Shape
<1>4. \A m \in N : Gone(G, m) => Gone(H, m)
  BY <1>0, <1>1 DEF Gone, Shape
<1>5. \A r \in N : r < FirstVReg => ~Gone(H, r)
  <2>1. \A r \in N : r < FirstVReg => r # n
    BY <1>0 DEF Shape, FirstVReg
  <2> QED BY <1>0, <1>1, <2>1 DEF Gone, Shape, Even, Filed
<1>6. \A x, y : Listed(H, x, y) <=> Listed(G, x, y)
  BY <1>1, ListedSame
<1>7. Even(H, N)
  <2>1. H.adj \in [N -> SUBSET N] /\ H.degree \in [N -> Nat]
    BY <1>1 DEF Even, Filed
  <2>2. \A r \in N : r < FirstVReg => H.list[r] = <<>> /\ H.degree[r] = 1000000 /\ ~Gone(H, r)
    BY <1>1, <1>5 DEF Even, Filed
  <2>3. \A x \in VNodes(N) : \A m \in H.adj[x] : Listed(H, x, H.alias[m])
    BY <1>1, <1>6 DEF Even, Filed
  <2>4. \A x, m \in VNodes(N) : H.alias[x] = x /\ H.alias[m] = m /\ Listed(H, x, m) => Listed(H, m, x)
    BY <1>1, <1>6 DEF Even, Filed
  <2> QED BY <1>3, <2>1, <2>2, <2>3, <2>4 DEF Even, Filed
<1>8. Rated(H, N, 0)
  <2> SUFFICES ASSUME NEW m \in VNodes(N), H.alias[m] = m, m # 0 PROVE irc_compute_degree(H, m) =< H.degree[m]
    BY DEF Rated
  <2>1. m \in N
    BY DEF VNodes
  <2>2. /\ IsFiniteSet(Beside(G, m)) /\ irc_compute_degree(G, m) = Cardinality(Beside(G, m))
        /\ irc_compute_degree(H, m) = Cardinality(Beside(H, m))
        /\ Beside(G, m) \subseteq N /\ Beside(H, m) \subseteq N
        /\ irc_compute_degree(G, m) \in Nat /\ irc_compute_degree(H, m) \in Nat
    BY <1>0, <1>3, <2>1, DegreeCounts
  <2>3. Beside(H, m) \subseteq Beside(G, m)
    BY <1>1, <1>4, <2>2 DEF Beside
  <2>4. irc_compute_degree(H, m) =< irc_compute_degree(G, m)
    BY <2>2, <2>3, FS_Subset
  <2>5. irc_compute_degree(G, m) =< G.degree[m] /\ G.degree[m] \in Nat
    BY <1>1, <2>1 DEF Rated, Even, Filed
  <2> QED BY <1>1, <2>2, <2>4, <2>5
<1>9. G.list[n] \in Seq(N) /\ H.degree \in [N -> Nat]
  BY <1>0, <1>1 DEF Shape, Even, Filed
<1>10. Steady(H, RefreshNeighbours(H, G.list[n]), N)
  BY <1>3, <1>9, RefreshNeighboursSteady
<1>11. Push(G, n) = RefreshNeighbours(H, G.list[n])
  BY DEF Push, H
<1> QED BY <1>7, <1>8, <1>10, <1>11, SteadyEven, SteadyRated

\* Only worklists are changed.
LEMMA RelistedStill ==
  ASSUME NEW G, NEW N, Shape(G, N), NEW w \in Worklists, NEW rest \in Seq(VNodes(N))
  PROVE  Still(G, [G EXCEPT !.lists[w] = rest], N)
<1> DEFINE H == [G EXCEPT !.lists[w] = rest]
<1>1. /\ DOMAIN H = Fields
      /\ H.alias = G.alias /\ H.list = G.list /\ H.adj = G.adj /\ H.degree = G.degree
      /\ H.of = G.of /\ H.moves = G.moves /\ H.queue = G.queue /\ H.stack = G.stack
      /\ H.state = G.state /\ H.lists = [G.lists EXCEPT ![w] = rest]
  BY DEF Shape, Fields
<1> HIDE DEF H
<1>2. H.lists \in [Worklists -> Seq(VNodes(N))]
  BY <1>1 DEF Shape
<1>3. Shape(H, N)
  BY <1>1, <1>2 DEF Shape
<1> QED BY <1>1, <1>3 DEF H, Still, Gone

\* irc_simplify.
LEMMA SimplifyEven ==
  ASSUME NEW G, NEW N, IsFiniteSet(N), Even(G, N), Rated(G, N, 0)
  PROVE  Even(irc_simplify(G), N) /\ Rated(irc_simplify(G), N, 0)
<1> DEFINE w == "simplify"
           top == Popped(G, w)
           H == [G EXCEPT !.lists[w] = top.rest]
<1>1. w \in Worklists /\ Shape(G, N)
  BY DEF Worklists, Even, Filed
<1>2. irc_simplify(G) = SimplifyNode(G, top)
  BY DEF irc_simplify
<1>3. top.node # 0 => top.node \in VNodes(N) /\ top.rest \in Seq(VNodes(N))
  BY <1>1, PopsValid
<1> HIDE DEF top
<1>4. CASE top.node = 0
  <2>1. irc_simplify(G) = [G EXCEPT !.lists[w] = <<>>]
    BY <1>2, <1>4 DEF SimplifyNode
  <2>2. <<>> \in Seq(VNodes(N))
    OBVIOUS
  <2>3. Still(G, [G EXCEPT !.lists[w] = <<>>], N)
    BY <1>1, <2>2, RelistedStill
  <2> QED BY <2>1, <2>3, StillEven
<1>5. CASE top.node # 0
  <2>1. Still(G, H, N)
    BY <1>1, <1>3, <1>5, RelistedStill
  <2>2. irc_simplify(G) = Push(H, top.node)
    BY <1>2, <1>5 DEF SimplifyNode
  <2> HIDE DEF H
  <2>3. Even(H, N) /\ Rated(H, N, 0)
    BY <2>1, StillEven
  <2> QED BY <1>3, <1>5, <2>2, <2>3, PushEven
<1> QED BY <1>4, <1>5

\* irc_select_spill.
LEMMA SelectSpillEven ==
  ASSUME NEW G, NEW N, IsFiniteSet(N), Even(G, N), Rated(G, N, 0)
  PROVE  Even(irc_select_spill(G), N) /\ Rated(irc_select_spill(G), N, 0)
<1> DEFINE w == "spill"
           s == G.lists[w]
           i == Cheapest(G)
           H == [G EXCEPT !.lists[w] = Taken(@, i)]
<1>1. w \in Worklists /\ Shape(G, N)
  BY DEF Worklists, Even, Filed
<1>2. s \in Seq(VNodes(N))
  BY <1>1 DEF Shape
<1>3. CASE Candidates(G) = {}
  <2>1. irc_select_spill(G) = [G EXCEPT !.lists[w] = <<>>]
    BY <1>3 DEF irc_select_spill
  <2>2. <<>> \in Seq(VNodes(N))
    OBVIOUS
  <2>3. Still(G, [G EXCEPT !.lists[w] = <<>>], N)
    BY <1>1, <2>2, RelistedStill
  <2> QED BY <2>1, <2>3, StillEven
<1>4. CASE Candidates(G) # {}
  <2>1. i \in DOMAIN s
    BY <1>1, <1>4, CheapestIsCandidate DEF Candidates
  <2>2. irc_select_spill(G) = Push(H, s[i])
    BY <1>4 DEF irc_select_spill
  <2> HIDE DEF i
  <2>3. Taken(s, i) \in Seq(VNodes(N)) /\ s[i] \in VNodes(N)
    BY <1>2, <2>1, TakenRest
  <2>4. H = [G EXCEPT !.lists[w] = Taken(s, i)]
    OBVIOUS
  <2> HIDE DEF s, H
  <2>5. Still(G, H, N)
    BY <1>1, <2>3, <2>4, RelistedStill
  <2>6. Even(H, N) /\ Rated(H, N, 0)
    BY <2>5, StillEven
  <2> QED BY <2>2, <2>3, <2>6, PushEven
<1> QED BY <1>3, <1>4

\* irc_freeze.
LEMMA FreezeStill ==
  ASSUME NEW G, NEW N, Shape(G, N)
  PROVE  Still(G, irc_freeze(G), N)
<1> DEFINE w == "freeze"
           top == Popped(G, w)
           H == [G EXCEPT !.lists[w] = top.rest]
           J == Listing(H, top.node, "simplify")
<1>1. w \in Worklists /\ "simplify" \in Worklists
  BY DEF Worklists
<1>2. irc_freeze(G) = FreezeNode(G, top)
  BY DEF irc_freeze
<1>3. top.node # 0 => top.node \in VNodes(N) /\ top.rest \in Seq(VNodes(N)) /\ G.state[top.node] = w
  BY <1>1, PopsValid
<1> HIDE DEF top
<1>4. CASE top.node = 0
  <2>1. irc_freeze(G) = [G EXCEPT !.lists[w] = <<>>]
    BY <1>2, <1>4 DEF FreezeNode
  <2>2. <<>> \in Seq(VNodes(N))
    OBVIOUS
  <2>3. Still(G, [G EXCEPT !.lists[w] = <<>>], N)
    BY <1>1, <2>2, RelistedStill
  <2> QED BY <2>1, <2>3
<1>5. CASE top.node # 0
  <2>1. Still(G, H, N)
    BY <1>1, <1>3, <1>5, RelistedStill
  <2>2. irc_freeze(G) = FreezeMoves(J, top.node, G.of[top.node])
    BY <1>2, <1>5 DEF FreezeNode
  <2>3. H.moves = G.moves /\ H.state = G.state /\ DOMAIN H = Fields
    BY DEF Shape, Fields
  <2>4. top.node \in N
    BY <1>3, <1>5 DEF VNodes
  <2>5. G.of[top.node] \in Seq(DOMAIN G.moves)
    BY <2>4 DEF Shape
  <2> HIDE DEF H
  <2>6. J.moves = G.moves
    BY <2>3 DEF Listing, Fields
  <2>7. Shape(H, N) /\ H.state[top.node] \in Worklists
    BY <1>1, <1>3, <1>5, <2>1, <2>3 DEF Still
  <2>8. Still(H, J, N)
    BY <1>1, <1>3, <1>5, <2>7, ListingStill
  <2> HIDE DEF J
  <2>9. Still(J, FreezeMoves(J, top.node, G.of[top.node]), N)
    BY <2>5, <2>6, <2>8, FreezeMovesStill DEF Still
  <2> QED BY <2>1, <2>2, <2>8, <2>9 DEF Still
<1> QED BY <1>4, <1>5

-----------------------------------------------------------------------------
(* Edges are added. *)

\* A node joins the list of another.
LEMMA LinkEdges ==
  ASSUME NEW G, NEW N, Shape(G, N), NEW x \in N, NEW y \in N, G.alias[y] = y
  PROVE  LET H == Link(G, x, y)
         IN /\ Shape(H, N) /\ H.adj = G.adj /\ H.alias = G.alias /\ H.state = G.state /\ H.degree = G.degree
            /\ \A n \in N : n # x => H.list[n] = G.list[n]
            /\ x < FirstVReg \/ Listed(G, x, y) => H.list[x] = G.list[x]
            /\ \A n \in N : \A m : Listed(H, n, m) <=> Listed(G, n, m) \/ (n = x /\ m = y /\ x >= FirstVReg)
<1> DEFINE H == Link(G, x, y)
<1>0. x \in Nat /\ FirstVReg \in Nat
  BY DEF Shape, FirstVReg
<1>9. Shape(H, N)
  BY LinkLater, LaterShape
<1>1. CASE x < FirstVReg \/ Listed(G, x, y)
  <2>1. H = G
    BY <1>1 DEF Link
  <2>2. \A n \in N : \A m : (n = x /\ m = y /\ x >= FirstVReg) => Listed(G, n, m)
    BY <1>0, <1>1
  <2> HIDE DEF H
  <2>3. /\ Shape(H, N) /\ H.adj = G.adj /\ H.alias = G.alias /\ H.state = G.state /\ H.degree = G.degree
        /\ \A n \in N : n # x => H.list[n] = G.list[n]
        /\ x < FirstVReg \/ Listed(G, x, y) => H.list[x] = G.list[x]
        /\ \A n \in N : \A m : Listed(H, n, m) <=> Listed(G, n, m) \/ (n = x /\ m = y /\ x >= FirstVReg)
    BY <1>9, <2>1, <2>2
  <2> QED BY <2>3 DEF H
<1>2. CASE ~(x < FirstVReg \/ Listed(G, x, y))
  <2>1. H = [G EXCEPT !.list[x] = Append(@, y)]
    BY <1>2 DEF Link
  <2>2. /\ H.adj = G.adj /\ H.alias = G.alias /\ H.state = G.state /\ H.degree = G.degree
        /\ H.list = [G.list EXCEPT ![x] = Append(@, y)]
    BY <2>1 DEF Shape, Fields
  <2> HIDE DEF H
  <2>3. H.list[x] = Append(G.list[x], y) /\ \A n \in N : n # x => H.list[n] = G.list[n]
    BY <2>2 DEF Shape
  <2>4. G.list[x] \in Seq(N)
    BY DEF Shape
  <2>5. ASSUME NEW m PROVE Listed(H, x, m) <=> Listed(G, x, m) \/ m = y
    <3> DEFINE s == G.list[x]
               t == H.list[x]
    <3>1. Len(s) \in Nat /\ DOMAIN s = 1 .. Len(s) /\ DOMAIN t = 1 .. Len(s) + 1 /\ t[Len(s) + 1] = y
          /\ \A i \in 1 .. Len(s) : t[i] = s[i]
      BY <2>3, <2>4
    <3> HIDE DEF s, t
    <3>2. ASSUME Listed(H, x, m) PROVE Listed(G, x, m) \/ m = y
      <4>1. PICK i \in DOMAIN t : G.alias[t[i]] = m
        BY <2>2, <3>2 DEF Listed, t
      <4>2. i = Len(s) + 1 \/ i \in 1 .. Len(s)
        BY <3>1
      <4> QED BY <3>1, <4>1, <4>2 DEF Listed, s
    <3>3. ASSUME Listed(G, x, m) PROVE Listed(H, x, m)
      <4>1. PICK i \in DOMAIN s : G.alias[s[i]] = m
        BY <3>3 DEF Listed, s
      <4>2. i \in DOMAIN t /\ t[i] = s[i]
        BY <3>1
      <4> QED BY <2>2, <4>1, <4>2 DEF Listed, t
    <3>4. Listed(H, x, y)
      <4>1. Len(s) + 1 \in DOMAIN t
        BY <3>1
      <4> QED BY <2>2, <3>1, <4>1 DEF Listed, t
    <3> QED BY <3>2, <3>3, <3>4
  <2>6. \A n \in N : \A m : n # x => (Listed(H, n, m) <=> Listed(G, n, m))
    BY <2>2, <2>3 DEF Listed
  <2>7. \A n \in N : \A m : Listed(H, n, m) <=> Listed(G, n, m) \/ (n = x /\ m = y /\ x >= FirstVReg)
    BY <1>0, <1>2, <2>5, <2>6
  <2> QED BY <1>2, <1>9, <2>2, <2>3, <2>7 DEF H
<1> QED BY <1>1, <1>2

\* Two nodes that stand for themselves are joined.
LEMMA JoinedEdges ==
  ASSUME NEW G, NEW N, Filed(G, N), NEW x \in N, NEW y \in N, x # y, G.alias[x] = x, G.alias[y] = y
  PROVE  LET H == Joined(G, x, y)
         IN /\ Filed(H, N) /\ H.alias = G.alias /\ H.state = G.state /\ H.degree = G.degree
            /\ \A n \in N : n # y /\ (n = x => x < FirstVReg \/ Listed(G, x, y)) => H.list[n] = G.list[n]
            /\ \A n \in N : \A m : Listed(H, n, m) <=>
                 Listed(G, n, m) \/ (n >= FirstVReg /\ ((n = x /\ m = y) \/ (n = y /\ m = x)))
<1> DEFINE A == [G EXCEPT !.adj[x] = @ \cup {y}, !.adj[y] = @ \cup {x}]
           B == Link(A, x, y)
           C == Link(B, y, x)
<1>1. Joined(G, x, y) = C
  BY DEF Joined
<1>2. Shape(G, N)
  BY DEF Filed
<1>3. /\ DOMAIN A = Fields
      /\ A.alias = G.alias /\ A.list = G.list /\ A.stack = G.stack /\ A.of = G.of /\ A.moves = G.moves
      /\ A.queue = G.queue /\ A.state = G.state /\ A.lists = G.lists /\ A.degree = G.degree
      /\ A.adj = [G.adj EXCEPT ![x] = @ \cup {y}, ![y] = @ \cup {x}]
  BY <1>2 DEF Shape, Fields
<1> HIDE DEF A
<1>4. Shape(A, N)
  BY <1>2, <1>3 DEF Shape
<1>5. \A n, m : Listed(A, n, m) <=> Listed(G, n, m)
  BY <1>3, ListedSame
<1>6. /\ Shape(B, N) /\ B.adj = A.adj /\ B.alias = A.alias /\ B.state = A.state /\ B.degree = A.degree
      /\ \A n \in N : n # x => B.list[n] = A.list[n]
      /\ x < FirstVReg \/ Listed(A, x, y) => B.list[x] = A.list[x]
      /\ \A n \in N : \A m : Listed(B, n, m) <=> Listed(A, n, m) \/ (n = x /\ m = y /\ x >= FirstVReg)
  BY <1>3, <1>4, LinkEdges
<1> HIDE DEF B
<1>7. /\ Shape(C, N) /\ C.adj = B.adj /\ C.alias = B.alias /\ C.state = B.state /\ C.degree = B.degree
      /\ \A n \in N : n # y => C.list[n] = B.list[n]
      /\ y < FirstVReg \/ Listed(B, y, x) => C.list[y] = B.list[y]
      /\ \A n \in N : \A m : Listed(C, n, m) <=> Listed(B, n, m) \/ (n = y /\ m = x /\ y >= FirstVReg)
  BY <1>3, <1>6, LinkEdges
<1> HIDE DEF C
<1>8. \A n \in N : \A m : Listed(C, n, m) <=>
        Listed(G, n, m) \/ (n >= FirstVReg /\ ((n = x /\ m = y) \/ (n = y /\ m = x)))
  BY <1>5, <1>6, <1>7
<1>9. \A n \in N : n # y /\ (n = x => x < FirstVReg \/ Listed(G, x, y)) => C.list[n] = G.list[n]
  BY <1>3, <1>5, <1>6, <1>7
<1>10. C.adj \in [N -> SUBSET N] /\ \A n \in N : \A m \in C.adj[n] : m \in G.adj[n] \/ (n = x /\ m = y) \/ (n = y /\ m = x)
  <2> DEFINE one == [G.adj EXCEPT ![x] = G.adj[x] \cup {y}]
             two == [one EXCEPT ![y] = one[y] \cup {x}]
  <2>1. G.adj \in [N -> SUBSET N]
    BY DEF Filed
  <2>2. one \in [N -> SUBSET N] /\ \A n \in N : one[n] = IF n = x THEN G.adj[x] \cup {y} ELSE G.adj[n]
    BY <2>1
  <2>3. A.adj = two
    BY <1>3
  <2> HIDE DEF one
  <2>4. two \in [N -> SUBSET N] /\ \A n \in N : two[n] = IF n = y THEN one[y] \cup {x} ELSE one[n]
    BY <2>2
  <2>5. C.adj = two
    BY <1>6, <1>7, <2>3
  <2> HIDE DEF two
  <2> QED BY <2>2, <2>4, <2>5
<1>11. \A r \in N : r < FirstVReg => C.list[r] = G.list[r]
  <2> SUFFICES ASSUME NEW r \in N, r < FirstVReg PROVE C.list[r] = G.list[r]
    OBVIOUS
  <2>1. CASE r = y
    BY <1>3, <1>6, <1>7, <2>1
  <2>2. CASE r # y
    BY <1>9, <2>2
  <2> QED BY <2>1, <2>2
<1>12. Filed(C, N)
  <2>1. \A r \in N : r < FirstVReg => C.list[r] = <<>> /\ C.degree[r] = 1000000 /\ ~Gone(C, r)
    BY <1>3, <1>6, <1>7, <1>11 DEF Filed, Gone
  <2>2. ASSUME NEW n \in VNodes(N), NEW m \in C.adj[n] PROVE Listed(C, n, C.alias[m])
    <3>1. n \in N /\ n >= FirstVReg
      BY DEF VNodes
    <3>2. CASE m \in G.adj[n]
      <4>1. Listed(G, n, G.alias[m])
        BY <3>2 DEF Filed
      <4> QED BY <1>3, <1>6, <1>7, <1>8, <3>1, <4>1
    <3>3. CASE m \notin G.adj[n]
      <4>1. (n = x /\ m = y) \/ (n = y /\ m = x)
        BY <1>10, <3>1, <3>3
      <4>2. C.alias[m] = m
        BY <1>3, <1>6, <1>7, <4>1
      <4> QED BY <1>8, <3>1, <4>1, <4>2
    <3> QED BY <3>2, <3>3
  <2>3. C.degree \in [N -> Nat]
    BY <1>3, <1>6, <1>7 DEF Filed
  <2> QED BY <1>7, <1>10, <2>1, <2>2, <2>3 DEF Filed
<1>13. C.alias = G.alias /\ C.state = G.state /\ C.degree = G.degree
  BY <1>3, <1>6, <1>7
<1> QED BY <1>1, <1>8, <1>9, <1>12, <1>13

\* irc_add_edge keeps edges even.
LEMMA AddEdgeEven ==
  ASSUME NEW G, NEW N, Even(G, N), NEW n \in N, NEW m \in N
  PROVE  LET H == irc_add_edge(G, n, m) IN Even(H, N) /\ H.state = G.state
<1> DEFINE x == G.alias[n]
           y == G.alias[m]
           H == irc_add_edge(G, n, m)
<1>0. Filed(G, N)
  BY DEF Even
<1>1. x \in N /\ y \in N /\ G.alias[x] = x /\ G.alias[y] = y
  BY <1>0 DEF Filed, Shape
<1>2. H = Joined(G, x, y)
  BY DEF irc_add_edge
<1> HIDE DEF x, y, H
<1>3. CASE x = y
  <2>1. H = G
    BY <1>2, <1>3 DEF Joined
  <2> QED BY <2>1 DEF H
<1>4. CASE x # y
  <2>1. /\ Filed(H, N) /\ H.alias = G.alias /\ H.state = G.state
        /\ \A a \in N : \A b : Listed(H, a, b) <=>
             Listed(G, a, b) \/ (a >= FirstVReg /\ ((a = x /\ b = y) \/ (a = y /\ b = x)))
    BY <1>0, <1>1, <1>2, <1>4, JoinedEdges
  <2>2. \A a, b \in VNodes(N) : H.alias[a] = a /\ H.alias[b] = b /\ Listed(H, a, b) => Listed(H, b, a)
    BY <2>1 DEF Even, VNodes
  <2> QED BY <2>1, <2>2 DEF Even, H
<1> QED BY <1>3, <1>4

\* The neighbours a node has, of those that stand for themselves.
LEMMA BesideListed ==
  ASSUME NEW G, NEW N, Shape(G, N), NEW n \in N
  PROVE  Beside(G, n) = {m \in N : Listed(G, n, m) /\ m # n /\ ~Gone(G, m)}
<1>1. \A w \in ToSet(G.list[n]) : G.alias[w] \in N
  BY ListedNodes DEF Shape
<1>2. \A m : (\E w \in ToSet(G.list[n]) : G.alias[w] = m) <=> Listed(G, n, m)
  BY DEF Listed, ToSet
<1> QED BY <1>1, <1>2 DEF Beside

\* What irc_is_adjacent says of a virtual register is what its list does.
LEMMA NearListed ==
  ASSUME NEW G, NEW N, Even(G, N), NEW n \in VNodes(N), NEW m \in N, G.alias[n] = n, G.alias[m] = m
  PROVE  irc_is_adjacent(G, n, m) <=> n # m /\ Listed(G, n, m)
<1>1. n \in N /\ m \in Nat
  BY DEF VNodes, Even, Filed, Shape
<1>2. irc_is_adjacent(G, n, m) <=> n # m /\ (m \in G.adj[n] \/ Listed(G, n, m) \/ Listed(G, m, n))
  BY DEF irc_is_adjacent, Near
<1>3. m \in G.adj[n] => Listed(G, n, m)
  BY DEF Even, Filed
<1>4. Listed(G, m, n) => Listed(G, n, m)
  <2>1. CASE m < FirstVReg
    <3>1. G.list[m] = <<>>
      BY <2>1 DEF Even, Filed
    <3>2. DOMAIN G.list[m] = {}
      BY <3>1
    <3> QED BY <3>2 DEF Listed
  <2>2. CASE ~(m < FirstVReg)
    <3>1. m \in VNodes(N)
      BY <1>1, <2>2 DEF VNodes, FirstVReg
    <3> QED BY <3>1 DEF Even
  <2> QED BY <2>1, <2>2
<1> QED BY <1>2, <1>3, <1>4

-----------------------------------------------------------------------------
(* Edges and degrees when two nodes become one. *)

\* u has got some of the neighbours of v, and nothing else has changed.
Inheriting(B, H, u, v, N) ==
  /\ Filed(H, N) /\ H.alias = B.alias /\ H.state = B.state /\ H.degree = B.degree
  /\ \A n \in N : n # u => H.list[n] = B.list[n]
  /\ \A m : Listed(H, u, m) => Listed(B, u, m) \/ Listed(B, v, m)

\* What stands for v's neighbours is a neighbour of u, if it lists u already.
LEMMA InheritedEdges ==
  ASSUME NEW B, NEW N, Filed(B, N), NEW u \in N, NEW v \in N, u # v, B.alias[u] = u,
         \A x \in VNodes(N) : Listed(B, v, x) /\ x # u => Listed(B, x, u)
  PROVE  /\ Inheriting(B, Inherited(B, u, v), u, v, N)
         /\ u >= FirstVReg => \A m : m # u /\ (Listed(B, u, m) \/ Listed(B, v, m)) => Listed(Inherited(B, u, v), u, m)
<1> DEFINE nodes == B.list[v]
           k == Len(nodes)
           C == Inherited(B, u, v)
<1>0. nodes \in Seq(N) /\ Shape(B, N)
  <2>1. Shape(B, N)
    BY DEF Filed
  <2> QED BY <2>1 DEF Shape
<1>1. k \in Nat /\ DOMAIN nodes = 1 .. k /\ \A i \in 1 .. k : nodes[i] \in N
  BY <1>0
<1> HIDE DEF k
<1>2. PICK h : InheritedSteps(h, B, u, v, k)
  BY <1>1, InheritedUnfolds
<1> USE DEF InheritedSteps
<1> HIDE DEF nodes
<1>3. ASSUME NEW i \in 1 .. k, Inheriting(B, h[i - 1], u, v, N) PROVE Inheriting(B, h[i], u, v, N)
  <2> DEFINE A == h[i - 1]
             H == h[i]
             x == B.alias[nodes[i]]
  <2>1. nodes[i] \in N /\ Listed(B, v, x)
    BY <1>1 DEF Listed, nodes
  <2>2. H = Inherit(A, u, nodes[i])
    BY <1>2 DEF nodes
  <2>3. x \in N /\ B.alias[x] = x /\ x \in Nat
    BY <1>0, <2>1 DEF Shape
  <2>4. A.alias = B.alias /\ Filed(A, N)
    BY <1>3 DEF Inheriting
  <2>5. CASE x = u
    <3>1. H = A
      BY <2>2, <2>4, <2>5 DEF Inherit
    <3> QED BY <1>3, <3>1
  <2>6. CASE x # u
    <3>1. H = Joined(A, x, u)
      BY <2>2, <2>4, <2>6 DEF Inherit, irc_add_edge
    <3>2. x < FirstVReg \/ Listed(A, x, u)
      <4> SUFFICES ASSUME ~(x < FirstVReg) PROVE Listed(A, x, u)
        OBVIOUS
      <4>1. x \in VNodes(N)
        BY <2>3 DEF VNodes, FirstVReg
      <4>2. Listed(B, x, u)
        BY <2>1, <2>6, <4>1
      <4>3. A.list[x] = B.list[x]
        BY <1>3, <2>3, <2>6 DEF Inheriting
      <4> QED BY <2>4, <4>2, <4>3 DEF Listed
    <3> HIDE DEF A, H, x
    <3>3. /\ Filed(H, N) /\ H.alias = A.alias /\ H.state = A.state /\ H.degree = A.degree
          /\ \A n \in N : n # u /\ (n = x => x < FirstVReg \/ Listed(A, x, u)) => H.list[n] = A.list[n]
          /\ \A n \in N : \A m : Listed(H, n, m) <=>
               Listed(A, n, m) \/ (n >= FirstVReg /\ ((n = x /\ m = u) \/ (n = u /\ m = x)))
      BY <2>3, <2>4, <2>6, <3>1, JoinedEdges
    <3>4. \A n \in N : n # u => H.list[n] = A.list[n]
      BY <3>2, <3>3
    <3>5. \A m : Listed(H, u, m) => Listed(A, u, m) \/ m = x
      BY <2>6, <3>3
    <3>6. Inheriting(B, A, u, v, N)
      BY <1>3 DEF A
    <3>7. Inheriting(B, H, u, v, N)
      BY <2>1, <3>3, <3>4, <3>5, <3>6 DEF Inheriting
    <3> QED BY <3>7 DEF H
  <2> QED BY <2>5, <2>6
<1> DEFINE P == {i \in Nat : i =< k => Inheriting(B, h[i], u, v, N)}
<1>4. 0 \in P
  BY <1>2 DEF Inheriting
<1>5. ASSUME NEW i \in P PROVE i + 1 \in P
  <2> SUFFICES ASSUME i + 1 =< k PROVE Inheriting(B, h[i + 1], u, v, N)
    OBVIOUS
  <2>1. i + 1 \in 1 .. k /\ i + 1 - 1 = i /\ Inheriting(B, h[i], u, v, N)
    BY <1>1
  <2> QED BY <1>3, <2>1
<1>6. \A i \in Nat : i \in P
  <2>1. P \in SUBSET Nat
    OBVIOUS
  <2> HIDE DEF P
  <2> QED BY <1>4, <1>5, <2>1, NatSet
<1>7. Inheriting(B, h[k], u, v, N) /\ C = h[k]
  BY <1>1, <1>2, <1>6
<1>8. Later(B, C, N) /\ \A m \in ToSet(B.list[v]) : B.alias[m] # u => Held(C, m, u)
  BY <1>0, InheritedLater
<1> HIDE DEF C
<1>9. ASSUME u >= FirstVReg, NEW m, m # u, Listed(B, u, m) \/ Listed(B, v, m) PROVE Listed(C, u, m)
  <2>1. CASE Listed(B, u, m)
    BY <1>0, <1>8, <2>1, ListedLater
  <2>2. CASE Listed(B, v, m)
    <3>1. PICK i \in DOMAIN B.list[v] : B.alias[B.list[v][i]] = m
      BY <2>2 DEF Listed
    <3>2. Held(C, B.list[v][i], u)
      BY <1>8, <1>9, <3>1 DEF ToSet
    <3>3. C.alias = B.alias
      BY <1>7 DEF Inheriting
    <3> QED BY <1>9, <3>1, <3>2, <3>3 DEF Held, Linked
  <2> QED BY <1>9, <2>1, <2>2
<1> QED BY <1>7, <1>9 DEF C

\* v was coalesced into u: u has the neighbours of both, and the lists of other
\* nodes are what they were.
Combined(G, H, u, v, N) ==
  /\ Even(H, N) /\ H.alias = [n \in N |-> IF G.alias[n] = v THEN u ELSE G.alias[n]]
  /\ \A n \in N : Gone(H, n) <=> Gone(G, n) \/ n = v
  /\ \A n \in N : \A m : n # u /\ Listed(H, n, m) => Listed(G, n, m) \/ (m = u /\ Listed(G, n, v))
  /\ u >= FirstVReg => \A m : Listed(H, u, m) /\ m # u => Listed(G, u, m) \/ Listed(G, v, m)

\* A node that is neither has no more neighbours than before.
LEMMA CombinedFewer ==
  ASSUME NEW G, NEW H, NEW N, IsFiniteSet(N), Shape(G, N), Shape(H, N), NEW u \in N, NEW v \in N, NEW n \in N,
         G.alias[v] = v, n # u, n # v, ~Gone(G, v),
         \A m \in N : Gone(H, m) <=> Gone(G, m) \/ m = v,
         \A m : Listed(H, n, m) => Listed(G, n, m) \/ (m = u /\ Listed(G, n, v))
  PROVE  irc_compute_degree(H, n) =< irc_compute_degree(G, n)
<1> DEFINE x == Beside(G, n)
           y == Beside(H, n)
<1>1. /\ x = {m \in N : Listed(G, n, m) /\ m # n /\ ~Gone(G, m)}
      /\ y = {m \in N : Listed(H, n, m) /\ m # n /\ ~Gone(H, m)}
  BY BesideListed
<1>2. /\ IsFiniteSet(x) /\ irc_compute_degree(G, n) = Cardinality(x) /\ Cardinality(x) \in Nat
      /\ irc_compute_degree(H, n) = Cardinality(y) /\ Cardinality(y) \in Nat
  BY DegreeCounts
<1> HIDE DEF x, y
<1>3. CASE v \notin x
  <2>1. y \subseteq x
    BY <1>1, <1>3
  <2> QED BY <1>2, <2>1, FS_Subset
<1>4. CASE v \in x
  <2> DEFINE z == x \ {v}
  <2>1. IsFiniteSet(z) /\ Cardinality(z) = Cardinality(x) - 1
    BY <1>2, <1>4, FS_RemoveElement
  <2>2. IsFiniteSet(z \cup {u}) /\ Cardinality(z \cup {u}) =< Cardinality(z) + 1
    <3>1. /\ IsFiniteSet(z \cup {u})
          /\ Cardinality(z \cup {u}) = IF u \in z THEN Cardinality(z) ELSE Cardinality(z) + 1
      BY <2>1, FS_AddElement
    <3> QED BY <1>2, <2>1, <3>1
  <2>3. y \subseteq z \cup {u}
    BY <1>1
  <2>4. Cardinality(y) =< Cardinality(z \cup {u}) /\ Cardinality(z \cup {u}) \in Nat
    BY <2>2, <2>3, FS_Subset, FS_CardinalityType
  <2> QED BY <1>2, <2>1, <2>2, <2>4
<1> QED BY <1>3, <1>4

\* irc_combine_nodes gives u the neighbours of v, and keeps edges even; it computes
\* anew the degrees that may have become too low.
LEMMA CombineEven ==
  ASSUME NEW G, NEW N, IsFiniteSet(N), Sound(G, N, {}, 0), Even(G, N), Rated(G, N, 0), NEW u \in N, NEW v \in VNodes(N),
         u # v, G.alias[u] = u, G.alias[v] = v, ~Gone(G, v)
  PROVE  LET H == irc_combine_nodes(G, u, v) IN Combined(G, H, u, v, N) /\ Rated(H, N, 0)
<1> DEFINE A == Aliased(G, u, v)
           B == Merged(G, u, v)
           C == Inherited(B, u, v)
           D == irc_refresh_degree(C, u)
           E == RefreshAround(D, u)
           F == irc_combine_nodes(G, u, v)
<1>1. Shape(G, N) /\ v \in N /\ v >= FirstVReg /\ N \subseteq Nat /\ Filed(G, N)
  BY DEF Sound, VNodes, Shape, Even
<1>2. /\ A.alias = [n \in N |-> IF G.alias[n] = v THEN u ELSE G.alias[n]]
      /\ A.list = G.list /\ A.state = [G.state EXCEPT ![v] = "coalesced"] /\ Shape(A, N)
  <2> DEFINE P == {}
  <2>1. Sound(G, N, P, 0)
    OBVIOUS
  <2> HIDE DEF P
  <2>2. /\ DOMAIN A = Fields
        /\ A.alias = [n \in N |-> IF G.alias[n] = v THEN u ELSE G.alias[n]]
        /\ A.list = G.list /\ A.stack = G.stack /\ A.color = G.color /\ A.spilled = G.spilled
        /\ A.crosses = G.crosses /\ A.moves = G.moves /\ A.queue = G.queue /\ A.lists = G.lists
        /\ A.of = [G.of EXCEPT ![u] = IF u < FirstVReg THEN @ ELSE @ \o G.of[v]]
        /\ A.state = [G.state EXCEPT ![v] = "coalesced"]
        /\ Shape(A, N) /\ \A m \in VNodes(N) : A.alias[m] = m => On(A, m)
    BY <2>1, AliasedSound
  <2> QED BY <2>2
<1>3. A.adj = G.adj /\ A.degree = G.degree
  BY <1>1 DEF Aliased, Shape, Fields
<1>4. B = irc_enable_moves_for_node(A, v)
  BY DEF Merged
<1> HIDE DEF A, B
<1>5. Still(A, B, N)
  BY <1>1, <1>2, <1>4, EnableStill
<1>6. /\ Shape(B, N) /\ B.adj = G.adj /\ B.degree = G.degree /\ B.list = G.list
      /\ B.alias = [n \in N |-> IF G.alias[n] = v THEN u ELSE G.alias[n]]
      /\ \A n \in N : Gone(B, n) <=> Gone(G, n) \/ n = v
  <2>1. \A n \in N : Gone(A, n) <=> Gone(G, n) \/ n = v
    BY <1>1, <1>2 DEF Gone, Shape
  <2> QED BY <1>2, <1>3, <1>5, <2>1 DEF Still
<1>7. \A n \in N : \A m : Listed(B, n, m) => Listed(G, n, m) \/ (m = u /\ Listed(G, n, v))
  <2> SUFFICES ASSUME NEW n \in N, NEW m, Listed(B, n, m) PROVE Listed(G, n, m) \/ (m = u /\ Listed(G, n, v))
    OBVIOUS
  <2>1. PICK i \in DOMAIN G.list[n] : B.alias[G.list[n][i]] = m
    BY <1>6 DEF Listed
  <2>2. G.list[n][i] \in N
    BY <1>1, <2>1 DEF Shape
  <2> QED BY <1>6, <2>1, <2>2 DEF Listed
<1>8. \A n \in N : \A m : Listed(G, n, m) => Listed(B, n, IF m = v THEN u ELSE m)
  <2> SUFFICES ASSUME NEW n \in N, NEW m, Listed(G, n, m) PROVE Listed(B, n, IF m = v THEN u ELSE m)
    OBVIOUS
  <2>1. PICK i \in DOMAIN G.list[n] : G.alias[G.list[n][i]] = m
    BY DEF Listed
  <2>2. G.list[n][i] \in N
    BY <1>1, <2>1 DEF Shape
  <2>3. B.alias[G.list[n][i]] = IF m = v THEN u ELSE m
    BY <1>6, <2>1, <2>2
  <2> QED BY <1>6, <2>1, <2>3 DEF Listed
<1>9. Filed(B, N)
  <2>1. \A r \in N : r < FirstVReg => B.list[r] = <<>> /\ B.degree[r] = 1000000 /\ ~Gone(B, r)
    <3>1. \A r \in N : r < FirstVReg => r # v
      BY <1>1 DEF FirstVReg
    <3> QED BY <1>1, <1>6, <3>1 DEF Filed
  <2>2. ASSUME NEW n \in VNodes(N), NEW m \in B.adj[n] PROVE Listed(B, n, B.alias[m])
    <3>1. n \in N /\ m \in N
      BY <1>1, <1>6, <2>2 DEF Filed, VNodes
    <3>2. Listed(G, n, G.alias[m])
      BY <1>1, <1>6, <2>2 DEF Filed
    <3>3. Listed(B, n, IF G.alias[m] = v THEN u ELSE G.alias[m])
      BY <1>8, <3>1, <3>2
    <3> QED BY <1>6, <3>1, <3>3
  <2>3. B.adj \in [N -> SUBSET N] /\ B.degree \in [N -> Nat]
    BY <1>1, <1>6 DEF Filed
  <2>4. \A n \in VNodes(N) : \A m \in B.adj[n] : Listed(B, n, B.alias[m])
    BY <2>2
  <2>5. Shape(B, N)
    BY <1>6
  <2> QED BY <2>1, <2>3, <2>4, <2>5 DEF Filed
<1>10. \A n \in N : B.alias[n] = n => G.alias[n] = n /\ n # v
  BY <1>1, <1>6 DEF Shape
<1>11. \A x \in VNodes(N) : Listed(B, v, x) /\ x # u => Listed(B, x, u)
  <2> SUFFICES ASSUME NEW x \in VNodes(N), Listed(B, v, x), x # u PROVE Listed(B, x, u)
    OBVIOUS
  <2>1. Listed(G, v, x) /\ x \in N
    BY <1>1, <1>7 DEF VNodes
  <2>2. G.alias[x] = x
    <3>1. PICK i \in DOMAIN G.list[v] : G.alias[G.list[v][i]] = x
      BY <2>1 DEF Listed
    <3>2. G.list[v][i] \in N
      BY <1>1, <3>1 DEF Shape
    <3>3. G.alias[G.alias[G.list[v][i]]] = G.alias[G.list[v][i]]
      BY <1>1, <3>2 DEF Shape
    <3> QED BY <3>1, <3>3
  <2>3. Listed(G, x, v)
    BY <2>1, <2>2 DEF Even
  <2> QED BY <1>8, <2>1, <2>3
<1>12. B.alias[u] = u
  BY <1>6
<1>13. /\ Inheriting(B, C, u, v, N)
       /\ u >= FirstVReg => \A m : m # u /\ (Listed(B, u, m) \/ Listed(B, v, m)) => Listed(C, u, m)
  BY <1>1, <1>9, <1>11, <1>12, InheritedEdges
<1> HIDE DEF C
<1>14. /\ Filed(C, N) /\ C.alias = B.alias /\ C.degree = G.degree
       /\ \A n \in N : Gone(C, n) <=> Gone(G, n) \/ n = v
       /\ \A n \in N : \A m : n # u => (Listed(C, n, m) <=> Listed(B, n, m))
       /\ \A m : Listed(C, u, m) => Listed(B, u, m) \/ Listed(B, v, m)
  BY <1>6, <1>13 DEF Inheriting, Gone, Listed
<1>15. ASSUME NEW n \in VNodes(N), NEW m \in VNodes(N), C.alias[n] = n, C.alias[m] = m, Listed(C, n, m)
       PROVE  Listed(C, m, n)
  <2>1. n \in N /\ m \in N /\ n # v /\ m # v /\ G.alias[n] = n /\ G.alias[m] = m /\ m >= FirstVReg /\ n >= FirstVReg
    BY <1>10, <1>14, <1>15 DEF VNodes
  <2>2. CASE n # u /\ m # u
    <3>1. Listed(G, n, m)
      BY <1>7, <1>14, <1>15, <2>1, <2>2
    <3>2. Listed(G, m, n)
      BY <2>1, <3>1 DEF Even
    <3> QED BY <1>8, <1>14, <2>1, <2>2, <3>2
  <2>3. CASE n # u /\ m = u
    <3>1. Listed(G, n, u) \/ Listed(G, n, v)
      BY <1>7, <1>14, <1>15, <2>1, <2>3
    <3>2. Listed(G, u, n) \/ Listed(G, v, n)
      BY <2>1, <2>3, <3>1 DEF Even
    <3>3. Listed(B, u, n) \/ Listed(B, v, n)
      BY <1>1, <1>8, <2>1, <3>2
    <3> QED BY <1>13, <2>1, <2>3, <3>3
  <2>4. CASE n = u /\ m # u
    <3>1. Listed(B, u, m) \/ Listed(B, v, m)
      BY <1>14, <1>15, <2>4
    <3>2. Listed(G, u, m) \/ Listed(G, v, m)
      BY <1>1, <1>7, <2>4, <3>1
    <3>3. Listed(G, m, u) \/ Listed(G, m, v)
      BY <2>1, <2>4, <3>2 DEF Even
    <3>4. Listed(B, m, u)
      BY <1>8, <2>1, <3>3
    <3> QED BY <1>14, <2>1, <2>4, <3>4
  <2>5. CASE n = m
    BY <1>15, <2>5
  <2> QED BY <2>2, <2>3, <2>4, <2>5
<1>16. Even(C, N)
  BY <1>14, <1>15 DEF Even
<1>17. \A n \in N : \A m : n # u /\ Listed(C, n, m) => Listed(G, n, m) \/ (m = u /\ Listed(G, n, v))
  BY <1>7, <1>14
<1>18. Rated(C, N, u)
  <2> SUFFICES ASSUME NEW n \in VNodes(N), C.alias[n] = n, n # u PROVE irc_compute_degree(C, n) =< C.degree[n]
    BY DEF Rated
  <2>1. n \in N /\ n # v /\ G.alias[n] = n /\ n # 0
    BY <1>10, <1>14 DEF VNodes, FirstVReg
  <2>2. Shape(C, N)
    BY <1>14 DEF Filed
  <2>3. irc_compute_degree(C, n) =< irc_compute_degree(G, n)
    BY <1>1, <1>14, <1>17, <2>1, <2>2, CombinedFewer
  <2>4. irc_compute_degree(G, n) =< G.degree[n] /\ G.degree[n] \in Nat
    BY <1>1, <2>1 DEF Rated, Filed
  <2>5. irc_compute_degree(C, n) \in Nat /\ irc_compute_degree(G, n) \in Nat
    BY <1>1, <2>1, <2>2, DegreeCounts
  <2> QED BY <1>14, <2>3, <2>4, <2>5
<1>19. Steady(C, D, N) /\ (C.alias[u] >= FirstVReg => D.degree[C.alias[u]] = irc_compute_degree(C, C.alias[u]))
  BY <1>14, RefreshSteady DEF Filed
<1> HIDE DEF D
<1>20. Even(D, N) /\ Rated(D, N, u)
  BY <1>16, <1>18, <1>19, SteadyEven, SteadyRated
<1>21. Rated(D, N, 0)
  <2> SUFFICES ASSUME NEW n \in VNodes(N), D.alias[n] = n PROVE irc_compute_degree(D, n) =< D.degree[n]
    BY DEF Rated
  <2>1. CASE n # u
    BY <1>20, <2>1 DEF Rated
  <2>2. CASE n = u
    <3>1. D.degree[u] = irc_compute_degree(C, u)
      BY <1>12, <1>14, <1>19, <2>2 DEF VNodes
    <3>2. Shape(C, N)
      BY <1>14 DEF Filed
    <3>3. D.list = C.list /\ D.alias = C.alias /\ \A m \in N : Gone(D, m) <=> Gone(C, m)
      BY <1>19 DEF Steady
    <3>4. irc_compute_degree(D, u) = irc_compute_degree(C, u)
      BY <3>2, <3>3, DegreeSame
    <3>5. irc_compute_degree(C, u) \in Nat
      BY <3>2, DegreeCounts
    <3> QED BY <2>2, <3>1, <3>4, <3>5
  <2> QED BY <2>1, <2>2
<1>22. Steady(D, E, N)
  BY <1>20, RefreshAroundSteady DEF Even, Filed
<1> HIDE DEF E
<1>23. Even(E, N) /\ Rated(E, N, 0)
  BY <1>20, <1>21, <1>22, SteadyEven, SteadyRated
<1>24. F = [E EXCEPT !.coalesced = Append(@, v)]
  BY DEF irc_combine_nodes, E, D, C, B
<1> HIDE DEF F
<1>25. Still(E, F, N)
  <2>0. Shape(E, N)
    BY <1>23 DEF Even, Filed
  <2>1. /\ DOMAIN F = Fields
        /\ F.alias = E.alias /\ F.list = E.list /\ F.stack = E.stack /\ F.adj = E.adj /\ F.degree = E.degree
        /\ F.of = E.of /\ F.moves = E.moves /\ F.queue = E.queue /\ F.state = E.state /\ F.lists = E.lists
    BY <1>24, <2>0 DEF Shape, Fields
  <2>2. Shape(F, N)
    BY <2>0, <2>1 DEF Shape
  <2> QED BY <2>1, <2>2 DEF Still, Gone
<1>26. Even(F, N) /\ Rated(F, N, 0)
  BY <1>23, <1>25, StillEven
<1>27. F.alias = C.alias /\ F.list = C.list /\ \A n \in N : Gone(F, n) <=> Gone(C, n)
  BY <1>19, <1>22, <1>25 DEF Steady, Still
<1>28. \A n, m : Listed(F, n, m) <=> Listed(C, n, m)
  BY <1>27, ListedSame
<1>29. u >= FirstVReg => \A m : Listed(F, u, m) /\ m # u => Listed(G, u, m) \/ Listed(G, v, m)
  BY <1>1, <1>7, <1>14, <1>28
<1>30. Combined(G, F, u, v, N)
  BY <1>6, <1>14, <1>17, <1>26, <1>27, <1>28, <1>29 DEF Combined
<1> QED BY <1>26, <1>30 DEF F

-----------------------------------------------------------------------------
(* Edges and degrees while the graph is built. *)

\* What edges, aliases, degrees and states do not speak of leaves edges even.
LEMMA EvenSame ==
  ASSUME NEW G, NEW H, NEW N, IsFiniteSet(N), Even(G, N), Shape(H, N),
         H.adj = G.adj, H.list = G.list, H.alias = G.alias, H.degree = G.degree, H.state = G.state
  PROVE  Even(H, N)
<1>1. Still(G, H, N)
  BY DEF Still, Gone
<1> QED BY <1>1, StillEven

\* The first numbers are finitely many.
LEMMA FirstFinite == ASSUME NEW k \in Nat PROVE IsFiniteSet(1 .. k)
<1>1. 1 \in Int /\ k \in Int
  OBVIOUS
<1> QED BY <1>1, FS_Interval

\* Edges of a node are added.
LEMMA AddEdgesEven ==
  ASSUME NEW G, NEW N, NEW k \in Nat, N = 1 .. k, Even(G, N), NEW n \in N, NEW S \in SUBSET N
  PROVE  Even(AddEdges(G, n, S), N)
<1>1. PICK h : AddEdgesSteps(h, G, n, k, S)
  BY AddEdgesUnfolds
<1> USE DEF AddEdgesSteps
<1> DEFINE Q == {i \in Nat : i =< k => Even(h[i], N)}
<1>2. 0 \in Q
  BY <1>1
<1>3. ASSUME NEW i \in Q PROVE i + 1 \in Q
  <2> SUFFICES ASSUME i + 1 =< k PROVE Even(h[i + 1], N)
    OBVIOUS
  <2>1. i \in Nat /\ i + 1 \in 1 .. k /\ i + 1 - 1 = i /\ Even(h[i], N)
    OBVIOUS
  <2>2. h[i + 1] = IF i + 1 \in S THEN irc_add_edge(h[i], n, i + 1) ELSE h[i]
    BY <1>1, <2>1
  <2> HIDE DEF Q, AddEdgesSteps
  <2>3. i + 1 \in N
    BY <2>1
  <2>4. Even(irc_add_edge(h[i], n, i + 1), N)
    BY <2>1, <2>3, AddEdgeEven
  <2> QED BY <2>1, <2>2, <2>4
<1>4. \A i \in Nat : i \in Q
  <2>1. Q \in SUBSET Nat
    OBVIOUS
  <2> HIDE DEF Q
  <2> QED BY <1>2, <1>3, <2>1, NatSet
<1> QED BY <1>1, <1>4

\* A node that crosses a call gets its edges.
LEMMA CrossesEven ==
  ASSUME NEW G, NEW N, NEW k \in Nat, N = 1 .. k, Even(G, N), NEW n \in N
  PROVE  Even(CrossesCall(n, G), N)
<1> DEFINE C == ToSet(CallerSaved)
           A == AddEdges(G, n, C)
           H == [A EXCEPT !.crosses = @ \cup {n}]
<1>1. C \in SUBSET N
  <2>1. Filed(G, N)
    BY DEF Even
  <2>2. Registers \subseteq N
    BY <2>1 DEF Filed, Shape
  <2> QED BY <2>2, CallerRegisters
<1> HIDE DEF C
<1>2. Even(A, N) /\ IsFiniteSet(N)
  BY <1>1, AddEdgesEven, FirstFinite
<1> HIDE DEF A
<1>3. Shape(A, N)
  BY <1>2 DEF Even, Filed
<1>4. /\ DOMAIN H = Fields
      /\ H.alias = A.alias /\ H.list = A.list /\ H.stack = A.stack /\ H.adj = A.adj /\ H.degree = A.degree
      /\ H.of = A.of /\ H.moves = A.moves /\ H.queue = A.queue /\ H.state = A.state /\ H.lists = A.lists
  BY <1>3 DEF Shape, Fields
<1>5. CrossesCall(n, G) = IF n \in G.crosses THEN G ELSE H
  BY DEF CrossesCall, H, A, C
<1> HIDE DEF H
<1>6. Shape(H, N)
  BY <1>3, <1>4 DEF Shape
<1>7. Even(H, N)
  BY <1>2, <1>4, <1>6, EvenSame
<1> QED BY <1>5, <1>7

\* All nodes that cross a call do.
LEMMA CrossCallsEven ==
  ASSUME NEW G, NEW N, NEW k \in Nat, N = 1 .. k, Even(G, N), NEW S \in SUBSET N
  PROVE  Even(CrossCalls(G, S), N)
<1>1. PICK h : CrossCallsSteps(h, G, k, S)
  BY CrossCallsUnfolds
<1> USE DEF CrossCallsSteps
<1> DEFINE Q == {i \in Nat : i =< k => Even(h[i], N)}
<1>2. 0 \in Q
  BY <1>1
<1>3. ASSUME NEW i \in Q PROVE i + 1 \in Q
  <2> SUFFICES ASSUME i + 1 =< k PROVE Even(h[i + 1], N)
    OBVIOUS
  <2>1. i \in Nat /\ i + 1 \in 1 .. k /\ i + 1 - 1 = i /\ Even(h[i], N)
    OBVIOUS
  <2>2. h[i + 1] = IF i + 1 \in S THEN CrossesCall(i + 1, h[i]) ELSE h[i]
    BY <1>1, <2>1
  <2> HIDE DEF Q, CrossCallsSteps
  <2> QED BY <2>1, <2>2, CrossesEven
<1>4. \A i \in Nat : i \in Q
  <2>1. Q \in SUBSET Nat
    OBVIOUS
  <2> HIDE DEF Q
  <2> QED BY <1>2, <1>3, <2>1, NatSet
<1> QED BY <1>1, <1>4

\* A copy is noted.
LEMMA MoveEven ==
  ASSUME NEW G, NEW N, IsFiniteSet(N), Fresh(G, N), Even(G, N), NEW dst \in VNodes(N), NEW src \in N, NEW r
  PROVE  Even([irc_add_move(G, dst, src) EXCEPT !.hint[dst] = r], N)
<1> DEFINE A == irc_add_move(G, dst, src)
           H == [A EXCEPT !.hint[dst] = r]
<1>1. Later(G, H, N)
  BY MoveLater
<1>2. Shape(G, N) /\ Shape(H, N)
  BY <1>1, LaterShape DEF Fresh
<1>3. /\ DOMAIN A = Fields
      /\ A.alias = G.alias /\ A.list = G.list /\ A.adj = G.adj /\ A.degree = G.degree /\ A.state = G.state
  BY <1>2 DEF irc_add_move, Shape, Fields
<1> HIDE DEF A
<1>4. H.alias = G.alias /\ H.list = G.list /\ H.adj = G.adj /\ H.degree = G.degree /\ H.state = G.state
  BY <1>3 DEF Fields
<1> HIDE DEF H
<1>5. Even(H, N)
  BY <1>2, <1>4, EvenSame
<1> QED BY <1>5 DEF H, A

\* One instruction.
LEMMA InterferingEven ==
  ASSUME NEW f, WellFormed(f), NEW a, Going(a, Nodes(f)), Even(a.g, Nodes(f)), NEW inst,
         ProperInst(inst, f.vregs, Blocks(f)), NEW weight
  PROVE  Even(Interfering(a, inst, weight).g, Nodes(f))
<1> DEFINE N == Nodes(f)
           d == DefinedBy(inst)
           s == CopySource(inst)
           t == NodeOf(inst.dst)
           k == FirstVReg + f.vregs - 1
           z == Interfering(a, inst, weight)
<1>1. k \in Nat /\ N = 1 .. k
  BY ProperNodes
<1>2. d \in N \cup {0} /\ IsFiniteSet(N)
  BY <1>1, ProperUses, FirstFinite DEF VNodes
<1>3. CASE IsNop(inst)
  BY <1>3 DEF Interfering
<1>4. CASE ~IsNop(inst)
  <2> DEFINE b == Crossing(a, inst)
             c == Copying(b, inst)
             e == Defining(c, inst, weight)
  <2>1. z = Using(e, inst, weight)
    BY <1>4 DEF Interfering
  <2>2. Going(b, N)
    BY <1>1, CrossingGoing
  <2>3. Even(b.g, N)
    <3> DEFINE S == {n \in a.live : n >= FirstVReg}
    <3>1. S \in SUBSET N
      BY DEF Going
    <3>2. b.g = IF inst.op \notin Calls THEN a.g ELSE CrossCalls(a.g, S)
      BY DEF Crossing, Going
    <3> HIDE DEF S, b
    <3> QED BY <1>1, <3>1, <3>2, CrossCallsEven
  <2> HIDE DEF b
  <2>4. Going(c, N)
    BY <2>2, CopyingGoing
  <2>5. Even(c.g, N)
    <3>1. CASE s = 0
      BY <2>3, <3>1 DEF Copying
    <3>2. CASE s # 0
      <4>1. PICK r : c = [b EXCEPT !.g = [irc_add_move(@, t, s) EXCEPT !.hint[t] = r], !.live = @ \ {s}]
        BY <3>2 DEF Copying
      <4>2. c.g = [irc_add_move(b.g, t, s) EXCEPT !.hint[t] = r]
        BY <2>2, <4>1 DEF Going
      <4>3. t \in VNodes(N) /\ s \in N
        BY <3>2, CopySources
      <4>4. Fresh(b.g, N)
        BY <2>2 DEF Going
      <4> HIDE DEF c, t, s, N
      <4> QED BY <1>2, <2>3, <4>2, <4>3, <4>4, MoveEven
    <3> QED BY <3>1, <3>2
  <2> HIDE DEF c
  <2>6. Going(e, N)
    BY <1>1, <1>2, <2>4, DefiningGoing
  <2>7. Even(e.g, N)
    <3>1. CASE d = 0
      BY <2>5, <3>1 DEF Defining
    <3>2. CASE d # 0
      <4> DEFINE A == Costlier(c.g, d, weight)
                 L == c.live
      <4>1. e.g = AddEdges(A, d, L)
        BY <2>4, <3>2 DEF Defining, Going
      <4>2. Shape(c.g, N) /\ L \in SUBSET N /\ d \in N
        BY <1>2, <2>4, <3>2 DEF Going, Fresh
      <4>3. /\ DOMAIN A = Fields
            /\ A.alias = c.g.alias /\ A.list = c.g.list /\ A.stack = c.g.stack /\ A.adj = c.g.adj
            /\ A.degree = c.g.degree /\ A.of = c.g.of /\ A.moves = c.g.moves
            /\ A.queue = c.g.queue /\ A.state = c.g.state /\ A.lists = c.g.lists
        BY <4>2 DEF Shape, Fields, Costlier
      <4> HIDE DEF A, L, e, d, N
      <4>4. Shape(A, N)
        BY <4>2, <4>3 DEF Shape
      <4>5. Even(A, N)
        BY <1>2, <2>5, <4>3, <4>4, EvenSame
      <4>6. Even(AddEdges(A, d, L), N)
        BY <1>1, <4>2, <4>5, AddEdgesEven
      <4> QED BY <4>1, <4>6
    <3> QED BY <3>1, <3>2
  <2> HIDE DEF e
  <2>8. PICK x, l : z = [e EXCEPT !.g.cost = x, !.live = l]
    BY <2>1 DEF Using
  <2> DEFINE A == [e.g EXCEPT !.cost = x]
  <2>9. z.g = A
    BY <2>6, <2>8 DEF Going
  <2>10. Shape(e.g, N)
    BY <2>6 DEF Going, Fresh
  <2>11. /\ DOMAIN A = Fields
         /\ A.alias = e.g.alias /\ A.list = e.g.list /\ A.stack = e.g.stack /\ A.adj = e.g.adj
         /\ A.degree = e.g.degree /\ A.of = e.g.of /\ A.moves = e.g.moves
         /\ A.queue = e.g.queue /\ A.state = e.g.state /\ A.lists = e.g.lists
    BY <2>10 DEF Shape, Fields
  <2> HIDE DEF A, N, z
  <2>12. Shape(A, N)
    BY <2>10, <2>11 DEF Shape
  <2>13. Even(A, N)
    BY <1>2, <2>7, <2>11, <2>12, EvenSame
  <2> QED BY <2>9, <2>13 DEF N, z
<1> QED BY <1>3, <1>4

\* The instructions of a block.
LEMMA BuildBlockEven ==
  ASSUME NEW f, WellFormed(f), NEW b \in Blocks(f), NEW G, Fresh(G, Nodes(f)), Even(G, Nodes(f)),
         NEW live \in SUBSET VNodes(Nodes(f)), NEW weight
  PROVE  Even(BuildBlock(G, f.code[b], live, weight), Nodes(f))
<1> DEFINE N == Nodes(f)
           code == f.code[b]
           k == Len(code)
           a == [g |-> G, live |-> live]
<1>1. k \in Nat /\ DOMAIN code = 1 .. k
  BY CodeLen
<1>2. \A i \in 1 .. k : ProperInst(code[i], f.vregs, Blocks(f))
  BY <1>1 DEF WellFormed, ToSet
<1> HIDE DEF k
<1>3. PICK x : BuildFromSteps(x, a, code, weight, k)
  BY <1>1, BuildFromUnfolds
<1> USE DEF BuildFromSteps
<1> DEFINE Fine(i) == Going(x[i], N) /\ Even(x[i].g, N)
<1>4. Going(a, N) /\ Even(a.g, N)
  BY DEF Going, VNodes
<1>5. Fine(k)
  BY <1>3, <1>4
<1>6. BuildBlock(G, code, live, weight) = x[0].g
  BY <1>3 DEF BuildBlock
<1> HIDE DEF a, code
<1>7. ASSUME NEW i \in 1 .. k, Fine(i) PROVE Fine(i - 1)
  <2> DEFINE z == Interfering(x[i], code[i], weight)
  <2>1. x[i - 1] = z
    BY <1>3
  <2>2. Going(x[i], N) /\ Even(x[i].g, N) /\ ProperInst(code[i], f.vregs, Blocks(f))
    BY <1>2, <1>7
  <2>3. {} \in SUBSET VNodes(N) /\ {} \subseteq x[i].live
    OBVIOUS
  <2>4. Going(z, N)
    BY <2>2, <2>3, InterferingLater
  <2>5. Even(z.g, N)
    BY <2>2, InterferingEven
  <2> QED BY <2>1, <2>4, <2>5
<1> DEFINE Q == {c \in Nat : c =< k => Fine(k - c)}
<1>8. 0 \in Q
  BY <1>1, <1>5
<1>9. ASSUME NEW c \in Q PROVE c + 1 \in Q
  <2> SUFFICES ASSUME c + 1 =< k PROVE Fine(k - (c + 1))
    OBVIOUS
  <2>1. k - c \in 1 .. k /\ k - (c + 1) = k - c - 1 /\ Fine(k - c)
    BY <1>1
  <2> HIDE DEF Fine
  <2> QED BY <1>7, <2>1
<1>10. \A c \in Nat : c \in Q
  <2>1. Q \in SUBSET Nat
    OBVIOUS
  <2> HIDE DEF Q
  <2> QED BY <1>8, <1>9, <2>1, NatSet
<1>11. Fine(0)
  <2>1. k \in Q /\ k - k = 0 /\ k =< k
    BY <1>1, <1>10
  <2> HIDE DEF Fine
  <2> QED BY <2>1
<1> QED BY <1>6, <1>11 DEF code

\* All blocks.
LEMMA BuildEven ==
  ASSUME NEW f, WellFormed(f), NEW in \in Among(f, VNodes(Nodes(f))), NEW G, Fresh(G, Nodes(f)), Even(G, Nodes(f)),
         NEW depth
  PROVE  Even(irc_build_graph(G, f, in, depth), Nodes(f))
<1> DEFINE N == Nodes(f)
           k == Len(f.order)
<1>1. k \in Nat /\ DOMAIN f.order = 1 .. k
  BY DEF WellFormed
<1>2. \A m \in 1 .. k : f.order[m] \in Blocks(f)
  BY <1>1 DEF Blocks, ToSet
<1> HIDE DEF k
<1>3. PICK h : BuildSteps(h, G, f, in, depth, k)
  BY <1>1, BuildUnfolds
<1> USE DEF BuildSteps
<1> DEFINE Fine(i) == Fresh(h[i], N) /\ Even(h[i], N)
           Q == {i \in Nat : i =< k => Fine(i)}
<1>4. 0 \in Q
  BY <1>3
<1>5. ASSUME NEW i \in Q PROVE i + 1 \in Q
  <2> SUFFICES ASSUME i + 1 =< k PROVE Fine(i + 1)
    OBVIOUS
  <2> DEFINE m == i + 1
             b == f.order[m]
             live == LiveOut(f, in, b)
             weight == 100 * Weight(depth[b])
  <2>1. i \in Nat /\ m \in 1 .. k /\ m - 1 = i /\ Fresh(h[i], N) /\ Even(h[i], N)
    <3>1. i \in Nat /\ (i =< k => Fine(i))
      OBVIOUS
    <3> HIDE DEF Q, Fine
    <3>2. i =< k /\ m \in 1 .. k /\ m - 1 = i
      BY <1>1, <3>1
    <3> QED BY <3>1, <3>2 DEF Fine
  <2>2. h[m] = BuildBlock(h[i], f.code[b], live, weight)
    BY <1>3, <2>1
  <2>3. b \in Blocks(f)
    BY <1>2, <2>1
  <2>4. live \in SUBSET VNodes(N)
    BY <2>3, LiveOutIn
  <2> HIDE DEF live, weight, b, Q, Fine, BuildSteps, m
  <2>5. Later(h[i], BuildBlock(h[i], f.code[b], live, weight), N)
    BY <2>1, <2>3, <2>4, BuildBlockLater
  <2>6. Even(BuildBlock(h[i], f.code[b], live, weight), N)
    BY <2>1, <2>3, <2>4, BuildBlockEven
  <2>7. Fresh(h[m], N)
    BY <2>1, <2>2, <2>5, FreshLater
  <2> QED BY <2>2, <2>6, <2>7 DEF Fine, m
<1>6. \A i \in Nat : i \in Q
  <2>1. Q \in SUBSET Nat
    OBVIOUS
  <2> HIDE DEF Q
  <2> QED BY <1>4, <1>5, <2>1, NatSet
<1>7. Even(h[k], N)
  BY <1>1, <1>6
<1> QED BY <1>3, <1>7

\* The graph of a function without its edges.
LEMMA UncostedEven ==
  ASSUME NEW f, WellFormed(f), NEW first
  PROVE  Even(Uncosted(f, first), Nodes(f))
<1> DEFINE G == Uncosted(f, first)
           N == Nodes(f)
<1>1. N = 1 .. FirstVReg + f.vregs - 1 /\ FirstVReg + f.vregs - 1 \in Nat /\ N \subseteq Nat
  BY ProperNodes
<1>2. Shape(G, N)
  BY UncostedFresh DEF Fresh
<1>3. /\ G.adj = [n \in N |-> IF n < FirstVReg THEN Registers \ {n} ELSE {}]
      /\ G.list = [n \in N |-> <<>>]
      /\ G.degree = [n \in N |-> IF n < FirstVReg THEN 1000000 ELSE 0]
      /\ G.state = [n \in N |-> "initial"]
  BY <1>1 DEF Uncosted
<1> HIDE DEF G, N
<1>4. Registers \subseteq N
  BY <1>2 DEF Shape
<1>5. G.adj \in [N -> SUBSET N] /\ G.degree \in [N -> Nat]
  BY <1>3, <1>4
<1>6. \A r \in N : r < FirstVReg => G.list[r] = <<>> /\ G.degree[r] = 1000000 /\ ~Gone(G, r)
  BY <1>3 DEF Gone
<1>7. \A n \in VNodes(N) : G.adj[n] = {} /\ n \in N
  BY <1>1, <1>3 DEF VNodes, FirstVReg
<1>8. \A n \in VNodes(N) : \A m \in G.adj[n] : Listed(G, n, G.alias[m])
  BY <1>7
<1>9. \A n \in VNodes(N) : \A m : ~Listed(G, n, m)
  <2> SUFFICES ASSUME NEW n \in VNodes(N), NEW m PROVE ~Listed(G, n, m)
    OBVIOUS
  <2>1. G.list[n] = <<>>
    BY <1>3, <1>7
  <2> QED BY <2>1 DEF Listed
<1>10. Filed(G, N)
  BY <1>2, <1>5, <1>6, <1>8 DEF Filed
<1>11. Even(G, N)
  BY <1>9, <1>10 DEF Even
<1> QED BY <1>11 DEF G, N

\* The degrees of virtual registers are computed.
LEMMA CostedEven ==
  ASSUME NEW G, NEW N, IsFiniteSet(N), Even(G, N), NEW f, NEW in, NEW depth
  PROVE  LET H == Costed(G, f, in, depth)
         IN Even(H, N) /\ Rated(H, N, 0) /\ H.state = G.state
<1> DEFINE H == Costed(G, f, in, depth)
           D == [n \in N |-> IF n < FirstVReg THEN G.degree[n] ELSE irc_compute_degree(G, n)]
<1>1. Shape(G, N) /\ G.degree \in [N -> Nat]
  BY DEF Even, Filed
<1>2. PICK length, cost : H = [G EXCEPT !.degree = [n \in DOMAIN @ |-> IF n < FirstVReg THEN @[n] ELSE irc_compute_degree(G, n)],
                                        !.length = length, !.cost = cost]
  BY DEF Costed
<1> HIDE DEF H
<1>3. /\ DOMAIN H = Fields
      /\ H.alias = G.alias /\ H.list = G.list /\ H.stack = G.stack /\ H.adj = G.adj
      /\ H.of = G.of /\ H.moves = G.moves /\ H.queue = G.queue /\ H.state = G.state
      /\ H.lists = G.lists
  BY <1>1, <1>2 DEF Shape, Fields
<1>4. H.degree = D
  BY <1>1, <1>2 DEF Shape, Fields
<1>5. Shape(H, N)
  BY <1>1, <1>3 DEF Shape
<1>6. \A n \in N : irc_compute_degree(H, n) = irc_compute_degree(G, n) /\ irc_compute_degree(G, n) \in Nat
  <2>1. \A n \in N : Gone(H, n) <=> Gone(G, n)
    BY <1>3 DEF Gone
  <2>2. \A n \in N : irc_compute_degree(H, n) = irc_compute_degree(G, n)
    BY <1>1, <1>3, <2>1, DegreeSame
  <2>3. \A n \in N : irc_compute_degree(G, n) \in Nat
    BY <1>1, DegreeCounts
  <2> QED BY <2>2, <2>3
<1>7. D \in [N -> Nat]
  BY <1>1, <1>6
<1>8. \A n \in N : n >= FirstVReg => D[n] = irc_compute_degree(G, n)
  BY <1>1 DEF Shape, FirstVReg
<1>9. \A n \in N : n < FirstVReg => D[n] = G.degree[n]
  OBVIOUS
<1> HIDE DEF D
<1>10. Rated(H, N, 0)
  BY <1>4, <1>6, <1>8 DEF Rated, VNodes
<1>11. Steady(G, H, N)
  <2>1. \A n \in N : n < FirstVReg \/ n >= FirstVReg
    BY <1>1 DEF Shape, FirstVReg
  <2>2. \A n \in N : H.degree[n] = G.degree[n] \/ (n >= FirstVReg /\ H.degree[n] = irc_compute_degree(G, n))
    BY <1>4, <1>8, <1>9, <2>1
  <2>3. \A n \in N : Gone(H, n) <=> Gone(G, n)
    BY <1>3 DEF Gone
  <2> QED BY <1>3, <1>4, <1>5, <1>7, <2>2, <2>3 DEF Steady
<1>12. Even(H, N)
  BY <1>11, SteadyEven
<1> QED BY <1>3, <1>10, <1>12 DEF H

\* Every virtual register is put on a worklist: no node is gone then, or was.
LEMMA ListedStill ==
  ASSUME NEW G, NEW N, NEW k \in Nat, N = 1 .. k, Shape(G, N), \A n \in VNodes(N) : ~Gone(G, n)
  PROVE  Still(G, irc_make_worklists(G), N)
<1> DEFINE S == VNodes(N)
<1>1. VRegNodes(G) = S /\ S \in SUBSET (1 .. k)
  BY DEF VRegNodes, VNodes, Shape
<1>2. PICK h : WorklistsSteps(h, G, k, S)
  BY <1>1, WorklistsUnfold
<1> USE DEF WorklistsSteps
<1>3. ASSUME NEW i \in 1 .. k, Still(h[0], h[i - 1], N) PROVE Still(h[i - 1], h[i], N)
  <2>0. h[0] = G
    BY <1>2
  <2>1. Shape(h[i - 1], N) /\ (i \in S => ~Gone(h[i - 1], i))
    BY <1>3, <2>0 DEF Still, VNodes
  <2>2. CASE i \in S
    <3> DEFINE w == Worklist(h[i - 1], i)
               J == h[i - 1]
               H == Listing(J, i, w)
    <3>1. h[i] = H
      BY <1>2, <2>2
    <3>2. w \in Worklists
      BY DEF Worklist, Worklists
    <3> HIDE DEF w, J
    <3>3. Shape(H, N) /\ H.alias = J.alias /\ H.list = J.list /\ H.state = [J.state EXCEPT ![i] = w]
      BY <2>1, <2>2, <3>2, ListingOn DEF J
    <3>4. Shape(J, N)
      BY <2>1 DEF J
    <3>5. H.adj = J.adj /\ H.degree = J.degree
      BY <3>4 DEF Listing, Shape, Fields
    <3>6. ~Gone(J, i)
      BY <2>1, <2>2 DEF J
    <3> HIDE DEF H
    <3>7. \A n \in N : Gone(H, n) <=> Gone(J, n)
      BY <3>2, <3>3, <3>4, <3>6 DEF Gone, Worklists, Shape
    <3>8. Still(J, H, N)
      BY <3>3, <3>5, <3>7 DEF Still
    <3> QED BY <3>1, <3>8 DEF J
  <2>3. CASE i \notin S
    BY <1>2, <2>1, <2>3 DEF Still
  <2> QED BY <2>2, <2>3
<1>4. Shape(h[0], N)
  BY <1>2
<1>5. Still(h[0], h[k], N)
  <2> HIDE DEF WorklistsSteps
  <2> QED BY <1>3, <1>4, StillChain
<1> QED BY <1>2, <1>5

\* The interference graph of a function has even edges, and no node has more
\* neighbours than its degree.
LEMMA GraphEven ==
  ASSUME NEW f, WellFormed(f), NEW first
  PROVE  LET G == InterferenceGraph(f, first) IN Even(G, Nodes(f)) /\ Rated(G, Nodes(f), 0)
<1> DEFINE N == Nodes(f)
           k == FirstVReg + f.vregs - 1
           in == compute_liveness(f)
           depth == compute_loop_depths(f)
           A == Uncosted(f, first)
           B == irc_build_graph(A, f, in, depth)
           C == Costed(B, f, in, depth)
           D == irc_make_worklists(C)
<1>1. N = 1 .. k /\ k \in Nat /\ IsFiniteSet(N)
  BY ProperNodes, FirstFinite
<1>2. in \in Among(f, VNodes(Nodes(f)))
  BY LivenessSettles
<1>3. InterferenceGraph(f, first) = D
  BY DEF InterferenceGraph, Prepared
<1>4. Fresh(A, N) /\ Even(A, N)
  BY UncostedFresh, UncostedEven
<1> HIDE DEF A, k, in, depth
<1>5. Later(A, B, N)
  BY <1>2, <1>4, BuildLater
<1>6. Even(B, N)
  BY <1>2, <1>4, BuildEven
<1> HIDE DEF B, N
<1>7. Even(C, N) /\ Rated(C, N, 0) /\ C.state = B.state
  BY <1>1, <1>6, CostedEven
<1>8. Fresh(B, N)
  BY <1>4, <1>5, FreshLater
<1> HIDE DEF C
<1>9. Shape(C, N) /\ \A n \in VNodes(N) : ~Gone(C, n)
  BY <1>7, <1>8 DEF Even, Filed, Fresh, Gone
<1>10. Still(C, D, N)
  BY <1>1, <1>9, ListedStill
<1> HIDE DEF D
<1>11. Even(D, N) /\ Rated(D, N, 0)
  BY <1>1, <1>7, <1>10, StillEven
<1> QED BY <1>3, <1>11 DEF N

-----------------------------------------------------------------------------
(* What is left when all that has few neighbours is taken away: the function Core
   of Allocation. *)

\* There are at most 32 registers to give: the two arrays list each once.
LEMMA KNat == K \in 0 .. 32
<1>1. ASSUME NEW s \in Seq(1 .. 16), IsInjective(s) PROVE Len(s) \in 0 .. 16
  <2> DEFINE n == Len(s)
  <2>1. n \in Nat /\ s \in [1 .. n -> 1 .. 16] /\ \A a, b \in 1 .. n : s[a] = s[b] => a = b
    BY <1>1 DEF IsInjective
  <2> HIDE DEF n
  <2>2. IsFiniteSet(1 .. n) /\ IsFiniteSet(1 .. 16) /\ Cardinality(1 .. n) = n /\ Cardinality(1 .. 16) = 16
    <3>1. 1 \in Int /\ n \in Int /\ 16 \in Int /\ (1 > n => n = 0) /\ n - 1 + 1 = n
      BY <2>1
    <3>2. /\ IsFiniteSet(1 .. n) /\ Cardinality(1 .. n) = IF 1 > n THEN 0 ELSE n - 1 + 1
          /\ IsFiniteSet(1 .. 16) /\ Cardinality(1 .. 16) = IF 1 > 16 THEN 0 ELSE 16 - 1 + 1
      BY <3>1, FS_Interval
    <3> QED BY <3>1, <3>2
  <2>3. ~(16 < n)
    <3>1. SUFFICES ASSUME 16 < n PROVE FALSE
      OBVIOUS
    <3>2. \E a, b \in 1 .. n : a # b /\ s[a] = s[b]
      BY <2>1, <2>2, <3>1, FS_PigeonHole
    <3> QED BY <2>1, <3>2
  <2>4. n \in Nat
    BY <2>1
  <2>5. n \in 0 .. 16
    BY <2>3, <2>4
  <2> QED BY <2>5 DEF n
<1>2. CallerSavedFree \in Seq(1 .. 16) /\ CalleeSaved \in Seq(1 .. 16)
  BY RegistersAssumption
<1>3. Len(CallerSavedFree) \in 0 .. 16 /\ Len(CalleeSaved) \in 0 .. 16
  BY <1>1, <1>2, RegistersAssumption
<1>4. K = Len(CallerSavedFree) + Len(CalleeSaved)
  BY <1>2 DEF K, Allocatable
<1> DEFINE a == Len(CallerSavedFree)
           b == Len(CalleeSaved)
<1>5. a \in 0 .. 16 /\ b \in 0 .. 16 /\ K = a + b
  BY <1>3, <1>4
<1> HIDE DEF a, b
<1>6. a + b \in 0 .. 32
  BY <1>5
<1> QED BY <1>5, <1>6

\* The neighbours a node has among S and the registers there are, and the nodes of
\* S with fewer than K.
NearIn(G, n, S) == {m \in S \cup ToSet(Allocatable) : irc_is_adjacent(G, n, m)}
FewIn(G, S) == {n \in S : Cardinality(NearIn(G, n, S)) < K}

\* The function that Core defines.
Peeling(G, c) == c = [S \in SUBSET Left(G) |-> IF FewIn(G, S) = {} THEN S ELSE c[S \ FewIn(G, S)]]

\* Such a function exists.
LEMMA PeelingExists == ASSUME NEW G PROVE \E c : Peeling(G, c)
<1> DEFINE L == SUBSET Left(G)
           Peeled(x) == x \ FewIn(G, x)
           Closed(C) == \A y \in C : Peeled(y) \in C
           Reach(x) == {y \in L : \A C \in SUBSET L : x \in C /\ Closed(C) => y \in C}
           Fixed(x) == {y \in Reach(x) : Peeled(y) = y}
           s == [x \in L |-> CHOOSE y : y \in Fixed(x)]
<1>1. \A x \in L : Peeled(x) \in L /\ (Peeled(x) = x <=> FewIn(G, x) = {})
  BY DEF FewIn
<1> HIDE DEF Peeled
<1>2. ASSUME NEW x \in L, Peeled(x) = x PROVE Fixed(x) = {x}
  <2>1. {x} \in SUBSET L /\ Closed({x})
    BY <1>2
  <2>2. \A y \in Reach(x) : y \in {x}
    BY <2>1
  <2>3. x \in Reach(x)
    OBVIOUS
  <2> QED BY <1>2, <2>2, <2>3
<1>3. ASSUME NEW x \in L, Peeled(x) # x PROVE Fixed(x) = Fixed(Peeled(x))
  <2> DEFINE next == Peeled(x)
  <2>1. next \in L
    BY <1>1
  <2>2. ASSUME NEW y \in Fixed(next) PROVE y \in Fixed(x)
    <3>1. \A C \in SUBSET L : x \in C /\ Closed(C) => next \in C /\ Closed(C)
      OBVIOUS
    <3> QED BY <3>1
  <2>3. ASSUME NEW y \in Fixed(x) PROVE y \in Fixed(next)
    <3>1. y # x /\ y \in L /\ Peeled(y) = y
      BY <1>3
    <3>2. ASSUME NEW C \in SUBSET L, next \in C, Closed(C) PROVE y \in C
      <4>1. C \cup {x} \in SUBSET L /\ x \in C \cup {x} /\ Closed(C \cup {x})
        BY <3>2
      <4>2. y \in C \cup {x}
        BY <4>1
      <4> QED BY <3>1, <4>2
    <3> QED BY <3>1, <3>2
  <2> QED BY <2>2, <2>3
<1>4. ASSUME NEW x \in L PROVE s[x] = IF FewIn(G, x) = {} THEN x ELSE s[Peeled(x)]
  <2>1. s[x] = CHOOSE y : y \in Fixed(x)
    OBVIOUS
  <2>2. s[Peeled(x)] = CHOOSE y : y \in Fixed(Peeled(x))
    BY <1>1
  <2> HIDE DEF s, Fixed
  <2>3. CASE Peeled(x) = x
    BY <1>1, <1>2, <2>1, <2>3
  <2>4. CASE Peeled(x) # x
    BY <1>1, <1>3, <2>1, <2>2, <2>4
  <2> QED BY <2>3, <2>4
<1>5. Peeling(G, s)
  <2>1. s = [x \in L |-> s[x]]
    OBVIOUS
  <2> HIDE DEF s
  <2> QED BY <1>4, <2>1 DEF Peeling, Peeled
<1> QED BY <1>5

\* A node has no fewer neighbours in more nodes.
LEMMA NearInMore ==
  ASSUME NEW G, NEW n, NEW S, NEW T, S \subseteq T, IsFiniteSet(T)
  PROVE  /\ IsFiniteSet(NearIn(G, n, T)) /\ Cardinality(NearIn(G, n, S)) \in Nat
         /\ Cardinality(NearIn(G, n, T)) \in Nat
         /\ Cardinality(NearIn(G, n, S)) =< Cardinality(NearIn(G, n, T))
<1>1. IsFiniteSet(ToSet(Allocatable))
  <2>1. CallerSavedFree \in Seq(1 .. 16) /\ CalleeSaved \in Seq(1 .. 16)
    BY RegistersAssumption
  <2>2. Allocatable \in Seq(1 .. 16)
    BY <2>1 DEF Allocatable
  <2>3. ToSet(Allocatable) \subseteq 1 .. 16 /\ IsFiniteSet(1 .. 16)
    <3>1. IsFiniteSet(1 .. 16)
      BY FirstFinite
    <3> DEFINE R == 1 .. 16
    <3>2. Allocatable \in Seq(R)
      BY <2>2
    <3> HIDE DEF R
    <3>3. ToSet(Allocatable) \subseteq R
      BY <3>2 DEF ToSet
    <3> QED BY <3>1, <3>3 DEF R
  <2> QED BY <2>3, FS_Subset
<1>2. IsFiniteSet(T \cup ToSet(Allocatable))
  BY <1>1, FS_Union
<1>3. NearIn(G, n, S) \subseteq NearIn(G, n, T) /\ NearIn(G, n, T) \subseteq T \cup ToSet(Allocatable)
  BY DEF NearIn
<1>4. IsFiniteSet(NearIn(G, n, T))
  BY <1>2, <1>3, FS_Subset
<1> QED BY <1>3, <1>4, FS_Subset, FS_CardinalityType

\* What remains is stuck, and all that is stuck remains.
LEMMA CoreStuck ==
  ASSUME NEW G, IsFiniteSet(Left(G))
  PROVE  /\ Core(G) \subseteq Left(G) /\ FewIn(G, Core(G)) = {}
         /\ \A S \in SUBSET Left(G) : FewIn(G, S) = {} => S \subseteq Core(G)
<1> DEFINE L == SUBSET Left(G)
           c == CHOOSE t : Peeling(G, t)
           Most(x) == \A S \in L : FewIn(G, S) = {} => S \subseteq x
           Ended(x) == c[x] \in L /\ FewIn(G, c[x]) = {} /\ Most(c[x])
           Bad == {x \in L : Most(x) /\ ~Ended(x)}
<1>1. Core(G) = c[Left(G)]
  BY DEF Core, Peeling, FewIn, NearIn
<1>2. Peeling(G, c)
  BY PeelingExists
<1> HIDE DEF c
<1>3. \A x \in L : c[x] = IF FewIn(G, x) = {} THEN x ELSE c[x \ FewIn(G, x)]
  BY <1>2 DEF Peeling
<1>4. Left(G) \in L /\ Most(Left(G))
  OBVIOUS
<1>5. ASSUME Bad # {} PROVE FALSE
  <2>1. PICK x \in Bad : \A y \in Bad : ~(y \subseteq x /\ y # x)
    <3>1. Bad \subseteq SUBSET Left(G)
      OBVIOUS
    <3> HIDE DEF Bad
    <3> QED BY <1>5, <3>1, SmallestSet
  <2> DEFINE next == x \ FewIn(G, x)
  <2>2. x \in L /\ Most(x) /\ ~Ended(x)
    BY <2>1
  <2>3. FewIn(G, x) # {}
    BY <1>3, <2>2
  <2>4. next \in L /\ next \subseteq x /\ next # x
    BY <2>2, <2>3 DEF FewIn
  <2>5. Most(next)
    <3> SUFFICES ASSUME NEW S \in L, FewIn(G, S) = {}, NEW n \in S, n \in FewIn(G, x) PROVE FALSE
      BY <2>2
    <3>1. S \subseteq x /\ IsFiniteSet(x)
      BY <2>2, FS_Subset
    <3>2. Cardinality(NearIn(G, n, x)) < K
      BY DEF FewIn
    <3>3. ~(Cardinality(NearIn(G, n, S)) < K)
      BY DEF FewIn
    <3>4. K \in Nat
      BY KNat
    <3> QED BY <3>1, <3>2, <3>3, <3>4, NearInMore
  <2>6. c[x] = c[next]
    BY <1>3, <2>2, <2>3
  <2>7. next \in Bad
    BY <2>2, <2>4, <2>5, <2>6
  <2> QED BY <2>1, <2>4, <2>7
<1>6. Ended(Left(G))
  BY <1>4, <1>5
<1> QED BY <1>1, <1>6

-----------------------------------------------------------------------------
(* Coalescing leaves nothing stuck that was not stuck. *)

\* There are no more nodes than entries.
LEMMA FewerNodes ==
  ASSUME NEW T, IsFiniteSet(T), NEW f, NEW X, \A m \in X : \E i \in T : f[i] = m
  PROVE  IsFiniteSet(X) /\ Cardinality(X) =< Cardinality(T) /\ Cardinality(X) \in Nat /\ Cardinality(T) \in Nat
<1> DEFINE e == [m \in X |-> CHOOSE i \in T : f[i] = m]
<1>1. \A m \in X : e[m] \in T /\ f[e[m]] = m
  OBVIOUS
<1>2. e \in [X -> T]
  BY <1>1
<1> HIDE DEF e
<1>3. e \in Injection(X, T)
  BY <1>1, <1>2 DEF Injection, IsInjective
<1>4. IsFiniteSet(X) /\ Cardinality(X) =< Cardinality(T)
  BY <1>3, FS_Injection
<1> QED BY <1>4, FS_CardinalityType

\* What is left of the graph stands for itself, and is not gone.
LEMMA LeftNodes ==
  ASSUME NEW G, NEW N, Shape(G, N), NEW n \in Left(G)
  PROVE  n \in VNodes(N) /\ n \in N /\ n >= FirstVReg /\ G.alias[n] = n /\ ~Gone(G, n)
BY DEF Left, VRegNodes, VNodes, Shape, Gone

\* The registers there are.
LEMMA AllocatableNodes ==
  ASSUME NEW G, NEW N, Filed(G, N), NEW r \in ToSet(Allocatable)
  PROVE  r \in N /\ r < FirstVReg /\ r \in Nat /\ G.alias[r] = r /\ ~Gone(G, r) /\ High(G, r)
<1>1. r \in Registers
  <2>1. CallerSavedFree \in Seq(1 .. 16) /\ CalleeSaved \in Seq(1 .. 16)
    BY RegistersAssumption
  <2> DEFINE R == 1 .. 16
  <2>2. Allocatable \in Seq(R)
    BY <2>1 DEF Allocatable
  <2> HIDE DEF R
  <2>3. r \in R
    BY <2>2 DEF ToSet
  <2> QED BY <2>3 DEF R, Registers
<1>2. Shape(G, N)
  BY DEF Filed
<1>3. r \in N /\ r \in Nat /\ r < FirstVReg
  <2>1. Registers \subseteq N /\ N \subseteq Nat
    BY <1>2 DEF Shape
  <2>2. \A q \in Registers : q < FirstVReg
    BY DEF Registers, FirstVReg
  <2> QED BY <1>1, <2>1, <2>2
<1>4. G.alias[r] = r
  BY <1>2, <1>3 DEF Shape
<1>5. G.degree[r] = 1000000 /\ ~Gone(G, r)
  BY <1>3 DEF Filed
<1>6. High(G, r)
  <2> DEFINE k == K
  <2>1. k \in 0 .. 32
    BY KNat
  <2> HIDE DEF k
  <2>2. 1000000 >= k
    BY <2>1
  <2> QED BY <1>5, <2>2 DEF High, k
<1> QED BY <1>3, <1>4, <1>5, <1>6

\* The neighbours among what is left are neighbours that count.
LEMMA NearInBeside ==
  ASSUME NEW G, NEW N, IsFiniteSet(N), Even(G, N), NEW n \in VNodes(N), G.alias[n] = n, NEW S \in SUBSET Left(G)
  PROVE  /\ \A m \in NearIn(G, n, S) : m \in N /\ m # n /\ G.alias[m] = m /\ Listed(G, n, m) /\ ~Gone(G, m)
         /\ Cardinality(NearIn(G, n, S)) =< irc_compute_degree(G, n)
         /\ Cardinality(NearIn(G, n, S)) \in Nat /\ irc_compute_degree(G, n) \in Nat
<1>1. Filed(G, N) /\ n \in N
  BY DEF Even, VNodes
<1>2. Shape(G, N)
  BY <1>1 DEF Filed
<1>3. ASSUME NEW m \in S \cup ToSet(Allocatable) PROVE m \in N /\ G.alias[m] = m /\ ~Gone(G, m)
  <2>1. CASE m \in S
    BY <1>2, <2>1, LeftNodes
  <2>2. CASE m \in ToSet(Allocatable)
    BY <1>1, <2>2, AllocatableNodes
  <2> QED BY <2>1, <2>2
<1>4. ASSUME NEW m \in NearIn(G, n, S)
      PROVE  m \in N /\ m # n /\ G.alias[m] = m /\ Listed(G, n, m) /\ ~Gone(G, m)
  <2>1. m \in S \cup ToSet(Allocatable) /\ irc_is_adjacent(G, n, m)
    BY DEF NearIn
  <2>2. m \in N /\ G.alias[m] = m /\ ~Gone(G, m)
    BY <1>3, <2>1
  <2> QED BY <2>1, <2>2, NearListed
<1>5. NearIn(G, n, S) \subseteq Beside(G, n)
  BY <1>1, <1>2, <1>4, BesideListed
<1>6. IsFiniteSet(Beside(G, n)) /\ irc_compute_degree(G, n) = Cardinality(Beside(G, n)) /\ irc_compute_degree(G, n) \in Nat
  BY <1>1, <1>2, DegreeCounts
<1> QED BY <1>4, <1>5, <1>6, FS_Subset, FS_CardinalityType

\* A node near what is left is near it still.
LEMMA NearBefore ==
  ASSUME NEW G, NEW H, NEW N, IsFiniteSet(N), Even(G, N), Even(H, N), NEW n \in VNodes(N), G.alias[n] = n, H.alias[n] = n,
         NEW S, S \in SUBSET Left(G), S \in SUBSET Left(H), NEW m \in NearIn(H, n, S), Listed(G, n, m)
  PROVE  m \in NearIn(G, n, S)
<1>1. Filed(G, N) /\ Shape(G, N)
  BY DEF Even, Filed
<1>2. m \in S \cup ToSet(Allocatable)
  BY DEF NearIn
<1>3. m \in N /\ m # n
  BY NearInBeside
<1>4. G.alias[m] = m
  BY <1>1, <1>2, LeftNodes, AllocatableNodes
<1>5. irc_is_adjacent(G, n, m)
  BY <1>3, <1>4, NearListed
<1> QED BY <1>2, <1>5 DEF NearIn

\* u stands for v now.  What is left and stuck was stuck before: no node with few
\* neighbours has got more, unless the tests of Briggs and George forbid it.
LEMMA CombinedStuck ==
  ASSUME NEW G, NEW H, NEW N, IsFiniteSet(N), Even(G, N), Rated(G, N, 0), NEW u \in N, NEW v \in VNodes(N), u # v,
         G.alias[u] = u, G.alias[v] = v, ~Gone(G, v), CanCoalesce(G, u, v), Combined(G, H, u, v, N),
         NEW S, S \in SUBSET Left(G), S \in SUBSET Left(H), FewIn(H, S) = {}
  PROVE  FewIn(G, S) = {}
<1> DEFINE Close(J, n) == NearIn(J, n, S)
<1>1. Even(H, N) /\ Filed(G, N) /\ Filed(H, N) /\ Shape(G, N) /\ Shape(H, N) /\ v \in N /\ v >= FirstVReg
  <2>1. Even(H, N)
    BY DEF Combined
  <2>2. Filed(G, N) /\ Filed(H, N)
    BY <2>1 DEF Even
  <2> QED BY <2>1, <2>2 DEF Filed, VNodes
<1>2. ASSUME NEW n \in S
      PROVE  /\ n \in VNodes(N) /\ n \in N /\ n >= FirstVReg /\ G.alias[n] = n /\ H.alias[n] = n /\ n # v
             /\ ~Gone(G, n) /\ ~(Cardinality(Close(H, n)) < K)
  <2>1. n \in VNodes(N) /\ n \in N /\ n >= FirstVReg /\ G.alias[n] = n /\ ~Gone(G, n) /\ H.alias[n] = n
    BY <1>1, LeftNodes
  <2>2. H.alias[v] = u
    BY <1>1 DEF Combined
  <2> QED BY <2>1, <2>2 DEF FewIn
<1>3. K \in Nat
  BY KNat
<1>4. IsFiniteSet(S)
  BY <1>2, FS_Subset
<1>5. ASSUME NEW n \in S PROVE /\ IsFiniteSet(Close(G, n)) /\ Cardinality(Close(G, n)) \in Nat
                              /\ IsFiniteSet(Close(H, n)) /\ Cardinality(Close(H, n)) \in Nat
  BY <1>4, NearInMore
\* A node with a low degree, which is not u, has few neighbours.
<1>6. ASSUME NEW n \in S, n # u PROVE High(G, n)
  <2>1. /\ n \in VNodes(N) /\ n \in N /\ n >= FirstVReg /\ G.alias[n] = n /\ H.alias[n] = n /\ n # v
        /\ ~(Cardinality(Close(H, n)) < K)
    BY <1>2
  <2>2. Cardinality(Close(H, n)) =< irc_compute_degree(H, n) /\ irc_compute_degree(H, n) \in Nat
    BY <1>1, <2>1, NearInBeside
  <2>3. \A m : Listed(H, n, m) => Listed(G, n, m) \/ (m = u /\ Listed(G, n, v))
    BY <1>6, <2>1 DEF Combined
  <2>4. \A m \in N : Gone(H, m) <=> Gone(G, m) \/ m = v
    BY DEF Combined
  <2>5. irc_compute_degree(H, n) =< irc_compute_degree(G, n)
    BY <1>1, <1>6, <2>1, <2>3, <2>4, CombinedFewer
  <2>6. irc_compute_degree(G, n) =< G.degree[n]
    <3>1. n # 0
      BY <2>1 DEF FirstVReg
    <3> QED BY <2>1, <3>1 DEF Rated
  <2>7. irc_compute_degree(G, n) \in Nat /\ G.degree[n] \in Nat
    BY <1>1, <2>1, DegreeCounts DEF Filed
  <2> QED BY <1>3, <1>5, <2>1, <2>2, <2>5, <2>6, <2>7 DEF High
<1> SUFFICES ASSUME NEW n \in S, Cardinality(Close(G, n)) < K PROVE FALSE
  BY DEF FewIn
<1>7. /\ n \in VNodes(N) /\ n \in N /\ n >= FirstVReg /\ G.alias[n] = n /\ H.alias[n] = n /\ n # v
      /\ ~Gone(G, n) /\ ~(Cardinality(Close(H, n)) < K)
  BY <1>2
<1>8. PICK m \in Close(H, n) : m \notin Close(G, n)
  <2>1. ~(Close(H, n) \subseteq Close(G, n))
    <3>1. SUFFICES ASSUME Close(H, n) \subseteq Close(G, n) PROVE FALSE
      OBVIOUS
    <3>2. Cardinality(Close(H, n)) =< Cardinality(Close(G, n))
      BY <1>5, <3>1, FS_Subset
    <3> QED BY <1>3, <1>5, <1>7, <3>2
  <2> QED BY <2>1
<1>9. m \in N /\ m # n /\ Listed(H, n, m) /\ ~Listed(G, n, m)
  <2>1. m \in N /\ m # n /\ Listed(H, n, m)
    BY <1>1, <1>7, <1>8, NearInBeside
  <2>2. ~Listed(G, n, m)
    BY <1>1, <1>7, <1>8, NearBefore
  <2> QED BY <2>1, <2>2
<1>10. n # u => m = u /\ Listed(G, n, v)
  BY <1>7, <1>9 DEF Combined
\* George's test: u is a register.
<1>11. CASE u < FirstVReg
  <2>1. n # u /\ irc_george_check(G, u, v)
    BY <1>1, <1>7, <1>11 DEF CanCoalesce, Shape, FirstVReg
  <2>2. m = u /\ Listed(G, n, v)
    BY <1>10, <2>1
  <2>3. Listed(G, v, n)
    BY <1>7, <2>2 DEF Even
  <2>4. PICK i \in DOMAIN G.list[v] : AliasAt(G, v, i) = n
    BY <2>3 DEF Listed, AliasAt
  <2>5. High(G, n)
    BY <1>6, <2>1
  <2>6. i \in HighAround(G, v)
    BY <1>7, <2>4, <2>5 DEF HighAround, Around, Gone
  <2>7. irc_is_adjacent(G, n, u)
    BY <2>1, <2>4, <2>6 DEF irc_george_check
  <2>8. Listed(G, n, u)
    BY <1>7, <2>7, NearListed
  <2> QED BY <1>9, <2>2, <2>8
\* Briggs's test: u is a virtual register.
<1>12. CASE u >= FirstVReg
  <2>1. irc_briggs_check(G, u, v)
    BY <1>1, <1>12 DEF CanCoalesce, Shape, FirstVReg
  <2>2. u \in S
    <3>1. CASE n = u
      BY <3>1
    <3>2. CASE n # u
      <4>1. u \in S \cup ToSet(Allocatable)
        BY <1>8, <1>10, <3>2 DEF NearIn
      <4>2. u \notin ToSet(Allocatable)
        BY <1>1, <1>12, AllocatableNodes DEF FirstVReg
      <4> QED BY <4>1, <4>2
    <3> QED BY <3>1, <3>2
  <2> DEFINE X == Close(H, u)
             T == HighAround(G, u)
             U == {i \in HighAround(G, v) : ~irc_is_adjacent(G, u, AliasAt(G, v, i))}
             Y == {x \in X : Listed(G, u, x)}
             Z == {x \in X : ~Listed(G, u, x)}
  <2>3. ~(Cardinality(X) < K) /\ u \in VNodes(N)
    BY <1>2, <2>2
  <2>4. ASSUME NEW x \in X
        PROVE  /\ x \in N /\ x # u /\ G.alias[x] = x /\ ~Gone(G, x) /\ High(G, x)
               /\ Listed(G, u, x) \/ Listed(G, v, x)
    <3>1. x \in N /\ x # u /\ Listed(H, u, x)
      BY <1>1, <1>2, <2>2, NearInBeside
    <3>2. Listed(G, u, x) \/ Listed(G, v, x)
      BY <1>12, <3>1 DEF Combined
    <3>3. x \in S \/ x \in ToSet(Allocatable)
      BY DEF NearIn
    <3>4. G.alias[x] = x /\ ~Gone(G, x) /\ High(G, x)
      <4>1. CASE x \in S
        BY <1>2, <1>6, <3>1, <4>1
      <4>2. CASE x \in ToSet(Allocatable)
        BY <1>1, <4>2, AllocatableNodes
      <4> QED BY <3>3, <4>1, <4>2
    <3> QED BY <3>1, <3>2, <3>4
  <2>5. \A x \in Y : \E i \in T : AliasAt(G, u, i) = x
    <3> SUFFICES ASSUME NEW x \in Y PROVE \E i \in T : AliasAt(G, u, i) = x
      OBVIOUS
    <3>1. PICK i \in DOMAIN G.list[u] : AliasAt(G, u, i) = x
      BY DEF Listed, AliasAt
    <3>2. ~Gone(G, x) /\ High(G, x)
      BY <2>4
    <3> QED BY <3>1, <3>2 DEF HighAround, Around, Gone
  <2>6. \A x \in Z : \E i \in U : AliasAt(G, v, i) = x
    <3> SUFFICES ASSUME NEW x \in Z PROVE \E i \in U : AliasAt(G, v, i) = x
      OBVIOUS
    <3>1. Listed(G, v, x) /\ ~Gone(G, x) /\ High(G, x) /\ x \in N /\ G.alias[x] = x /\ ~Listed(G, u, x)
      BY <2>4
    <3>2. PICK i \in DOMAIN G.list[v] : AliasAt(G, v, i) = x
      BY <3>1 DEF Listed, AliasAt
    <3>3. i \in HighAround(G, v)
      BY <3>1, <3>2 DEF HighAround, Around, Gone
    <3>4. ~irc_is_adjacent(G, u, x)
      BY <2>3, <3>1, NearListed
    <3> QED BY <3>2, <3>3, <3>4
  <2>7. IsFiniteSet(T) /\ IsFiniteSet(U)
    <3>1. \A w \in N : IsFiniteSet(DOMAIN G.list[w])
      <4> SUFFICES ASSUME NEW w \in N PROVE IsFiniteSet(DOMAIN G.list[w])
        OBVIOUS
      <4>1. G.list[w] \in Seq(N)
        BY <1>1 DEF Shape
      <4>2. DOMAIN G.list[w] = 1 .. Len(G.list[w]) /\ Len(G.list[w]) \in Nat
        BY <4>1
      <4> QED BY <4>2, FirstFinite
    <3>2. \A w : HighAround(G, w) \subseteq DOMAIN G.list[w]
      BY DEF HighAround, Around
    <3>3. U \subseteq DOMAIN G.list[v]
      BY <3>2
    <3> QED BY <1>1, <3>1, <3>2, <3>3, FS_Subset
  <2>8. Cardinality(T) + Cardinality(U) < K
    BY <2>1 DEF irc_briggs_check
  <2>9. X = Y \cup Z /\ Y \cap Z = {}
    OBVIOUS
  <2> HIDE DEF T, U, Y, Z, X
  <2>10. /\ IsFiniteSet(Y) /\ Cardinality(Y) =< Cardinality(T)
         /\ Cardinality(Y) \in Nat /\ Cardinality(T) \in Nat
    <3> DEFINE f == [i \in T |-> AliasAt(G, u, i)]
    <3>1. \A x \in Y : \E i \in T : f[i] = x
      BY <2>5
    <3> HIDE DEF f
    <3> QED BY <2>7, <3>1, FewerNodes
  <2>11. /\ IsFiniteSet(Z) /\ Cardinality(Z) =< Cardinality(U)
         /\ Cardinality(Z) \in Nat /\ Cardinality(U) \in Nat
    <3> DEFINE f == [i \in U |-> AliasAt(G, v, i)]
    <3>1. \A x \in Z : \E i \in U : f[i] = x
      BY <2>6
    <3> HIDE DEF f
    <3> QED BY <2>7, <3>1, FewerNodes
  <2>12. Cardinality(X) = Cardinality(Y) + Cardinality(Z)
    <3>1. Cardinality(Y \cap Z) = 0
      BY <2>9, FS_EmptySet
    <3>2. Cardinality(Y \cup Z) = Cardinality(Y) + Cardinality(Z) - Cardinality(Y \cap Z)
      BY <2>10, <2>11, FS_Union
    <3> QED BY <2>9, <2>10, <2>11, <3>1, <3>2
  <2> QED BY <1>3, <2>3, <2>8, <2>10, <2>11, <2>12
<1>13. u < FirstVReg \/ u >= FirstVReg
  BY <1>1 DEF Shape, FirstVReg
<1> QED BY <1>11, <1>12, <1>13

\* What is left and stuck in H was left and stuck in G.
Sticks(G, H) == \A S \in SUBSET Left(H) : FewIn(H, S) = {} => S \in SUBSET Left(G) /\ FewIn(G, S) = {}

\* The graph is as the steps need it, and G has what is stuck in it.
Good(G, H, N) == Orderly(H, N) /\ Even(H, N) /\ Rated(H, N, 0) /\ Sticks(G, H)

\* What stands for itself and is not gone is left.
LEMMA OrderlyLeft ==
  ASSUME NEW G, NEW N, Orderly(G, N), NEW n \in VNodes(N), G.alias[n] = n, ~Gone(G, n)
  PROVE  n \in Left(G)
<1>1. G.state[n] \in Worklists
  BY OrderlyStates DEF Gone
<1>2. n \in N /\ n >= FirstVReg /\ Shape(G, N)
  BY DEF VNodes, Orderly, Sound
<1> QED BY <1>1, <1>2 DEF Left, VRegNodes, Worklists, Shape

\* Where edges are as they were, what is stuck is.
LEMMA StillSticks ==
  ASSUME NEW G, NEW H, NEW N, Orderly(G, N), Still(G, H, N)
  PROVE  Sticks(G, H)
<1> SUFFICES ASSUME NEW S \in SUBSET Left(H), FewIn(H, S) = {} PROVE S \in SUBSET Left(G) /\ FewIn(G, S) = {}
  BY DEF Sticks
<1>1. Shape(H, N) /\ H.adj = G.adj /\ H.list = G.list /\ H.alias = G.alias /\ \A n \in N : Gone(H, n) <=> Gone(G, n)
  BY DEF Still
<1>2. S \in SUBSET Left(G)
  <2> SUFFICES ASSUME NEW n \in S PROVE n \in Left(G)
    OBVIOUS
  <2>1. n \in VNodes(N) /\ n \in N /\ H.alias[n] = n /\ ~Gone(H, n)
    BY <1>1, LeftNodes
  <2> QED BY <1>1, <2>1, OrderlyLeft
<1>3. \A x, y : irc_is_adjacent(H, x, y) <=> irc_is_adjacent(G, x, y)
  BY <1>1 DEF irc_is_adjacent, Near, Listed
<1>4. \A n : NearIn(H, n, S) = NearIn(G, n, S)
  BY <1>3 DEF NearIn
<1>5. FewIn(G, S) = FewIn(H, S)
  BY <1>4 DEF FewIn
<1> QED BY <1>2, <1>5

\* What is stuck through two steps.
LEMMA SticksStill == ASSUME NEW G, NEW H, NEW J, Sticks(G, H), Sticks(H, J) PROVE Sticks(G, J)
BY DEF Sticks

\* A step that leaves the edges alone.
LEMMA GoodStill ==
  ASSUME NEW G, NEW H, NEW J, NEW N, IsFiniteSet(N), Good(G, H, N), Later(H, J, N), Still(H, J, N)
  PROVE  Good(G, J, N)
<1>1. Orderly(H, N) /\ Even(H, N) /\ Rated(H, N, 0) /\ Sticks(G, H)
  BY DEF Good
<1>2. Orderly(J, N)
  BY <1>1, LaterShrunk
<1>3. Even(J, N) /\ Rated(J, N, 0)
  BY <1>1, StillEven
<1>4. Sticks(G, J)
  BY <1>1, StillSticks, SticksStill
<1> QED BY <1>2, <1>3, <1>4 DEF Good

\* Coalescing two nodes that the tests allow to be.
LEMMA GoodCombine ==
  ASSUME NEW G, NEW C, NEW N, IsFiniteSet(N), Good(G, C, N), NEW u \in N, NEW v \in VNodes(N), u # v,
         C.alias[u] = u, C.alias[v] = v, C.state[v] # "stack", ~Listed(C, v, u), CanCoalesce(C, u, v)
  PROVE  Good(G, irc_combine_nodes(C, u, v), N)
<1> DEFINE A == Aliased(C, u, v)
           H == irc_combine_nodes(C, u, v)
<1>1. Orderly(C, N) /\ Even(C, N) /\ Rated(C, N, 0) /\ Sticks(G, C) /\ Sound(C, N, {}, 0) /\ Shape(C, N)
  BY DEF Good, Orderly, Sound
<1>2. Orderly(A, N)
  BY <1>1, AliasedShrunk
<1>3. Later(A, H, N)
  BY <1>1, CombineSound
<1>4. ~Gone(C, v)
  BY <1>1, OrderlyStates DEF Gone, Worklists
<1>5. Combined(C, H, u, v, N) /\ Rated(H, N, 0)
  BY <1>1, <1>4, CombineEven
<1> HIDE DEF A, H
<1>6. Orderly(H, N)
  BY <1>2, <1>3, LaterShrunk
<1>7. /\ Even(H, N) /\ H.alias = [n \in N |-> IF C.alias[n] = v THEN u ELSE C.alias[n]]
      /\ \A n \in N : Gone(H, n) <=> Gone(C, n) \/ n = v
  BY <1>5 DEF Combined
<1>8. Shape(H, N)
  BY <1>6 DEF Orderly, Sound
<1>9. Left(H) \subseteq Left(C)
  <2> SUFFICES ASSUME NEW n \in Left(H) PROVE n \in Left(C)
    OBVIOUS
  <2>1. n \in VNodes(N) /\ n \in N /\ H.alias[n] = n /\ ~Gone(H, n)
    BY <1>8, LeftNodes
  <2>2. ~Gone(C, n) /\ n # v
    BY <1>7, <2>1
  <2>3. C.alias[n] = n
    BY <1>1, <1>7, <2>1, <2>2
  <2> QED BY <1>1, <2>1, <2>2, <2>3, OrderlyLeft
<1>10. Sticks(C, H)
  <2> SUFFICES ASSUME NEW S \in SUBSET Left(H), FewIn(H, S) = {} PROVE S \in SUBSET Left(C) /\ FewIn(C, S) = {}
    BY DEF Sticks
  <2>1. S \in SUBSET Left(C)
    BY <1>9
  <2> QED BY <1>1, <1>4, <1>5, <2>1, CombinedStuck
<1>11. Sticks(G, H)
  BY <1>1, <1>10, SticksStill
<1> QED BY <1>5, <1>6, <1>7, <1>11 DEF Good, H

\* Trying a copy.
LEMMA TryGood ==
  ASSUME NEW G, NEW N, IsFiniteSet(N), Good(G, G, N), NEW i \in DOMAIN G.moves, Open(G.moves[i]),
         NEW u \in N, NEW v \in N, G.alias[u] = u, G.alias[v] = v
  PROVE  Good(G, Try(G, i, u, v), N)
<1> DEFINE C == Settled(G, i, "coalesced")
           frozen == Settled(G, i, "frozen")
           constrained == Settled(G, i, "constrained")
           active == Settled(G, i, "active")
<1>1. Shape(G, N) /\ N \subseteq Nat
  BY DEF Good, Orderly, Sound, Shape
<1>2. Good(G, C, N) /\ Good(G, frozen, N) /\ Good(G, constrained, N) /\ Good(G, active, N)
  <2>1. ASSUME NEW w \in MoveStates PROVE Good(G, Settled(G, i, w), N)
    <3>1. Later(G, Settled(G, i, w), N) /\ Still(G, Settled(G, i, w), N)
      BY <1>1, SettledLater, SettledStill
    <3> QED BY <3>1, GoodStill
  <2> QED BY <2>1 DEF MoveStates
<1>3. C.alias = G.alias /\ C.list = G.list /\ C.state = G.state /\ C.degree = G.degree /\ C.adj = G.adj
  BY <1>1 DEF Settled, Shape, Fields
<1>4. \A H : Good(G, H, N) => Shape(H, N)
  BY DEF Good, Orderly, Sound
<1>5. \A H : \A n \in N : Good(G, H, N) => Good(G, irc_ready_for_simplify(H, n), N)
  BY <1>4, ReadyLater, ReadyStill, GoodStill
<1>6. \A H : \A n \in N : Good(G, H, N) => Good(G, irc_enable_moves_for_node(H, n), N)
  BY <1>4, EnableLater, EnableStill, GoodStill
<1>7. Good(G, irc_ready_for_simplify(irc_ready_for_simplify(frozen, u), v), N)
  <2> HIDE DEF frozen
  <2> QED BY <1>2, <1>5
<1>8. Good(G, irc_ready_for_simplify(irc_enable_moves_for_node(C, u), u), N)
  <2> HIDE DEF C
  <2> QED BY <1>2, <1>5, <1>6
<1>9. Good(G, irc_ready_for_simplify(irc_ready_for_simplify(
         irc_enable_moves_for_node(irc_enable_moves_for_node(constrained, u), v), u), v), N)
  <2> HIDE DEF constrained
  <2> DEFINE one == irc_enable_moves_for_node(constrained, u)
             two == irc_enable_moves_for_node(one, v)
             three == irc_ready_for_simplify(two, u)
  <2>1. Good(G, one, N)
    BY <1>2, <1>6
  <2> HIDE DEF one
  <2>2. Good(G, two, N)
    BY <1>6, <2>1
  <2> HIDE DEF two
  <2>3. Good(G, three, N)
    BY <1>5, <2>2
  <2> HIDE DEF three
  <2>4. Good(G, irc_ready_for_simplify(three, v), N)
    BY <1>5, <2>3
  <2> QED BY <2>4 DEF one, two, three
<1>10. ASSUME u # v, ~(v < FirstVReg), ~irc_is_adjacent(G, u, v), "stack" \notin {G.state[u], G.state[v]},
              CanCoalesce(G, u, v)
       PROVE  Good(G, irc_ready_for_simplify(irc_combine_nodes(C, u, v), u), N)
  <2>1. v \in VNodes(N)
    BY <1>1, <1>10 DEF VNodes, FirstVReg
  <2>2. ~Listed(G, v, u)
    BY <1>10 DEF irc_is_adjacent, Near
  <2>3. ~Listed(C, v, u) /\ C.alias[u] = u /\ C.alias[v] = v /\ C.state[v] # "stack"
    BY <1>3, <1>10, <2>2 DEF Listed
  <2> HIDE DEF C
  <2>4. \A x, y : irc_is_adjacent(C, x, y) <=> irc_is_adjacent(G, x, y)
    BY <1>3 DEF irc_is_adjacent, Near, Listed
  <2>5. \A n : HighAround(C, n) = HighAround(G, n) /\ \A k : AliasAt(C, n, k) = AliasAt(G, n, k)
    BY <1>3 DEF HighAround, Around, High, AliasAt
  <2>6. CanCoalesce(C, u, v)
    <3>1. {k \in HighAround(C, v) : ~irc_is_adjacent(C, u, AliasAt(C, v, k))}
            = {k \in HighAround(G, v) : ~irc_is_adjacent(G, u, AliasAt(G, v, k))}
      BY <2>4, <2>5
    <3>2. irc_briggs_check(C, u, v) <=> irc_briggs_check(G, u, v)
      <4>1. HighAround(C, u) = HighAround(G, u)
        BY <2>5
      <4> QED BY <3>1, <4>1 DEF irc_briggs_check
    <3>3. irc_george_check(C, u, v) <=> irc_george_check(G, u, v)
      BY <2>4, <2>5 DEF irc_george_check
    <3> QED BY <1>10, <3>2, <3>3 DEF CanCoalesce
  <2>7. Good(G, irc_combine_nodes(C, u, v), N)
    BY <1>2, <1>10, <2>1, <2>3, <2>6, GoodCombine
  <2> QED BY <1>5, <2>7
<1> QED BY <1>2, <1>7, <1>8, <1>9, <1>10 DEF Try

\* A graph from which all that is left can be taken away stays one.
LEMMA CoalesceGood ==
  ASSUME NEW G, NEW N, IsFiniteSet(N), Orderly(G, N), Even(G, N), Rated(G, N, 0)
  PROVE  LET H == irc_coalesce(G)
         IN Even(H, N) /\ Rated(H, N, 0) /\ (Core(G) = {} => Core(H) = {})
<1> DEFINE J == irc_coalesce(G)
<1>1. Shape(G, N) /\ Good(G, G, N)
  <2>1. Shape(G, N) /\ Sticks(G, G)
    BY DEF Orderly, Sound, Sticks
  <2> QED BY <2>1 DEF Good
<1>2. G.queue \in Seq(DOMAIN G.moves)
  BY <1>1 DEF Shape
<1>3. ASSUME NEW q \in Seq(DOMAIN G.moves)
      PROVE  Good(G, [G EXCEPT !.queue = q], N)
  <2> DEFINE H == [G EXCEPT !.queue = q]
  <2>1. Later(G, H, N)
    BY <1>1, QueueLater
  <2>2. H.adj = G.adj /\ H.list = G.list /\ H.alias = G.alias /\ H.degree = G.degree /\ H.state = G.state
    BY <1>1 DEF Shape, Fields
  <2> HIDE DEF H
  <2>3. Still(G, H, N)
    BY <2>1, <2>2, LaterShape DEF Still, Gone
  <2>4. Good(G, H, N)
    BY <1>1, <2>1, <2>3, GoodStill
  <2> QED BY <2>4 DEF H
<1>4. Good(G, J, N)
  <2>1. CASE LastOpen(G) = {}
    <3>1. J = [G EXCEPT !.queue = <<>>]
      BY <2>1 DEF irc_coalesce
    <3>2. <<>> \in Seq(DOMAIN G.moves)
      OBVIOUS
    <3> QED BY <1>3, <3>1, <3>2
  <2>2. CASE LastOpen(G) # {}
    <3> DEFINE a == Max(LastOpen(G))
               rest == SubSeq(G.queue, 1, a - 1)
               i == G.queue[a]
               H == [G EXCEPT !.queue = rest]
               x == H.alias[H.moves[i].dst]
               y == H.alias[H.moves[i].src]
    <3>1. a \in 1 .. Len(G.queue) /\ G.moves[i].state = "worklist"
      <4>1. LastOpen(G) \in SUBSET (1 .. Len(G.queue)) /\ Len(G.queue) \in Nat
        BY <1>2 DEF LastOpen
      <4>2. Max(LastOpen(G)) \in LastOpen(G)
        BY <2>2, <4>1, MaxIn
      <4> QED BY <4>1, <4>2 DEF LastOpen
    <3>2. J = TryMove(H, i)
      BY <2>2 DEF irc_coalesce
    <3> HIDE DEF a
    <3>3. i \in DOMAIN G.moves /\ Open(G.moves[i])
      BY <1>2, <3>1 DEF Open
    <3>4. rest \in Seq(DOMAIN G.moves)
      BY <1>2, <3>1, Shortened
    <3> HIDE DEF rest, i
    <3>5. Good(G, H, N) /\ H.moves = G.moves
      <4>1. H.moves = G.moves
        BY <1>1 DEF Shape, Fields
      <4> QED BY <1>3, <3>4, <4>1
    <3> HIDE DEF H, J
    <3>6. Shape(H, N) /\ Sticks(H, H) /\ Sticks(G, H) /\ Good(H, H, N)
      BY <3>5 DEF Good, Orderly, Sound, Sticks
    <3>7. H.moves[i] \in Move(N) /\ i \in DOMAIN H.moves /\ Open(H.moves[i])
      BY <3>3, <3>5, <3>6 DEF Shape
    <3>8. x \in N /\ y \in N /\ H.alias[x] = x /\ H.alias[y] = y
      BY <3>6, <3>7 DEF Shape, Move
    <3>9. J = Try(H, i, y, x) \/ J = Try(H, i, x, y)
      BY <3>2 DEF TryMove
    <3>10. Good(H, J, N)
      <4> HIDE DEF x, y
      <4> QED BY <3>6, <3>7, <3>8, <3>9, TryGood
    <3> QED BY <3>6, <3>10, SticksStill DEF Good
  <2> QED BY <2>1, <2>2
<1> HIDE DEF J
<1>5. Shape(J, N) /\ Orderly(J, N) /\ Even(J, N) /\ Rated(J, N, 0) /\ Sticks(G, J)
  BY <1>4 DEF Good, Orderly, Sound
<1>6. ASSUME NEW H, Shape(H, N) PROVE IsFiniteSet(Left(H))
  <2>1. Left(H) \subseteq N
    BY <1>6, LeftNodes
  <2> QED BY <2>1, FS_Subset
<1>7. ASSUME Core(G) = {} PROVE Core(J) = {}
  <2>1. Core(J) \in SUBSET Left(J) /\ FewIn(J, Core(J)) = {}
    BY <1>5, <1>6, CoreStuck
  <2>2. Core(J) \in SUBSET Left(G) /\ FewIn(G, Core(J)) = {}
    BY <1>5, <2>1 DEF Sticks
  <2>3. Core(J) \subseteq Core(G)
    BY <1>1, <1>6, <2>2, CoreStuck
  <2> QED BY <1>7, <2>3
<1> QED BY <1>5, <1>7 DEF J

-----------------------------------------------------------------------------
(* The allocator. *)

\* What clashes in the function.
Clashing == Clashes(func, compute_liveness(func))

\* The inductive invariant: the graph never loses an edge between two nodes that
\* clash, whatever stands for them, every node that stands for itself is on the
\* stack or on the worklist of its state, and the states of the others are those of
\* nodes that were pushed or coalesced.  Nodes that stand for themselves list each
\* other, and have no more neighbours than their degrees say: what the tests of
\* irc_coalesce rely on.
IInv ==
  /\ pc \in {"build", "reduce", "colored", "done"}
  /\ pc # "done" => WellFormed(func)
  /\ pc = "reduce" => /\ Sound(g, Nodes(func), Clashing, 0) /\ Tidy(g, Nodes(func))
                      /\ Even(g, Nodes(func)) /\ Rated(g, Nodes(func), 0)
  /\ pc = "colored" =>
       /\ g.spilled \in Seq(VNodes(Nodes(func)))
       /\ g.spilled = <<>> => /\ \A r \in Registers : ColorOf(g, r) = r
                              /\ \A p \in Clashing : ColorOf(g, p[1]) # ColorOf(g, p[2])

\* The invariant says what ApartWhenLive does.
LEMMA IInvApart == ASSUME IInv PROVE ApartWhenLive
<1> SUFFICES ASSUME pc = "colored", g.spilled = <<>>, NEW b \in Blocks(func), NEW i \in DOMAIN func.code[b],
                    NEW n \in LiveBehind(func, compute_liveness(func), b, i)
                                \ {DefinedBy(func.code[b][i]), CopySource(func.code[b][i])}
             PROVE  /\ DefinedBy(func.code[b][i]) # 0 => ColorOf(g, n) # ColorOf(g, DefinedBy(func.code[b][i]))
                    /\ func.code[b][i].op \in Calls => ColorOf(g, n) \notin ToSet(CallerSaved)
  BY DEF ApartWhenLive
<1> DEFINE inst == func.code[b][i]
           in == compute_liveness(func)
           d == DefinedBy(inst)
           N == Nodes(func)
<1>1. WellFormed(func)
  BY DEF IInv
<1>2. /\ \A r \in Registers : ColorOf(g, r) = r
      /\ \A p \in Clashing : ColorOf(g, p[1]) # ColorOf(g, p[2])
  BY DEF IInv
<1>3. in \in Among(func, VNodes(Nodes(func)))
  BY <1>1, LivenessSettles
<1>4. n \in N
  <2>1. LiveBehind(func, in, b, i) \in SUBSET VNodes(N)
    BY <1>1, <1>3, BehindIn
  <2> QED BY <2>1 DEF VNodes
<1>5. ProperInst(inst, func.vregs, Blocks(func))
  BY <1>1 DEF WellFormed, ToSet
<1>6. d \in N \cup {0}
  BY <1>1, <1>5, ProperUses DEF VNodes
<1>7. ToSet(CallerSaved) \subseteq Registers /\ Registers \subseteq N
  <2>1. Registers \subseteq N
    <3>1. func.vregs \in Nat
      BY <1>1 DEF WellFormed
    <3> QED BY <3>1 DEF Registers, FirstVReg, Nodes
  <2> QED BY <2>1, CallerRegisters
<1>8. ASSUME d # 0 PROVE ColorOf(g, n) # ColorOf(g, d)
  <2> DEFINE p == <<d, n>>
  <2>1. p \in N \X N /\ p[1] = d /\ p[2] = n
    BY <1>4, <1>6, <1>8
  <2>2. p \in Clashing
    BY <2>1 DEF Clashing, Clashes
  <2> QED BY <1>2, <2>1, <2>2
<1>9. ASSUME inst.op \in Calls PROVE ColorOf(g, n) \notin ToSet(CallerSaved)
  <2> SUFFICES ASSUME NEW r \in ToSet(CallerSaved) PROVE ColorOf(g, n) # r
    OBVIOUS
  <2> DEFINE p == <<r, n>>
  <2>1. p \in N \X N /\ p[1] = r /\ p[2] = n
    BY <1>4, <1>7
  <2>2. p \in Clashing
    BY <1>9, <2>1 DEF Clashing, Clashes
  <2>3. ColorOf(g, r) = r
    BY <1>2, <1>7
  <2> QED BY <1>2, <2>1, <2>2, <2>3
<1> QED BY <1>8, <1>9

\* It holds in the beginning.
LEMMA InitInv == Init => IInv
BY FunctionsAssumption DEF Init, IInv

\* A function has finitely many nodes.
LEMMA NodesFinite == ASSUME NEW f, WellFormed(f) PROVE IsFiniteSet(Nodes(f))
<1> DEFINE k == FirstVReg + f.vregs - 1
<1>1. Nodes(f) = 1 .. k /\ k \in Nat
  BY ProperNodes DEF WellFormed, FirstVReg
<1> HIDE DEF k
<1> QED BY <1>1, FirstFinite

\* A step that reduces the graph makes the measure smaller, and the nodes keep the
\* states they are known by.
LEMMA StepCounts ==
  ASSUME IInv, Simplify \/ Coalesce \/ Freeze \/ SelectSpill
  PROVE  Tidy(g', Nodes(func)) /\ Smaller(Measure(g'), Measure(g))
<1> DEFINE N == Nodes(func)
<1>1. pc = "reduce"
  BY DEF Simplify, Coalesce, Freeze, SelectSpill, Reducing
<1>2. WellFormed(func) /\ Sound(g, N, Clashing, 0) /\ Tidy(g, N)
  BY <1>1 DEF IInv
<1>3. IsFiniteSet(N)
  BY <1>2, NodesFinite
<1>4. Orderly(g, N)
  BY <1>2 DEF Orderly, Sound
<1> HIDE DEF N
<1>5. CASE Simplify
  BY <1>3, <1>4, <1>5, SimplifyCounts DEF Simplify, Reducing, Orderly, N
<1>6. CASE Coalesce
  BY <1>3, <1>4, <1>6, CoalesceCounts DEF Coalesce, Reducing, Orderly, N
<1>7. CASE Freeze
  BY <1>3, <1>4, <1>7, FreezeCounts DEF Freeze, Reducing, Orderly, N
<1>8. CASE SelectSpill
  BY <1>3, <1>4, <1>8, SelectSpillCounts DEF SelectSpill, Reducing, Orderly, N
<1> QED BY <1>5, <1>6, <1>7, <1>8

\* What coalescing relies on stays so.
LEMMA StepEven ==
  ASSUME IInv, Simplify \/ Coalesce \/ Freeze \/ SelectSpill
  PROVE  Even(g', Nodes(func)) /\ Rated(g', Nodes(func), 0)
<1> DEFINE N == Nodes(func)
<1>1. pc = "reduce"
  BY DEF Simplify, Coalesce, Freeze, SelectSpill, Reducing
<1>2. WellFormed(func) /\ Sound(g, N, Clashing, 0) /\ Tidy(g, N) /\ Even(g, N) /\ Rated(g, N, 0)
  BY <1>1 DEF IInv
<1>3. IsFiniteSet(N)
  BY <1>2, NodesFinite
<1>4. Orderly(g, N) /\ Shape(g, N)
  BY <1>2 DEF Orderly, Sound
<1> SUFFICES Even(g', N) /\ Rated(g', N, 0)
  OBVIOUS
<1> HIDE DEF N
<1>5. CASE Simplify
  BY <1>2, <1>3, <1>5, SimplifyEven DEF Simplify, Reducing
<1>6. CASE Coalesce
  BY <1>2, <1>3, <1>4, <1>6, CoalesceGood DEF Coalesce, Reducing
<1>7. CASE Freeze
  BY <1>2, <1>3, <1>4, <1>7, FreezeStill, StillEven DEF Freeze, Reducing
<1>8. CASE SelectSpill
  BY <1>2, <1>3, <1>8, SelectSpillEven DEF SelectSpill, Reducing
<1> QED BY <1>5, <1>6, <1>7, <1>8

\* It is kept when the graph is reduced, as the graph stays sound.
LEMMA ReducingInv ==
  ASSUME IInv, NEW next, Reducing(next), Sound(next, Nodes(func), Clashing, 0), Tidy(g', Nodes(func)),
         Even(g', Nodes(func)), Rated(g', Nodes(func), 0)
  PROVE  IInv'
<1>1. pc = "reduce" /\ pc' = "reduce" /\ g' = next /\ func' = func
  BY DEF Reducing
<1>2. Clashing' = Clashing /\ Nodes(func)' = Nodes(func)
  BY <1>1 DEF Clashing
<1>3. /\ WellFormed(func') /\ Sound(g', Nodes(func'), Clashing', 0) /\ Tidy(g', Nodes(func'))
      /\ Even(g', Nodes(func')) /\ Rated(g', Nodes(func'), 0)
  BY <1>1, <1>2 DEF IInv
<1> QED BY <1>1, <1>3 DEF IInv

\* Every step keeps it.
LEMMA NextInv == ASSUME IInv, [Next]_vars PROVE IInv'
<1>1. CASE Build
  <2>1. WellFormed(func) /\ func' = func /\ pc' = "reduce" /\ g' = InterferenceGraph(func, made)
    BY <1>1 DEF Build, IInv
  <2>2. Sound(g', Nodes(func), Clashing, 0) /\ Tidy(g', Nodes(func))
    BY <2>1, GraphSound DEF Clashing
  <2>3. Clashing' = Clashing
    BY <2>1 DEF Clashing
  <2>4. Even(g', Nodes(func)) /\ Rated(g', Nodes(func), 0)
    BY <2>1, GraphEven
  <2> QED BY <2>1, <2>2, <2>3, <2>4 DEF IInv
<1>2. CASE Simplify
  BY <1>2, ReducingInv, StepCounts, StepEven, SimplifySound DEF Simplify, IInv, Reducing
<1>3. CASE Coalesce
  BY <1>3, ReducingInv, StepCounts, StepEven, CoalesceSound DEF Coalesce, IInv, Reducing
<1>4. CASE Freeze
  BY <1>4, ReducingInv, StepCounts, StepEven, FreezeSound DEF Freeze, IInv, Reducing
<1>5. CASE SelectSpill
  BY <1>5, ReducingInv, StepCounts, StepEven, SelectSpillSound DEF SelectSpill, IInv, Reducing
<1>6. CASE AssignColors
  <2> DEFINE N == Nodes(func)
             P == Clashing
             H == irc_assign_colors(g)
  <2>1. WellFormed(func) /\ Sound(g, N, P, 0) /\ func' = func /\ pc' = "colored" /\ g' = H /\ ~Working(g)
    BY <1>6 DEF AssignColors, IInv
  <2>2. 0 \notin N
    BY <2>1, ProperNodes
  <2>3. Clashing' = P
    BY <2>1 DEF Clashing
  <2> HIDE DEF N, P
  <2>4. Colouring(g, H, N, 0)
    BY <2>1, ColouredAll
  <2>5. H.spilled \in Seq(VNodes(N))
    BY <2>4 DEF Colouring
  <2>6. H.spilled = <<>> => /\ \A r \in Registers : ColorOf(H, r) = r
                            /\ \A p \in P : ColorOf(H, p[1]) # ColorOf(H, p[2])
    BY <2>1, <2>2, ColorsApart
  <2> HIDE DEF H
  <2> QED BY <2>1, <2>3, <2>5, <2>6 DEF IInv, N
<1>7. CASE Rewrite
  <2>1. WellFormed(func) /\ func' = rewrite_spilled_program(g, func) /\ pc' = "build"
    BY <1>7 DEF Rewrite, IInv
  <2>2. g.spilled \in Seq(VNodes(Nodes(func)))
    BY <1>7 DEF Rewrite, IInv
  <2>3. WellFormed(func')
    BY <2>1, <2>2, RewritingKeepsForm
  <2> QED BY <2>1, <2>3 DEF IInv
<1>8. CASE Finish
  BY <1>8 DEF Finish, IInv
<1>9. CASE Done \/ UNCHANGED vars
  <2>1. func' = func /\ g' = g /\ pc' = pc
    BY <1>9 DEF Done, vars
  <2>2. Clashing' = Clashing
    BY <2>1 DEF Clashing
  <2> QED BY <2>1, <2>2 DEF IInv
<1> QED BY <1>1, <1>2, <1>3, <1>4, <1>5, <1>6, <1>7, <1>8, <1>9 DEF Next

\* For every function that is well formed, and every choice of registers: when the
\* allocator has coloured a function and spilled nothing, the register that an
\* instruction writes holds no value needed behind it, but for one that is copied,
\* and what is needed behind a call is in none that the call may change.
THEOREM AllocationKeepsApart == Spec => []ApartWhenLive
<1>1. Init => IInv
  BY InitInv
<1>2. IInv /\ [Next]_vars => IInv'
  BY NextInv
<1>3. IInv => ApartWhenLive
  BY IInvApart
<1> QED BY <1>1, <1>2, <1>3, PTL DEF Spec

\* For every function that is well formed, and every choice of registers: each step
\* of the loop of regalloc_run_on_function that reduces the graph makes its measure
\* smaller, so the loop ends, though refreshing degrees and coalescing put nodes and
\* copies back on the lists.
THEOREM AllocationStepsCount == Spec => EveryStepCounts
<1>1. Init => IInv
  BY InitInv
<1>2. IInv /\ [Next]_vars => IInv'
  BY NextInv
<1>3. IInv /\ [Next]_vars => [pc = "reduce" /\ pc' = "reduce" => Smaller(Measure(g'), Measure(g))]_vars
  <2> SUFFICES ASSUME IInv, Next, pc = "reduce", pc' = "reduce" PROVE Smaller(Measure(g'), Measure(g))
    OBVIOUS
  <2>1. Simplify \/ Coalesce \/ Freeze \/ SelectSpill
    BY DEF Next, Build, AssignColors, Rewrite, Finish, Done
  <2> QED BY <2>1, StepCounts
<1> QED BY <1>1, <1>2, <1>3, PTL DEF Spec, EveryStepCounts

\* For every function that is well formed, and every choice of distinct registers:
\* if all that is left of the graph can be taken away, node by node, because each has
\* fewer than K neighbours by then, it still can be once irc_coalesce has tried a
\* copy, whatever degrees the graph had stored when the tests were made.
THEOREM AllocationCoalescesSafely == Spec => CoalescingSafe
<1>1. Init => IInv
  BY InitInv
<1>2. IInv /\ [Next]_vars => IInv'
  BY NextInv
<1>3. IInv /\ [Next]_vars => [Coalesce => (Core(g) = {} => Core(g') = {})]_vars
  <2> SUFFICES ASSUME IInv, Coalesce PROVE Core(g) = {} => Core(g') = {}
    OBVIOUS
  <2> DEFINE N == Nodes(func)
  <2>1. pc = "reduce" /\ g' = irc_coalesce(g)
    BY DEF Coalesce, Reducing
  <2>2. WellFormed(func) /\ Sound(g, N, Clashing, 0) /\ Tidy(g, N) /\ Even(g, N) /\ Rated(g, N, 0)
    BY <2>1 DEF IInv
  <2>3. IsFiniteSet(N)
    BY <2>2, NodesFinite
  <2>4. Orderly(g, N)
    BY <2>2 DEF Orderly, Sound
  <2> HIDE DEF N
  <2> QED BY <2>1, <2>2, <2>3, <2>4, CoalesceGood
<1> QED BY <1>1, <1>2, <1>3, PTL DEF Spec, CoalescingSafe
=============================================================================
