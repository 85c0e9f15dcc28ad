----------------------------- MODULE Arena_proofs -----------------------------
(***************************************************************************)
(* For every page, header and chunk size, and every order of calls: slices *)
(* begin where they were asked to, and, until a rollback goes wrong, lie   *)
(* in the chunks the arena holds and share no byte.                        *)
(***************************************************************************)
EXTENDS Arena, FiniteSetsExt, FiniteSetTheorems, WellFoundedInduction, SequenceTheorems, TLAPS

\* Of the subsets of a finite set that are in P, one includes no other.
LEMMA SmallestSet ==
  ASSUME NEW S, IsFiniteSet(S), NEW P, P \subseteq SUBSET S, P # {}
  PROVE  \E T \in P : \A U \in P : ~(U \subseteq T /\ U # T)
<1>1. P \subseteq FiniteSubsetsOf(S)
  BY FS_Subset DEF FiniteSubsetsOf
<1>2. PICK T \in P : \A U \in P : ~(<<U, T>> \in StrictSubsetOrdering(S))
  BY <1>1, FS_StrictSubsetOrderingWellFounded, WFMin
<1> SUFFICES ASSUME NEW U \in P, U \subseteq T, U # T PROVE FALSE
  BY <1>2
<1>3. <<U, T>> \in StrictSubsetOrdering(S)
  BY DEF StrictSubsetOrdering
<1> QED
  BY <1>2, <1>3

\* A set of naturals has a least element: the sets of what is below one of its
\* elements are finite, and so one of them is the smallest.
LEMMA MinOfNaturals ==
  ASSUME NEW S \in SUBSET Nat, S # {}
  PROVE Min(S) \in S /\ \A y \in S : Min(S) =< y
<1> DEFINE below(x) == {y \in Nat : y \in S /\ y < x}
           segments == {below(x) : x \in S}
<1>0. \A x \in S : x \in Nat
  OBVIOUS
<1>1. segments \subseteq FiniteSubsetsOf(Nat) /\ segments # {}
  <2> SUFFICES ASSUME NEW x \in S PROVE below(x) \subseteq Nat /\ IsFiniteSet(below(x))
    BY DEF FiniteSubsetsOf
  <2>0. x \in Nat
    BY <1>0
  <2>1. below(x) \in SUBSET Nat /\ \A y \in below(x) : y <= x
    BY <2>0
  <2> HIDE DEF below
  <2> QED
    BY <2>0, <2>1, FS_BoundedSetOfNaturals
<1>2. PICK T \in segments : \A U \in segments : ~(<<U, T>> \in StrictSubsetOrdering(Nat))
  <2> HIDE DEF segments
  <2> QED
    BY <1>1, FS_StrictSubsetOrderingWellFounded, WFMin
<1>3. PICK x \in S : T = below(x)
  OBVIOUS
<1>4. \A y \in S : x =< y
  <2> SUFFICES ASSUME NEW y \in S, ~(x =< y) PROVE FALSE
    OBVIOUS
  <2>0. x \in Nat /\ y \in Nat /\ y < x
    BY <1>0
  <2>1. below(y) \subseteq below(x) /\ y \in below(x) /\ y \notin below(y)
    BY <2>0
  <2>2. <<below(y), below(x)>> \in StrictSubsetOrdering(Nat)
    BY <2>1 DEF StrictSubsetOrdering
  <2> QED
    BY <1>2, <1>3, <2>2
<1> QED
  BY <1>4 DEF Min

\* The arithmetic of padding: it is never negative, and the sum is aligned.
LEMMA Padding ==
  ASSUME NEW addr \in Nat, NEW al \in Nat \ {0}
  PROVE  padding_for(addr, al) \in Nat /\ (addr + padding_for(addr, al)) % al = 0
<1>1. addr % al \in 0 .. al - 1
  OBVIOUS
<1>2. (al - (addr % al)) % al \in 0 .. al - 1
  BY <1>1
<1>3. (addr + ((al - (addr % al)) % al)) % al = 0
  OBVIOUS
<1> QED
  BY <1>2, <1>3 DEF padding_for

\* A size that is not zero is rounded up to a page at least.
LEMMA Rounding ==
  ASSUME NEW n \in Nat \ {0}
  PROVE  align_forward(n, Page) \in Nat /\ align_forward(n, Page) >= Page
<1> Page \in Nat \ {0}
  BY ArenaAssumption
<1>1. n + ((Page - (n % Page)) % Page) >= Page
  OBVIOUS
<1> QED
  BY <1>1, Padding DEF align_forward, padding_for

-----------------------------------------------------------------------------
(* The parts of the inductive invariant, of a chain, an offset and slices. *)

Blocks == [base : Nat, len : Nat]
Slices == [addr : Nat, size : Nat, al : Nat, scope : Nat]

\* Chunks are blocks of the source, bigger than their header, and apart.
Chain(ch, mp) ==
  /\ ch \in Seq(Blocks)
  /\ mp \subseteq Blocks
  /\ \A i \in 1 .. Len(ch) : ch[i].base > 0 /\ ch[i].len > Header /\ ch[i] \in mp
  /\ \A i, j \in 1 .. Len(ch) :
       i # j => Disjoint(ch[i].base, ch[i].len, ch[j].base, ch[j].len)

\* The policy's buffer is the payload of the current chunk.
Bound(ch, buf, off) ==
  /\ buf = (IF ch = << >> THEN Null ELSE payload(ch[Len(ch)]))
  /\ off \in 0 .. buf.len

Typed(L, ts) ==
  /\ L \subseteq Slices
  /\ \A s \in L : s.size > 0 /\ s.scope <= Len(ts)
  /\ ts \in Seq([chunk : Blocks, offset : Nat])

\* Every slice has its place in a chunk, in the current one below the offset.
LiesIn(s, ch, i, off) ==
  /\ Within(s, payload(ch[i]))
  /\ i = Len(ch) => s.addr + s.size <= payload(ch[i]).base + off

Placed(ch, off, L) == \A s \in L : \E i \in 1 .. Len(ch) : LiesIn(s, ch, i, off)

Apart(L) == \A s, u \in L : s = u \/ Disjoint(s.addr, s.size, u.addr, u.size)

\* Each checkpoint names a chunk of the chain or none; inner ones name later
\* chunks; what is older than a checkpoint lies below it.
Names(t, ch, n) == IF n = 0 THEN t.chunk = Null ELSE ch[n] = t.chunk

Below(s, ch, n, off) ==
  \E i \in 1 .. n :
    /\ Within(s, payload(ch[i]))
    /\ i = n => s.addr + s.size <= payload(ch[i]).base + off

MarkedAt(ch, L, ts, at) ==
  /\ at \in [1 .. Len(ts) -> 0 .. Len(ch)]
  /\ \A k \in 1 .. Len(ts) : Names(ts[k], ch, at[k])
  /\ \A j, k \in 1 .. Len(ts) : j <= k => at[j] <= at[k]
  /\ \A k \in 1 .. Len(ts), s \in L : s.scope < k => Below(s, ch, at[k], ts[k].offset)

Marked(ch, L, ts) == \E at : MarkedAt(ch, L, ts, at)

Sound(ch, off, L, ts) == Placed(ch, off, L) /\ Apart(L) /\ Marked(ch, L, ts)

Inv ==
  /\ Chain(chunks, mapped)
  /\ Bound(chunks, buffer, offset)
  /\ Typed(live, temps)
  /\ exposed \in BOOLEAN
  /\ exposed \/ Sound(chunks, offset, live, temps)

-----------------------------------------------------------------------------
(* What a chain and its slices keep. *)

\* A block the source grants extends the chain.
LEMMA Extends ==
  ASSUME NEW ch, NEW mp, Chain(ch, mp), NEW b \in Blocks, b.base > 0, b.len > Header,
         \A m \in mp : Disjoint(b.base, b.len, m.base, m.len)
  PROVE  Chain(Append(ch, b), mp \cup {b})
<1> DEFINE ch2 == Append(ch, b)
<1>1. ch \in Seq(Blocks) /\ ch2 \in Seq(Blocks) /\ Len(ch2) = Len(ch) + 1 /\ Len(ch) \in Nat
  BY DEF Chain
<1>2. \A i \in 1 .. Len(ch) : ch2[i] = ch[i] /\ ch[i] \in Blocks
  BY <1>1
<1>3. ch2[Len(ch) + 1] = b
  BY <1>1
<1>4. \A i \in 1 .. Len(ch2) : i \in 1 .. Len(ch) \/ i = Len(ch) + 1
  BY <1>1
<1>5. \A i \in 1 .. Len(ch2) : ch2[i].base > 0 /\ ch2[i].len > Header /\ ch2[i] \in mp \cup {b}
  BY <1>2, <1>3, <1>4 DEF Chain
<1>6. ASSUME NEW i \in 1 .. Len(ch2), NEW j \in 1 .. Len(ch2), i # j
      PROVE  Disjoint(ch2[i].base, ch2[i].len, ch2[j].base, ch2[j].len)
  <2>1. CASE i \in 1 .. Len(ch) /\ j \in 1 .. Len(ch)
    BY <2>1, <1>2, <1>6 DEF Chain
  <2>2. CASE i \in 1 .. Len(ch) /\ j = Len(ch) + 1
    <3>1. Disjoint(b.base, b.len, ch[i].base, ch[i].len)
      BY <2>2 DEF Chain
    <3> QED
      BY <2>2, <3>1, <1>2, <1>3 DEF Disjoint
  <2>3. CASE i = Len(ch) + 1 /\ j \in 1 .. Len(ch)
    BY <2>3, <1>2, <1>3 DEF Chain
  <2> QED
    BY <2>1, <2>2, <2>3, <1>4, <1>6
<1> QED
  BY <1>1, <1>5, <1>6 DEF Chain

\* A shorter chain, whose released blocks went back to the source, is a chain.
LEMMA Shortens ==
  ASSUME NEW ch, NEW mp, Chain(ch, mp), NEW n \in 0 .. Len(ch)
  PROVE  /\ Chain(SubSeq(ch, 1, n), mp \ {ch[i] : i \in n + 1 .. Len(ch)})
         /\ Len(SubSeq(ch, 1, n)) = n
         /\ \A i \in 1 .. n : SubSeq(ch, 1, n)[i] = ch[i]
<1>1. ch \in Seq(Blocks) /\ Len(ch) \in Nat /\ \A i \in 1 .. Len(ch) : ch[i] \in Blocks
  BY DEF Chain
<1>2. /\ SubSeq(ch, 1, n) \in Seq(Blocks) /\ Len(SubSeq(ch, 1, n)) = n
      /\ \A i \in 1 .. n : SubSeq(ch, 1, n)[i] = ch[i]
  BY <1>1, SubSeqProperties
<1>3. ASSUME NEW i \in 1 .. n, NEW j \in n + 1 .. Len(ch)
      PROVE  ch[i] # ch[j]
  <2>1. i \in 1 .. Len(ch) /\ j \in 1 .. Len(ch) /\ i # j
    BY <1>1
  <2>2. Disjoint(ch[i].base, ch[i].len, ch[j].base, ch[j].len) /\ ch[i].len > Header
    BY <2>1 DEF Chain
  <2>3. Header \in Nat
    BY ArenaAssumption
  <2>4. ch[i].base \in Nat /\ ch[i].len \in Nat
    BY <2>1, <1>1 DEF Blocks
  <2>5. ~Disjoint(ch[i].base, ch[i].len, ch[i].base, ch[i].len)
    BY <2>2, <2>3, <2>4 DEF Disjoint
  <2> QED
    BY <2>2, <2>5
<1> QED
  BY <1>1, <1>2, <1>3 DEF Chain

\* A chunk's payload is a part of the address space.
LEMMA PayloadType ==
  ASSUME NEW ch, NEW mp, Chain(ch, mp), NEW i \in 1 .. Len(ch)
  PROVE  payload(ch[i]) \in Blocks
<1>1. ch[i] \in Blocks /\ ch[i].len > Header
  BY DEF Chain
<1> QED
  BY <1>1, ArenaAssumption DEF payload, Blocks

\* Payloads of different chunks are apart, and fit their blocks.
LEMMA PayloadsApart ==
  ASSUME NEW ch, NEW mp, Chain(ch, mp), NEW i \in 1 .. Len(ch), NEW j \in 1 .. Len(ch), i # j
  PROVE  Disjoint(payload(ch[i]).base, payload(ch[i]).len, payload(ch[j]).base, payload(ch[j]).len)
<1>1. PICK b \in Blocks, c \in Blocks : b = ch[i] /\ c = ch[j]
  BY DEF Chain
<1>2. Disjoint(b.base, b.len, c.base, c.len)
  BY <1>1 DEF Chain
<1>3. Disjoint(payload(b).base, payload(b).len, payload(c).base, payload(c).len)
  BY <1>2, ArenaAssumption DEF Disjoint, payload, Blocks
<1> QED
  BY <1>1, <1>3

\* What lies in different payloads shares no byte.
LEMMA ApartByChunk ==
  ASSUME NEW p \in Blocks, NEW q \in Blocks, Disjoint(p.base, p.len, q.base, q.len),
         NEW s \in Slices, NEW u \in Slices, Within(s, p), Within(u, q)
  PROVE  Disjoint(s.addr, s.size, u.addr, u.size) /\ Disjoint(u.addr, u.size, s.addr, s.size)
BY DEF Disjoint, Within, Blocks, Slices

\* A slice carved at or above the offset shares nothing with the others.
LEMMA CarvedApart ==
  ASSUME NEW ch, NEW mp, Chain(ch, mp), ch # << >>, NEW off \in Nat, NEW L \in SUBSET Slices,
         \A u \in L : u.size > 0, Placed(ch, off, L), Apart(L),
         NEW p, p = payload(ch[Len(ch)]),
         NEW start \in Nat, off <= start, NEW s \in Slices, s.size > 0,
         s.addr = p.base + start, start + s.size <= p.len
  PROVE  Placed(ch, start + s.size, L \cup {s}) /\ Apart(L \cup {s})
<1>1. Len(ch) \in 1 .. Len(ch)
  BY EmptySeq DEF Chain
<1>2. p \in Blocks
  BY <1>1, PayloadType
<1>3. Within(s, p) /\ s.addr + s.size <= p.base + (start + s.size)
  BY <1>2 DEF Within, Slices, Blocks
<1>4. LiesIn(s, ch, Len(ch), start + s.size)
  BY <1>3 DEF LiesIn
<1>5. ASSUME NEW u \in L
      PROVE  /\ \E i \in 1 .. Len(ch) : LiesIn(u, ch, i, start + s.size)
             /\ Disjoint(u.addr, u.size, s.addr, s.size)
             /\ Disjoint(s.addr, s.size, u.addr, u.size)
  <2>1. PICK i \in 1 .. Len(ch) : LiesIn(u, ch, i, off)
    BY DEF Placed
  <2>2. u \in Slices /\ u.size > 0
    OBVIOUS
  <2>3. CASE i = Len(ch)
    <3>1. u.addr + u.size <= p.base + off /\ Within(u, p)
      BY <2>1, <2>3 DEF LiesIn
    <3>2. u.addr + u.size <= s.addr /\ u.addr + u.size <= p.base + (start + s.size)
      <4>1. u.addr + u.size \in Nat /\ p.base \in Nat /\ s.size \in Nat
        <5>1. u.addr \in Nat /\ u.size \in Nat /\ s.size \in Nat
          BY <2>2 DEF Slices
        <5>2. p.base \in Nat
          BY <1>2 DEF Blocks
        <5> QED
          BY <5>1, <5>2
      <4>2. u.addr + u.size <= p.base + off
        BY <3>1
      <4> QED
        BY <4>1, <4>2
    <3>3. LiesIn(u, ch, i, start + s.size)
      BY <3>1, <3>2, <2>3 DEF LiesIn
    <3> QED
      BY <3>2, <3>3 DEF Disjoint
  <2>4. CASE i # Len(ch)
    <3>1. PICK q : q = payload(ch[i])
      OBVIOUS
    <3>2. Disjoint(q.base, q.len, p.base, p.len) /\ q \in Blocks
      BY <2>4, <1>1, <3>1, PayloadsApart, PayloadType
    <3>3. Within(u, q) /\ LiesIn(u, ch, i, start + s.size)
      BY <2>1, <2>4, <3>1 DEF LiesIn
    <3> QED
      BY <3>2, <3>3, <2>2, <1>2, <1>3, ApartByChunk
  <2> QED
    BY <2>3, <2>4
<1>6. Placed(ch, start + s.size, L \cup {s})
  BY <1>1, <1>4, <1>5 DEF Placed
<1>7. Apart(L \cup {s})
  BY <1>5 DEF Apart
<1> QED
  BY <1>6, <1>7

\* Taking back the last slice leaves the others below the new offset.
LEMMA TakenBack ==
  ASSUME NEW ch, NEW mp, Chain(ch, mp), NEW buf, NEW off, Bound(ch, buf, off),
         NEW L \in SUBSET Slices, \A u \in L : u.size > 0, Placed(ch, off, L), Apart(L),
         NEW s \in L, IsLast(buf, off, s)
  PROVE  Placed(ch, s.addr - buf.base, L \ {s})
<1> DEFINE m == Len(ch)
           p == payload(ch[m])
<1>1. ch # << >> /\ buf = p /\ off \in Nat
  BY DEF Bound, IsLast, Null
<1>2. m \in 1 .. Len(ch) /\ ch[m] \in Blocks
  BY <1>1, EmptySeq DEF Chain
<1>3. p.base \in Nat /\ p.len \in Nat
  BY <1>2, ArenaAssumption DEF Chain, payload, Blocks
<1>4. ASSUME NEW u \in L \ {s}
      PROVE  \E i \in 1 .. Len(ch) : LiesIn(u, ch, i, s.addr - buf.base)
  <2>1. PICK i \in 1 .. Len(ch) : LiesIn(u, ch, i, off)
    BY DEF Placed
  <2>2. u \in Slices /\ u.size > 0 /\ s \in Slices
    OBVIOUS
  <2>3. Disjoint(u.addr, u.size, s.addr, s.size)
    BY DEF Apart
  <2>4. CASE i = m
    <3>1. u.addr + u.size <= p.base + off /\ Within(u, p)
      BY <2>1, <2>4 DEF LiesIn
    <3>2. s.addr + s.size = p.base + off
      BY <1>1 DEF IsLast
    <3>3. u.addr + u.size <= s.addr
      BY <3>1, <3>2, <2>2, <2>3, <1>1, <1>3 DEF Disjoint, Slices
    <3>4. s.addr = p.base + (s.addr - buf.base)
      BY <1>1, <1>3, <2>2 DEF Slices
    <3> QED
      BY <3>1, <3>3, <3>4, <2>4 DEF LiesIn
  <2>5. CASE i # m
    BY <2>1, <2>5 DEF LiesIn
  <2> QED
    BY <2>4, <2>5
<1> QED
  BY <1>4 DEF Placed

\* A slice that was in use before another was carved is not the last any more.
LEMMA NotLast ==
  ASSUME NEW ch, NEW mp, Chain(ch, mp), ch # << >>,
         NEW p, p = payload(ch[Len(ch)]),
         NEW off \in Nat, NEW end \in Nat, off < end, end <= p.len,
         NEW s \in Slices, NEW i \in 1 .. Len(ch), LiesIn(s, ch, i, off)
  PROVE  ~IsLast(p, end, s)
<1>1. Len(ch) \in 1 .. Len(ch)
  BY EmptySeq DEF Chain
<1>2. p \in Blocks
  BY <1>1, PayloadType
<1>3. CASE i = Len(ch)
  <2>1. s.addr + s.size <= p.base + off
    BY <1>3 DEF LiesIn
  <2> QED
    BY <2>1, <1>2 DEF IsLast, Slices, Blocks
<1>4. CASE i # Len(ch)
  <2>1. PICK q : q = payload(ch[i])
    OBVIOUS
  <2>2. Disjoint(q.base, q.len, p.base, p.len) /\ q \in Blocks
    BY <1>4, <1>1, <2>1, PayloadsApart, PayloadType
  <2>3. Within(s, q)
    BY <2>1 DEF LiesIn
  <2>4. SUFFICES ASSUME IsLast(p, end, s)
                 PROVE  FALSE
    OBVIOUS
  <2>5. /\ s.addr \in Nat /\ s.size \in Nat /\ q.base \in Nat /\ q.len \in Nat
        /\ p.base \in Nat /\ p.len \in Nat
    BY <2>2, <1>2 DEF Slices, Blocks
  <2>6. s.size > 0 /\ p.base <= s.addr /\ s.addr < p.base + p.len
    BY <2>4, <2>5 DEF IsLast
  <2>7. q.base <= s.addr /\ s.addr < q.base + q.len
    BY <2>3, <2>5, <2>6 DEF Within
  <2>8. q.base + q.len <= p.base \/ p.base + p.len <= q.base
    BY <2>2 DEF Disjoint
  <2> QED
    BY <2>5, <2>6, <2>7, <2>8
<1> QED
  BY <1>3, <1>4

\* The offset stays within the buffer when a slice is taken back.
LEMMA DeallocBound ==
  ASSUME NEW buf \in Blocks, NEW off \in 0 .. buf.len, NEW s \in Slices
  PROVE  dealloc(buf, off, s) \in 0 .. buf.len
BY DEF dealloc, IsLast, Slices, Blocks

-----------------------------------------------------------------------------
(* What checkpoints keep. *)

\* Slices made under the innermost checkpoint do not matter to any.
LEMMA MarkedKept ==
  ASSUME NEW ch, NEW L, NEW M, NEW ts, Len(ts) \in Nat, Marked(ch, L, ts),
         \A s \in M : s \in L \/ s.scope = Len(ts)
  PROVE  Marked(ch, M, ts)
<1>1. PICK at : MarkedAt(ch, L, ts, at)
  BY DEF Marked
<1>2. \A k \in 1 .. Len(ts), s \in M : s.scope < k => s \in L
  OBVIOUS
<1>3. MarkedAt(ch, M, ts, at)
  BY <1>1, <1>2 DEF MarkedAt
<1> QED
  BY <1>3 DEF Marked

\* A new chunk leaves the chunks the checkpoints name where they are.
LEMMA MarkedExtended ==
  ASSUME NEW ch, NEW mp, Chain(ch, mp), NEW b \in Blocks, NEW L, NEW ts, Marked(ch, L, ts)
  PROVE  Marked(Append(ch, b), L, ts)
<1> DEFINE ch2 == Append(ch, b)
<1>1. PICK at : MarkedAt(ch, L, ts, at)
  BY DEF Marked
<1>2. Len(ch2) = Len(ch) + 1 /\ Len(ch) \in Nat /\ \A i \in 1 .. Len(ch) : ch2[i] = ch[i]
  BY DEF Chain
<1>3. at \in [1 .. Len(ts) -> 0 .. Len(ch2)]
  BY <1>1, <1>2 DEF MarkedAt
<1>4. ASSUME NEW k \in 1 .. Len(ts)
      PROVE  /\ Names(ts[k], ch2, at[k])
             /\ \A s \in L : s.scope < k => Below(s, ch2, at[k], ts[k].offset)
  <2>1. at[k] \in 0 .. Len(ch)
    BY <1>1 DEF MarkedAt
  <2>2. \A i \in 1 .. at[k] : ch2[i] = ch[i]
    BY <2>1, <1>2
  <2>3. Names(ts[k], ch2, at[k])
    BY <2>1, <2>2, <1>1 DEF MarkedAt, Names
  <2>4. ASSUME NEW s \in L, s.scope < k
        PROVE  Below(s, ch2, at[k], ts[k].offset)
    <3>1. Below(s, ch, at[k], ts[k].offset)
      BY <2>4, <1>1 DEF MarkedAt
    <3> QED
      BY <3>1, <2>2 DEF Below
  <2> QED
    BY <2>3, <2>4
<1>5. MarkedAt(ch2, L, ts, at)
  BY <1>1, <1>3, <1>4 DEF MarkedAt
<1> QED
  BY <1>5 DEF Marked

\* A new checkpoint lies above everything in use.
LEMMA MarkedBegun ==
  ASSUME NEW ch, NEW mp, Chain(ch, mp), NEW off \in Nat, NEW L, NEW ts, Typed(L, ts),
         Placed(ch, off, L), Marked(ch, L, ts),
         NEW t \in [chunk : Blocks, offset : Nat],
         t.chunk = IF ch = << >> THEN Null ELSE ch[Len(ch)], t.offset = off
  PROVE  Marked(ch, L, Append(ts, t))
<1> DEFINE ts2 == Append(ts, t)
<1>1. PICK at : MarkedAt(ch, L, ts, at)
  BY DEF Marked
<1> DEFINE at2 == [k \in 1 .. Len(ts2) |-> IF k <= Len(ts) THEN at[k] ELSE Len(ch)]
<1>2. /\ Len(ts) \in Nat /\ Len(ts2) = Len(ts) + 1 /\ ts2[Len(ts) + 1] = t
      /\ \A k \in 1 .. Len(ts) : ts2[k] = ts[k]
  BY DEF Typed
<1>3. Len(ch) \in Nat /\ (ch = << >> <=> Len(ch) = 0)
  BY EmptySeq DEF Chain
<1>4. \A k \in 1 .. Len(ts2) : at2[k] \in 0 .. Len(ch) /\ (k <= Len(ts) => at2[k] = at[k])
  BY <1>1, <1>2, <1>3 DEF MarkedAt
<1>5. at2[Len(ts) + 1] = Len(ch)
  BY <1>2
<1>6. at2 \in [1 .. Len(ts2) -> 0 .. Len(ch)]
  BY <1>4
<1> HIDE DEF ts2, at2
<1>7. \A k \in 1 .. Len(ts2) : k \in 1 .. Len(ts) \/ k = Len(ts) + 1
  BY <1>2
<1>8. Names(t, ch, Len(ch))
  BY <1>3 DEF Names
<1>9. \A k \in 1 .. Len(ts2) : Names(ts2[k], ch, at2[k])
  BY <1>1, <1>2, <1>4, <1>5, <1>7, <1>8 DEF MarkedAt
<1>10. \A j, k \in 1 .. Len(ts2) : j <= k => at2[j] <= at2[k]
  <2> TAKE j, k \in 1 .. Len(ts2)
  <2> HAVE j <= k
  <2>1. CASE k \in 1 .. Len(ts)
    <3>1. j \in 1 .. Len(ts)
      BY <2>1, <1>2, <1>7
    <3>2. at[j] <= at[k]
      BY <2>1, <3>1, <1>1 DEF MarkedAt
    <3> QED
      BY <2>1, <3>1, <3>2, <1>2, <1>4
  <2>2. CASE k = Len(ts) + 1
    BY <2>2, <1>3, <1>4, <1>5
  <2> QED
    BY <2>1, <2>2, <1>7
<1>11. ASSUME NEW k \in 1 .. Len(ts2), NEW s \in L, s.scope < k
       PROVE  Below(s, ch, at2[k], ts2[k].offset)
  <2>1. CASE k \in 1 .. Len(ts)
    BY <2>1, <1>1, <1>2, <1>4, <1>11 DEF MarkedAt
  <2>2. CASE k = Len(ts) + 1
    <3>1. PICK i \in 1 .. Len(ch) : LiesIn(s, ch, i, off)
      BY DEF Placed
    <3>2. Below(s, ch, Len(ch), off)
      BY <3>1 DEF LiesIn, Below
    <3> QED
      BY <3>2, <2>2, <1>2, <1>5
  <2> QED
    BY <2>1, <2>2, <1>7
<1>12. MarkedAt(ch, L, ts2, at2)
  BY <1>6, <1>9, <1>10, <1>11 DEF MarkedAt
<1> QED
  BY <1>12 DEF Marked, ts2

\* A checkpoint names one position of the chain only.
LEMMA NamesOne ==
  ASSUME NEW ch, NEW mp, Chain(ch, mp), NEW t, NEW m \in 0 .. Len(ch), NEW n \in 0 .. Len(ch),
         Names(t, ch, m),
         IF n = 0 THEN \A i \in 1 .. Len(ch) : ch[i] # t.chunk ELSE ch[n] = t.chunk
  PROVE  m = n
<1>1. Len(ch) \in Nat
  BY DEF Chain
<1>2. \A i \in 1 .. Len(ch) : ch[i] # Null
  BY DEF Chain, Null
<1>3. \A i, j \in 1 .. Len(ch) : ch[i] = ch[j] => i = j
  <2> SUFFICES ASSUME NEW i \in 1 .. Len(ch), NEW j \in 1 .. Len(ch), i # j
               PROVE  ch[i] # ch[j]
    OBVIOUS
  <2>1. PICK b \in Blocks, c \in Blocks : b = ch[i] /\ c = ch[j]
    BY DEF Chain
  <2>2. Disjoint(b.base, b.len, c.base, c.len) /\ b.len > Header
    BY <2>1 DEF Chain
  <2>3. b # c
    BY <2>2, ArenaAssumption DEF Disjoint, Blocks
  <2> QED
    BY <2>1, <2>3
<1> QED
  BY <1>1, <1>2, <1>3 DEF Names

\* Back at a checkpoint made at offset 0, the older slices lie in older chunks.
LEMMA MarkedEnded ==
  ASSUME NEW ch, NEW mp, Chain(ch, mp), NEW L \in SUBSET Slices, NEW ts, Typed(L, ts),
         ts # << >>, Marked(ch, L, ts), NEW n \in 0 .. Len(ch),
         LET t == ts[Len(ts)] IN
           /\ IF n = 0 THEN \A i \in 1 .. Len(ch) : ch[i] # t.chunk ELSE ch[n] = t.chunk
           /\ n > 0 => t.offset = 0
  PROVE  LET ch2 == SubSeq(ch, 1, n)
             M   == {s \in L : s.scope < Len(ts)}
         IN  Placed(ch2, 0, M) /\ Marked(ch2, M, SubSeq(ts, 1, Len(ts) - 1))
<1> DEFINE ch2 == SubSeq(ch, 1, n)
           M   == {s \in L : s.scope < Len(ts)}
           ts2 == SubSeq(ts, 1, Len(ts) - 1)
           q   == Len(ts)
<1>1. PICK at : MarkedAt(ch, L, ts, at)
  BY DEF Marked
<1>2. q \in Nat /\ q \in 1 .. q
  BY EmptySeq DEF Typed
<1>3. at[q] = n
  <2>1. at[q] \in 0 .. Len(ch) /\ Names(ts[q], ch, at[q])
    BY <1>1, <1>2 DEF MarkedAt
  <2> QED
    BY <2>1, NamesOne
<1>4. Len(ch) \in Nat /\ Len(ch2) = n /\ \A i \in 1 .. n : ch2[i] = ch[i]
  BY Shortens DEF Chain
<1>5. Len(ts2) = q - 1 /\ \A k \in 1 .. q - 1 : ts2[k] = ts[k]
  <2>1. PICK R : R = [chunk : Blocks, offset : Nat]
    OBVIOUS
  <2>2. ts \in Seq(R)
    BY <2>1 DEF Typed
  <2>3. \A k \in 1 .. Len(ts) - 1 : ts[k] \in R
    BY <2>2, <1>2, ElementOfSeq
  <2>4. PICK p \in Nat : p = Len(ts) - 1
    BY <1>2
  <2>5. 1 \in Int /\ p \in Int /\ \A k \in 1 .. p : ts[k] \in R
    BY <2>3, <2>4
  <2>6. /\ Len(SubSeq(ts, 1, p)) = IF 1 <= p THEN p - 1 + 1 ELSE 0
        /\ \A k \in 1 .. p - 1 + 1 : SubSeq(ts, 1, p)[k] = ts[1 + k - 1]
    BY <2>5, SubSeqProperties
  <2>7. p - 1 + 1 = p /\ p >= 0 /\ p = q - 1 /\ \A k \in Int : 1 + k - 1 = k
    BY <2>4
  <2>8. Len(SubSeq(ts, 1, p)) = p
    BY <2>6, <2>7
  <2>9. ASSUME NEW k \in 1 .. p
        PROVE  SubSeq(ts, 1, p)[k] = ts[k]
    <3>1. k \in 1 .. p - 1 + 1 /\ 1 + k - 1 = k
      BY <2>7
    <3> QED
      BY <2>6, <3>1
  <2>10. ts2 = SubSeq(ts, 1, p)
    BY <2>4
  <2> HIDE DEF ts2
  <2> QED
    BY <2>7, <2>8, <2>9, <2>10
<1>6. ASSUME NEW s \in M
      PROVE  \E i \in 1 .. n : LiesIn(s, ch2, i, 0)
  <2>1. Below(s, ch, n, ts[q].offset)
    BY <1>1, <1>2, <1>3 DEF MarkedAt
  <2>2. PICK i \in 1 .. n : /\ Within(s, payload(ch[i]))
                            /\ i = n => s.addr + s.size <= payload(ch[i]).base + ts[q].offset
    BY <2>1 DEF Below
  <2>3. i = n => ts[q].offset = 0
    BY <2>2
  <2> QED
    BY <2>2, <2>3, <1>4 DEF LiesIn
<1>7. Placed(ch2, 0, M)
  BY <1>4, <1>6 DEF Placed
<1> DEFINE at2 == [k \in 1 .. q - 1 |-> at[k]]
<1>8. ASSUME NEW k \in 1 .. q - 1
      PROVE  /\ at[k] \in 0 .. n
             /\ Names(ts2[k], ch2, at[k])
             /\ \A s \in M : s.scope < k => Below(s, ch2, at[k], ts2[k].offset)
  <2>1. k \in 1 .. Len(ts) /\ k <= q
    BY <1>2
  <2>2. at[k] \in 0 .. Len(ch) /\ at[k] <= at[q] /\ Names(ts[k], ch, at[k])
    BY <1>1, <1>2, <2>1 DEF MarkedAt
  <2>3. at[k] \in 0 .. n
    BY <2>2, <1>3, <1>4
  <2>4. \A i \in 1 .. at[k] : ch2[i] = ch[i]
    BY <2>3, <1>4
  <2>5. Names(ts2[k], ch2, at[k])
    BY <2>2, <2>3, <2>4, <1>5 DEF Names
  <2>6. ASSUME NEW s \in M, s.scope < k
        PROVE  Below(s, ch2, at[k], ts2[k].offset)
    <3>1. Below(s, ch, at[k], ts[k].offset)
      BY <1>1, <2>1, <2>6 DEF MarkedAt
    <3> QED
      BY <3>1, <2>4, <1>5 DEF Below
  <2> QED
    BY <2>3, <2>5, <2>6
<1>9. MarkedAt(ch2, M, ts2, at2)
  <2>1. at2 \in [1 .. Len(ts2) -> 0 .. Len(ch2)]
    BY <1>4, <1>5, <1>8
  <2>2. \A j, k \in 1 .. q - 1 : j <= k => at2[j] <= at2[k]
    BY <1>1, <1>2 DEF MarkedAt
  <2> QED
    BY <2>1, <2>2, <1>5, <1>8 DEF MarkedAt
<1> QED
  BY <1>7, <1>9 DEF Marked

-----------------------------------------------------------------------------
(* The steps. *)

\* What a fitting request gets.
LEMMA Fitting ==
  ASSUME NEW buf \in Blocks, NEW off \in 0 .. buf.len, NEW size \in Nat \ {0}, NEW al \in Nat,
         Fits(buf, off, size, al)
  PROVE  /\ Start(buf, off, al) \in Nat
         /\ off <= Start(buf, off, al)
         /\ Start(buf, off, al) + size \in 0 .. buf.len
         /\ (buf.base + Start(buf, off, al)) % Effective(al) = 0
<1>1. off \in Nat /\ buf.base \in Nat /\ buf.base + off \in Nat
  BY DEF Blocks
<1>2. Effective(al) \in Nat \ {0}
  BY DEF Effective
<1>3. PICK pad : pad = padding_for(buf.base + off, Effective(al))
  OBVIOUS
<1>4. pad \in Nat /\ (buf.base + off + pad) % Effective(al) = 0
  BY <1>1, <1>2, <1>3, Padding
<1>5. Start(buf, off, al) = off + pad
  BY <1>3 DEF Start
<1>6. buf.base + Start(buf, off, al) = buf.base + off + pad
  BY <1>1, <1>4, <1>5
<1>7. Start(buf, off, al) + size <= buf.len
  BY DEF Fits
<1> QED
  BY <1>1, <1>4, <1>5, <1>6, <1>7 DEF Blocks

\* The buffer is a block, and empty only without a chunk.
LEMMA BufferType ==
  ASSUME NEW ch, NEW mp, Chain(ch, mp), NEW buf, NEW off, Bound(ch, buf, off)
  PROVE  buf \in Blocks /\ off \in Nat /\ (buf.len > 0 => ch # << >>)
<1>1. CASE ch = << >>
  BY <1>1 DEF Bound, Null, Blocks
<1>2. CASE ch # << >>
  <2>1. Len(ch) \in 1 .. Len(ch)
    BY <1>2, EmptySeq DEF Chain
  <2> QED
    BY <1>2, <2>1, PayloadType DEF Bound, Blocks
<1> QED
  BY <1>1, <1>2

\* The slice given out, and what is still typed.
LEMMA SliceType ==
  ASSUME NEW L, NEW ts, Typed(L, ts), NEW M, M \subseteq L,
         NEW s \in Slices, s.size > 0, s.scope = Len(ts)
  PROVE  Typed(M \cup {s}, ts) /\ Typed(M, ts)
<1>1. Len(ts) \in Nat
  BY DEF Typed
<1> QED
  BY <1>1 DEF Typed

\* With the offset at end and the slices M in use, all is as sound as it was.
Keeps(ch, buf, off, L, ts, end, M) ==
  /\ Bound(ch, buf, end)
  /\ Typed(M, ts)
  /\ Sound(ch, off, L, ts) => Sound(ch, end, M, ts)

\* A slice carved in the current chunk, in place of another or of none.
LEMMA Carved ==
  ASSUME NEW ch, NEW mp, Chain(ch, mp), NEW buf, NEW off, Bound(ch, buf, off),
         NEW L, NEW ts, Typed(L, ts),
         NEW size \in Nat \ {0}, NEW al \in Nat, Fits(buf, off, size, al),
         NEW old \in L \cup {NoSlice},
         NEW s, s = [addr |-> buf.base + Start(buf, off, al), size |-> size, al |-> al,
                     scope |-> Len(ts)],
         NEW end, end = dealloc(buf, Start(buf, off, al) + size, old)
  PROVE  Keeps(ch, buf, off, L, ts, end, (L \ {old}) \cup {s})
<1> DEFINE start == Start(buf, off, al)
           M     == L \ {old}
<1>1. buf \in Blocks /\ off \in 0 .. buf.len /\ ch # << >> /\ off \in Nat
  BY BufferType DEF Bound, Fits
<1>2. /\ start \in Nat /\ off <= start /\ start + size \in 0 .. buf.len
  BY <1>1, Fitting
<1>3. Len(ts) \in Nat /\ L \in SUBSET Slices /\ old \in Slices
  BY DEF Typed, NoSlice, Slices
<1>4. s \in Slices /\ s.size > 0 /\ s.scope = Len(ts) /\ s.addr = buf.base + start /\ s.size = size
  BY <1>1, <1>2, <1>3 DEF Slices, Blocks
<1>5. buf = payload(ch[Len(ch)])
  BY <1>1 DEF Bound
<1> HIDE DEF start
<1>6. Bound(ch, buf, end)
  <2>1. end \in 0 .. buf.len
    BY <1>1, <1>2, <1>3, DeallocBound DEF start
  <2> QED
    BY <2>1 DEF Bound
<1>7. Typed(M \cup {s}, ts)
  BY <1>4, SliceType
<1>8. ASSUME Sound(ch, off, L, ts)
      PROVE  Sound(ch, end, M \cup {s}, ts)
  <2>1. Sound(ch, off, L, ts)
    BY <1>8
  <2>2. ~IsLast(buf, start + size, old)
    <3>1. CASE old = NoSlice
      BY <3>1 DEF IsLast, NoSlice
    <3>2. CASE old \in L
      <4>1. PICK i \in 1 .. Len(ch) : LiesIn(old, ch, i, off)
        BY <3>2, <2>1 DEF Sound, Placed
      <4>2. off < start + size /\ start + size <= buf.len /\ start + size \in Nat
        BY <1>1, <1>2 DEF Blocks
      <4> QED
        BY <4>1, <4>2, <1>1, <1>3, <1>5, NotLast
    <3> QED
      BY <3>1, <3>2
  <2>3. end = start + s.size
    BY <2>2, <1>4 DEF dealloc, start
  <2>4. Placed(ch, off, M) /\ Apart(M) /\ M \in SUBSET Slices /\ \A u \in M : u.size > 0
    BY <2>1, <1>3 DEF Sound, Placed, Apart, Typed
  <2>5. start + s.size <= buf.len
    BY <1>1, <1>2, <1>4 DEF Blocks
  <2>6. Placed(ch, start + s.size, M \cup {s}) /\ Apart(M \cup {s})
    BY <2>4, <2>5, <1>1, <1>2, <1>4, <1>5, CarvedApart
  <2>7. Marked(ch, M \cup {s}, ts)
    BY <2>1, <1>3, <1>4, MarkedKept DEF Sound
  <2> QED
    BY <2>3, <2>6, <2>7 DEF Sound
<1> QED
  BY <1>6, <1>7, <1>8 DEF Keeps

LEMMA AllocHereSound ==
  ASSUME Inv, NEW size \in Nat \ {0}, NEW al \in Nat, NEW old \in live \cup {NoSlice},
         AllocHere(size, al, old)
  PROVE  Inv'
<1>1. /\ Fits(buffer, offset, size, al)
      /\ offset' = dealloc(buffer, Start(buffer, offset, al) + size, old)
      /\ live' = (live \ {old}) \cup {Slice(buffer.base + Start(buffer, offset, al), size, al)}
      /\ UNCHANGED <<chunks, buffer, mapped, temps, exposed>>
  BY DEF AllocHere
<1>2. PICK s : s = [addr |-> buffer.base + Start(buffer, offset, al), size |-> size, al |-> al,
                    scope |-> Len(temps)]
  OBVIOUS
<1>3. live' = (live \ {old}) \cup {s}
  BY <1>1, <1>2 DEF Slice
<1>4. /\ Chain(chunks, mapped) /\ Bound(chunks, buffer, offset) /\ Typed(live, temps)
      /\ exposed \in BOOLEAN /\ (exposed \/ Sound(chunks, offset, live, temps))
  BY DEF Inv
<1>5. Keeps(chunks, buffer, offset, live, temps, offset', (live \ {old}) \cup {s})
  BY <1>1, <1>2, <1>4, Carved
<1> QED
  BY <1>1, <1>3, <1>4, <1>5 DEF Inv, Keeps

\* The same in a new chunk, which is kept whatever comes of the request.
LEMMA AllocInNewChunkSound ==
  ASSUME Inv, NEW size \in Nat \ {0}, NEW al \in Nat, NEW old \in live \cup {NoSlice},
         AllocInNewChunk(size, al, old)
  PROVE  Inv'
<1>1. PICK b \in Acquirable(AcquireSize(size, al)) :
        /\ push_chunk(b)
        /\ IF Fits(payload(b), 0, size, al)
           THEN /\ offset' = dealloc(payload(b), Start(payload(b), 0, al) + size, old)
                /\ live' = (live \ {old})
                             \cup {Slice(payload(b).base + Start(payload(b), 0, al), size, al)}
           ELSE offset' = 0 /\ UNCHANGED live
  BY DEF AllocInNewChunk
<1>2. temps' = temps /\ exposed' = exposed
  BY DEF AllocInNewChunk
<1> DEFINE ch2 == Append(chunks, b)
           buf2 == payload(b)
           mp2 == mapped \cup {b}
<1>3. chunks' = ch2 /\ buffer' = buf2 /\ mapped' = mp2
  BY <1>1 DEF push_chunk
<1>4. b \in Blocks /\ b.base > 0 /\ b.len > Header
      /\ \A m \in mapped : Disjoint(b.base, b.len, m.base, m.len)
  <2>1. AcquireSize(size, al) \in Nat \ {0}
    <3>1. MaxU64 + 1 \in Nat \ {0} /\ size + al + Header \in Nat
      BY ArenaAssumption
    <3>2. (size + al + Header) % (MaxU64 + 1) \in Nat
      BY <3>1
    <3> QED
      BY <3>2, ArenaAssumption DEF AcquireSize, Needed
  <2>2. /\ b \in [base : Bases, len : {align_forward(AcquireSize(size, al), Page)}]
        /\ \A m \in mapped : Disjoint(b.base, b.len, m.base, m.len)
    BY DEF Acquirable
  <2>3. PICK n \in Nat \ {0} : n = AcquireSize(size, al)
    BY <2>1
  <2>4. b.base \in Bases /\ b.len = align_forward(n, Page) /\ b = [base |-> b.base, len |-> b.len]
    BY <2>2, <2>3
  <2>5. b.len \in Nat /\ b.len >= Page
    BY <2>4, Rounding
  <2>6. b.base \in Nat /\ b.base > 0 /\ b.len > Header
    BY <2>4, <2>5, ArenaAssumption
  <2>7. b \in Blocks
    BY <2>4, <2>5, <2>6 DEF Blocks
  <2> QED
    BY <2>2, <2>6, <2>7
<1>5. Chain(ch2, mp2)
  BY <1>4, Extends DEF Inv
<1>6. Bound(ch2, buf2, 0)
  <2>1. chunks \in Seq(Blocks)
    BY DEF Inv, Chain
  <2>2. ch2 # << >> /\ ch2[Len(ch2)] = b
    BY <2>1, <1>4
  <2>3. 0 \in 0 .. buf2.len
    BY <1>4, ArenaAssumption DEF payload, Blocks
  <2> QED
    BY <2>2, <2>3 DEF Bound
<1>7. exposed \/ Sound(ch2, 0, live, temps)
  <2> SUFFICES ASSUME ~exposed PROVE Sound(ch2, 0, live, temps)
    OBVIOUS
  <2>1. Placed(ch2, 0, live)
    <3>1. /\ chunks \in Seq(Blocks) /\ Len(ch2) = Len(chunks) + 1 /\ Len(chunks) \in Nat
          /\ \A i \in 1 .. Len(chunks) : ch2[i] = chunks[i]
      BY DEF Inv, Chain
    <3>2. Placed(chunks, offset, live)
      BY DEF Inv, Sound
    <3>3. ASSUME NEW s \in live
          PROVE  \E i \in 1 .. Len(ch2) : LiesIn(s, ch2, i, 0)
      <4>1. PICK i \in 1 .. Len(chunks) : LiesIn(s, chunks, i, offset)
        BY <3>2 DEF Placed
      <4>2. i \in 1 .. Len(ch2) /\ i # Len(ch2) /\ ch2[i] = chunks[i]
        BY <3>1
      <4> QED
        BY <4>1, <4>2 DEF LiesIn
    <3> QED
      BY <3>3 DEF Placed
  <2>2. Marked(ch2, live, temps)
    BY <1>4, MarkedExtended DEF Inv, Sound
  <2> QED
    BY <2>1, <2>2 DEF Inv, Sound
<1> HIDE DEF ch2, buf2, mp2
<1>8. CASE Fits(payload(b), 0, size, al)
  <2>1. PICK off : off = 0
    OBVIOUS
  <2>2. PICK s : s = [addr |-> buf2.base + Start(buf2, off, al), size |-> size, al |-> al,
                      scope |-> Len(temps)]
    OBVIOUS
  <2>3. /\ live' = (live \ {old}) \cup {s}
        /\ offset' = dealloc(buf2, Start(buf2, off, al) + size, old)
        /\ Fits(buf2, off, size, al)
    BY <1>1, <1>8, <2>1, <2>2 DEF Slice, buf2
  <2>4. Typed(live, temps) /\ exposed \in BOOLEAN
    BY DEF Inv
  <2>5. Bound(ch2, buf2, off) /\ (exposed \/ Sound(ch2, off, live, temps))
    BY <2>1, <1>6, <1>7
  <2>6. Keeps(ch2, buf2, off, live, temps, offset', (live \ {old}) \cup {s})
    <3>1. Chain(ch2, mp2) /\ Bound(ch2, buf2, off) /\ Typed(live, temps)
      BY <1>5, <2>4, <2>5
    <3>2. s = [addr |-> buf2.base + Start(buf2, off, al), size |-> size, al |-> al,
               scope |-> Len(temps)]
      BY <2>2
    <3> QED
      BY <3>1, <3>2, <2>3, Carved
  <2> QED
    BY <2>3, <2>4, <2>5, <2>6, <1>2, <1>3, <1>5 DEF Inv, Keeps
<1>9. CASE ~Fits(payload(b), 0, size, al)
  BY <1>1, <1>2, <1>3, <1>5, <1>6, <1>7, <1>9 DEF Inv
<1> QED
  BY <1>8, <1>9

\* The last slice grows or shrinks: it is taken back and carved again in place.
LEMMA ResizeSound ==
  ASSUME Inv, NEW old \in live, NEW n \in Nat \ {0}, Resize(old, n)
  PROVE  Inv'
<1> DEFINE M     == live \ {old}
           start == old.addr - buffer.base
           s     == Slice(old.addr, n, old.al)
<1>1. /\ IsLast(buffer, offset, old)
      /\ n > old.size => Resized(old, n) <= buffer.len
      /\ offset' = offset + n - old.size
      /\ live' = M \cup {s}
      /\ UNCHANGED <<chunks, buffer, mapped, temps, exposed>>
  BY DEF Resize, Resized
<1>2. /\ Chain(chunks, mapped) /\ Bound(chunks, buffer, offset) /\ Typed(live, temps)
      /\ exposed \in BOOLEAN /\ (exposed \/ Sound(chunks, offset, live, temps))
  BY DEF Inv
<1>3. buffer \in Blocks /\ offset \in Nat /\ chunks # << >> /\ offset <= buffer.len
  <2>1. buffer.len > 0
    BY <1>1 DEF IsLast
  <2>2. buffer \in Blocks /\ offset \in Nat /\ chunks # << >>
    BY <1>2, <2>1, BufferType
  <2>3. offset \in 0 .. buffer.len
    BY <1>2 DEF Bound
  <2> QED
    BY <2>2, <2>3 DEF Blocks
<1>4. buffer = payload(chunks[Len(chunks)])
  BY <1>2, <1>3 DEF Bound
<1>5. live \in SUBSET Slices /\ old \in Slices /\ old.size > 0 /\ Len(temps) \in Nat
  BY <1>2 DEF Typed
<1>6. s \in Slices /\ s.size > 0 /\ s.scope = Len(temps) /\ s.addr = old.addr /\ s.size = n
  BY <1>5 DEF Slice, Slices
<1>7. /\ start \in Nat /\ s.addr = buffer.base + start /\ offset = start + old.size
      /\ offset' = start + s.size /\ start + s.size \in Nat /\ start + s.size <= buffer.len
  <2>1. buffer.base \in Nat /\ buffer.len \in Nat /\ old.addr \in Nat /\ old.size \in Nat
    BY <1>3, <1>5 DEF Blocks, Slices
  <2>2. buffer.base <= old.addr /\ old.addr + old.size = buffer.base + offset
    BY <1>1 DEF IsLast
  <2>3. start \in Nat /\ offset = start + old.size /\ old.addr = buffer.base + start
    <3>1. PICK b \in Nat, a \in Nat, z \in Nat : b = buffer.base /\ a = old.addr /\ z = old.size
      BY <2>1
    <3>2. b <= a /\ a + z = b + offset
      BY <3>1, <2>2
    <3>3. a - b \in Nat /\ offset = a - b + z /\ a = b + (a - b)
      BY <3>2, <1>3
    <3> QED
      BY <3>1, <3>3
  <2>4. offset' = start + n
    BY <2>1, <2>3, <1>1
  <2>5. start + n <= buffer.len
    <3>1. CASE n > old.size
      BY <3>1, <2>1, <2>3, <1>1 DEF Resized
    <3>2. CASE ~(n > old.size)
      BY <3>2, <2>1, <2>3, <1>3
    <3> QED
      BY <3>1, <3>2
  <2> QED
    BY <2>3, <2>4, <2>5, <1>6
<1> HIDE DEF s
<1>8. Bound(chunks, buffer, offset')
  BY <1>2, <1>3, <1>7 DEF Bound, Blocks
<1>9. Typed(M \cup {s}, temps)
  BY <1>2, <1>6, SliceType
<1>10. ASSUME Sound(chunks, offset, live, temps)
       PROVE  Sound(chunks, start + s.size, M \cup {s}, temps)
  <2>1. Placed(chunks, start, M)
    BY <1>1, <1>2, <1>5, <1>10, TakenBack DEF Sound, Typed
  <2>2. Apart(M) /\ M \in SUBSET Slices /\ \A u \in M : u.size > 0
    BY <1>2, <1>5, <1>10 DEF Sound, Apart, Typed
  <2> HIDE DEF start, M
  <2>3. Placed(chunks, start + s.size, M \cup {s}) /\ Apart(M \cup {s})
    <3>1. PICK off : off = start
      OBVIOUS
    <3>2. off \in Nat /\ off <= start /\ Placed(chunks, off, M) /\ Chain(chunks, mapped)
      BY <3>1, <2>1, <1>2, <1>7
    <3> QED
      BY <3>2, <2>2, <1>3, <1>4, <1>6, <1>7, CarvedApart
  <2>4. Marked(chunks, M \cup {s}, temps)
    BY <1>5, <1>6, <1>10, MarkedKept DEF Sound, M
  <2> QED
    BY <2>3, <2>4 DEF Sound
<1> QED
  BY <1>1, <1>2, <1>7, <1>8, <1>9, <1>10 DEF Inv

\* Taking a slice back; anything but the last one is only forgotten.
LEMMA DeallocSound ==
  ASSUME Inv, NEW s \in live, Dealloc(s)
  PROVE  Inv'
<1>1. /\ offset' = dealloc(buffer, offset, s)
      /\ live' = live \ {s}
      /\ UNCHANGED <<chunks, buffer, mapped, temps, exposed>>
  BY DEF Dealloc
<1>2. /\ Chain(chunks, mapped) /\ Bound(chunks, buffer, offset) /\ Typed(live, temps)
      /\ exposed \in BOOLEAN /\ (exposed \/ Sound(chunks, offset, live, temps))
  BY DEF Inv
<1>3. live \in SUBSET Slices /\ s \in Slices /\ (\A u \in live : u.size > 0) /\ Len(temps) \in Nat
  BY <1>2 DEF Typed
<1>4. Bound(chunks, buffer, offset')
  <2>1. buffer \in Blocks /\ offset \in 0 .. buffer.len
    BY <1>2, BufferType DEF Bound
  <2>2. offset' \in 0 .. buffer.len
    BY <2>1, <1>1, <1>3, DeallocBound
  <2> QED
    BY <2>2, <1>2 DEF Bound
<1>5. Typed(live \ {s}, temps)
  BY <1>2 DEF Typed
<1>6. ASSUME Sound(chunks, offset, live, temps)
      PROVE  Sound(chunks, offset', live \ {s}, temps)
  <2>1. Placed(chunks, offset', live \ {s})
    <3>1. CASE IsLast(buffer, offset, s)
      BY <3>1, <1>1, <1>2, <1>3, <1>6, TakenBack DEF Sound, dealloc
    <3>2. CASE ~IsLast(buffer, offset, s)
      BY <3>2, <1>1, <1>6 DEF Sound, Placed, dealloc
    <3> QED
      BY <3>1, <3>2
  <2>2. Apart(live \ {s})
    BY <1>6 DEF Sound, Apart
  <2>3. Marked(chunks, live \ {s}, temps)
    BY <1>3, <1>6, MarkedKept DEF Sound
  <2> QED
    BY <2>1, <2>2, <2>3 DEF Sound
<1> QED
  BY <1>1, <1>2, <1>4, <1>5, <1>6 DEF Inv

\* With nothing in use and no checkpoint, any chain is sound.
LEMMA EmptySound ==
  ASSUME NEW ch, NEW off
  PROVE  Typed({}, << >>) /\ Sound(ch, off, {}, << >>)
<1>1. MarkedAt(ch, {}, << >>, [k \in 1 .. 0 |-> 0])
  BY DEF MarkedAt
<1> QED
  BY <1>1 DEF Typed, Sound, Placed, Apart, Marked

\* What is left of the chain after releasing its end.
LEMMA Unwound ==
  ASSUME Inv, NEW n \in 0 .. Len(chunks), Unwind(n), offset' = 0
  PROVE  Chain(chunks, mapped)' /\ Bound(chunks, buffer, offset)'
<1>1. Chain(chunks, mapped)
  BY DEF Inv
<1>2. /\ chunks' = SubSeq(chunks, 1, n)
      /\ buffer' = IF n = 0 THEN Null ELSE payload(chunks[n])
      /\ mapped' = mapped \ {chunks[i] : i \in n + 1 .. Len(chunks)}
  BY DEF Unwind
<1>3. Chain(chunks', mapped') /\ Len(chunks') = n /\ \A i \in 1 .. n : chunks'[i] = chunks[i]
  BY <1>1, <1>2, Shortens
<1>4. Bound(chunks', buffer', offset')
  <2>1. CASE n = 0
    <3>1. chunks' = << >>
      BY <2>1, <1>3, EmptySeq DEF Chain
    <3> QED
      BY <2>1, <3>1, <1>2 DEF Bound, Null
  <2>2. CASE n # 0
    <3>1. n \in 1 .. n /\ n \in 1 .. Len(chunks) /\ chunks' # << >>
      BY <2>2, <1>1, <1>3 DEF Chain
    <3>2. payload(chunks[n]) \in Blocks
      BY <3>1, <1>1, PayloadType
    <3> QED
      BY <2>2, <3>1, <3>2, <1>2, <1>3 DEF Bound, Blocks
  <2> QED
    BY <2>1, <2>2
<1> QED
  BY <1>3, <1>4

LEMMA TempBeginSound ==
  ASSUME Inv, TempBegin
  PROVE  Inv'
<1> DEFINE t == [chunk |-> Current, offset |-> offset]
<1>1. /\ Chain(chunks, mapped) /\ Bound(chunks, buffer, offset) /\ Typed(live, temps)
      /\ exposed \in BOOLEAN /\ (exposed \/ Sound(chunks, offset, live, temps))
  BY DEF Inv
<1>2. temps' = Append(temps, t) /\ UNCHANGED <<chunks, buffer, offset, mapped, live, exposed>>
  BY DEF TempBegin
<1>3. Current \in Blocks
  <2>1. CASE chunks = << >>
    BY <2>1 DEF Current, Null, Blocks
  <2>2. CASE chunks # << >>
    BY <2>2, <1>1, EmptySeq DEF Current, Chain
  <2> QED
    BY <2>1, <2>2
<1>4. t \in [chunk : Blocks, offset : Nat] /\ offset \in Nat
  BY <1>1, <1>3, BufferType
<1>5. t.offset = offset /\ t.chunk = IF chunks = << >> THEN Null ELSE chunks[Len(chunks)]
  BY DEF Current
<1> HIDE DEF t
<1>6. Typed(live, temps')
  <2>1. temps' \in Seq([chunk : Blocks, offset : Nat]) /\ Len(temps') = Len(temps) + 1
        /\ Len(temps) \in Nat
    BY <1>1, <1>2, <1>4 DEF Typed
  <2>2. \A s \in live : s \in Slices /\ s.size > 0 /\ s.scope <= Len(temps)
    BY <1>1 DEF Typed
  <2>3. \A s \in live : s.scope <= Len(temps')
    BY <2>1, <2>2 DEF Slices
  <2> QED
    BY <2>1, <2>2, <2>3 DEF Typed
<1>7. Sound(chunks, offset, live, temps) => Sound(chunks, offset, live, temps')
  BY <1>1, <1>2, <1>4, <1>5, MarkedBegun DEF Sound
<1> QED
  BY <1>1, <1>2, <1>6, <1>7 DEF Inv

\* Ending the innermost checkpoint.  Unless the rollback goes wrong, it was made
\* at the beginning of its chunk, and what is older lies in older chunks.
LEMMA TempEndSound ==
  ASSUME Inv, TempEnd
  PROVE  Inv'
<1> DEFINE t == temps[Len(temps)]
           R == [chunk : Blocks, offset : Nat]
           M == {s \in live : s.scope < Len(temps)}
           ts2 == SubSeq(temps, 1, Len(temps) - 1)
<1>1. /\ Chain(chunks, mapped) /\ Bound(chunks, buffer, offset) /\ Typed(live, temps)
      /\ exposed \in BOOLEAN /\ (exposed \/ Sound(chunks, offset, live, temps))
  BY DEF Inv
<1>2. PICK n \in 0 .. Len(chunks) :
        /\ IF n = 0 THEN \A i \in 1 .. Len(chunks) : chunks[i] # t.chunk ELSE chunks[n] = t.chunk
        /\ Unwind(n)
        /\ offset' = IF n = 0 THEN 0 ELSE restore(0, t.offset)
        /\ exposed' = (exposed \/ (n > 0 /\ offset' < t.offset))
  BY DEF TempEnd
<1>3. temps # << >> /\ live' = M /\ temps' = ts2
  BY DEF TempEnd
<1>4. temps \in Seq(R) /\ Len(temps) \in Nat /\ Len(temps) \in 1 .. Len(temps) /\ t \in R
  <2>1. temps \in Seq(R)
    BY <1>1 DEF Typed
  <2> HIDE DEF R
  <2>2. Len(temps) \in Nat \ {0}
    BY <2>1, <1>3, EmptySeq
  <2> QED
    BY <2>1, <2>2, ElementOfSeq
<1>5. offset' = 0
  BY <1>2, <1>4 DEF restore
<1>6. Chain(chunks, mapped)' /\ Bound(chunks, buffer, offset)'
  BY <1>2, <1>5, Unwound
<1>7. Typed(M, ts2)
  <2> HIDE DEF R
  <2>1. PICK p \in Nat : p = Len(temps) - 1
    BY <1>4
  <2>2. 1 \in Int /\ p \in Int /\ \A k \in 1 .. p : temps[k] \in R
    BY <2>1, <1>4, ElementOfSeq
  <2>3. SubSeq(temps, 1, p) \in Seq(R) /\ Len(SubSeq(temps, 1, p)) = IF 1 <= p THEN p - 1 + 1 ELSE 0
    BY <2>2, SubSeqProperties
  <2>4. ts2 \in Seq(R) /\ Len(ts2) = Len(temps) - 1
    BY <2>1, <2>3, <1>4
  <2>5. \A s \in M : s.size > 0 /\ s \in Slices /\ s.scope <= Len(ts2)
    BY <2>4, <1>1, <1>4 DEF Typed, Slices
  <2> QED
    BY <2>4, <2>5 DEF Typed, R
<1>8. exposed' \in BOOLEAN
  BY <1>1, <1>2
<1>9. ASSUME ~exposed'
      PROVE  Sound(chunks', offset', M, ts2)
  <2>1. Sound(chunks, offset, live, temps)
    BY <1>1, <1>2, <1>9
  <2>2. n > 0 => t.offset = 0
    <3>1. ~(n > 0 /\ offset' < t.offset)
      BY <1>2, <1>9
    <3>2. t.offset \in Nat
      BY <1>4
    <3> QED
      BY <3>1, <3>2, <1>5
  <2>3. chunks' = SubSeq(chunks, 1, n)
    BY <1>2 DEF Unwind
  <2>4. Marked(chunks, live, temps) /\ live \in SUBSET Slices
    BY <2>1, <1>1 DEF Sound, Typed
  <2>5. Placed(chunks', 0, M) /\ Marked(chunks', M, ts2)
    BY <2>2, <2>3, <2>4, <1>1, <1>2, <1>3, MarkedEnded
  <2>6. Apart(M)
    BY <2>1 DEF Sound, Apart
  <2> QED
    BY <2>5, <2>6, <1>5 DEF Sound
<1> QED
  BY <1>3, <1>6, <1>7, <1>8, <1>9 DEF Inv

LEMMA InitSound == Init => Inv
<1> SUFFICES ASSUME Init PROVE Inv
  OBVIOUS
<1>1. Chain(chunks, mapped) /\ Bound(chunks, buffer, offset) /\ exposed \in BOOLEAN
  <2>1. Chain(<< >>, {})
    BY DEF Chain
  <2>2. Bound(<< >>, Null, 0)
    BY DEF Bound, Null
  <2> QED
    BY <2>1, <2>2 DEF Init
<1>2. Typed(live, temps) /\ Sound(chunks, offset, live, temps)
  BY EmptySound DEF Init
<1> QED
  BY <1>1, <1>2 DEF Inv

LEMMA StepSound == Inv /\ [Next]_vars => Inv'
<1> SUFFICES ASSUME Inv, [Next]_vars PROVE Inv'
  OBVIOUS
<1>1. ASSUME NEW size \in Sizes, NEW al \in Alignments, Alloc(size, al)
      PROVE  Inv'
  <2>1. size \in Nat \ {0} /\ al \in Nat
    BY ArenaAssumption
  <2> QED
    BY <2>1, <1>1, AllocHereSound, AllocInNewChunkSound DEF Alloc
<1>2. ASSUME NEW s \in live, NEW n \in Sizes, Resize(s, n) \/ Realloc(s, n)
      PROVE  Inv'
  <2>1. n \in Nat \ {0} /\ s.al \in Nat
    BY ArenaAssumption DEF Inv, Typed, Slices
  <2>2. CASE Resize(s, n)
    BY <2>1, <2>2, ResizeSound
  <2>3. CASE Realloc(s, n)
    BY <2>1, <2>3, AllocHereSound, AllocInNewChunkSound DEF Realloc
  <2> QED
    BY <1>2, <2>2, <2>3
<1>3. ASSUME NEW s \in live, Dealloc(s)
      PROVE  Inv'
  BY <1>3, DeallocSound
<1>4. CASE Reset
  <2>1. PICK n \in 0 .. Len(chunks) : Unwind(n)
    <3>1. (IF chunks = << >> THEN 0 ELSE 1) \in 0 .. Len(chunks)
      BY EmptySeq DEF Inv, Chain
    <3> QED
      BY <3>1, <1>4 DEF Reset
  <2>2. offset' = 0 /\ live' = {} /\ temps' = << >> /\ exposed' = FALSE
    BY <1>4 DEF Reset, Emptied
  <2>3. Chain(chunks, mapped)' /\ Bound(chunks, buffer, offset)'
    BY <2>1, <2>2, Unwound
  <2>4. Typed(live, temps)' /\ Sound(chunks, offset, live, temps)'
    BY <2>2, EmptySound
  <2> QED
    BY <2>2, <2>3, <2>4 DEF Inv
<1>5. CASE Deinit
  <2>1. /\ chunks' = << >> /\ buffer' = Null /\ offset' = 0 /\ mapped' \subseteq mapped
        /\ live' = {} /\ temps' = << >> /\ exposed' = FALSE
    BY <1>5 DEF Deinit, Emptied
  <2>2. Chain(chunks, mapped)' /\ Bound(chunks, buffer, offset)'
    BY <2>1 DEF Inv, Chain, Bound, Null
  <2>3. Typed(live, temps)' /\ Sound(chunks, offset, live, temps)'
    BY <2>1, EmptySound
  <2> QED
    BY <2>1, <2>2, <2>3 DEF Inv
<1>6. CASE TempBegin
  BY <1>6, TempBeginSound
<1>7. CASE TempEnd
  BY <1>7, TempEndSound
<1>8. CASE UNCHANGED vars
  BY <1>8 DEF vars, Inv
<1> QED
  BY <1>1, <1>2, <1>3, <1>4, <1>5, <1>6, <1>7, <1>8 DEF Next

\* The invariant gives what callers rely on.
LEMMA InvImplies == Inv => SlicesSoundUnlessExposed
<1> SUFFICES ASSUME Inv, ~exposed PROVE SlicesSound
  BY DEF SlicesSoundUnlessExposed
<1> QED
  BY DEF Inv, Sound, Placed, LiesIn, Apart, SlicesSound

\* Until a rollback has put the offset below its checkpoint, slices in use lie in
\* chunks the arena holds and no two share a byte, in any order of calls.
THEOREM ArenaSlicesSound == Spec => []SlicesSoundUnlessExposed
<1>1. Spec => []Inv
  BY InitSound, StepSound, PTL DEF Spec
<1> QED
  BY <1>1, InvImplies, PTL

-----------------------------------------------------------------------------
(* Alignment. *)

LEMMA AlignedStep == Inv /\ Aligned /\ [Next]_vars => Aligned'
<1> SUFFICES ASSUME Inv, Aligned, [Next]_vars PROVE Aligned'
  OBVIOUS
<1>1. ASSUME NEW size \in Nat \ {0}, NEW al \in Nat, NEW old \in live \cup {NoSlice},
             AllocHere(size, al, old)
      PROVE  Aligned'
  <2>1. Fits(buffer, offset, size, al) /\ buffer \in Blocks /\ offset \in 0 .. buffer.len
    BY <1>1, BufferType DEF AllocHere, Inv, Bound
  <2>2. (buffer.base + Start(buffer, offset, al)) % Effective(al) = 0
    BY <2>1, Fitting
  <2>3. live' = (live \ {old}) \cup {Slice(buffer.base + Start(buffer, offset, al), size, al)}
    BY <1>1 DEF AllocHere
  <2> QED
    BY <2>2, <2>3 DEF Aligned, Slice
<1>2. ASSUME NEW size \in Nat \ {0}, NEW al \in Nat, NEW old \in live \cup {NoSlice},
             AllocInNewChunk(size, al, old)
      PROVE  Aligned'
  <2>1. PICK b : /\ push_chunk(b)
                 /\ IF Fits(payload(b), 0, size, al)
                    THEN live' = (live \ {old})
                           \cup {Slice(payload(b).base + Start(payload(b), 0, al), size, al)}
                    ELSE UNCHANGED live
    BY <1>2 DEF AllocInNewChunk
  <2>2. CASE Fits(payload(b), 0, size, al)
    <3>1. payload(b) \in Blocks /\ 0 \in 0 .. payload(b).len
      <4>1. Inv'
        BY <1>2, AllocInNewChunkSound
      <4>2. buffer' \in Blocks
        BY <4>1, BufferType DEF Inv
      <4>3. payload(b) \in Blocks
        BY <4>2, <2>1 DEF push_chunk
      <4> QED
        BY <4>3 DEF Blocks
    <3>2. (payload(b).base + Start(payload(b), 0, al)) % Effective(al) = 0
      BY <2>2, <3>1, Fitting
    <3> QED
      BY <2>1, <2>2, <3>2 DEF Aligned, Slice
  <2>3. CASE ~Fits(payload(b), 0, size, al)
    BY <2>1, <2>3 DEF Aligned
  <2> QED
    BY <2>2, <2>3
<1>3. ASSUME NEW size \in Sizes, NEW al \in Alignments, Alloc(size, al)
      PROVE  Aligned'
  <2>1. size \in Nat \ {0} /\ al \in Nat
    BY ArenaAssumption
  <2> QED
    BY <2>1, <1>1, <1>2, <1>3 DEF Alloc
<1>4. ASSUME NEW s \in live, NEW n \in Sizes, Realloc(s, n)
      PROVE  Aligned'
  <2>1. n \in Nat \ {0} /\ s.al \in Nat
    BY ArenaAssumption DEF Inv, Typed, Slices
  <2> QED
    BY <2>1, <1>1, <1>2, <1>4 DEF Realloc
<1>5. ASSUME NEW s \in live, NEW n \in Sizes, Resize(s, n)
      PROVE  Aligned'
  BY <1>5 DEF Resize, Aligned, Slice
<1>6. CASE live' \subseteq live
  BY <1>6 DEF Aligned
<1>7. (\E s \in live : Dealloc(s)) \/ Reset \/ Deinit \/ TempBegin \/ TempEnd \/ UNCHANGED vars
        => live' \subseteq live
  BY DEF Dealloc, Reset, Deinit, Emptied, TempBegin, TempEnd, vars
<1> QED
  BY <1>3, <1>4, <1>5, <1>6, <1>7 DEF Next

\* Every slice in use begins at a multiple of the alignment it was asked with.
THEOREM ArenaAligned == Spec => []Aligned
<1>1. Init => Inv /\ Aligned
  BY InitSound DEF Init, Aligned
<1>2. Inv /\ Aligned /\ [Next]_vars => (Inv /\ Aligned)'
  BY StepSound, AlignedStep
<1> QED
  BY <1>1, <1>2, PTL DEF Spec

-----------------------------------------------------------------------------
(* The size of a new chunk. *)

\* Half of an even power of two is one.
LEMMA Half ==
  ASSUME NEW n \in Nat, n > 1, is_power_of_two(n)
  PROVE  \E h \in Nat : n = 2 * h /\ is_power_of_two(h)
<1>1. n % n = 0
  OBVIOUS
<1>2. n % 2 = 0
  BY <1>1 DEF is_power_of_two
<1>3. PICK h \in Nat : n = 2 * h
  BY <1>2
<1>4. ASSUME NEW d \in 2 .. h, h % d = 0
      PROVE  d % 2 = 0
  <2>1. (2 * h) % d = 0
    <3>1. d \in Nat \ {0}
      OBVIOUS
    <3>2. h = d * (h \div d) /\ h \div d \in Nat
      BY <3>1, <1>4
    <3>3. PICK q \in Nat : h = d * q
      BY <3>2
    <3>4. 2 * h = d * (2 * q)
      BY <3>1, <3>3
    <3>5. (d * (2 * q)) % d = 0
      BY <3>1
    <3> QED
      BY <3>4, <3>5
  <2>2. d \in 2 .. n
    BY <1>3
  <2> QED
    BY <1>3, <2>1, <2>2 DEF is_power_of_two
<1> QED
  BY <1>3, <1>4 DEF is_power_of_two

\* Between a power of two and its double there is no other.
LEMMA PowersApart ==
  ASSUME NEW m \in Nat, NEW n \in Nat, is_power_of_two(m), is_power_of_two(n), m < n
  PROVE  2 * m <= n
<1> DEFINE Close == {x \in Nat : is_power_of_two(x) /\ \E y \in Nat : is_power_of_two(y) /\ x < y /\ y < 2 * x}
<1>1. SUFFICES ASSUME Close # {}
               PROVE  FALSE
  <2>1. ~(2 * m <= n) => m \in Close
    OBVIOUS
  <2> HIDE DEF Close
  <2> QED
    BY <2>1
<1>2. PICK x \in Close : \A z \in Close : x <= z
  <2>1. Close \in SUBSET Nat
    OBVIOUS
  <2> HIDE DEF Close
  <2> QED
    BY <1>1, <2>1, MinOfNaturals
<1>3. PICK y \in Nat : is_power_of_two(y) /\ x < y /\ y < 2 * x
  OBVIOUS
<1>4. x \in Nat /\ is_power_of_two(x) /\ x > 1 /\ y > 1
  BY <1>3
<1>5. PICK h \in Nat : x = 2 * h /\ is_power_of_two(h)
  BY <1>4, Half
<1>6. PICK k \in Nat : y = 2 * k /\ is_power_of_two(k)
  BY <1>3, <1>4, Half
<1>7. h < k /\ k < 2 * h /\ h < x
  BY <1>3, <1>4, <1>5, <1>6
<1>8. h \in Close
  BY <1>5, <1>6, <1>7
<1> HIDE DEF Close
<1> QED
  BY <1>2, <1>4, <1>7, <1>8

\* For a proper alignment what push_chunk asks for does not wrap.
LEMMA NeedNotWrapped ==
  ASSUME NEW size \in Nat \ {0}, NEW al \in 0 .. MaxU64, is_power_of_two(Effective(al)),
         size <= MaxU64 - ((al + Header) % (MaxU64 + 1))
  PROVE  Needed(size, al) = size + al + Header
<1>1. MaxU64 \in Nat /\ Header \in Nat /\ 2 * Header <= MaxU64
  BY ArenaAssumption
<1>2. al + Header <= MaxU64
  <2>1. CASE al = 0
    BY <1>1, <2>1
  <2>2. CASE al # 0
    <3>1. 2 * al <= MaxU64 + 1
      BY <2>2, <1>1, ArenaAssumption, PowersApart DEF Effective
    <3> QED
      BY <1>1, <3>1
  <2> QED
    BY <2>1, <2>2
<1>3. (al + Header) % (MaxU64 + 1) = al + Header
  BY <1>1, <1>2
<1>4. size + al + Header \in 0 .. MaxU64
  BY <1>1, <1>2, <1>3
<1>5. (size + al + Header) % (MaxU64 + 1) = size + al + Header
  BY <1>1, <1>4
<1> QED
  BY <1>5 DEF Needed

\* A request fits a block of the size that was asked for it.
LEMMA NeedSuffices ==
  ASSUME NEW p \in Blocks, NEW size \in Nat \ {0}, NEW al \in Nat,
         is_power_of_two(Effective(al)), size + al <= p.len, size + al <= MaxU64
  PROVE  Fits(p, 0, size, al)
<1> DEFINE eff == Effective(al)
           pad == padding_for(p.base, eff)
<1>1. eff \in Nat \ {0} /\ p.base \in Nat /\ p.len \in Nat /\ p.base + 0 = p.base
  BY DEF Effective, Blocks
<1>2. pad \in Nat /\ pad < eff
  BY <1>1 DEF padding_for
<1>3. pad <= al
  BY <1>1, <1>2 DEF Effective
<1>4. Start(p, 0, al) = pad
  BY <1>1, <1>2 DEF Start
<1> HIDE DEF pad, eff
<1> QED
  BY <1>1, <1>2, <1>3, <1>4, ArenaAssumption DEF Fits

\* A chunk taken for a request with a proper alignment holds the slice asked for.
LEMMA NewChunkStep ==
  ASSUME Inv, NEW size \in Sizes, NEW al \in Alignments, is_power_of_two(Effective(al)),
         AllocInNewChunk(size, al, NoSlice)
  PROVE  \E s \in live' : s.size = size /\ Within(s, payload(chunks'[Len(chunks')]))
<1>1. size \in Nat \ {0} /\ al \in 0 .. MaxU64 /\ al \in Nat /\ MaxU64 \in Nat /\ Header \in Nat
  BY ArenaAssumption
<1>2. PICK b \in Acquirable(AcquireSize(size, al)) :
        /\ chunks' = Append(chunks, b) /\ buffer' = payload(b)
        /\ Fits(payload(b), 0, size, al)
             => live' = (live \ {NoSlice})
                          \cup {Slice(payload(b).base + Start(payload(b), 0, al), size, al)}
  BY DEF AllocInNewChunk, push_chunk
<1>3. size <= MaxU64 - ((al + Header) % (MaxU64 + 1))
  BY DEF AllocInNewChunk
<1>4. Needed(size, al) = size + al + Header
  BY <1>1, <1>3, NeedNotWrapped
<1>5. size + al + Header <= MaxU64
  <2>1. Needed(size, al) \in 0 .. MaxU64
    BY <1>1, <1>4 DEF Needed
  <2> QED
    BY <2>1, <1>4
<1>6. b.len \in Nat /\ b.len >= size + al + Header
  <2>1. PICK n : n = AcquireSize(size, al)
    OBVIOUS
  <2>2. n \in Nat \ {0} /\ n >= size + al + Header
    BY <2>1, <1>1, <1>4, ArenaAssumption DEF AcquireSize
  <2>3. b.len = align_forward(n, Page)
    BY <2>1 DEF Acquirable
  <2>4. padding_for(n, Page) \in Nat
    <3>1. n \in Nat /\ Page \in Nat \ {0}
      BY <2>2, ArenaAssumption
    <3> QED
      BY <3>1, Padding
  <2> QED
    BY <2>2, <2>3, <2>4, <1>1 DEF align_forward
<1>7. chunks' # << >> /\ chunks'[Len(chunks')] = b
  BY <1>2 DEF Inv, Chain
<1>8. payload(b) \in Blocks
  <2>1. Inv'
    BY <1>1, AllocInNewChunkSound
  <2> QED
    BY <2>1, <1>2, BufferType DEF Inv
<1>9. Fits(payload(b), 0, size, al)
  <2>1. payload(b).len = b.len - Header
    BY DEF payload
  <2>2. size + al <= payload(b).len /\ size + al <= MaxU64
    BY <2>1, <1>1, <1>5, <1>6
  <2> QED
    BY <2>2, <1>1, <1>8, NeedSuffices
<1>10. PICK s \in live' : s = Slice(payload(b).base + Start(payload(b), 0, al), size, al)
  BY <1>2, <1>9
<1>11. s.size = size /\ s.addr = payload(b).base + Start(payload(b), 0, al)
  BY <1>10 DEF Slice
<1>12. Start(payload(b), 0, al) \in Nat /\ Start(payload(b), 0, al) + size <= payload(b).len
  <2>1. 0 \in 0 .. payload(b).len
    BY <1>8 DEF Blocks
  <2> QED
    BY <2>1, <1>1, <1>8, <1>9, Fitting DEF Blocks
<1>13. Within(s, payload(b))
  BY <1>1, <1>8, <1>11, <1>12 DEF Within, Blocks
<1> QED
  BY <1>7, <1>11, <1>13

\* alloc does not fail, and take memory, when the source has granted it: the chunk
\* holds the slice wherever the kernel mapped it.
THEOREM ArenaNewChunkServes == Spec => NewChunkServes
<1>1. Inv => \A size \in Sizes, al \in Alignments :
               is_power_of_two(Effective(al)) /\ AllocInNewChunk(size, al, NoSlice)
                 => \E s \in live' : s.size = size /\ Within(s, payload(chunks'[Len(chunks')]))
  BY NewChunkStep
<1>2. Spec => []Inv
  BY InitSound, StepSound, PTL DEF Spec
<1> QED
  BY <1>1, <1>2, PTL DEF NewChunkServes

-----------------------------------------------------------------------------
(* The blocks the arena holds. *)

InChain == mapped = {chunks[i] : i \in 1 .. Len(chunks)}

\* The chunks of a chain are different blocks.
LEMMA ChunksDiffer ==
  ASSUME NEW ch, NEW mp, Chain(ch, mp), NEW i \in 1 .. Len(ch), NEW j \in 1 .. Len(ch), i # j
  PROVE  ch[i] # ch[j]
<1>1. ch[i] \in Blocks /\ ch[i].len > Header /\ Disjoint(ch[i].base, ch[i].len, ch[j].base, ch[j].len)
  BY DEF Chain
<1>2. ~Disjoint(ch[i].base, ch[i].len, ch[i].base, ch[i].len)
  BY <1>1, ArenaAssumption DEF Disjoint, Blocks
<1> QED
  BY <1>1, <1>2

LEMMA InChainCounts ==
  ASSUME Inv, InChain
  PROVE  HoldsItsBlocks /\ IsFiniteSet(mapped)
<1> SUFFICES IsFiniteSet(mapped) /\ Cardinality(mapped) = Len(chunks)
  BY DEF InChain, HoldsItsBlocks
<1> DEFINE n == Len(chunks)
           f == [i \in 1 .. n |-> chunks[i]]
<1>1. n \in Nat
  BY DEF Inv, Chain
<1>2. \A i, j \in 1 .. n : f[i] = f[j] => i = j
  BY ChunksDiffer DEF Inv
<1>3. f \in Bijection(1 .. n, mapped)
  BY <1>2 DEF InChain, Bijection, Injection, Surjection, IsInjective
<1>4. ExistsBijection(1 .. n, mapped)
  BY <1>3 DEF ExistsBijection
<1> HIDE DEF n, f
<1>5. IsFiniteSet(1 .. n) /\ Cardinality(1 .. n) = n
  <2>1. IsFiniteSet(1 .. n) /\ Cardinality(1 .. n) = IF 1 > n THEN 0 ELSE n - 1 + 1
    <3>1. 1 \in Int /\ n \in Int
      BY <1>1
    <3> QED
      BY <3>1, FS_Interval, Zenon
  <2> QED
    BY <1>1, <2>1
<1>6. IsFiniteSet(mapped) /\ Cardinality(mapped) = n
  BY <1>4, <1>5, FS_Bijection
<1> QED
  BY <1>6 DEF n

\* Unwinding gives back what it unlinks, and nothing it keeps.
LEMMA InChainUnwound ==
  ASSUME Inv, InChain, NEW n \in 0 .. Len(chunks), Unwind(n)
  PROVE  InChain'
<1>1. /\ chunks' = SubSeq(chunks, 1, n)
      /\ mapped' = mapped \ {chunks[i] : i \in n + 1 .. Len(chunks)}
  BY DEF Unwind
<1>2. Chain(chunks, mapped) /\ Len(chunks) \in Nat
  BY DEF Inv, Chain
<1>3. Len(chunks') = n /\ \A i \in 1 .. n : chunks'[i] = chunks[i]
  BY <1>1, <1>2, Shortens
<1>4. \A i \in 1 .. n, j \in n + 1 .. Len(chunks) : chunks[i] # chunks[j]
  BY <1>2, ChunksDiffer
<1>5. \A i \in 1 .. Len(chunks) : i \in 1 .. n \/ i \in n + 1 .. Len(chunks)
  BY <1>2
<1>6. \A i \in 1 .. n : i \in 1 .. Len(chunks)
  BY <1>2
<1>7. mapped' = {chunks[i] : i \in 1 .. n}
  BY <1>1, <1>4, <1>5, <1>6 DEF InChain
<1> QED
  BY <1>3, <1>7 DEF InChain

LEMMA InChainStep == Inv /\ InChain /\ [Next]_vars => InChain'
<1> SUFFICES ASSUME Inv, InChain, [Next]_vars PROVE InChain'
  OBVIOUS
<1>1. CASE UNCHANGED <<chunks, mapped>>
  BY <1>1 DEF InChain
<1>2. ASSUME NEW size, NEW al, NEW old, AllocInNewChunk(size, al, old)
      PROVE  InChain'
  <2>1. PICK b \in Acquirable(AcquireSize(size, al)) :
          chunks' = Append(chunks, b) /\ mapped' = mapped \cup {b}
    BY <1>2 DEF AllocInNewChunk, push_chunk
  <2>2. /\ Len(chunks') = Len(chunks) + 1 /\ Len(chunks) \in Nat
        /\ chunks'[Len(chunks) + 1] = b /\ \A i \in 1 .. Len(chunks) : chunks'[i] = chunks[i]
    BY <2>1 DEF Inv, Chain
  <2>3. \A i \in 1 .. Len(chunks') : i \in 1 .. Len(chunks) \/ i = Len(chunks) + 1
    BY <2>2
  <2>4. \A i \in 1 .. Len(chunks) : i \in 1 .. Len(chunks')
    BY <2>2
  <2>5. Len(chunks) + 1 \in 1 .. Len(chunks')
    BY <2>2
  <2> QED
    BY <2>1, <2>2, <2>3, <2>4, <2>5 DEF InChain
<1>3. CASE Reset
  <2>1. PICK n \in 0 .. Len(chunks) : Unwind(n)
    <3>1. (IF chunks = << >> THEN 0 ELSE 1) \in 0 .. Len(chunks)
      BY EmptySeq DEF Inv, Chain
    <3> QED
      BY <3>1, <1>3 DEF Reset
  <2> QED
    BY <2>1, InChainUnwound
<1>4. CASE TempEnd
  <2>1. PICK n \in 0 .. Len(chunks) : Unwind(n)
    BY <1>4 DEF TempEnd
  <2> QED
    BY <2>1, InChainUnwound
<1>5. CASE Deinit
  <2>1. chunks' = << >> /\ mapped' = mapped \ {chunks[i] : i \in 1 .. Len(chunks)}
    BY <1>5 DEF Deinit
  <2> QED
    BY <2>1 DEF InChain
<1>6. ASSUME NEW size \in Sizes, NEW al \in Alignments, Alloc(size, al)
      PROVE  InChain'
  BY <1>1, <1>2, <1>6 DEF Alloc, AllocHere
<1>7. ASSUME NEW s \in live, NEW n \in Sizes, Resize(s, n) \/ Realloc(s, n)
      PROVE  InChain'
  BY <1>1, <1>2, <1>7 DEF Resize, Realloc, AllocHere
<1>8. (\E s \in live : Dealloc(s)) \/ TempBegin \/ UNCHANGED vars => UNCHANGED <<chunks, mapped>>
  BY DEF Dealloc, TempBegin, vars
<1> QED
  BY <1>1, <1>3, <1>4, <1>5, <1>6, <1>7, <1>8 DEF Next

-----------------------------------------------------------------------------
(* The size of a finite set of blocks.  Capacity adds them up in an order of *)
(* its own; these lemmas say that it can be any.  The inductions go by a     *)
(* smallest set for which something fails.                                   *)

Pick(s) == CHOOSE x \in s : TRUE

\* The recursion behind Capacity, as a property of functions on the subsets of A.
IsSum(g, A) ==
  g = [s \in SUBSET A |-> IF s = {} THEN 0 ELSE Pick(s).len + g[s \ {Pick(s)}]]

Sums(A) == CHOOSE g : IsSum(g, A)

LEMMA CapacityBySums == ASSUME NEW S PROVE Capacity(S) = Sums(S)[S]
BY DEF Capacity, MapThenSumSet, MapThenFoldSet, Sums, IsSum, Pick

\* Solutions of the recursion agree where both are defined.
LEMMA SumsAgree ==
  ASSUME NEW A, NEW B, NEW g, NEW h, IsSum(g, A), IsSum(h, B),
         NEW S, IsFiniteSet(S), S \subseteq A, S \subseteq B
  PROVE  g[S] = h[S]
<1> DEFINE Bad == {s \in SUBSET S : g[s] # h[s]}
<1> SUFFICES ASSUME Bad # {} PROVE FALSE
  OBVIOUS
<1>1. PICK T \in Bad : \A U \in Bad : ~(U \subseteq T /\ U # T)
  <2>1. Bad \subseteq SUBSET S
    OBVIOUS
  <2> HIDE DEF Bad
  <2> QED
    BY <2>1, SmallestSet
<1>2. T \subseteq A /\ T \subseteq B /\ g[T] # h[T]
  OBVIOUS
<1>3. g[T] = IF T = {} THEN 0 ELSE Pick(T).len + g[T \ {Pick(T)}]
  BY <1>2 DEF IsSum
<1>4. h[T] = IF T = {} THEN 0 ELSE Pick(T).len + h[T \ {Pick(T)}]
  BY <1>2 DEF IsSum
<1>5. T # {}
  BY <1>2, <1>3, <1>4
<1>6. Pick(T) \in T
  BY <1>5 DEF Pick
<1>7. T \ {Pick(T)} \notin Bad
  BY <1>1, <1>6
<1>8. g[T \ {Pick(T)}] = h[T \ {Pick(T)}]
  BY <1>7, <1>2
<1> QED
  BY <1>2, <1>3, <1>4, <1>8

LEMMA SumsExist ==
  ASSUME NEW A, IsFiniteSet(A)
  PROVE  IsSum(Sums(A), A)
<1> DEFINE Bad == {s \in SUBSET A : ~IsSum(Sums(s), s)}
<1> SUFFICES ASSUME Bad # {} PROVE FALSE
  OBVIOUS
<1>1. PICK T \in Bad : \A U \in Bad : ~(U \subseteq T /\ U # T)
  <2>1. Bad \subseteq SUBSET A
    OBVIOUS
  <2> HIDE DEF Bad
  <2> QED
    BY <2>1, SmallestSet
<1>2. T \subseteq A /\ ~IsSum(Sums(T), T) /\ IsFiniteSet(T)
  BY FS_Subset
<1>3. \A u \in SUBSET T : u # T => IsSum(Sums(u), u) /\ IsFiniteSet(u)
  BY <1>1, <1>2, FS_Subset
<1> DEFINE G == [s \in SUBSET T |->
                   IF s = {} THEN 0 ELSE Pick(s).len + Sums(s \ {Pick(s)})[s \ {Pick(s)}]]
<1> HIDE DEF Bad
<1>4. ASSUME NEW u \in SUBSET T, u # T
      PROVE  G[u] = Sums(u)[u]
  <2>1. IsSum(Sums(u), u) /\ u \in SUBSET u
    BY <1>3, <1>4
  <2>2. Sums(u)[u] = IF u = {} THEN 0 ELSE Pick(u).len + Sums(u)[u \ {Pick(u)}]
    BY <2>1 DEF IsSum
  <2>3. CASE u = {}
    BY <2>2, <2>3
  <2>4. CASE u # {}
    <3>1. PICK v : v = u \ {Pick(u)}
      OBVIOUS
    <3>2. Pick(u) \in u
      BY <2>4 DEF Pick
    <3>3. v \in SUBSET T /\ v # T /\ v \subseteq u
      BY <3>1, <3>2
    <3>4. IsSum(Sums(v), v) /\ IsFiniteSet(v)
      BY <1>3, <3>3
    <3>5. Sums(v)[v] = Sums(u)[v]
      BY <2>1, <3>3, <3>4, SumsAgree
    <3> QED
      BY <2>2, <2>4, <3>1, <3>5
  <2> QED
    BY <2>3, <2>4
<1>5. ASSUME NEW s \in SUBSET T, s # {}
      PROVE  G[s \ {Pick(s)}] = Sums(s \ {Pick(s)})[s \ {Pick(s)}]
  <2>1. Pick(s) \in s
    BY <1>5 DEF Pick
  <2>2. s \ {Pick(s)} \in SUBSET T /\ s \ {Pick(s)} # T
    BY <2>1
  <2> HIDE DEF G
  <2> QED
    BY <2>2, <1>4
<1>6. \A s \in SUBSET T : (IF s = {} THEN 0 ELSE Pick(s).len + Sums(s \ {Pick(s)})[s \ {Pick(s)}])
                          = (IF s = {} THEN 0 ELSE Pick(s).len + G[s \ {Pick(s)}])
  <2> HIDE DEF G
  <2> QED
    BY <1>5
<1>7. G = [s \in SUBSET T |-> IF s = {} THEN 0 ELSE Pick(s).len + G[s \ {Pick(s)}]]
  <2>1. PICK H : H = G
    OBVIOUS
  <2>2. H = [s \in SUBSET T |-> IF s = {} THEN 0 ELSE Pick(s).len + H[s \ {Pick(s)}]]
    BY <1>6, <2>1
  <2> QED
    BY <2>1, <2>2
<1> HIDE DEF G
<1>8. IsSum(G, T)
  BY <1>7 DEF IsSum
<1>9. IsSum(Sums(T), T)
  BY <1>8 DEF Sums
<1> QED
  BY <1>2, <1>9

\* One step of the recursion.
LEMMA CapacityStep ==
  ASSUME NEW S, IsFiniteSet(S)
  PROVE  Capacity(S) = IF S = {} THEN 0 ELSE Pick(S).len + Capacity(S \ {Pick(S)})
<1>1. IsSum(Sums(S), S) /\ S \in SUBSET S
  BY SumsExist
<1>2. Sums(S)[S] = IF S = {} THEN 0 ELSE Pick(S).len + Sums(S)[S \ {Pick(S)}]
  BY <1>1 DEF IsSum
<1>3. PICK U : U = S \ {Pick(S)}
  OBVIOUS
<1>4. IsFiniteSet(U) /\ U \subseteq S /\ U \subseteq U
  BY <1>3, FS_Subset
<1>5. Sums(S)[U] = Sums(U)[U]
  BY <1>1, <1>4, SumsExist, SumsAgree
<1> QED
  BY <1>2, <1>3, <1>5, CapacityBySums

LEMMA CapacityType ==
  ASSUME NEW S \in SUBSET Blocks, IsFiniteSet(S)
  PROVE  Capacity(S) \in Nat
<1> DEFINE Bad == {s \in SUBSET S : Capacity(s) \notin Nat}
<1> SUFFICES ASSUME Bad # {} PROVE FALSE
  OBVIOUS
<1>1. PICK T \in Bad : \A U \in Bad : ~(U \subseteq T /\ U # T)
  <2>1. Bad \subseteq SUBSET S
    OBVIOUS
  <2> HIDE DEF Bad
  <2> QED
    BY <2>1, SmallestSet
<1>2. T \subseteq S /\ Capacity(T) \notin Nat /\ IsFiniteSet(T)
  BY FS_Subset
<1>3. Capacity(T) = IF T = {} THEN 0 ELSE Pick(T).len + Capacity(T \ {Pick(T)})
  BY <1>2, CapacityStep
<1>4. Pick(T) \in T
  BY <1>2, <1>3 DEF Pick
<1>5. Capacity(T \ {Pick(T)}) \in Nat
  BY <1>1, <1>2, <1>4
<1>6. Pick(T).len \in Nat
  BY <1>2, <1>4 DEF Blocks
<1> QED
  BY <1>2, <1>3, <1>5, <1>6

\* Any block may be the one that is added last.
LEMMA CapacityAdds ==
  ASSUME NEW S \in SUBSET Blocks, IsFiniteSet(S), NEW b \in S
  PROVE  Capacity(S) = b.len + Capacity(S \ {b})
<1> DEFINE Bad == {s \in SUBSET S : \E x \in s : Capacity(s) # x.len + Capacity(s \ {x})}
<1> SUFFICES ASSUME Bad # {} PROVE FALSE
  OBVIOUS
<1>1. PICK T \in Bad : \A U \in Bad : ~(U \subseteq T /\ U # T)
  <2>1. Bad \subseteq SUBSET S
    OBVIOUS
  <2> HIDE DEF Bad
  <2> QED
    BY <2>1, SmallestSet
<1>2. T \subseteq S /\ IsFiniteSet(T)
  BY FS_Subset
<1>3. PICK x \in T : Capacity(T) # x.len + Capacity(T \ {x})
  OBVIOUS
<1>4. PICK y \in T : Capacity(T) = y.len + Capacity(T \ {y})
  <2>1. Pick(T) \in T
    BY <1>3 DEF Pick
  <2> QED
    BY <2>1, <1>2, CapacityStep
<1>5. x # y
  BY <1>3, <1>4
<1>6. \A U \in SUBSET T : U # T => \A z \in U : Capacity(U) = z.len + Capacity(U \ {z})
  BY <1>1, <1>2
<1> HIDE DEF Bad
<1>7. Capacity(T \ {y}) = x.len + Capacity((T \ {y}) \ {x})
  BY <1>5, <1>6
<1>8. Capacity(T \ {x}) = y.len + Capacity((T \ {x}) \ {y})
  BY <1>5, <1>6
<1>9. (T \ {x}) \ {y} = (T \ {y}) \ {x}
  OBVIOUS
<1>10. x.len \in Nat /\ y.len \in Nat
  BY <1>2 DEF Blocks
<1>11. Capacity((T \ {y}) \ {x}) \in Nat
  <2>1. IsFiniteSet((T \ {y}) \ {x}) /\ (T \ {y}) \ {x} \in SUBSET Blocks
    BY <1>2, FS_Subset
  <2> QED
    BY <2>1, CapacityType
<1> DEFINE c == Capacity((T \ {y}) \ {x})
<1>12. Capacity(T) = y.len + (x.len + c) /\ Capacity(T \ {x}) = y.len + c
  BY <1>4, <1>7, <1>8, <1>9
<1>13. c \in Nat
  BY <1>11
<1> HIDE DEF c
<1> QED
  BY <1>3, <1>10, <1>12, <1>13

\* What is taken away from a set is taken off its size.
LEMMA CapacitySplits ==
  ASSUME NEW S \in SUBSET Blocks, IsFiniteSet(S), NEW R \in SUBSET S
  PROVE  Capacity(S \ R) = Capacity(S) - Capacity(R)
<1> DEFINE Bad == {s \in SUBSET R : Capacity(S \ s) # Capacity(S) - Capacity(s)}
<1> SUFFICES ASSUME Bad # {} PROVE FALSE
  OBVIOUS
<1>1. PICK T \in Bad : \A U \in Bad : ~(U \subseteq T /\ U # T)
  <2>1. Bad \subseteq SUBSET R /\ IsFiniteSet(R)
    BY FS_Subset
  <2> HIDE DEF Bad
  <2> QED
    BY <2>1, SmallestSet
<1>2. T \subseteq R /\ IsFiniteSet(T) /\ Capacity(S \ T) # Capacity(S) - Capacity(T)
  BY FS_Subset
<1>3. Capacity(S) \in Nat
  BY CapacityType
<1>4. T # {}
  <2>1. Capacity({}) = 0
    BY CapacityStep, FS_EmptySet
  <2> SUFFICES ASSUME T = {} PROVE FALSE
    OBVIOUS
  <2>2. Capacity(T) = 0
    BY <2>1
  <2>3. S \ T = S
    OBVIOUS
  <2> QED
    BY <1>2, <1>3, <2>2, <2>3
<1>5. PICK x \in T : TRUE
  BY <1>4
<1>6. Capacity(S \ (T \ {x})) = Capacity(S) - Capacity(T \ {x})
  BY <1>1, <1>2
<1> HIDE DEF Bad
<1>7. Capacity(T) = x.len + Capacity(T \ {x})
  BY <1>2, CapacityAdds
<1>8. Capacity(S \ (T \ {x})) = x.len + Capacity(S \ T)
  <2>1. PICK U : U = S \ (T \ {x})
    OBVIOUS
  <2>2. U \in SUBSET Blocks /\ IsFiniteSet(U) /\ x \in U /\ U \ {x} = S \ T
    BY <2>1, <1>2, FS_Subset
  <2>3. Capacity(U) = x.len + Capacity(U \ {x})
    BY <2>2, CapacityAdds
  <2> QED
    BY <2>1, <2>2, <2>3
<1>9. Capacity(S \ T) \in Nat /\ Capacity(T \ {x}) \in Nat /\ x.len \in Nat
  <2>1. S \ T \in SUBSET Blocks /\ IsFiniteSet(S \ T)
    BY FS_Subset
  <2>2. T \ {x} \in SUBSET Blocks /\ IsFiniteSet(T \ {x}) /\ x \in Blocks
    BY <1>2, FS_Subset
  <2> QED
    BY <2>1, <2>2, CapacityType DEF Blocks
<1> QED
  BY <1>2, <1>3, <1>6, <1>7, <1>8, <1>9

\* total_allocated is the size of what the source has handed out.
Totals == InChain /\ total = Capacity(mapped)

\* The blocks of a chain are finitely many.
LEMMA ChainFinite ==
  ASSUME Inv, InChain
  PROVE  mapped \in SUBSET Blocks /\ IsFiniteSet(mapped)
  BY InChainCounts DEF Inv, Chain

\* Unwinding takes the size of what is given back off the total.
LEMMA TotalUnwound ==
  ASSUME Inv, Totals, NEW n \in 0 .. Len(chunks), Unwind(n)
  PROVE  Totals'
<1> DEFINE R == {chunks[i] : i \in n + 1 .. Len(chunks)}
<1>1. total' = total - Capacity(R) /\ mapped' = mapped \ R
  BY DEF Unwind
<1>2. R \in SUBSET mapped
  <2>1. \A i \in n + 1 .. Len(chunks) : i \in 1 .. Len(chunks)
    BY DEF Inv, Chain
  <2> QED
    BY <2>1 DEF Totals, InChain
<1> HIDE DEF R
<1>3. Capacity(mapped \ R) = Capacity(mapped) - Capacity(R)
  BY <1>2, ChainFinite, CapacitySplits DEF Totals
<1> QED
  BY <1>1, <1>3, InChainUnwound DEF Totals

LEMMA TotalStep == Inv /\ Totals /\ [Next]_vars => Totals'
<1> SUFFICES ASSUME Inv, Totals, [Next]_vars PROVE Totals'
  OBVIOUS
<1>0. InChain'
  BY InChainStep DEF Totals
<1>1. CASE UNCHANGED <<total, mapped>>
  BY <1>0, <1>1 DEF Totals
<1>2. ASSUME NEW size \in Nat \ {0}, NEW al \in Nat, NEW old \in live \cup {NoSlice},
             AllocInNewChunk(size, al, old)
      PROVE  Totals'
  <2>1. PICK b \in Acquirable(AcquireSize(size, al)) :
          total' = total + b.len /\ chunks' = Append(chunks, b) /\ mapped' = mapped \cup {b}
    BY <1>2 DEF AllocInNewChunk, push_chunk
  <2>2. Inv'
    BY <1>2, AllocInNewChunkSound
  <2>3. b \notin mapped
    <3>1. SUFFICES ASSUME b \in mapped PROVE FALSE
      OBVIOUS
    <3>2. Disjoint(b.base, b.len, b.base, b.len)
      BY <3>1 DEF Acquirable
    <3>3. PICK i \in 1 .. Len(chunks) : b = chunks[i]
      BY <3>1 DEF Totals, InChain
    <3>4. b \in Blocks /\ b.len > Header
      BY <3>3 DEF Inv, Chain
    <3> QED
      BY <3>2, <3>4, ArenaAssumption DEF Disjoint, Blocks
  <2>4. mapped' \in SUBSET Blocks /\ IsFiniteSet(mapped')
    <3>1. mapped' \subseteq Blocks
      BY <2>2 DEF Inv, Chain
    <3>2. IsFiniteSet(mapped \cup {b})
      BY ChainFinite, FS_AddElement DEF Totals
    <3> QED
      BY <2>1, <3>1, <3>2
  <2>5. Capacity(mapped') = b.len + Capacity(mapped' \ {b})
    BY <2>1, <2>4, CapacityAdds
  <2>6. mapped' \ {b} = mapped
    BY <2>1, <2>3
  <2>7. Capacity(mapped) \in Nat /\ b.len \in Nat
    BY <2>1, <2>4, ChainFinite, CapacityType DEF Totals, Blocks
  <2>8. Capacity(mapped') = Capacity(mapped) + b.len
    BY <2>5, <2>6, <2>7
  <2> QED
    BY <1>0, <2>1, <2>8 DEF Totals
<1>3. CASE Reset
  <2>1. PICK n \in 0 .. Len(chunks) : Unwind(n)
    <3>1. (IF chunks = << >> THEN 0 ELSE 1) \in 0 .. Len(chunks)
      BY EmptySeq DEF Inv, Chain
    <3> QED
      BY <3>1, <1>3 DEF Reset
  <2> QED
    BY <2>1, TotalUnwound
<1>4. CASE TempEnd
  <2>1. PICK n \in 0 .. Len(chunks) : Unwind(n)
    BY <1>4 DEF TempEnd
  <2> QED
    BY <2>1, TotalUnwound
<1>5. CASE Deinit
  <2>1. total' = 0 /\ mapped' = mapped \ {chunks[i] : i \in 1 .. Len(chunks)}
    BY <1>5 DEF Deinit
  <2>2. mapped' = {}
    BY <2>1 DEF Totals, InChain
  <2>3. Capacity({}) = 0
    BY FS_EmptySet, CapacityStep
  <2> QED
    BY <1>0, <2>1, <2>2, <2>3 DEF Totals
<1>6. ASSUME NEW size \in Sizes, NEW al \in Alignments, Alloc(size, al)
      PROVE  Totals'
  <2>1. size \in Nat \ {0} /\ al \in Nat
    BY ArenaAssumption
  <2> QED
    BY <1>1, <1>2, <1>6, <2>1 DEF Alloc, AllocHere
<1>7. ASSUME NEW s \in live, NEW n \in Sizes, Resize(s, n) \/ Realloc(s, n)
      PROVE  Totals'
  <2>1. n \in Nat \ {0} /\ s.al \in Nat
    BY ArenaAssumption DEF Inv, Typed, Slices
  <2> QED
    BY <1>1, <1>2, <1>7, <2>1 DEF Resize, Realloc, AllocHere
<1>8. (\E s \in live : Dealloc(s)) \/ TempBegin \/ UNCHANGED vars => UNCHANGED <<total, mapped>>
  BY DEF Dealloc, TempBegin, vars
<1> QED
  BY <1>1, <1>3, <1>4, <1>5, <1>6, <1>7, <1>8 DEF Next

\* The arena has in its chain what the source has handed out and not got back,
\* each block once, and total_capacity is its size, in any order of calls.
THEOREM ArenaAccounting == Spec => []Accounting
<1>1. Init => Inv /\ Totals
  <2>1. Capacity({}) = 0
    BY FS_EmptySet, CapacityStep
  <2> QED
    BY <2>1, InitSound DEF Init, Totals, InChain
<1>2. Inv /\ Totals /\ [Next]_vars => (Inv /\ Totals)'
  BY StepSound, TotalStep
<1>3. Inv /\ Totals => Accounting
  BY InChainCounts DEF Totals, Accounting
<1> QED
  BY <1>1, <1>2, <1>3, PTL DEF Spec
=============================================================================
