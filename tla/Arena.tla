-------------------------------- MODULE Arena --------------------------------
(***************************************************************************)
(* ArenaAllocator of lib/std/mem/arena.kl with the bump policy of          *)
(* policies/bump.kl, over the page source of source/page.kl.  Callers      *)
(* allocate, resize and release in any order and nest checkpoints; "live"  *)
(* is what they may still use.  A call that returns false changes nothing, *)
(* unless it has taken a chunk first.                                      *)
(***************************************************************************)
EXTENDS Integers, Sequences, FiniteSetsExt

CONSTANTS
  MaxU64,       \* the largest u64
  Header,       \* CHUNK_HEADER_SIZE
  Page,         \* PAGE_SIZE
  ChunkSize,    \* suggested_chunk_size
  Bases,        \* addresses the kernel may map pages at
  Sizes,        \* sizes callers ask for
  Alignments,   \* alignments callers ask for, powers of two or not
  MaxLive,      \* bound on the slices in use
  MaxTemps      \* bound on the open checkpoints

\* No divisor but 1 is odd.
is_power_of_two(al) == al > 0 /\ \A d \in 2 .. al : al % d = 0 => d % 2 = 0

\* Of a u64 the header is far less than a half.
ASSUME ArenaAssumption ==
  /\ MaxU64 \in Nat /\ Header \in Nat /\ Page \in Nat /\ Header < Page
  /\ is_power_of_two(MaxU64 + 1) /\ 2 * Header <= MaxU64
  /\ ChunkSize \in Nat \ {0}
  /\ Bases \subseteq Nat \ {0} /\ Sizes \subseteq 1 .. MaxU64 /\ Alignments \subseteq 0 .. MaxU64

VARIABLES
  chunks,       \* the chain of blocks, the current one last
  buffer,       \* policy.buffer
  offset,       \* policy.offset
  total,        \* total_allocated
  mapped,       \* blocks the source has handed out and not got back
  live,         \* slices in use, each with the number of checkpoints it was made under
  temps,        \* the open checkpoints, the innermost last
  exposed       \* history: a rollback left the offset below its checkpoint

vars == <<chunks, buffer, offset, total, mapped, live, temps, exposed>>

Null == [base |-> 0, len |-> 0]
NoSlice == [addr |-> 0, size |-> 0, al |-> 0, scope |-> 0]

\* An alignment of 0 counts as 1.
Effective(al) == IF al = 0 THEN 1 ELSE al
padding_for(addr, al) == (al - (addr % al)) % al
align_forward(n, al) == n + padding_for(n, al)

payload(b) == [base |-> b.base + Header, len |-> b.len - Header]
Current == IF chunks = << >> THEN Null ELSE chunks[Len(chunks)]

Disjoint(a, m, b, n) == a + m <= b \/ b + n <= a
Within(s, buf) == buf.base <= s.addr /\ s.addr + s.size <= buf.base + buf.len

-----------------------------------------------------------------------------
(* The bump policy. *)

\* Faulty: aligns the offset instead of the address.
StartUnbased(buf, off, al) == off + padding_for(off, Effective(al))

\* Where a slice goes in the buffer: the offset, aligned as an address.
Start(buf, off, al) == off + padding_for(buf.base + off, Effective(al))

Fits(buf, off, size, al) ==
  /\ buf.len > 0 /\ is_power_of_two(Effective(al))
  /\ Start(buf, off, al) <= MaxU64
  /\ size <= MaxU64 - Start(buf, off, al)
  /\ Start(buf, off, al) + size <= buf.len

\* Faulty: any slice of the buffer counts as the most recent one.
IsAny(buf, off, s) == s.size > 0 /\ buf.len > 0 /\ buf.base <= s.addr /\ s.addr < buf.base + off

\* s ends where the free part of the buffer begins.
IsLast(buf, off, s) ==
  /\ s.size > 0 /\ buf.len > 0
  /\ buf.base <= s.addr /\ s.addr < buf.base + off
  /\ s.addr + s.size = buf.base + off

\* The offset after dealloc.
dealloc(buf, off, s) == IF IsLast(buf, off, s) THEN s.addr - buf.base ELSE off

\* policy.restore; restore() of the arena calls it after policy.init, at offset 0.
restore(off, cp) == IF cp <= off THEN cp ELSE off

-----------------------------------------------------------------------------
(* The chain. *)

\* Faulty: leaves no room for the padding.
NeededUnpadded(size, al) == (size + Header) % (MaxU64 + 1)

\* What push_chunk asks for; the sum may wrap only for a useless alignment.
Needed(size, al) == (size + al + Header) % (MaxU64 + 1)

AcquireSize(size, al) == IF Needed(size, al) > ChunkSize THEN Needed(size, al) ELSE ChunkSize

\* Pages the kernel may map for n bytes.
Acquirable(n) ==
  IF n > MaxU64 - (Page - 1) THEN {}
  ELSE {b \in [base : Bases, len : {align_forward(n, Page)}] :
          /\ b.base + b.len <= MaxU64
          /\ \A m \in mapped : Disjoint(b.base, b.len, m.base, m.len)}

\* The size of a set of blocks.
Capacity(S) == MapThenSumSet(LAMBDA b : b.len, S)

push_chunk(b) ==
  /\ chunks' = Append(chunks, b)
  /\ buffer' = payload(b)
  /\ total' = total + b.len
  /\ mapped' = mapped \cup {b}

\* Faulty: forgets to hand back what it unlinks.
UnwindKeepingPages(n) ==
  /\ chunks' = SubSeq(chunks, 1, n)
  /\ buffer' = IF n = 0 THEN Null ELSE payload(chunks[n])
  /\ total' = total - Capacity({chunks[i] : i \in n + 1 .. Len(chunks)})
  /\ UNCHANGED mapped

\* Releases all but the first n chunks and goes on with the n-th.
Unwind(n) ==
  /\ chunks' = SubSeq(chunks, 1, n)
  /\ buffer' = IF n = 0 THEN Null ELSE payload(chunks[n])
  /\ total' = total - Capacity({chunks[i] : i \in n + 1 .. Len(chunks)})
  /\ mapped' = mapped \ {chunks[i] : i \in n + 1 .. Len(chunks)}

Slice(addr, size, al) == [addr |-> addr, size |-> size, al |-> al, scope |-> Len(temps)]

-----------------------------------------------------------------------------
Init ==
  /\ chunks = << >> /\ buffer = Null /\ offset = 0 /\ total = 0 /\ mapped = {}
  /\ live = {} /\ temps = << >> /\ exposed = FALSE

\* self.alloc, then dealloc of the slice the new one replaces.
AllocHere(size, al, old) ==
  /\ Fits(buffer, offset, size, al)
  /\ offset' = dealloc(buffer, Start(buffer, offset, al) + size, old)
  /\ live' = (live \ {old}) \cup {Slice(buffer.base + Start(buffer, offset, al), size, al)}
  /\ UNCHANGED <<chunks, buffer, total, mapped, temps, exposed>>

\* The same in a chunk of its own; an alignment that is no power of two is
\* found out about only when the chunk is there.
AllocInNewChunk(size, al, old) ==
  /\ ~Fits(buffer, offset, size, al)
  /\ size <= MaxU64 - ((al + Header) % (MaxU64 + 1))
  /\ \E b \in Acquirable(AcquireSize(size, al)) :
       /\ push_chunk(b)
       /\ IF Fits(payload(b), 0, size, al)
          THEN /\ offset' = dealloc(payload(b), Start(payload(b), 0, al) + size, old)
               /\ live' = (live \ {old})
                            \cup {Slice(payload(b).base + Start(payload(b), 0, al), size, al)}
          ELSE offset' = 0 /\ UNCHANGED live
  /\ UNCHANGED <<temps, exposed>>

Alloc(size, al) ==
  /\ Cardinality(live) < MaxLive
  /\ AllocHere(size, al, NoSlice) \/ AllocInNewChunk(size, al, NoSlice)

\* The offset after an in-place resize of the last slice, which must fit.
Resized(s, n) == offset + n - s.size

\* In place, alone or as realloc's first attempt.
Resize(s, n) ==
  /\ IsLast(buffer, offset, s)
  /\ n > s.size => n - s.size <= MaxU64 - offset /\ Resized(s, n) <= buffer.len
  /\ offset' = Resized(s, n)
  /\ live' = (live \ {s}) \cup {Slice(s.addr, n, s.al)}
  /\ UNCHANGED <<chunks, buffer, total, mapped, temps, exposed>>

\* realloc when the slice has to move.
Realloc(s, n) ==
  /\ IsLast(buffer, offset, s) => n > s.size /\ Resized(s, n) > buffer.len
  /\ AllocHere(n, s.al, s) \/ AllocInNewChunk(n, s.al, s)

Dealloc(s) ==
  /\ offset' = dealloc(buffer, offset, s)
  /\ live' = live \ {s}
  /\ UNCHANGED <<chunks, buffer, total, mapped, temps, exposed>>

\* Callers use no slice and no checkpoint from before a reset or deinit.
Emptied ==
  /\ offset' = 0
  /\ live' = {} /\ temps' = << >> /\ exposed' = FALSE

Reset == Unwind(IF chunks = << >> THEN 0 ELSE 1) /\ Emptied

Deinit ==
  /\ mapped' = mapped \ {chunks[i] : i \in 1 .. Len(chunks)}
  /\ chunks' = << >> /\ total' = 0 /\ buffer' = Null
  /\ Emptied

TempBegin ==
  /\ Len(temps) < MaxTemps
  /\ temps' = Append(temps, [chunk |-> Current, offset |-> offset])
  /\ UNCHANGED <<chunks, buffer, offset, total, mapped, live, exposed>>

\* Unlinks chunks until the checkpoint's is the current one, or none is left.
\* Checkpoints nest: end() comes in the opposite order of temp_begin().
TempEnd ==
  /\ temps # << >>
  /\ LET t == temps[Len(temps)] IN
     \E n \in 0 .. Len(chunks) :
       /\ IF n = 0 THEN \A i \in 1 .. Len(chunks) : chunks[i] # t.chunk ELSE chunks[n] = t.chunk
       /\ Unwind(n)
       /\ offset' = IF n = 0 THEN 0 ELSE restore(0, t.offset)
       /\ exposed' = (exposed \/ (n > 0 /\ offset' < t.offset))
  /\ live' = {s \in live : s.scope < Len(temps)}
  /\ temps' = SubSeq(temps, 1, Len(temps) - 1)

Next ==
  \/ \E size \in Sizes, al \in Alignments : Alloc(size, al)
  \/ \E s \in live, n \in Sizes : Resize(s, n) \/ Realloc(s, n)
  \/ \E s \in live : Dealloc(s)
  \/ Reset \/ Deinit \/ TempBegin \/ TempEnd

Spec == Init /\ [][Next]_vars

-----------------------------------------------------------------------------
(* Correctness. *)

\* Slices in use lie in the payload of a chunk the arena still holds, and no two
\* share a byte: bump.kl "Carves contiguous slices out of a pre-allocated buffer".
SlicesSound ==
  /\ \A s \in live : \E i \in 1 .. Len(chunks) : Within(s, payload(chunks[i]))
  /\ \A s, u \in live : s = u \/ Disjoint(s.addr, s.size, u.addr, u.size)

\* The same until a rollback has put the offset below its checkpoint, after
\* which what was allocated before temp_begin is handed out again.
SlicesSoundUnlessExposed == exposed \/ SlicesSound

\* A slice begins at a multiple of the alignment it was asked with, wherever its
\* chunk's payload begins, and keeps it when resized.
Aligned == \A s \in live : s.addr % Effective(s.al) = 0

\* The arena holds every block it got and has not given back, each once.
HoldsItsBlocks ==
  /\ mapped = {chunks[i] : i \in 1 .. Len(chunks)}
  /\ Cardinality(mapped) = Len(chunks)

\* And total_capacity is their size.
Accounting == HoldsItsBlocks /\ total = Capacity(mapped)

\* A chunk taken for a request with a proper alignment holds the slice asked for:
\* alloc does not fail, and take memory, when the source has granted it.
NewChunkServes ==
  [][\A size \in Sizes, al \in Alignments :
       is_power_of_two(Effective(al)) /\ AllocInNewChunk(size, al, NoSlice)
         => \E s \in live' : s.size = size /\ Within(s, payload(chunks'[Len(chunks')]))]_vars
=============================================================================
