-------------------------------- MODULE AuxRing --------------------------------
(***************************************************************************)
(* The AUX area and its iterator: the AUX Rb::lending_pop                  *)
(* (src/src/sample/auxiliary/rb.rs), which pops raw bytes instead of       *)
(* records, the CowChunk it lends (sample/rb/cow.rs) and the AUX           *)
(* CowIter::next (auxiliary/iter/cow.rs).                                  *)
(*                                                                         *)
(* As in RecordRing a byte is its offset in the stream.  There is one      *)
(* iterator.  The tracing hardware and the kernel are external.            *)
(***************************************************************************)
EXTENDS Integers, Sequences

CONSTANTS Size,       \* alloc.len(): bytes of the AUX area
          Bursts,     \* how many bytes the hardware may trace before a publish
          Limits,     \* max_chunk_len of a call; None is Unlimited
          Unlimited

ASSUME SizeAssumption == Size \in Nat \ {0} /\ \E k \in 0..Size : Size = 2^k

ASSUME BurstAssumption == Bursts \subseteq Nat \ {0}

\* NonZeroUsize, or None.
ASSUME LimitAssumption == Limits \subseteq (Nat \ {0}) \cup {Unlimited} /\ Unlimited \notin Nat

VARIABLES aux_head,   \* metadata.aux_head, not masked
          aux_tail,   \* metadata.aux_tail
          mem,        \* the AUX area
          written,    \* where the hardware's writing has got to
          pc,         \* where the iterator is in CowIter::next
          chunk,      \* the locals of lending_pop and the CowChunk
          got         \* history: the bytes the closures have seen

trace == <<aux_head, mem, written>>
vars == <<aux_head, aux_tail, mem, written, pc, chunk, got>>

Cells == 0..(Size - 1)

-----------------------------------------------------------------------------
(* The tracing hardware and the kernel (external): one byte is left free.   *)

\* perf_aux_output_begin looks for room only while aux_head, which is not masked, is
\* less than Size ahead of the tail on the page, which is.
Space == IF aux_head - aux_tail < Size
         THEN (aux_tail - aux_head - 1) % Size ELSE 0

HwTrace(n) ==
  /\ written = aux_head
  /\ n <= Space
  /\ written' = aux_head + n
  /\ mem' = [p \in Cells |-> LET o == (p - aux_head) % Size
                             IN  IF o < n THEN aux_head + o ELSE mem[p]]
  /\ UNCHANGED <<aux_head, aux_tail, pc, chunk, got>>

\* The head moves only once the bytes are in place.
Publish ==
  /\ written # aux_head
  /\ aux_head' = written
  /\ UNCHANGED <<aux_tail, mem, written, pc, chunk, got>>

-----------------------------------------------------------------------------
(* Rb::lending_pop.                                                         *)

\* The caller chooses max_chunk_len; `let tail = *self.tail.as_ptr()'.
LoadTail ==
  /\ pc = "idle"
  /\ \E max \in Limits : chunk' = [chunk EXCEPT !.tail = aux_tail, !.max = max]
  /\ pc' = "head"
  /\ UNCHANGED <<trace, aux_tail, got>>

\* Bytes between the tail and the head, which differ.
Available(t, h) == IF t < h THEN h - t ELSE Size + h - t

\* Mutant of Limited: max_chunk_len is not looked at.
LimitedNever(n, max) == n

Limited(n, max) == IF max # Unlimited /\ max < n THEN max ELSE n

\* `& (size - 1)'.
Wrapped(n) == n % Size

\* Mutant of LoadHead: a head behind the tail counts as nothing to read.
LoadHeadUnwrapped ==
  /\ pc = "head"
  /\ LET t == chunk.tail
         h == aux_head % Size
         n == Limited(Available(t, h), chunk.max)
     IN  IF h <= t
         THEN pc' = "idle" /\ UNCHANGED chunk
         ELSE /\ pc' = "take"
              /\ chunk' = [chunk EXCEPT !.len = n, !.new_tail = Wrapped(t + n)]
  /\ UNCHANGED <<trace, aux_tail, got>>

\* The acquire load of the head, and what it says there is to read.
LoadHead ==
  /\ pc = "head"
  /\ LET t == chunk.tail
         h == Wrapped(aux_head)
         n == Limited(Available(t, h), chunk.max)
     IN  IF t = h
         THEN pc' = "idle" /\ UNCHANGED chunk
         ELSE /\ pc' = "take"
              /\ chunk' = [chunk EXCEPT !.len = n, !.new_tail = Wrapped(t + n)]
  /\ UNCHANGED <<trace, aux_tail, got>>

\* d >= 0: the bytes are contiguous and the chunk borrows the area.
Borrow ==
  /\ pc = "take"
  /\ chunk.tail + chunk.len <= Size
  /\ chunk' = [chunk EXCEPT !.cow = "Borrowed", !.buf = <<>>]
  /\ pc' = "closure"
  /\ UNCHANGED <<trace, aux_tail, got>>

\* Mutant of Gather: both parts are copied to the start of the Vec.
GatherOver(t, n) ==
  LET hi == Size - t
      lo == n - hi
  IN  [j \in 1..n |-> IF j <= lo THEN mem[j - 1] ELSE
                      IF j <= hi THEN mem[t + j - 1] ELSE 0]

\* The bytes from t to the end of the area, then the rest from its start.
Gather(t, n) ==
  LET hi == Size - t
  IN  [j \in 1..n |-> IF j <= hi THEN mem[t + j - 1] ELSE mem[j - hi - 1]]

\* d < 0: both parts are copied to a Vec.
CopyOut ==
  /\ pc = "take"
  /\ chunk.tail + chunk.len > Size
  /\ chunk' = [chunk EXCEPT !.cow = "Owned", !.buf = Gather(chunk.tail, chunk.len)]
  /\ pc' = "store"
  /\ UNCHANGED <<trace, aux_tail, got>>

\* After the copy the space is given back at once.
StoreTail ==
  /\ pc = "store"
  /\ aux_tail' = chunk.new_tail
  /\ pc' = "closure"
  /\ UNCHANGED <<trace, chunk, got>>

-----------------------------------------------------------------------------
(* CowIter::next hands the chunk to the closure, which drops it.            *)

\* CowChunk::as_bytes: a borrowed chunk is read from the area now.
AsBytes == IF chunk.cow = "Borrowed"
           THEN [j \in 1..chunk.len |-> mem[chunk.tail + j - 1]]
           ELSE chunk.buf

Closure ==
  /\ pc = "closure"
  /\ got' = got \o AsBytes
  /\ pc' = "drop"
  /\ UNCHANGED <<trace, aux_tail, chunk>>

\* Mutant of DropChunk: an owned chunk gives up to the head back.
DropToHead ==
  /\ pc = "drop"
  /\ aux_tail' = IF chunk.cow = "Borrowed" THEN chunk.new_tail ELSE aux_head % Size
  /\ pc' = "idle"
  /\ UNCHANGED <<trace, chunk, got>>

\* Drop for CowChunk: only a borrowed chunk still has space to give back.
DropChunk ==
  /\ pc = "drop"
  /\ aux_tail' = IF chunk.cow = "Borrowed" THEN chunk.new_tail ELSE aux_tail
  /\ pc' = "idle"
  /\ UNCHANGED <<trace, chunk, got>>

-----------------------------------------------------------------------------
Init ==
  /\ aux_head = 0
  /\ aux_tail = 0
  /\ mem = [p \in Cells |-> -1]
  /\ written = 0
  /\ pc = "idle"
  /\ chunk = [tail |-> 0, max |-> Unlimited, len |-> 0, new_tail |-> 0,
              cow |-> "Owned", buf |-> <<>>]
  /\ got = <<>>

Iter == LoadTail \/ LoadHead \/ Borrow \/ CopyOut \/ StoreTail \/ Closure \/ DropChunk

Next == (\E n \in Bursts : HwTrace(n)) \/ Publish \/ Iter

Spec == Init /\ [][Next]_vars

\* A user who keeps calling next, and a kernel that publishes what was traced.
FairSpec == Spec /\ WF_vars(Publish) /\ WF_vars(Iter)

-----------------------------------------------------------------------------
TypeOK ==
  /\ aux_head \in Nat
  /\ aux_tail \in Cells
  /\ mem \in [Cells -> Int]
  /\ written \in Nat
  /\ pc \in {"idle", "head", "take", "store", "closure", "drop"}
  /\ chunk \in [tail : Cells, max : Limits \cup {Unlimited}, len : Nat, new_tail : Cells,
                cow : {"Borrowed", "Owned"}, buf : Seq(Int)]
  /\ got \in Seq(Int)

\* The offset in the stream of the first byte of the chunk in hand.
Position == IF pc = "drop" THEN Len(got) - chunk.len ELSE Len(got)

\* From lending_pop to the end of its drop, a chunk holds exactly the next
\* bytes of the stream: neither has the hardware traced over a borrowed one,
\* nor was a copied one put together from the wrong parts.  It stays inside
\* what was published, and inside the area when it is borrowed.
HeldIntact ==
  pc \in {"store", "closure", "drop"} =>
    /\ AsBytes = [j \in 1..chunk.len |-> Position + j - 1]
    /\ Position + chunk.len <= aux_head
    /\ chunk.cow = "Borrowed" => chunk.tail + chunk.len <= Size

\* Every call that finds bytes hands over some, and no more than max_chunk_len;
\* a call that finds none has delivered all that was published by then.
NextHandsOver ==
  [][/\ got' # got \/ (pc = "closure" /\ pc' = "drop") =>
          LET n == Len(got') - Len(got)
          IN  n >= 1 /\ (chunk.max # Unlimited => n <= chunk.max)
     /\ pc = "head" /\ pc' = "idle" => Len(got) = aux_head]_vars

\* Only slow iteration keeps the kernel from tracing: whenever the user is up to
\* date, all of the area is free again.
RoomWhenDrained ==
  pc = "idle" /\ Len(got) = written => Space = Size - 1

-----------------------------------------------------------------------------
(* The inductive invariant behind these.                                    *)

\* How far in the stream the space was given back.
Freed == IF pc \in {"closure", "drop"} /\ chunk.cow = "Owned"
         THEN Position + chunk.len ELSE Position

\* The tail is where the space was given back to, and the hardware has not traced
\* past it: every byte from there on is still in its cell.
AreaRight ==
  /\ Freed <= aux_head /\ aux_head <= written /\ written - Freed < Size
  /\ aux_tail = Freed % Size
  /\ \A o \in Freed..(written - 1) : mem[o % Size] = o

\* The chunk is the next bytes, wherever the iterator is.
ChunkRight ==
  /\ Position \in Nat
  /\ pc # "idle" => chunk.tail = Position % Size
  /\ pc \in {"take", "store", "closure", "drop"} =>
       /\ chunk.len >= 1 /\ Position + chunk.len <= aux_head
       /\ chunk.max # Unlimited => chunk.len <= chunk.max
       /\ chunk.new_tail = (Position + chunk.len) % Size
  /\ pc = "store" => chunk.cow = "Owned"
  /\ pc \in {"closure", "drop"} /\ chunk.cow = "Borrowed" => chunk.tail + chunk.len <= Size
  /\ pc \in {"store", "closure", "drop"} /\ chunk.cow = "Owned" =>
       chunk.buf = [j \in 1..chunk.len |-> Position + j - 1]

GotRight == got = [j \in 1..Len(got) |-> j - 1]

IInv == TypeOK /\ AreaRight /\ ChunkRight /\ GotRight

-----------------------------------------------------------------------------
\* Refinement: the AUX area and its iterator are the byte stream.
Stream == INSTANCE ByteStream WITH
  unread    <- [j \in 1..(aux_head - Len(got)) |-> Len(got) + j - 1],
  delivered <- got

\* Every byte published reaches the user, once and in order.
ImplementsStream == Stream!Spec

\* A user who keeps calling next is handed every byte that was published (there are
\* never more: a masked tail ends the tracing).
Delivered == \A k \in 1..(2 * Size) : aux_head >= k ~> Len(got) >= k
=============================================================================
