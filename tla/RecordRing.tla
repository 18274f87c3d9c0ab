------------------------------ MODULE RecordRing ------------------------------
(***************************************************************************)
(* The kernel ring buffer of a Sampler and the record iterators that pop   *)
(* it: Rb::lending_pop (src/src/sample/rb/mod.rs), the CowChunk it lends   *)
(* (rb/cow.rs), CowIter::next (iter/cow.rs) and Sampler::iter, pause and   *)
(* resume (sample/mod.rs).                                                 *)
(*                                                                         *)
(* A byte is identified by its absolute offset in the stream the kernel    *)
(* writes, so a memory cell holds the offset of the byte last written to   *)
(* it.  `& (size - 1)' is % Size, Size being a power of two.  Every access *)
(* to memory shared with the kernel or with another iterator is a step of  *)
(* its own.  The kernel's side is external: it is what lending_pop and the *)
(* comments beside it rely on.                                             *)
(***************************************************************************)
EXTENDS Integers, Sequences

CONSTANTS Size,     \* alloc.len(): bytes of the data area
          Lens,     \* lengths (perf_event_header.size) of the records
          Iters,    \* the iterators alive on this sampler
          MaxRecs   \* bound: records written in a behaviour

ASSUME SizeAssumption == Size \in Nat \ {0} /\ \E k \in 0..Size : Size = 2^k

\* A header is 8 bytes, and a record fits in the ring.
ASSUME LenAssumption == Lens \subseteq 8..(Size - 1)

ASSUME BoundAssumption == MaxRecs \in Nat

VARIABLES data_head,  \* metadata.data_head, never masked by the kernel
          data_tail,  \* metadata.data_tail
          mem,        \* the data area
          log,        \* history: the records published so far
          pend,       \* the record the kernel has written but not published
          paused,     \* output paused by Sampler::pause
          pc,         \* where each iterator is in CowIter::next
          chunk,      \* the locals and the CowChunk of each iterator
          got         \* history: the byte strings the closures have seen

kernel == <<data_head, mem, log, pend, paused>>
vars == <<data_head, data_tail, mem, log, pend, paused, pc, chunk, got>>

Cells == 0..(Size - 1)

\* A record is the stream offset it starts at and its length.
Rec == [at : Nat, len : Lens]

\* The byte string of a record.
Bytes(r) == [j \in 1..r.len |-> r.at + j - 1]

-----------------------------------------------------------------------------
(* The kernel (external).  It leaves one byte free, so that head = tail     *)
(* means empty, and computes the free space from the masked tail.  A record *)
(* that finds no room, or output paused, is lost.                           *)

Space == (data_tail - data_head - 1) % Size

Fill(r) == [p \in Cells |-> LET o == (p - r.at) % Size
                            IN  IF o < r.len THEN r.at + o ELSE mem[p]]

KernelWrite(n) ==
  LET r == [at |-> data_head, len |-> n]
  IN  /\ pend = <<>>
      /\ ~paused
      /\ n <= Space
      /\ Len(log) < MaxRecs
      /\ pend' = <<r>>
      /\ mem' = Fill(r)
      /\ UNCHANGED <<data_head, data_tail, log, paused, pc, chunk, got>>

\* The head moves past the record only once its bytes are in place.
KernelPublish ==
  /\ pend # <<>>
  /\ data_head' = data_head + pend[1].len
  /\ log' = Append(log, pend[1])
  /\ pend' = <<>>
  /\ UNCHANGED <<data_tail, mem, paused, pc, chunk, got>>

\* Sampler::pause and Sampler::resume.
SetOutput(p) ==
  /\ paused' = p
  /\ UNCHANGED <<data_head, data_tail, mem, log, pend, pc, chunk, got>>

-----------------------------------------------------------------------------
(* Rb::lending_pop.                                                         *)

\* `let tail = *self.tail.as_ptr()': a plain read.
LoadTail(i) ==
  /\ pc[i] = "idle"
  /\ chunk' = [chunk EXCEPT ![i].tail = data_tail]
  /\ pc' = [pc EXCEPT ![i] = "head"]
  /\ UNCHANGED <<kernel, data_tail, got>>

\* Mutant of Drained: the test a ring that never wraps would do.
DrainedNoWrap(t) == t >= data_head % Size

Drained(t) == t = data_head % Size

\* The acquire load of the head; None when nothing is unread.
LoadHead(i) ==
  /\ pc[i] = "head"
  /\ pc' = [pc EXCEPT ![i] = IF Drained(chunk[i].tail) THEN "idle" ELSE "take"]
  /\ UNCHANGED <<kernel, data_tail, chunk, got>>

\* Mutant of SizeCells: the wrapped size field is looked up one byte late.
SizeCellsLate(t) ==
  LET d == Size - t
  IN  CASE d > 7 -> <<t + 6, t + 7>>
        [] d < 7 -> <<7 - d, 8 - d>>
        [] d = 7 -> <<t + 6, 0>>

\* The two cells that hold perf_event_header.size of the record at t.
SizeCells(t) ==
  LET d == Size - t
  IN  CASE d > 7 -> <<t + 6, t + 7>>
        [] d < 7 -> <<6 - d, 7 - d>>
        [] d = 7 -> <<t + 6, 0>>

\* The u16 read from those cells.  When they do not hold the two size bytes
\* of one record, the value can be any length.
ChunkLens(t) ==
  LET c == SizeCells(t)
      known == {r \in {log[k] : k \in 1..Len(log)} \cup {pend[k] : k \in 1..Len(pend)} :
                  mem[c[1]] = r.at + 6 /\ mem[c[2]] = r.at + 7}
  IN  IF known = {} THEN Lens ELSE {r.len : r \in known}

NewTail(t, n) == (t + n) % Size

\* Whether a record of n bytes at t does not wrap (d >= 0).
Contiguous(t, n) == t + n <= Size

\* d >= 0: the record is contiguous and the chunk borrows the ring.
Borrow(i) ==
  /\ pc[i] = "take"
  /\ \E n \in ChunkLens(chunk[i].tail) :
       /\ Contiguous(chunk[i].tail, n)
       /\ chunk' = [chunk EXCEPT ![i] =
                      [@ EXCEPT !.len = n, !.new_tail = NewTail(chunk[i].tail, n),
                                !.cow = "Borrowed", !.buf = <<>>]]
  /\ pc' = [pc EXCEPT ![i] = "closure"]
  /\ UNCHANGED <<kernel, data_tail, got>>

\* Mutant of Gather: the second part is not taken from the start of the area.
GatherShifted(t, n) ==
  LET hi == Size - t
  IN  [j \in 1..n |-> IF j <= hi THEN mem[t + j - 1] ELSE mem[j - hi]]

\* The bytes from t to the end of the area, then the rest from its start.
Gather(t, n) ==
  LET hi == Size - t
  IN  [j \in 1..n |-> IF j <= hi THEN mem[t + j - 1] ELSE mem[j - hi - 1]]

\* d < 0: the record wraps and both parts are copied to a Vec.
CopyOut(i) ==
  /\ pc[i] = "take"
  /\ \E n \in ChunkLens(chunk[i].tail) :
       /\ ~Contiguous(chunk[i].tail, n)
       /\ chunk' = [chunk EXCEPT ![i] =
                      [@ EXCEPT !.len = n, !.new_tail = NewTail(chunk[i].tail, n),
                                !.cow = "Owned", !.buf = Gather(chunk[i].tail, n)]]
  /\ pc' = [pc EXCEPT ![i] = "store"]
  /\ UNCHANGED <<kernel, data_tail, got>>

\* After the copy the space is given back at once.
StoreTail(i) ==
  /\ pc[i] = "store"
  /\ data_tail' = chunk[i].new_tail
  /\ pc' = [pc EXCEPT ![i] = "closure"]
  /\ UNCHANGED <<kernel, chunk, got>>

-----------------------------------------------------------------------------
(* CowIter::next hands the chunk to the closure, which drops it.            *)

\* CowChunk::as_bytes: a borrowed chunk is read from the ring now.
AsBytes(i) ==
  LET c == chunk[i]
  IN  IF c.cow = "Borrowed" THEN [j \in 1..c.len |-> mem[c.tail + j - 1]]
                            ELSE c.buf

Closure(i) ==
  /\ pc[i] = "closure"
  /\ got' = Append(got, AsBytes(i))
  /\ pc' = [pc EXCEPT ![i] = "drop"]
  /\ UNCHANGED <<kernel, data_tail, chunk>>

\* Mutant of TailAfterDrop: everything published is given back.
TailAfterDropAll(c) == data_head % Size

\* Drop for CowChunk: only a borrowed chunk still has space to give back.
TailAfterDrop(c) == IF c.cow = "Borrowed" THEN c.new_tail ELSE data_tail

DropChunk(i) ==
  /\ pc[i] = "drop"
  /\ data_tail' = TailAfterDrop(chunk[i])
  /\ pc' = [pc EXCEPT ![i] = "idle"]
  /\ UNCHANGED <<kernel, chunk, got>>

-----------------------------------------------------------------------------
Init ==
  /\ data_head = 0
  /\ data_tail = 0
  /\ mem = [p \in Cells |-> -1]
  /\ log = <<>>
  /\ pend = <<>>
  /\ paused = FALSE
  /\ pc = [i \in Iters |-> "idle"]
  /\ chunk = [i \in Iters |-> [tail |-> 0, len |-> 0, new_tail |-> 0,
                               cow |-> "Owned", buf |-> <<>>]]
  /\ got = <<>>

Kernel == \/ \E n \in Lens : KernelWrite(n)
          \/ KernelPublish

Iter(i) == \/ LoadTail(i) \/ LoadHead(i)
           \/ Borrow(i) \/ CopyOut(i) \/ StoreTail(i)
           \/ Closure(i) \/ DropChunk(i)

Next == \/ Kernel
        \/ \E p \in BOOLEAN : SetOutput(p)
        \/ \E i \in Iters : Iter(i)

Spec == Init /\ [][Next]_vars

\* A user who keeps calling next, and a kernel that finishes what it reserved.
FairSpec == Spec /\ WF_vars(KernelPublish) /\ \A i \in Iters : WF_vars(Iter(i))

-----------------------------------------------------------------------------
TypeOK ==
  /\ data_head \in Nat
  /\ data_tail \in Cells
  /\ mem \in [Cells -> Int]
  /\ log \in Seq(Rec)
  /\ pend \in Seq(Rec) /\ Len(pend) <= 1
  /\ paused \in BOOLEAN
  /\ pc \in [Iters -> {"idle", "head", "take", "store", "closure", "drop"}]
  /\ chunk \in [Iters -> [tail : Cells, len : Nat, new_tail : Cells,
                          cow : {"Borrowed", "Owned"}, buf : Seq(Int)]]
  /\ got \in Seq(Seq(Int))

-----------------------------------------------------------------------------
(* Safety.  All but TypeOK are about a sampler with a single iterator.      *)

\* However many iterators there are, a borrowed chunk stays inside the data
\* area (slice::from_raw_parts in lending_pop).
BorrowInBounds ==
  \A i \in Iters : pc[i] \in {"closure", "drop"} /\ chunk[i].cow = "Borrowed"
                    => chunk[i].tail + chunk[i].len <= Size

\* The number of records whose chunk has been handed out: the one an iterator
\* has in hand counts once its closure has run.
InHand(i) == IF pc[i] = "drop" THEN Len(got) ELSE Len(got) + 1

\* As long as the closure may look at its chunk, from the moment it is made
\* (lending_pop) to the end of its drop, the chunk holds exactly the bytes of
\* the oldest record not yet delivered: the kernel has not written over a
\* borrowed one, and a copied one was put together from the right two parts.
HeldIntact ==
  \A i \in Iters : pc[i] \in {"store", "closure", "drop"} =>
    /\ InHand(i) \in 1..Len(log)
    /\ AsBytes(i) = Bytes(log[InHand(i)])

\* The stream offset that data_tail stands for.
TailPos == data_head - ((data_head - data_tail) % Size)

\* data_tail only ever moves over one whole record, the oldest one still in
\* the ring, and only when its bytes are no longer needed there: a closure is
\* done with them or they were copied (the two stores of new_tail).
GivesBackOneUsedRecord ==
  \E k \in 1..Len(log) :
    /\ log[k].at = TailPos
    /\ data_tail' = (log[k].at + log[k].len) % Size
    /\ \/ k <= Len(got)
       \/ \E i \in Iters : chunk[i].cow = "Owned" /\ chunk[i].buf = Bytes(log[k])

TailAdvances == [][data_tail' # data_tail => GivesBackOneUsedRecord]_vars

\* next returns None only when every record published before its load of the
\* head has been delivered.
NoneOnlyWhenDrained ==
  [][\A i \in Iters : pc[i] = "head" /\ pc'[i] = "idle" => Len(got) = Len(log)]_vars

\* The comment at rb/mod.rs:26: between lending_pop's plain read of the tail
\* and the end of the chunk it makes, nobody else sets the tail.
TailStable ==
  [][\A i \in Iters : pc[i] # "idle" /\ data_tail' # data_tail =>
        pc[i] \in {"store", "drop"} /\ pc'[i] # pc[i]]_vars

(* Refinement: the ring and its iterator implement the record queue.        *)

\* The records published and not yet delivered, as the abstract queue sees them.
Unread == [k \in 1..(Len(log) - Len(got)) |-> Bytes(log[Len(got) + k])]

Queue == INSTANCE RecordQueue WITH
  Records   <- {Bytes([at |-> a, len |-> n]) : a \in 0..(MaxRecs * Size), n \in Lens},
  unread    <- Unread,
  delivered <- got

\* Every record the kernel publishes reaches the user whole, once, in order.
ImplementsQueue == Queue!Spec

\* A user who keeps calling next is handed every record that was published.
Delivered == \A k \in 1..MaxRecs : Len(log) >= k ~> Len(got) >= k

-----------------------------------------------------------------------------
(* The inductive invariant of a sampler with a single iterator.             *)

\* One iterator at a time, as the comment at rb/mod.rs:26 takes for granted.
OneIterator == \E i \in Iters : Iters = {i}

\* How many records have given their space back: those delivered, and one
\* more when a copied record's closure has yet to run, one less when a
\* borrowed chunk has yet to be dropped.
Freed(i) ==
  CASE pc[i] = "closure" /\ chunk[i].cow = "Owned" -> Len(got) + 1
    [] pc[i] = "drop" /\ chunk[i].cow = "Borrowed" -> Len(got) - 1
    [] OTHER -> Len(got)

\* The stream offset where record k starts or will start.
Start(k) == IF k <= Len(log) THEN log[k].at ELSE data_head

\* Where the kernel's writing has got to.
Written == IF pend = <<>> THEN data_head ELSE data_head + pend[1].len

\* Records follow one another in the stream.
LogContiguous ==
  /\ pend # <<>> => pend[1].at = data_head
  /\ \A k \in 1..Len(log) :
       /\ log[k].at + log[k].len = Start(k + 1)
       /\ log[k].at + log[k].len <= data_head
       /\ \A j \in 1..(k - 1) : log[j].at + log[j].len <= log[k].at

\* The tail is at the oldest record that has not been freed, and what was
\* written from there on fits in the ring and is still in its cells.
LiveBytes(i) ==
  LET R == Start(Freed(i) + 1)
  IN  /\ Freed(i) \in 0..Len(log)
      /\ data_tail = R % Size
      /\ R <= data_head
      /\ Written - R < Size
      /\ \A a \in R..(Written - 1) : mem[a % Size] = a

\* What the iterator holds in its locals, step by step.
ChunkOK(i) ==
  LET c == chunk[i]
      r == log[InHand(i)]
  IN  /\ pc[i] # "idle" /\ ~(pc[i] \in {"closure", "drop"} /\ c.cow = "Owned")
           => c.tail = data_tail
      /\ pc[i] \in {"take", "store", "closure", "drop"} => InHand(i) \in 1..Len(log)
      /\ pc[i] \in {"store", "closure", "drop"} =>
           /\ c.len = r.len
           /\ c.new_tail = (r.at + r.len) % Size
           /\ IF c.cow = "Owned" THEN c.buf = Bytes(r)
              ELSE pc[i] # "store" /\ c.tail + c.len <= Size

\* Everything handed to the user is a prefix of what the kernel published.
DeliveredPrefix ==
  /\ Len(got) <= Len(log)
  /\ \A k \in 1..Len(got) : got[k] = Bytes(log[k])

IInv ==
  /\ TypeOK
  /\ LogContiguous
  /\ DeliveredPrefix
  /\ \A i \in Iters : LiveBytes(i) /\ ChunkOK(i)
=============================================================================
