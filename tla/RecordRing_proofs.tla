--------------------------- MODULE RecordRing_proofs ---------------------------
(* Proofs about RecordRing. *)
EXTENDS RecordRing, NatLemmas, SequenceTheorems, TLAPS

-----------------------------------------------------------------------------
(* Type correctness, for any number of iterators.                           *)

LEMMA SizeFacts == Size \in Nat /\ Size > 0
  BY SizeAssumption

LEMMA LenFacts == \A n \in Lens : n \in Nat /\ n >= 8 /\ n < Size
  BY LenAssumption, SizeFacts

\* A well-typed log and pend make every length lending_pop may read a length
\* of a record.
LEMMA ChunkLensType == ASSUME TypeOK, NEW t PROVE ChunkLens(t) \subseteq Lens
<1> DEFINE R == {log[k] : k \in 1..Len(log)} \cup {pend[k] : k \in 1..Len(pend)}
<1>1. R \subseteq Rec
  BY DEF TypeOK
<1>2. \A r \in R : r.len \in Lens
  BY <1>1 DEF Rec
<1> QED BY <1>2 DEF ChunkLens

LEMMA SpaceCells == \A x \in Int : x % Size \in Cells
  BY SizeFacts, ModRange DEF Cells

\* The type of a chunk, and that only a copied one is about to be freed before
\* its closure runs.
ChunkType == [tail : Cells, len : Nat, new_tail : Cells,
              cow : {"Borrowed", "Owned"}, buf : Seq(Int)]

StoreOwned == \A i \in Iters : pc[i] = "store" => chunk[i].cow = "Owned"

TypeInv == TypeOK /\ BorrowInBounds /\ StoreOwned

LEMMA TypeInit == Init => TypeInv
<1> SUFFICES ASSUME Init PROVE TypeInv OBVIOUS
<1>1. data_head \in Nat /\ data_tail \in Cells /\ mem \in [Cells -> Int]
  BY SizeFacts DEF Init, Cells
<1>2. /\ log \in Seq(Rec) /\ pend \in Seq(Rec) /\ Len(pend) <= 1
      /\ paused \in BOOLEAN /\ got \in Seq(Seq(Int))
  <2>1. paused \in BOOLEAN BY DEF Init
  <2>2. \A S : << >> \in Seq(S) OBVIOUS
  <2>3. log = << >> /\ pend = << >> /\ got = << >> BY DEF Init
  <2>4. Len(pend) <= 1 BY <2>3
  <2> QED BY <2>1, <2>2, <2>3, <2>4
<1>3. chunk \in [Iters -> ChunkType]
  <2>1. 0 \in Cells BY SizeFacts DEF Cells
  <2>2. << >> \in Seq(Int) OBVIOUS
  <2> QED BY <2>1, <2>2 DEF Init, ChunkType
<1>4. pc \in [Iters -> {"idle", "head", "take", "store", "closure", "drop"}]
  BY DEF Init
<1>5. TypeOK
  BY <1>1, <1>2, <1>3, <1>4 DEF TypeOK, ChunkType
<1>6. BorrowInBounds /\ StoreOwned
  BY DEF Init, BorrowInBounds, StoreOwned
<1> QED BY <1>5, <1>6 DEF TypeInv

LEMMA TypeStep == TypeInv /\ [Next]_vars => TypeInv'
<1> SUFFICES ASSUME TypeInv, [Next]_vars PROVE TypeInv'
  OBVIOUS
<1> USE DEF TypeInv
<1>a. TypeOK /\ BorrowInBounds /\ StoreOwned OBVIOUS
<1>1. ASSUME NEW n \in Lens, KernelWrite(n) PROVE TypeInv'
  <2> DEFINE r == [at |-> data_head, len |-> n]
  <2>1. r \in Rec BY <1>a DEF TypeOK, Rec
  <2>2. pend' \in Seq(Rec) /\ Len(pend') <= 1
    BY <1>1, <2>1 DEF KernelWrite
  <2>3. \A p \in Cells : (p - r.at) % Size \in Int
    BY <1>a, SpaceCells DEF TypeOK, Cells
  <2>4. Fill(r) \in [Cells -> Int]
    BY <1>a, <2>3 DEF TypeOK, Fill
  <2>5. mem' \in [Cells -> Int]
    BY <1>1, <2>4 DEF KernelWrite
  <2> QED BY <1>a, <1>1, <2>2, <2>5 DEF TypeOK, BorrowInBounds, StoreOwned, KernelWrite
<1>2. ASSUME KernelPublish PROVE TypeInv'
  <2>1. pend[1] \in Rec
    BY <1>a, <1>2 DEF TypeOK, KernelPublish
  <2>2. pend[1].len \in Nat
    BY <2>1, LenFacts DEF Rec
  <2>3. data_head' \in Nat /\ log' \in Seq(Rec) /\ pend' = << >>
    BY <1>a, <1>2, <2>1, <2>2 DEF TypeOK, KernelPublish
  <2> QED BY <1>a, <1>2, <2>3 DEF TypeOK, BorrowInBounds, StoreOwned, KernelPublish
<1>3. ASSUME NEW p \in BOOLEAN, SetOutput(p) PROVE TypeInv'
  BY <1>a, <1>3 DEF TypeOK, BorrowInBounds, StoreOwned, SetOutput
<1>4. ASSUME NEW i \in Iters, LoadTail(i) PROVE TypeInv'
  BY <1>a, <1>4 DEF TypeOK, BorrowInBounds, StoreOwned, LoadTail, kernel
<1>5. ASSUME NEW i \in Iters, LoadHead(i) PROVE TypeInv'
  BY <1>a, <1>5 DEF TypeOK, BorrowInBounds, StoreOwned, LoadHead, kernel
<1>6. ASSUME NEW i \in Iters, Borrow(i) PROVE TypeInv'
  <2>1. PICK n \in ChunkLens(chunk[i].tail) :
          /\ chunk[i].tail + n <= Size
          /\ chunk' = [chunk EXCEPT ![i] =
                         [@ EXCEPT !.len = n, !.new_tail = NewTail(chunk[i].tail, n),
                                   !.cow = "Borrowed", !.buf = <<>>]]
    BY <1>6 DEF Borrow, Contiguous
  <2>2. n \in Nat BY <1>a, ChunkLensType, LenFacts
  <2>3. chunk[i].tail \in Cells BY <1>a DEF TypeOK
  <2>4. NewTail(chunk[i].tail, n) \in Cells
    BY <2>2, <2>3, SpaceCells DEF NewTail, Cells
  <2>5. << >> \in Seq(Int) OBVIOUS
  <2>6. chunk \in [Iters -> ChunkType] BY <1>a DEF TypeOK, ChunkType
  <2>7. chunk' \in [Iters -> ChunkType]
    BY <2>1, <2>2, <2>4, <2>5, <2>6 DEF ChunkType
  <2>8. chunk'[i].tail = chunk[i].tail /\ chunk'[i].len = n
    BY <2>1, <2>6 DEF ChunkType
  <2>9. \A j \in Iters : j # i => chunk'[j] = chunk[j]
    BY <2>1, <2>6
  <2>10. TypeOK'
    BY <1>a, <1>6, <2>7 DEF TypeOK, ChunkType, Borrow, kernel
  <2>11. pc' = [pc EXCEPT ![i] = "closure"]
    BY <1>6 DEF Borrow
  <2>12. pc \in [Iters -> {"idle", "head", "take", "store", "closure", "drop"}]
    BY <1>a DEF TypeOK
  <2>13. BorrowInBounds' /\ StoreOwned'
    BY <1>a, <2>1, <2>8, <2>9, <2>11, <2>12 DEF BorrowInBounds, StoreOwned
  <2> QED BY <2>10, <2>13
<1>7. ASSUME NEW i \in Iters, CopyOut(i) PROVE TypeInv'
  <2>1. PICK n \in ChunkLens(chunk[i].tail) :
          chunk' = [chunk EXCEPT ![i] =
                         [@ EXCEPT !.len = n, !.new_tail = NewTail(chunk[i].tail, n),
                                   !.cow = "Owned", !.buf = Gather(chunk[i].tail, n)]]
    BY <1>7 DEF CopyOut
  <2>2. n \in Nat /\ n < Size BY <1>a, ChunkLensType, LenFacts
  <2>3. chunk[i].tail \in Cells BY <1>a DEF TypeOK
  <2>4. NewTail(chunk[i].tail, n) \in Cells
    BY <2>2, <2>3, SpaceCells DEF NewTail, Cells
  <2>5. Gather(chunk[i].tail, n) \in Seq(Int)
    <3> DEFINE t == chunk[i].tail
    <3>1. \A j \in 1..n : IF j <= Size - t THEN t + j - 1 \in Cells
                                           ELSE j - (Size - t) - 1 \in Cells
      BY <2>2, <2>3, SizeFacts DEF Cells
    <3>2. \A j \in 1..n : (IF j <= Size - t THEN mem[t + j - 1]
                                            ELSE mem[j - (Size - t) - 1]) \in Int
      BY <1>a, <3>1 DEF TypeOK
    <3> QED BY <2>2, <3>2 DEF Gather
  <2>6. chunk \in [Iters -> ChunkType] BY <1>a DEF TypeOK, ChunkType
  <2>7. chunk' \in [Iters -> ChunkType]
    BY <2>1, <2>2, <2>4, <2>5, <2>6 DEF ChunkType
  <2>8. chunk'[i].cow = "Owned"
    BY <2>1, <2>6 DEF ChunkType
  <2>9. \A j \in Iters : j # i => chunk'[j] = chunk[j]
    BY <2>1, <2>6
  <2>10. TypeOK'
    BY <1>a, <1>7, <2>7 DEF TypeOK, ChunkType, CopyOut, kernel
  <2>11. pc' = [pc EXCEPT ![i] = "store"]
    BY <1>7 DEF CopyOut
  <2>12. pc \in [Iters -> {"idle", "head", "take", "store", "closure", "drop"}]
    BY <1>a DEF TypeOK
  <2>13. BorrowInBounds' /\ StoreOwned'
    BY <1>a, <2>8, <2>9, <2>11, <2>12 DEF BorrowInBounds, StoreOwned
  <2> QED BY <2>10, <2>13
<1>8. ASSUME NEW i \in Iters, StoreTail(i) PROVE TypeInv'
  BY <1>a, <1>8 DEF TypeOK, BorrowInBounds, StoreOwned, StoreTail, kernel
<1>9. ASSUME NEW i \in Iters, Closure(i) PROVE TypeInv'
  <2>1. AsBytes(i) \in Seq(Int)
    <3>1. CASE chunk[i].cow = "Borrowed"
      <4> DEFINE t == chunk[i].tail
                 n == chunk[i].len
      <4>1. t \in Cells /\ n \in Nat
        BY <1>a DEF TypeOK
      <4>2. t + n <= Size
        BY <1>a, <1>9, <3>1 DEF BorrowInBounds, Closure
      <4>3. mem \in [Cells -> Int]
        BY <1>a DEF TypeOK
      <4>4. AsBytes(i) = [j \in 1..n |-> mem[t + j - 1]]
        BY <3>1 DEF AsBytes
      <4> HIDE DEF t, n
      <4>5. \A j \in 1..n : t + j - 1 \in Cells
        BY <4>1, <4>2, SizeFacts DEF Cells
      <4>6. \A j \in 1..n : mem[t + j - 1] \in Int
        BY <4>3, <4>5
      <4> QED BY <4>1, <4>4, <4>6
    <3>2. CASE chunk[i].cow # "Borrowed"
      BY <1>a, <3>2 DEF TypeOK, AsBytes
    <3> QED BY <3>1, <3>2
  <2>2. got' \in Seq(Seq(Int))
    BY <1>a, <1>9, <2>1 DEF TypeOK, Closure
  <2> QED BY <1>a, <1>9, <2>2 DEF TypeOK, BorrowInBounds, StoreOwned, Closure, kernel
<1>10. ASSUME NEW i \in Iters, DropChunk(i) PROVE TypeInv'
  BY <1>a, <1>10 DEF TypeOK, BorrowInBounds, StoreOwned, DropChunk, TailAfterDrop, kernel
<1>11. CASE UNCHANGED vars
  BY <1>a, <1>11 DEF TypeOK, BorrowInBounds, StoreOwned, vars
<1> QED
  BY <1>1, <1>2, <1>3, <1>4, <1>5, <1>6, <1>7, <1>8, <1>9, <1>10, <1>11
     DEF Next, Kernel, Iter

\* Every state of the ring is well-typed, however many iterators pop it.
THEOREM TypeCorrect == Spec => []TypeOK
<1>1. TypeInv => TypeOK BY DEF TypeInv
<1> QED BY <1>1, TypeInit, TypeStep, PTL DEF Spec

\* A borrowed chunk never reaches past the data area, however many iterators
\* pop the ring.
THEOREM BorrowStaysInBounds == Spec => []BorrowInBounds
<1>1. TypeInv => BorrowInBounds BY DEF TypeInv
<1> QED BY <1>1, TypeInit, TypeStep, PTL DEF Spec

-----------------------------------------------------------------------------
(* The inductive invariant of a sampler with a single iterator, it.         *)

Steps == {"idle", "head", "take", "store", "closure", "drop"}

\* What the type invariant says of the parts the proofs below need.
LEMMA Types == ASSUME TypeInv, NEW it \in Iters
               PROVE /\ data_head \in Nat /\ data_tail \in Cells
                     /\ mem \in [Cells -> Int] /\ log \in Seq(Rec)
                     /\ Len(log) \in Nat /\ Len(got) \in Nat
                     /\ got \in Seq(Seq(Int))
                     /\ pend \in Seq(Rec) /\ Len(pend) <= 1
                     /\ pc \in [Iters -> Steps] /\ chunk \in [Iters -> ChunkType]
                     /\ chunk[it] \in ChunkType
                     /\ chunk[it].tail \in Cells /\ chunk[it].len \in Nat
                     /\ chunk[it].new_tail \in Cells
                     /\ chunk[it].cow \in {"Borrowed", "Owned"}
  BY DEF TypeInv, TypeOK, ChunkType, Steps

LEMMA RecFacts == ASSUME NEW r \in Rec
                  PROVE /\ r.at \in Nat /\ r.len \in Lens /\ r.len \in Nat
                        /\ r.len >= 8 /\ r.len < Size
  BY LenFacts DEF Rec

LEMMA LogFacts == ASSUME TypeInv, NEW k \in 1..Len(log)
                  PROVE /\ log[k] \in Rec /\ log[k].at \in Nat /\ log[k].len \in Nat
                        /\ log[k].len >= 8 /\ log[k].len < Size
<1>1. log[k] \in Rec BY DEF TypeInv, TypeOK
<1> QED BY <1>1, RecFacts

LEMMA PendFacts == ASSUME TypeInv, pend # << >>
                   PROVE /\ Len(pend) = 1 /\ pend[1] \in Rec
                         /\ pend[1].at \in Nat /\ pend[1].len \in Nat
                         /\ pend[1].len >= 8 /\ pend[1].len < Size
<1>1. pend \in Seq(Rec) /\ Len(pend) <= 1 BY DEF TypeInv, TypeOK
<1>2. Len(pend) \in Nat \ {0}
  BY ONLY <1>1, EmptySeq, pend # << >>
<1>3. Len(pend) = 1
  <2>1. \A n \in Nat \ {0} : n <= 1 => n = 1 OBVIOUS
  <2> QED BY ONLY <1>1, <1>2, <2>1, Zenon
<1>4. pend[1] \in Rec BY ONLY <1>1, <1>3
<1> QED BY <1>3, <1>4, RecFacts

LEMMA PendIndex == ASSUME TypeInv, NEW j \in 1..Len(pend)
                   PROVE pend # << >> /\ j = 1
<1>1. pend # << >>
  <2>1. SUFFICES ASSUME pend = << >> PROVE FALSE OBVIOUS
  <2>2. Len(pend) = 0 BY <2>1
  <2>3. 1..0 = {} OBVIOUS
  <2> QED BY <2>2, <2>3
<1>2. Len(pend) = 1 BY <1>1, PendFacts
<1>3. \A n : n = 1 => 1..n = {1} OBVIOUS
<1> QED BY <1>1, <1>2, <1>3

LEMMA WrittenFacts == ASSUME TypeInv PROVE Written \in Nat /\ data_head <= Written
<1>1. data_head \in Nat BY DEF TypeInv, TypeOK
<1> QED BY <1>1, PendFacts DEF Written

LEMMA FreedFacts == ASSUME TypeInv, NEW it \in Iters
                    PROVE /\ Freed(it) \in Int
                          /\ pc[it] \in {"idle", "head", "take", "store"} => Freed(it) = Len(got)
                          /\ pc[it] = "closure" /\ chunk[it].cow = "Owned" => Freed(it) = Len(got) + 1
                          /\ pc[it] = "closure" /\ chunk[it].cow = "Borrowed" => Freed(it) = Len(got)
                          /\ pc[it] = "drop" /\ chunk[it].cow = "Owned" => Freed(it) = Len(got)
                          /\ pc[it] = "drop" /\ chunk[it].cow = "Borrowed" => Freed(it) = Len(got) - 1
  BY Types DEF Freed, Steps

\* Start is a position in the stream, at most the head, and moves on by the
\* length of a record.
LEMMA StartFacts == ASSUME TypeInv, LogContiguous, NEW k \in 1..(Len(log) + 1)
                    PROVE /\ Start(k) \in Nat /\ Start(k) <= data_head
                          /\ k \in 1..Len(log) =>
                               /\ Start(k) = log[k].at
                               /\ Start(k + 1) = log[k].at + log[k].len
                               /\ Start(k + 1) <= data_head
<1>1. data_head \in Nat /\ Len(log) \in Nat BY DEF TypeInv, TypeOK
<1>2. CASE k \in 1..Len(log)
  <2>1. log[k].at \in Nat /\ log[k].len \in Nat BY <1>2, LogFacts
  <2>2. log[k].at + log[k].len = Start(k + 1) /\ log[k].at + log[k].len <= data_head
    BY <1>2 DEF LogContiguous
  <2>3. Start(k) = log[k].at BY <1>2 DEF Start
  <2> QED BY <1>1, <2>1, <2>2, <2>3
<1>3. CASE k \notin 1..Len(log)
  BY <1>1, <1>3 DEF Start
<1> QED BY <1>2, <1>3


\* The invariant without its type part, for the one iterator.
Inv1(it) == LogContiguous /\ DeliveredPrefix /\ LiveBytes(it) /\ ChunkOK(it)

LEMMA LiveUnchanged ==
  ASSUME NEW it, LiveBytes(it), UNCHANGED <<data_head, data_tail, mem, log, pend>>,
         Freed(it)' = Freed(it)
  PROVE  LiveBytes(it)'
  BY DEF LiveBytes, Start, Written

LEMMA HistoryUnchanged ==
  ASSUME LogContiguous, DeliveredPrefix, UNCHANGED <<data_head, log, pend, got>>
  PROVE  LogContiguous' /\ DeliveredPrefix'
  BY DEF LogContiguous, DeliveredPrefix, Start, Bytes

-----------------------------------------------------------------------------
(* The kernel's steps.                                                      *)

\* The kernel's space check leaves every byte not yet freed alone.
LEMMA StepKernelWrite ==
  ASSUME TypeInv, NEW it \in Iters, Inv1(it), NEW n \in Lens, KernelWrite(n), TypeInv'
  PROVE  Inv1(it)'
<1> DEFINE r == [at |-> data_head, len |-> n]
           R == Start(Freed(it) + 1)
<1>1. n \in Nat /\ n >= 8 /\ n < Size BY LenFacts
<1>2. Size \in Nat /\ Size > 0 BY SizeFacts
<1>3. /\ UNCHANGED <<data_head, data_tail, log, paused, pc, chunk, got>>
      /\ pend = << >> /\ pend' = <<r>> /\ n <= Space /\ mem' = Fill(r)
  BY DEF KernelWrite
<1>4. Written = data_head /\ Written' = data_head + n
  BY <1>3 DEF Written
<1>5. /\ Freed(it) \in 0..Len(log) /\ data_tail = R % Size /\ R <= data_head
      /\ Written - R < Size /\ \A a \in R..(Written - 1) : mem[a % Size] = a
  BY DEF Inv1, LiveBytes
<1>6. R \in Nat /\ data_head \in Nat /\ mem \in [Cells -> Int]
  <2>1. Len(log) \in Nat /\ LogContiguous BY Types DEF Inv1
  <2>2. Freed(it) + 1 \in 1..(Len(log) + 1) BY <1>5, <2>1
  <2> QED BY <2>1, <2>2, StartFacts, Types
<1> HIDE DEF R
<1>7. Space = R - data_head - 1 + Size
  <2>1. R - data_head - 1 \in Int /\ R - data_head - 1 + Size \in 0..(Size - 1)
    BY <1>2, <1>4, <1>5, <1>6
  <2>2. (R - data_head - 1) % Size = R - data_head - 1 + Size
    BY ONLY <1>2, <2>1, ModSmall
  <2>3. ((R % Size) + (-data_head - 1)) % Size = (R + (-data_head - 1)) % Size
    <3> DEFINE e == -data_head - 1
    <3>1. e \in Int BY <1>6
    <3> HIDE DEF e
    <3>2. R \in Int BY <1>6
    <3>3. ((R % Size) + e) % Size = (R + e) % Size
      BY ONLY <1>2, <3>1, <3>2, ModAdd
    <3> QED BY <3>3 DEF e
  <2>4. R % Size \in Int BY <1>2, <1>6, ModRange
  <2>5. /\ (R % Size) + (-data_head - 1) = (R % Size) - data_head - 1
        /\ R + (-data_head - 1) = R - data_head - 1
    BY <1>6, <2>4
  <2> QED BY <1>5, <2>2, <2>3, <2>5 DEF Space
<1>8. data_head + n - R < Size
  BY <1>1, <1>2, <1>3, <1>6, <1>7
<1>9. ASSUME NEW a \in R..(data_head + n - 1) PROVE mem'[a % Size] = a
  <2> DEFINE p == a % Size
             o == (p - data_head) % Size
  <2>1. a \in Int /\ a - data_head \in Int BY <1>1, <1>6
  <2>2. p \in Cells BY <1>2, <2>1, ModRange DEF Cells
  <2>3. mem'[p] = IF o < n THEN data_head + o ELSE mem[p]
    BY <1>3, <2>2 DEF Fill
  <2>4. o = (a - data_head) % Size
    <3>1. -data_head \in Int BY <1>6
    <3>2. (p + (-data_head)) % Size = (a + (-data_head)) % Size
      BY ONLY <1>2, <2>1, <3>1, ModAdd
    <3>3. p \in Int BY <2>2, <1>2 DEF Cells
    <3>4. p + (-data_head) = p - data_head /\ a + (-data_head) = a - data_head
      BY <1>6, <2>1, <3>3
    <3> QED BY <3>2, <3>4
  <2> HIDE DEF p, o
  <2>5. CASE a >= data_head
    <3>1. a - data_head \in 0..(Size - 1) BY <1>1, <1>2, <1>6, <2>1, <2>5
    <3>2. o = a - data_head BY ONLY <1>2, <2>1, <2>4, <3>1, ModSmall
    <3> QED BY <1>1, <1>6, <2>1, <2>3, <3>2 DEF p
  <2>6. CASE a < data_head
    <3>1. a - data_head + Size \in 0..(Size - 1)
      BY <1>1, <1>2, <1>6, <1>8, <2>1, <2>6
    <3>2. o = a - data_head + Size BY ONLY <1>2, <2>1, <2>4, <3>1, ModSmall
    <3>3. ~(o < n) BY <1>1, <1>2, <1>6, <1>8, <2>1, <3>2
    <3>4. mem[p] = a BY <1>4, <1>5, <1>6, <2>1, <2>6 DEF p
    <3> QED BY <2>3, <3>3, <3>4 DEF p
  <2> QED BY <1>6, <2>1, <2>5, <2>6
<1>10. Freed(it)' = Freed(it) /\ (Start(Freed(it) + 1))' = R
  BY <1>3 DEF Freed, Start, R
<1>11. LiveBytes(it)'
  <2>1. Freed(it)' \in 0..Len(log') BY <1>3, <1>5, <1>10
  <2>2. data_tail' = R % Size /\ R <= data_head' BY <1>3, <1>5
  <2>3. Written' - R < Size BY <1>1, <1>2, <1>4, <1>6, <1>8
  <2>4. \A a \in R..(Written' - 1) : mem'[a % Size] = a BY <1>1, <1>4, <1>6, <1>9
  <2> QED BY <1>10, <2>1, <2>2, <2>3, <2>4 DEF LiveBytes
<1>12. LogContiguous' /\ DeliveredPrefix'
  <2>1. pend'[1].at = data_head' BY <1>3
  <2> QED BY <1>3, <2>1 DEF Inv1, LogContiguous, DeliveredPrefix, Start, Bytes
<1>13. ChunkOK(it)'
  BY <1>3 DEF Inv1, ChunkOK, InHand, Bytes
<1> QED BY <1>11, <1>12, <1>13 DEF Inv1

LEMMA StepKernelPublish ==
  ASSUME TypeInv, NEW it \in Iters, Inv1(it), KernelPublish, TypeInv'
  PROVE  Inv1(it)'
<1>0. PICK L \in Nat : L = Len(log) BY Types
<1> DEFINE q == pend[1]
<1>1. /\ UNCHANGED <<data_tail, mem, paused, pc, chunk, got>>
      /\ data_head' = data_head + q.len /\ log' = Append(log, q) /\ pend' = << >>
      /\ pend # << >>
  BY DEF KernelPublish
<1>2. q \in Rec /\ q.at \in Nat /\ q.len \in Nat /\ q.len >= 8 /\ q.at = data_head
  BY <1>1, PendFacts DEF Inv1, LogContiguous
<1>3. /\ data_head \in Nat /\ L \in Nat /\ log \in Seq(Rec)
      /\ data_head' \in Nat /\ Len(log') = L + 1
      /\ \A k \in 1..L : log'[k] = log[k]
      /\ log'[L + 1] = q
  BY <1>0, <1>1, <1>2, Types
<1> HIDE DEF q
<1>4. Len(log) = L BY <1>0
<1>5. \A k \in 1..(L + 1) : Start(k)' = Start(k)
  BY <1>1, <1>2, <1>3, <1>4 DEF Start
<1>6. Start(L + 2)' = data_head'
  BY <1>3 DEF Start
<1>7. Written' = Written
  BY <1>1 DEF Written, q
<1>8. Freed(it)' = Freed(it)
  BY <1>1 DEF Freed
<1>9. LiveBytes(it)'
  <2>1. Freed(it) \in 0..L BY <1>4 DEF Inv1, LiveBytes
  <2>2. Start(Freed(it) + 1)' = Start(Freed(it) + 1) BY <1>3, <1>5, <1>8, <2>1
  <2>3. Start(Freed(it) + 1) \in Nat /\ Start(Freed(it) + 1) <= data_head
    BY <1>3, <1>4, <2>1, StartFacts DEF Inv1
  <2>4. Start(Freed(it) + 1) <= data_head' BY <1>1, <1>2, <1>3, <2>3
  <2>5. Freed(it)' \in 0..Len(log') BY <1>3, <1>8, <2>1
  <2> QED BY <1>1, <1>7, <1>8, <2>2, <2>4, <2>5 DEF Inv1, LiveBytes
<1>10. LogContiguous'
  <2>1. ASSUME NEW k \in 1..L
        PROVE /\ log'[k].at + log'[k].len = Start(k + 1)'
              /\ log'[k].at + log'[k].len <= data_head'
              /\ \A j \in 1..(k - 1) : log'[j].at + log'[j].len <= log'[k].at
    <3>1. /\ log[k].at + log[k].len = Start(k + 1)
          /\ log[k].at + log[k].len <= data_head
          /\ \A j \in 1..(k - 1) : log[j].at + log[j].len <= log[k].at
      BY <1>4 DEF Inv1, LogContiguous
    <3>2. log[k].at + log[k].len \in Nat BY <1>4, LogFacts
    <3>3. k + 1 \in 1..(L + 1) BY <1>3
    <3>4. Start(k + 1)' = Start(k + 1) BY <1>5, <3>3
    <3>5. \A j \in 1..(k - 1) : log'[j] = log[j] BY <1>3
    <3> QED BY <1>1, <1>2, <1>3, <3>1, <3>2, <3>4, <3>5
  <2>2. /\ log'[L + 1].at + log'[L + 1].len = Start(L + 2)'
        /\ log'[L + 1].at + log'[L + 1].len <= data_head'
    BY <1>1, <1>2, <1>3, <1>6
  <2>3. \A j \in 1..L : log'[j].at + log'[j].len <= log'[L + 1].at
    BY <1>2, <1>3, <1>4 DEF Inv1, LogContiguous
  <2>4. ASSUME NEW k \in 1..Len(log')
        PROVE /\ log'[k].at + log'[k].len = Start(k + 1)'
              /\ log'[k].at + log'[k].len <= data_head'
              /\ \A j \in 1..(k - 1) : log'[j].at + log'[j].len <= log'[k].at
    <3>1. CASE k \in 1..L BY <2>1, <3>1
    <3>2. CASE k = L + 1
      <4>1. k + 1 = L + 2 /\ k - 1 = L BY <1>3, <3>2
      <4> QED BY <2>2, <2>3, <3>2, <4>1
    <3> QED BY <1>3, <3>1, <3>2
  <2> QED BY <1>1, <2>4 DEF LogContiguous
<1>11. DeliveredPrefix'
  <2>1. Len(got) <= L /\ \A k \in 1..Len(got) : got[k] = Bytes(log[k])
    BY <1>4 DEF Inv1, DeliveredPrefix
  <2>2. Len(got) \in Nat BY Types
  <2>3. \A k \in 1..Len(got) : log'[k] = log[k] BY <1>3, <2>1, <2>2
  <2> QED BY <1>1, <1>3, <2>1, <2>2, <2>3 DEF DeliveredPrefix, Bytes
<1>12. ChunkOK(it)'
  <2>1. InHand(it)' = InHand(it) BY <1>1 DEF InHand
  <2>2. pc[it] \in {"take", "store", "closure", "drop"} => InHand(it) \in 1..L
    BY <1>4 DEF Inv1, ChunkOK
  <2>3. pc[it] \in {"take", "store", "closure", "drop"} =>
          /\ InHand(it) \in 1..Len(log')
          /\ log'[InHand(it)] = log[InHand(it)]
    BY <1>3, <2>2
  <2> QED BY <1>1, <2>1, <2>3 DEF Inv1, ChunkOK, Bytes
<1> QED BY <1>9, <1>10, <1>11, <1>12 DEF Inv1

LEMMA StepSetOutput ==
  ASSUME NEW it \in Iters, Inv1(it), NEW p \in BOOLEAN, SetOutput(p)
  PROVE  Inv1(it)'
<1>1. UNCHANGED <<data_head, data_tail, mem, log, pend, pc, chunk, got>>
  BY DEF SetOutput
<1>2. Freed(it)' = Freed(it) BY <1>1 DEF Freed
<1>3. LiveBytes(it)' BY <1>1, <1>2, LiveUnchanged DEF Inv1
<1>4. LogContiguous' /\ DeliveredPrefix' BY <1>1, HistoryUnchanged DEF Inv1
<1>5. ChunkOK(it)' BY <1>1 DEF Inv1, ChunkOK, InHand, Bytes
<1> QED BY <1>3, <1>4, <1>5 DEF Inv1


-----------------------------------------------------------------------------
(* The iterator's steps.                                                    *)

\* The oldest record not yet delivered, when there is one: where it is in the
\* stream and in the ring, and that its bytes are all there.
LEMMA OldestRecord ==
  ASSUME TypeInv, NEW it \in Iters, Inv1(it), NEW k \in 1..Len(log), Freed(it) = k - 1
  PROVE  /\ log[k] \in Rec /\ log[k].at \in Nat /\ log[k].len \in Nat
         /\ log[k].len >= 8 /\ log[k].len < Size
         /\ data_tail = log[k].at % Size
         /\ log[k].at + log[k].len <= data_head
         /\ \A j \in 1..log[k].len : mem[(log[k].at + j - 1) % Size] = log[k].at + j - 1
<1> DEFINE r == log[k]
<1>1. r \in Rec /\ r.at \in Nat /\ r.len \in Nat /\ r.len >= 8 /\ r.len < Size
  BY LogFacts
<1>2. k \in Nat /\ (k - 1) + 1 = k /\ Len(log) \in Nat BY Types
<1>3. Start(Freed(it) + 1) = r.at /\ r.at + r.len <= data_head
  BY <1>2 DEF Start, Inv1, LogContiguous
<1>4. /\ data_tail = r.at % Size
      /\ \A a \in r.at..(Written - 1) : mem[a % Size] = a
  BY <1>3 DEF Inv1, LiveBytes
<1> HIDE DEF r
<1>5. data_head \in Nat /\ Written \in Nat /\ data_head <= Written
  BY Types, WrittenFacts
<1>6. \A j \in 1..r.len : r.at + j - 1 \in r.at..(Written - 1)
  BY <1>1, <1>3, <1>5
<1>7. \A j \in 1..r.len : mem[(r.at + j - 1) % Size] = r.at + j - 1
  BY <1>4, <1>6
<1> QED BY <1>1, <1>3, <1>4, <1>7 DEF r

\* Giving a record's space back moves the tail to the start of the next one,
\* and what is still live stays in place.
LEMMA TailStep ==
  ASSUME TypeInv, NEW it \in Iters, Inv1(it), NEW k \in 1..Len(log), Freed(it) = k - 1,
         UNCHANGED <<data_head, mem, log, pend>>,
         data_tail' = (log[k].at + log[k].len) % Size,
         Freed(it)' = k
  PROVE  LiveBytes(it)'
<1>1. /\ log[k].at \in Nat /\ log[k].len \in Nat /\ k \in Nat /\ Len(log) \in Nat
      /\ data_head \in Nat /\ Written \in Nat
  BY LogFacts, Types, WrittenFacts
<1>2. (k - 1) + 1 = k /\ k \in 1..(Len(log) + 1) BY <1>1
<1> DEFINE S == Start(k + 1)
<1>3. Start(k) = log[k].at /\ S = log[k].at + log[k].len /\ S <= data_head
  BY <1>2, StartFacts DEF Inv1
<1>4. S \in Nat /\ Start(k) <= S BY <1>1, <1>3
<1>5. /\ Written - Start(k) < Size
      /\ \A a \in Start(k)..(Written - 1) : mem[a % Size] = a
  BY <1>2 DEF Inv1, LiveBytes
<1>6. Start(k) \in Nat BY <1>1, <1>3
<1>7. S' = S /\ Written' = Written BY DEF Start, Written
<1> HIDE DEF S
<1>8. Written - S < Size BY <1>1, <1>4, <1>5, <1>6, SizeFacts
<1>9. \A a \in S..(Written - 1) : mem[a % Size] = a
  BY <1>1, <1>4, <1>5, <1>6
<1>10. Start(Freed(it) + 1)' = S BY <1>7 DEF S
<1>11. Freed(it)' \in 0..Len(log') BY <1>1
<1>12. data_tail' = S % Size /\ S <= data_head' BY <1>3
<1>13. Written' - S < Size /\ \A a \in S..(Written' - 1) : mem'[a % Size] = a
  BY <1>7, <1>8, <1>9
<1> QED BY <1>10, <1>11, <1>12, <1>13 DEF LiveBytes

LEMMA StepLoadTail ==
  ASSUME TypeInv, NEW it \in Iters, Inv1(it), LoadTail(it), TypeInv'
  PROVE  Inv1(it)'
<1>1. /\ UNCHANGED <<data_head, data_tail, mem, log, pend, got>>
      /\ pc[it] = "idle" /\ pc' = [pc EXCEPT ![it] = "head"]
      /\ chunk' = [chunk EXCEPT ![it].tail = data_tail]
  BY DEF LoadTail, kernel
<1>2. pc'[it] = "head" /\ chunk'[it].tail = data_tail
  BY <1>1, Types DEF ChunkType
<1>3. Freed(it)' = Freed(it)
  <2>1. Freed(it) = Len(got) BY <1>1, FreedFacts
  <2>2. Freed(it)' = Len(got)' BY <1>2 DEF Freed
  <2> QED BY <1>1, <2>1, <2>2
<1>4. LiveBytes(it)' BY <1>1, <1>3, LiveUnchanged DEF Inv1
<1>5. LogContiguous' /\ DeliveredPrefix' BY <1>1, HistoryUnchanged DEF Inv1
<1>6. ChunkOK(it)' BY <1>1, <1>2 DEF ChunkOK
<1> QED BY <1>4, <1>5, <1>6 DEF Inv1

LEMMA StepLoadHead ==
  ASSUME TypeInv, NEW it \in Iters, Inv1(it), LoadHead(it), TypeInv'
  PROVE  Inv1(it)'
<1>1. /\ UNCHANGED <<data_head, data_tail, mem, log, pend, got, chunk>>
      /\ pc[it] = "head"
      /\ pc' = [pc EXCEPT ![it] = IF Drained(chunk[it].tail) THEN "idle" ELSE "take"]
  BY DEF LoadHead, kernel
<1>2. pc'[it] = IF Drained(chunk[it].tail) THEN "idle" ELSE "take"
  BY <1>1, Types
<1>3. Freed(it) = Len(got) BY <1>1, FreedFacts
<1>4. Freed(it)' = Freed(it)
  <2>1. Freed(it)' = Len(got)' BY <1>2 DEF Freed
  <2> QED BY <1>1, <1>3, <2>1
<1>5. LiveBytes(it)' BY <1>1, <1>4, LiveUnchanged DEF Inv1
<1>6. LogContiguous' /\ DeliveredPrefix' BY <1>1, HistoryUnchanged DEF Inv1
<1>7. ChunkOK(it)'
  <2>1. CASE Drained(chunk[it].tail) BY <1>1, <1>2, <2>1 DEF ChunkOK
  <2>2. CASE ~Drained(chunk[it].tail)
    <3>1. pc'[it] = "take" BY <1>2, <2>2
    <3>2. chunk[it].tail = data_tail BY <1>1 DEF Inv1, ChunkOK
    <3>3. Freed(it) \in 0..Len(log) /\ data_tail = Start(Freed(it) + 1) % Size
      BY DEF Inv1, LiveBytes
    <3>4. Len(log) \in Nat /\ Len(got) \in Nat BY Types
    <3>5. Len(got) # Len(log)
      <4>1. SUFFICES ASSUME Len(got) = Len(log) PROVE FALSE OBVIOUS
      <4>2. Start(Freed(it) + 1) = data_head BY <1>3, <3>4, <4>1 DEF Start
      <4> QED BY <2>2, <3>2, <3>3, <4>2 DEF Drained
    <3>6. Len(got) + 1 \in 1..Len(log) BY <1>3, <3>3, <3>4, <3>5
    <3>7. InHand(it)' = Len(got) + 1 BY <1>1, <3>1 DEF InHand
    <3> QED BY <1>1, <3>1, <3>2, <3>6, <3>7 DEF ChunkOK
  <2> QED BY <2>1, <2>2
<1> QED BY <1>5, <1>6, <1>7 DEF Inv1

LEMMA StepStoreTail ==
  ASSUME TypeInv, NEW it \in Iters, Inv1(it), StoreTail(it), TypeInv'
  PROVE  Inv1(it)'
<1> DEFINE k == Len(got) + 1
<1>1. /\ UNCHANGED <<data_head, mem, log, pend, got, chunk>>
      /\ pc[it] = "store" /\ pc' = [pc EXCEPT ![it] = "closure"]
      /\ data_tail' = chunk[it].new_tail
  BY DEF StoreTail, kernel
<1>2. pc'[it] = "closure" /\ chunk[it].cow = "Owned"
  BY <1>1, Types DEF TypeInv, StoreOwned
<1>3. InHand(it) = k /\ InHand(it)' = k BY <1>1, <1>2 DEF InHand
<1>4. /\ k \in 1..Len(log) /\ chunk[it].len = log[k].len
      /\ chunk[it].new_tail = (log[k].at + log[k].len) % Size
      /\ chunk[it].buf = Bytes(log[k])
  BY <1>1, <1>2, <1>3 DEF Inv1, ChunkOK
<1>5. Freed(it) = k - 1
  <2>1. Len(got) \in Nat BY Types
  <2> QED BY <1>1, <2>1, FreedFacts
<1>6. Freed(it)' = k
  BY <1>1, <1>2 DEF Freed
<1>7. LiveBytes(it)'
  <2>1. PICK m \in 1..Len(log) : m = k BY <1>4
  <2>2. Freed(it) = m - 1 /\ Freed(it)' = m BY <1>5, <1>6, <2>1
  <2>3. data_tail' = (log[m].at + log[m].len) % Size BY <1>1, <1>4, <2>1
  <2> QED BY <1>1, <2>2, <2>3, TailStep
<1>8. LogContiguous' /\ DeliveredPrefix' BY <1>1, HistoryUnchanged DEF Inv1
<1>9. ChunkOK(it)' BY <1>1, <1>2, <1>3, <1>4 DEF ChunkOK, Bytes
<1> QED BY <1>7, <1>8, <1>9 DEF Inv1

LEMMA StepDropChunk ==
  ASSUME TypeInv, NEW it \in Iters, Inv1(it), DropChunk(it), TypeInv'
  PROVE  Inv1(it)'
<1> DEFINE k == Len(got)
<1>1. /\ UNCHANGED <<data_head, mem, log, pend, got, chunk>>
      /\ pc[it] = "drop" /\ pc' = [pc EXCEPT ![it] = "idle"]
      /\ data_tail' = TailAfterDrop(chunk[it])
  BY DEF DropChunk, kernel
<1>2. pc'[it] = "idle" BY <1>1, Types
<1>3. Freed(it)' = k BY <1>1, <1>2 DEF Freed
<1>4. LiveBytes(it)'
  <2>1. CASE chunk[it].cow = "Borrowed"
    <3>1. InHand(it) = k BY <1>1 DEF InHand
    <3>2. PICK m \in 1..Len(log) : m = k
      BY <1>1, <3>1 DEF Inv1, ChunkOK
    <3>3. chunk[it].new_tail = (log[m].at + log[m].len) % Size
      BY <1>1, <3>1, <3>2 DEF Inv1, ChunkOK
    <3>4. Freed(it) = m - 1 BY <1>1, <2>1, <3>2, FreedFacts
    <3>5. data_tail' = (log[m].at + log[m].len) % Size
      BY <1>1, <2>1, <3>3 DEF TailAfterDrop
    <3>6. Freed(it)' = m BY <1>3, <3>2
    <3> QED BY <1>1, <3>4, <3>5, <3>6, TailStep
  <2>2. CASE chunk[it].cow # "Borrowed"
    <3>1. chunk[it].cow = "Owned" BY <2>2, Types
    <3>2. Freed(it) = k BY <1>1, <3>1, FreedFacts
    <3>3. data_tail' = data_tail BY <1>1, <2>2 DEF TailAfterDrop
    <3> QED BY <1>1, <1>3, <3>2, <3>3, LiveUnchanged DEF Inv1
  <2> QED BY <2>1, <2>2
<1>5. LogContiguous' /\ DeliveredPrefix' BY <1>1, HistoryUnchanged DEF Inv1
<1>6. ChunkOK(it)' BY <1>2 DEF ChunkOK
<1> QED BY <1>4, <1>5, <1>6 DEF Inv1


\* The size field is read from the two cells that hold it, at every alignment.
LEMMA SizeCellsRight ==
  ASSUME NEW R \in Nat, Size > 8
  PROVE  SizeCells(R % Size) = <<(R + 6) % Size, (R + 7) % Size>>
<1> DEFINE t == R % Size
<1>1. Size \in Nat /\ Size > 0 /\ R \in Int BY SizeFacts
<1>2. t \in 0..(Size - 1) BY <1>1, ModRange
<1>3. (R + 6) % Size = IF t + 6 < Size THEN t + 6 ELSE t + 6 - Size
  <2>1. 6 \in 0..Size BY <1>1
  <2> QED BY ONLY <1>1, <2>1, CellStep
<1>4. (R + 7) % Size = IF t + 7 < Size THEN t + 7 ELSE t + 7 - Size
  <2>1. 7 \in 0..Size BY <1>1
  <2> QED BY ONLY <1>1, <2>1, CellStep
<1> HIDE DEF t
<1>5. CASE Size - t > 7
  <2>1. SizeCells(t) = <<t + 6, t + 7>> BY <1>1, <1>2, <1>5 DEF SizeCells
  <2>2. t + 6 < Size /\ t + 7 < Size BY <1>1, <1>2, <1>5
  <2> QED BY <1>3, <1>4, <2>1, <2>2 DEF t
<1>6. CASE Size - t < 7
  <2>1. SizeCells(t) = <<6 - (Size - t), 7 - (Size - t)>>
    BY <1>1, <1>2, <1>6 DEF SizeCells
  <2>2. /\ ~(t + 6 < Size) /\ ~(t + 7 < Size)
        /\ 6 - (Size - t) = t + 6 - Size /\ 7 - (Size - t) = t + 7 - Size
    BY <1>1, <1>2, <1>6
  <2> QED BY <1>3, <1>4, <2>1, <2>2 DEF t
<1>7. CASE Size - t = 7
  <2>1. SizeCells(t) = <<t + 6, 0>>
    BY <1>1, <1>2, <1>7 DEF SizeCells
  <2>2. t + 6 < Size /\ ~(t + 7 < Size) /\ t + 7 - Size = 0 BY <1>1, <1>2, <1>7
  <2> QED BY <1>3, <1>4, <2>1, <2>2 DEF t
<1> QED BY <1>1, <1>2, <1>5, <1>6, <1>7

\* The length lending_pop reads is the length of the oldest undelivered record.
LEMMA LengthRead ==
  ASSUME TypeInv, NEW it \in Iters, Inv1(it), NEW k \in 1..Len(log), Freed(it) = k - 1
  PROVE  ChunkLens(data_tail) = {log[k].len}
<1> DEFINE r == log[k]
<1>1. /\ r \in Rec /\ r.at \in Nat /\ r.len \in Nat /\ r.len >= 8 /\ r.len < Size
      /\ data_tail = r.at % Size
      /\ \A j \in 1..r.len : mem[(r.at + j - 1) % Size] = r.at + j - 1
  BY OldestRecord
<1>2. Size > 8 /\ r.at + r.len <= data_head /\ data_head \in Nat
  BY <1>1, SizeFacts, OldestRecord, Types
<1>3. SizeCells(data_tail) = <<(r.at + 6) % Size, (r.at + 7) % Size>>
  BY <1>1, <1>2, SizeCellsRight
<1>4. mem[(r.at + 6) % Size] = r.at + 6 /\ mem[(r.at + 7) % Size] = r.at + 7
  <2>1. 7 \in 1..r.len /\ 8 \in 1..r.len BY <1>1
  <2>2. mem[(r.at + 7 - 1) % Size] = r.at + 7 - 1 /\ mem[(r.at + 8 - 1) % Size] = r.at + 8 - 1
    BY <1>1, <2>1
  <2>3. r.at + 7 - 1 = r.at + 6 /\ r.at + 8 - 1 = r.at + 7 BY <1>1
  <2> QED BY <2>2, <2>3
<1> DEFINE All == {log[j] : j \in 1..Len(log)} \cup {pend[j] : j \in 1..Len(pend)}
           known == {q \in All : /\ mem[SizeCells(data_tail)[1]] = q.at + 6
                                 /\ mem[SizeCells(data_tail)[2]] = q.at + 7}
<1>5. r \in known BY <1>3, <1>4
<1>6. ASSUME NEW q \in known PROVE q = r
  <2>1. q \in All /\ r.at + 6 = q.at + 6 BY <1>3, <1>4
  <2>2. CASE q \in {log[j] : j \in 1..Len(log)}
    <3>1. PICK j \in 1..Len(log) : q = log[j] BY <2>2
    <3>2. q.at \in Nat /\ q.len \in Nat /\ q.len >= 8 BY <3>1, LogFacts
    <3>3. q.at = r.at BY <1>1, <2>1, <3>2
    <3>4. j < k => q.at + q.len <= r.at
      <4>1. j < k => j \in 1..(k - 1) OBVIOUS
      <4> QED BY <3>1, <4>1 DEF Inv1, LogContiguous
    <3>5. k < j => r.at + r.len <= q.at
      <4>1. k < j => k \in 1..(j - 1) OBVIOUS
      <4> QED BY <3>1, <4>1 DEF Inv1, LogContiguous
    <3>6. j = k BY <1>1, <3>2, <3>3, <3>4, <3>5
    <3> QED BY <3>1, <3>6
  <2>3. CASE q \in {pend[j] : j \in 1..Len(pend)}
    <3>1. PICK j \in 1..Len(pend) : q = pend[j] BY <2>3
    <3>2. pend # << >> /\ j = 1 BY PendIndex
    <3>3. q.at = data_head BY <3>1, <3>2 DEF Inv1, LogContiguous
    <3>4. data_head + 6 = r.at + 6 BY <2>1, <3>3
    <3> HIDE DEF r
    <3>5. FALSE BY <1>1, <1>2, <3>4
    <3> QED BY <3>5
  <2> QED BY <2>1, <2>2, <2>3
<1>7. ChunkLens(data_tail) = IF known = {} THEN Lens ELSE {q.len : q \in known}
  BY DEF ChunkLens
<1> HIDE DEF known
<1>8. known = {r} BY <1>5, <1>6
<1> QED BY <1>7, <1>8

\* At `take' the tail held in the locals is that of the oldest undelivered
\* record, and its length is the one read.
LEMMA Taking ==
  ASSUME TypeInv, NEW it \in Iters, Inv1(it), pc[it] = "take"
  PROVE  /\ Len(got) + 1 \in 1..Len(log)
         /\ Freed(it) = (Len(got) + 1) - 1
         /\ chunk[it].tail = data_tail
         /\ ChunkLens(chunk[it].tail) = {log[Len(got) + 1].len}
         /\ (chunk[it].tail + log[Len(got) + 1].len) % Size
              = (log[Len(got) + 1].at + log[Len(got) + 1].len) % Size
<1>1. PICK k \in 1..Len(log) : k = Len(got) + 1
  BY DEF Inv1, ChunkOK, InHand
<1>2. Freed(it) = k - 1
  <2>1. Len(got) \in Nat BY Types
  <2> QED BY <1>1, <2>1, FreedFacts
<1>3. chunk[it].tail = data_tail BY DEF Inv1, ChunkOK
<1>4. ChunkLens(data_tail) = {log[k].len} BY <1>2, LengthRead
<1>5. log[k].at \in Int /\ log[k].len \in Int /\ data_tail = log[k].at % Size
  BY <1>2, OldestRecord
<1>6. ((log[k].at % Size) + log[k].len) % Size = (log[k].at + log[k].len) % Size
  BY <1>5, SizeFacts, ModAdd
<1> QED BY <1>1, <1>2, <1>3, <1>4, <1>5, <1>6


LEMMA StepBorrow ==
  ASSUME TypeInv, NEW it \in Iters, Inv1(it), Borrow(it), TypeInv'
  PROVE  Inv1(it)'
<1> DEFINE t == chunk[it].tail
<1>1. /\ UNCHANGED <<data_head, data_tail, mem, log, pend, got>>
      /\ pc[it] = "take" /\ pc' = [pc EXCEPT ![it] = "closure"]
  BY DEF Borrow, kernel
<1>2. PICK k \in 1..Len(log) : k = Len(got) + 1 BY <1>1, Taking
<1>3. /\ Freed(it) = k - 1 /\ t = data_tail /\ ChunkLens(t) = {log[k].len}
      /\ (t + log[k].len) % Size = (log[k].at + log[k].len) % Size
  BY <1>1, <1>2, Taking
<1>4. PICK n \in ChunkLens(t) :
        /\ t + n <= Size
        /\ chunk' = [chunk EXCEPT ![it] =
                       [@ EXCEPT !.len = n, !.new_tail = NewTail(t, n),
                                 !.cow = "Borrowed", !.buf = <<>>]]
  BY DEF Borrow, Contiguous
<1>5. n = log[k].len BY <1>3
<1>6. /\ chunk'[it].tail = t /\ chunk'[it].len = n /\ chunk'[it].cow = "Borrowed"
      /\ chunk'[it].new_tail = (t + n) % Size
  BY <1>4, Types DEF ChunkType, NewTail
<1>7. pc'[it] = "closure" BY <1>1, Types
<1>8. Freed(it)' = Freed(it)
  <2>1. Freed(it)' = Len(got)' BY <1>6, <1>7 DEF Freed
  <2> QED BY <1>1, <2>1, FreedFacts
<1>9. LiveBytes(it)' BY <1>1, <1>8, LiveUnchanged DEF Inv1
<1>10. LogContiguous' /\ DeliveredPrefix' BY <1>1, HistoryUnchanged DEF Inv1
<1>11. ChunkOK(it)'
  <2>1. InHand(it)' = k BY <1>1, <1>2, <1>7 DEF InHand
  <2>2. k \in 1..Len(log)' BY <1>1
  <2>3. chunk'[it].tail = data_tail' /\ chunk'[it].tail + chunk'[it].len <= Size
    BY <1>1, <1>3, <1>4, <1>6
  <2>4. /\ chunk'[it].len = log'[k].len
        /\ chunk'[it].new_tail = (log'[k].at + log'[k].len) % Size
    BY <1>1, <1>3, <1>5, <1>6
  <2> QED BY <1>6, <1>7, <2>1, <2>2, <2>3, <2>4 DEF ChunkOK
<1> QED BY <1>9, <1>10, <1>11 DEF Inv1

\* The two parts put together are the record's bytes.
LEMMA GatherRight ==
  ASSUME TypeInv, NEW it \in Iters, Inv1(it), NEW k \in 1..Len(log), Freed(it) = k - 1
  PROVE  Gather(data_tail, log[k].len) = Bytes(log[k])
<1> DEFINE R == log[k].at
           n == log[k].len
           t == data_tail
           G(j) == IF j <= Size - t THEN mem[t + j - 1] ELSE mem[j - (Size - t) - 1]
<1>1. /\ R \in Nat /\ n \in Nat /\ n < Size /\ t = R % Size
      /\ \A j \in 1..n : mem[(R + j - 1) % Size] = R + j - 1
  BY OldestRecord
<1>2. Size \in Nat /\ Size > 0 /\ t \in 0..(Size - 1)
  BY SizeFacts, Types DEF Cells
<1> HIDE DEF R, n, t
<1>3. ASSUME NEW j \in 1..n PROVE G(j) = R + j - 1
  <2> DEFINE m == j - 1
  <2>1. m \in 0..Size /\ R \in Int /\ R + m = R + j - 1 /\ t + m = t + j - 1
    BY <1>1, <1>2
  <2> HIDE DEF m
  <2>2. (R + m) % Size = IF t + m < Size THEN t + m ELSE t + m - Size
    BY ONLY <1>1, <1>2, <2>1, CellStep
  <2>3. t + j - 1 - Size = j - (Size - t) - 1 BY <1>1, <1>2
  <2>4. t + m < Size <=> j <= Size - t BY <1>1, <1>2 DEF m
  <2>5. (R + j - 1) % Size = IF j <= Size - t THEN t + j - 1 ELSE j - (Size - t) - 1
    BY <2>1, <2>2, <2>3, <2>4
  <2>6. mem[(R + j - 1) % Size] = R + j - 1 BY <1>1
  <2> QED BY <2>5, <2>6
<1>4. Gather(t, n) = [j \in 1..n |-> G(j)] BY DEF Gather
<1>5. Bytes(log[k]) = [j \in 1..n |-> R + j - 1] BY DEF Bytes, R, n
<1> HIDE DEF G
<1>6. Gather(t, n) = Bytes(log[k]) BY <1>3, <1>4, <1>5
<1> QED BY <1>6 DEF t, n

LEMMA StepCopyOut ==
  ASSUME TypeInv, NEW it \in Iters, Inv1(it), CopyOut(it), TypeInv'
  PROVE  Inv1(it)'
<1> DEFINE t == chunk[it].tail
<1>1. /\ UNCHANGED <<data_head, data_tail, mem, log, pend, got>>
      /\ pc[it] = "take" /\ pc' = [pc EXCEPT ![it] = "store"]
  BY DEF CopyOut, kernel
<1>2. PICK k \in 1..Len(log) : k = Len(got) + 1 BY <1>1, Taking
<1>3. /\ Freed(it) = k - 1 /\ t = data_tail /\ ChunkLens(t) = {log[k].len}
      /\ (t + log[k].len) % Size = (log[k].at + log[k].len) % Size
  BY <1>1, <1>2, Taking
<1>4. PICK n \in ChunkLens(t) :
        chunk' = [chunk EXCEPT ![it] =
                   [@ EXCEPT !.len = n, !.new_tail = NewTail(t, n),
                             !.cow = "Owned", !.buf = Gather(t, n)]]
  BY DEF CopyOut
<1>5. n = log[k].len BY <1>3
<1>6. /\ chunk'[it].tail = t /\ chunk'[it].len = n /\ chunk'[it].cow = "Owned"
      /\ chunk'[it].new_tail = (t + n) % Size /\ chunk'[it].buf = Gather(t, n)
  BY <1>4, Types DEF ChunkType, NewTail
<1>7. pc'[it] = "store" BY <1>1, Types
<1>8. Freed(it)' = Freed(it)
  <2>1. Freed(it)' = Len(got)' BY <1>7 DEF Freed
  <2> QED BY <1>1, <2>1, FreedFacts
<1>9. LiveBytes(it)' BY <1>1, <1>8, LiveUnchanged DEF Inv1
<1>10. LogContiguous' /\ DeliveredPrefix' BY <1>1, HistoryUnchanged DEF Inv1
<1>11. ChunkOK(it)'
  <2>1. InHand(it)' = k BY <1>1, <1>2, <1>7 DEF InHand
  <2>2. k \in 1..Len(log)' BY <1>1
  <2>3. chunk'[it].buf = Bytes(log[k]) BY <1>3, <1>5, <1>6, GatherRight
  <2>4. chunk'[it].buf = Bytes(log'[k]) BY <1>1, <2>3 DEF Bytes
  <2>5. /\ chunk'[it].len = log'[k].len
        /\ chunk'[it].new_tail = (log'[k].at + log'[k].len) % Size
        /\ chunk'[it].tail = data_tail'
    BY <1>1, <1>3, <1>5, <1>6
  <2> QED BY <1>6, <1>7, <2>1, <2>2, <2>4, <2>5 DEF ChunkOK, Bytes
<1> QED BY <1>9, <1>10, <1>11 DEF Inv1

\* A chunk that may be looked at holds the bytes of the record in hand.
LEMMA ChunkIntact ==
  ASSUME TypeInv, NEW it \in Iters, Inv1(it), pc[it] \in {"store", "closure", "drop"}
  PROVE  InHand(it) \in 1..Len(log) /\ AsBytes(it) = Bytes(log[InHand(it)])
<1> DEFINE t == chunk[it].tail
<1>1. PICK k \in 1..Len(log) : k = InHand(it) BY DEF Inv1, ChunkOK
<1>2. /\ chunk[it].len = log[k].len
      /\ chunk[it].cow = "Owned" => chunk[it].buf = Bytes(log[k])
      /\ chunk[it].cow # "Owned" => pc[it] # "store" /\ t + chunk[it].len <= Size /\ t = data_tail
  BY <1>1 DEF Inv1, ChunkOK
<1>3. CASE chunk[it].cow = "Owned"
  BY <1>1, <1>2, <1>3 DEF AsBytes
<1>4. CASE chunk[it].cow = "Borrowed"
  <2> DEFINE R == log[k].at
             n == log[k].len
  <2>1. Freed(it) = k - 1
    <3>1. Len(got) \in Nat BY Types
    <3>2. pc[it] \in {"closure", "drop"} BY <1>2, <1>4
    <3> QED BY <1>1, <1>4, <3>1, <3>2, FreedFacts DEF InHand
  <2>2. /\ R \in Nat /\ n \in Nat /\ n < Size /\ t = R % Size
        /\ \A j \in 1..n : mem[(R + j - 1) % Size] = R + j - 1
    BY <1>2, <1>4, <2>1, OldestRecord
  <2>3. t + n <= Size BY <1>2, <1>4
  <2>4. Size \in Nat /\ Size > 0 /\ t \in 0..(Size - 1)
    BY SizeFacts, Types DEF Cells
  <2>5. AsBytes(it) = [j \in 1..n |-> mem[t + j - 1]] BY <1>2, <1>4 DEF AsBytes
  <2>6. Bytes(log[k]) = [j \in 1..n |-> R + j - 1] BY DEF Bytes
  <2> HIDE DEF R, n, t
  <2>7. ASSUME NEW j \in 1..n PROVE mem[t + j - 1] = R + j - 1
    <3> DEFINE m == j - 1
    <3>1. m \in 0..Size /\ R \in Int /\ R + m = R + j - 1 /\ t + m = t + j - 1
      BY <2>2, <2>4
    <3>2. t + m < Size BY <2>2, <2>3, <2>4
    <3> HIDE DEF m
    <3>3. (R + m) % Size = IF t + m < Size THEN t + m ELSE t + m - Size
      BY ONLY <2>2, <2>4, <3>1, CellStep
    <3>4. (R + j - 1) % Size = t + j - 1 BY <3>1, <3>2, <3>3
    <3> QED BY <2>2, <3>4
  <2> QED BY <1>1, <2>5, <2>6, <2>7
<1> QED BY <1>3, <1>4, Types

LEMMA StepClosure ==
  ASSUME TypeInv, NEW it \in Iters, Inv1(it), Closure(it), TypeInv'
  PROVE  Inv1(it)'
<1>1. /\ UNCHANGED <<data_head, data_tail, mem, log, pend, chunk>>
      /\ pc[it] = "closure" /\ pc' = [pc EXCEPT ![it] = "drop"]
      /\ got' = Append(got, AsBytes(it))
  BY DEF Closure, kernel
<1>2. PICK k \in 1..Len(log) : k = Len(got) + 1
  BY <1>1 DEF Inv1, ChunkOK, InHand
<1>3. AsBytes(it) = Bytes(log[k]) /\ InHand(it) = k
  BY <1>1, <1>2, ChunkIntact DEF InHand
<1>4. pc'[it] = "drop" BY <1>1, Types
<1>5. got \in Seq(Seq(Int)) /\ Len(got) \in Nat /\ got' \in Seq(Seq(Int))
  BY Types DEF TypeInv, TypeOK
<1>6. Len(got') = k /\ got'[k] = Bytes(log[k]) /\ \A j \in 1..(k - 1) : got'[j] = got[j]
  BY <1>1, <1>2, <1>3, <1>5
<1>7. Freed(it)' = Freed(it)
  <2>1. chunk[it].cow \in {"Borrowed", "Owned"} BY Types
  <2>2. CASE chunk[it].cow = "Borrowed"
    <3>1. Freed(it) = k - 1 BY <1>1, <1>2, <1>5, <2>2, FreedFacts
    <3>2. Freed(it)' = Len(got)' - 1 BY <1>1, <1>4, <2>2 DEF Freed
    <3> QED BY <1>6, <3>1, <3>2
  <2>3. CASE chunk[it].cow = "Owned"
    <3>1. Freed(it) = k BY <1>1, <1>2, <1>5, <2>3, FreedFacts
    <3>2. Freed(it)' = Len(got)' BY <1>1, <1>4, <2>3 DEF Freed
    <3> QED BY <1>6, <3>1, <3>2
  <2> QED BY <2>1, <2>2, <2>3
<1>8. LiveBytes(it)' BY <1>1, <1>7, LiveUnchanged DEF Inv1
<1>9. LogContiguous' BY <1>1 DEF Inv1, LogContiguous, Start
<1>10. DeliveredPrefix'
  <2>1. Len(got') <= Len(log') BY <1>1, <1>6
  <2>2. \A j \in 1..Len(got) : got[j] = Bytes(log[j]) BY DEF Inv1, DeliveredPrefix
  <2>3. \A j \in 1..Len(got') : got'[j] = Bytes(log[j])
    <3>1. k - 1 = Len(got) BY <1>2, <1>5
    <3>2. \A j \in 1..k : j = k \/ j \in 1..(k - 1) OBVIOUS
    <3> QED BY <1>6, <2>2, <3>1, <3>2
  <2> QED BY <1>1, <2>1, <2>3 DEF DeliveredPrefix, Bytes
<1>11. ChunkOK(it)'
  <2>1. InHand(it)' = k BY <1>4, <1>6 DEF InHand
  <2> QED BY <1>1, <1>3, <1>4, <2>1 DEF Inv1, ChunkOK, Bytes
<1> QED BY <1>8, <1>9, <1>10, <1>11 DEF Inv1


-----------------------------------------------------------------------------
(* The theorems about a sampler with a single iterator.                     *)

LEMMA SafeInit ==
  ASSUME Init, NEW it \in Iters PROVE Inv1(it)
<1>1. /\ data_head = 0 /\ data_tail = 0 /\ log = << >> /\ pend = << >> /\ got = << >>
      /\ pc[it] = "idle"
  BY DEF Init
<1>2. Len(log) = 0 /\ Len(got) = 0 /\ 1..0 = {} BY <1>1
<1>3. LogContiguous BY <1>1, <1>2 DEF LogContiguous
<1>4. DeliveredPrefix BY <1>2 DEF DeliveredPrefix
<1>5. LiveBytes(it)
  <2>1. Freed(it) = 0 BY <1>1, <1>2 DEF Freed
  <2>2. Start(Freed(it) + 1) = 0 BY <1>1, <1>2, <2>1 DEF Start
  <2>3. Written = 0 BY <1>1 DEF Written
  <2>4. Size \in Nat /\ Size > 0 BY SizeFacts
  <2>5. 0 % Size = 0
    <3>1. 0 \in 0..(Size - 1) /\ 0 \in Int BY <2>4
    <3> QED BY <2>4, <3>1, ModSmall
  <2>6. 0..(Written - 1) = {} BY <2>3
  <2> QED BY <1>1, <1>2, <2>1, <2>2, <2>3, <2>4, <2>5, <2>6 DEF LiveBytes
<1>6. ChunkOK(it) BY <1>1 DEF ChunkOK
<1> QED BY <1>3, <1>4, <1>5, <1>6 DEF Inv1

LEMMA SafeStep ==
  ASSUME NEW it, Iters = {it}, TypeInv, Inv1(it), [Next]_vars
  PROVE  Inv1(it)'
<1>1. TypeInv' BY TypeStep
<1>2. it \in Iters OBVIOUS
<1>3. ASSUME NEW n \in Lens, KernelWrite(n) PROVE Inv1(it)'
  BY <1>1, <1>2, <1>3, StepKernelWrite
<1>4. ASSUME KernelPublish PROVE Inv1(it)'
  BY <1>1, <1>2, <1>4, StepKernelPublish
<1>5. ASSUME NEW p \in BOOLEAN, SetOutput(p) PROVE Inv1(it)'
  BY <1>2, <1>5, StepSetOutput
<1>6. CASE LoadTail(it) BY <1>1, <1>2, <1>6, StepLoadTail
<1>7. CASE LoadHead(it) BY <1>1, <1>2, <1>7, StepLoadHead
<1>8. CASE Borrow(it) BY <1>1, <1>2, <1>8, StepBorrow
<1>9. CASE CopyOut(it) BY <1>1, <1>2, <1>9, StepCopyOut
<1>10. CASE StoreTail(it) BY <1>1, <1>2, <1>10, StepStoreTail
<1>11. CASE Closure(it) BY <1>1, <1>2, <1>11, StepClosure
<1>12. CASE DropChunk(it) BY <1>1, <1>2, <1>12, StepDropChunk
<1>13. CASE UNCHANGED vars
  <2>1. UNCHANGED <<data_head, data_tail, mem, log, pend, pc, chunk, got>>
    BY <1>13 DEF vars
  <2>2. Freed(it)' = Freed(it) BY <2>1 DEF Freed
  <2>3. LiveBytes(it)' BY <2>1, <2>2, LiveUnchanged DEF Inv1
  <2>4. LogContiguous' /\ DeliveredPrefix' BY <2>1, HistoryUnchanged DEF Inv1
  <2>5. ChunkOK(it)' BY <2>1 DEF Inv1, ChunkOK, InHand, Bytes
  <2> QED BY <2>3, <2>4, <2>5 DEF Inv1
<1> QED
  BY <1>3, <1>4, <1>5, <1>6, <1>7, <1>8, <1>9, <1>10, <1>11, <1>12, <1>13
     DEF Next, Kernel, Iter

\* The invariant of a sampler that is popped by one iterator: the records are
\* contiguous, what was not freed is intact in its cells, the chunk in hand is
\* the oldest record, and what was delivered is a prefix of what was emitted.
THEOREM RingInvariant == ASSUME OneIterator PROVE Spec => [](TypeInv /\ IInv)
<1>1. PICK it \in Iters : Iters = {it} BY DEF OneIterator
<1>2. Init => TypeInv /\ Inv1(it)
  BY <1>1, TypeInit, SafeInit
<1>3. TypeInv /\ Inv1(it) /\ [Next]_vars => TypeInv' /\ Inv1(it)'
  BY <1>1, TypeStep, SafeStep
<1>4. TypeInv /\ Inv1(it) => TypeInv /\ IInv
  BY <1>1 DEF Inv1, IInv, TypeInv
<1> QED BY <1>2, <1>3, <1>4, PTL DEF Spec

\* From the step a chunk is made to the end of its drop, the user sees exactly
\* the bytes of the oldest undelivered record: nothing the kernel writes in
\* the meantime reaches them.
THEOREM ChunkStaysIntact == ASSUME OneIterator PROVE Spec => []HeldIntact
<1>1. TypeInv /\ IInv => HeldIntact
  BY ChunkIntact DEF IInv, Inv1, HeldIntact
<1> QED BY <1>1, RingInvariant, PTL

\* The records handed out are, whole and in order, a prefix of those published.
THEOREM DeliversInOrder == ASSUME OneIterator PROVE Spec => []DeliveredPrefix
<1>1. TypeInv /\ IInv => DeliveredPrefix BY DEF IInv
<1> QED BY <1>1, RingInvariant, PTL

\* next says None only when everything published has been delivered.
THEOREM NoneMeansDrained == ASSUME OneIterator PROVE Spec => NoneOnlyWhenDrained
<1> DEFINE A == \A i \in Iters : pc[i] = "head" /\ pc'[i] = "idle" => Len(got) = Len(log)
<1>1. ASSUME TypeInv, IInv, [Next]_vars PROVE A
  <2>1. PICK it \in Iters : Iters = {it} BY DEF OneIterator
  <2>2. SUFFICES ASSUME pc[it] = "head", pc'[it] = "idle" PROVE Len(got) = Len(log)
    BY <2>1
  <2>3. LoadHead(it)
    <3>1. pc'[it] # pc[it] BY <2>2
    <3> QED
      BY <1>1, <2>1, <2>2, <3>1
         DEF Next, Kernel, Iter, vars, kernel, KernelWrite, KernelPublish, SetOutput,
             LoadTail, Borrow, CopyOut, StoreTail, Closure, DropChunk
  <2>4. Drained(chunk[it].tail)
    BY <1>1, <2>2, <2>3, Types DEF LoadHead
  <2>5. Inv1(it) BY <1>1 DEF IInv, Inv1
  <2>6. chunk[it].tail = data_tail BY <2>2, <2>5 DEF Inv1, ChunkOK
  <2>7. Freed(it) = Len(got) BY <1>1, <2>2, FreedFacts
  <2>8. SUFFICES ASSUME Len(got) # Len(log) PROVE FALSE OBVIOUS
  <2>9. Len(got) \in Nat /\ Len(log) \in Nat /\ Len(got) <= Len(log)
    BY <1>1, Types DEF IInv, DeliveredPrefix
  <2>10. PICK k \in 1..Len(log) : k = Len(got) + 1 BY <2>8, <2>9
  <2>11. Freed(it) = k - 1 BY <2>7, <2>9, <2>10
  <2>12. /\ log[k].at \in Nat /\ log[k].len \in Nat /\ log[k].len >= 8
         /\ data_tail = log[k].at % Size /\ log[k].at + log[k].len <= data_head
    BY <1>1, <2>5, <2>11, OldestRecord
  <2>13. Written - log[k].at < Size
    <3>1. Start(k) = log[k].at BY DEF Start
    <3>2. (k - 1) + 1 = k OBVIOUS
    <3> QED BY <2>5, <2>11, <3>1, <3>2 DEF Inv1, LiveBytes
  <2>14. data_head \in Nat /\ Written \in Nat /\ data_head <= Written
    BY <1>1, Types, WrittenFacts
  <2>15. log[k].at % Size = data_head % Size BY <2>4, <2>6, <2>12 DEF Drained
  <2>16. log[k].at = data_head
    <3>1. log[k].at - data_head < Size /\ data_head - log[k].at < Size
      BY <2>12, <2>13, <2>14, SizeFacts
    <3>2. log[k].at \in Int /\ data_head \in Int BY <2>12, <2>14
    <3> QED BY <2>15, <3>1, <3>2, SizeFacts, ModInj
  <2> QED BY <2>12, <2>14, <2>16
<1>2. TypeInv /\ IInv /\ [Next]_vars => [A]_vars BY <1>1
<1> HIDE DEF A
<1>3. Spec => [][A]_vars
  BY <1>2, RingInvariant, PTL DEF Spec
<1> QED BY <1>3 DEF A, NoneOnlyWhenDrained


\* The tail stands for the start of the oldest record not yet freed.
LEMMA TailPosRight ==
  ASSUME TypeInv, NEW it \in Iters, Inv1(it), NEW k \in 1..Len(log), Freed(it) = k - 1
  PROVE  log[k].at = TailPos
<1> DEFINE R == log[k].at
           d == data_head - R
<1>1. R \in Nat /\ data_tail = R % Size /\ log[k].len \in Nat /\ R + log[k].len <= data_head
  BY OldestRecord
<1>2. data_head \in Nat /\ Written \in Nat /\ data_head <= Written
  BY Types, WrittenFacts
<1>3. Written - R < Size
  <2>1. Start(k) = R BY DEF Start
  <2>2. (k - 1) + 1 = k OBVIOUS
  <2> QED BY <2>1, <2>2 DEF Inv1, LiveBytes
<1> HIDE DEF R
<1>4. Size \in Nat /\ Size > 0 /\ R \in Int /\ data_head \in Int BY <1>1, <1>2, SizeFacts
<1>5. d \in Int /\ d \in 0..(Size - 1) BY <1>1, <1>2, <1>3, <1>4
<1>6. d % Size = d
  <2> HIDE DEF d
  <2> QED BY ONLY <1>4, <1>5, ModSmall
<1>7. (data_head - (R % Size)) % Size = (data_head - R) % Size
  BY ONLY <1>4, ModSub
<1>8. TailPos = data_head - d BY <1>1, <1>6, <1>7 DEF TailPos, d
<1> QED BY <1>1, <1>2, <1>8 DEF R

\* The tail only ever moves over the oldest record, and only when the user or
\* the copy is done with its bytes.
THEOREM TailMovesByOneRecord == ASSUME OneIterator PROVE Spec => TailAdvances
<1> DEFINE A == data_tail' # data_tail => GivesBackOneUsedRecord
<1>1. ASSUME TypeInv, IInv, [Next]_vars PROVE A
  <2>1. PICK it \in Iters : Iters = {it} BY DEF OneIterator
  <2>2. Inv1(it) BY <1>1 DEF IInv, Inv1
  <2>3. SUFFICES ASSUME data_tail' # data_tail PROVE GivesBackOneUsedRecord OBVIOUS
  <2>4. StoreTail(it) \/ DropChunk(it)
    BY <1>1, <2>1, <2>3
       DEF Next, Kernel, Iter, vars, kernel, KernelWrite, KernelPublish, SetOutput,
           LoadTail, LoadHead, Borrow, CopyOut, Closure
  <2>5. Len(got) \in Nat BY <1>1, Types
  <2>6. CASE StoreTail(it)
    <3>1. pc[it] = "store" /\ data_tail' = chunk[it].new_tail BY <2>6 DEF StoreTail
    <3>2. PICK k \in 1..Len(log) : k = Len(got) + 1
      BY <2>2, <3>1 DEF Inv1, ChunkOK, InHand
    <3>3. chunk[it].cow = "Owned" BY <1>1, <3>1 DEF TypeInv, StoreOwned
    <3>4. /\ chunk[it].new_tail = (log[k].at + log[k].len) % Size
          /\ chunk[it].buf = Bytes(log[k])
      BY <2>2, <3>1, <3>2, <3>3 DEF Inv1, ChunkOK, InHand
    <3>5. Freed(it) = k - 1 BY <1>1, <2>5, <3>1, <3>2, FreedFacts
    <3>6. log[k].at = TailPos BY <1>1, <2>2, <3>5, TailPosRight
    <3> QED BY <3>1, <3>3, <3>4, <3>6 DEF GivesBackOneUsedRecord
  <2>7. CASE DropChunk(it)
    <3>1. pc[it] = "drop" /\ data_tail' = TailAfterDrop(chunk[it]) BY <2>7 DEF DropChunk
    <3>2. chunk[it].cow = "Borrowed" /\ data_tail' = chunk[it].new_tail
      BY <2>3, <3>1 DEF TailAfterDrop
    <3>3. PICK k \in 1..Len(log) : k = Len(got)
      BY <2>2, <3>1 DEF Inv1, ChunkOK, InHand
    <3>4. chunk[it].new_tail = (log[k].at + log[k].len) % Size
      BY <2>2, <3>1, <3>3 DEF Inv1, ChunkOK, InHand
    <3>5. Freed(it) = k - 1 BY <1>1, <3>1, <3>2, <3>3, FreedFacts
    <3>6. log[k].at = TailPos BY <1>1, <2>2, <3>5, TailPosRight
    <3>7. k <= Len(got) BY <2>5, <3>3
    <3> QED BY <3>2, <3>4, <3>6, <3>7 DEF GivesBackOneUsedRecord
  <2> QED BY <2>4, <2>6, <2>7
<1>2. TypeInv /\ IInv /\ [Next]_vars => [A]_vars BY <1>1
<1> HIDE DEF A
<1>3. Spec => [][A]_vars
  BY <1>2, RingInvariant, PTL DEF Spec
<1> QED BY <1>3 DEF A, TailAdvances

-----------------------------------------------------------------------------
(* Refinement: the ring implements RecordQueue.                             *)

\* Every record starts within the bound of the abstract queue's records.
HeadBound == /\ data_head <= Len(log) * Size
             /\ pend # << >> => Len(log) < MaxRecs

LEMMA HeadBoundInit == Init => HeadBound
<1> SUFFICES ASSUME Init PROVE HeadBound OBVIOUS
<1>1. data_head = 0 /\ Len(log) = 0 /\ pend = << >> BY DEF Init
<1>2. 0 * Size = 0 BY SizeFacts
<1> QED BY <1>1, <1>2 DEF HeadBound

LEMMA HeadBoundStep ==
  ASSUME NEW it \in Iters, TypeInv, HeadBound, [Next]_vars PROVE HeadBound'
<1>1. CASE KernelPublish
  <2>1. /\ data_head' = data_head + pend[1].len /\ log' = Append(log, pend[1])
        /\ pend' = << >> /\ pend # << >>
    BY <1>1 DEF KernelPublish
  <2>2. pend[1] \in Rec /\ pend[1].len \in Nat /\ pend[1].len < Size BY <2>1, PendFacts
  <2>3. PICK L \in Nat : L = Len(log) BY Types
  <2>4. Len(log') = L + 1 BY <2>1, <2>2, <2>3, Types
  <2>5. L * Size \in Nat /\ (L + 1) * Size = (L * Size) + Size BY <2>3, SizeFacts
  <2>6. data_head \in Nat /\ data_head <= L * Size BY <2>3, Types DEF HeadBound
  <2>7. data_head' <= (L + 1) * Size BY <2>1, <2>2, <2>5, <2>6, SizeFacts
  <2> QED BY <2>1, <2>4, <2>7 DEF HeadBound
<1>2. ASSUME NEW n \in Lens, KernelWrite(n) PROVE HeadBound'
  BY <1>2 DEF HeadBound, KernelWrite
<1>3. CASE UNCHANGED <<data_head, log, pend>>
  BY <1>3 DEF HeadBound
<1>4. ASSUME NEW p \in BOOLEAN, SetOutput(p) PROVE UNCHANGED <<data_head, log, pend>>
  BY <1>4 DEF SetOutput
<1>5. ASSUME NEW i \in Iters, Iter(i) PROVE UNCHANGED <<data_head, log, pend>>
  BY <1>5 DEF Iter, kernel, LoadTail, LoadHead, Borrow, CopyOut, StoreTail, Closure, DropChunk
<1>6. CASE UNCHANGED vars BY <1>3, <1>6 DEF vars
<1> QED BY <1>1, <1>2, <1>3, <1>4, <1>5, <1>6 DEF Next, Kernel


LEMMA SeqAsFcn == ASSUME NEW S, NEW s \in Seq(S)
                  PROVE s = [k \in 1..Len(s) |-> s[k]]
  OBVIOUS

LEMMA UnreadType == ASSUME TypeInv, DeliveredPrefix
                    PROVE /\ Unread \in Seq(Seq(Int))
                          /\ Len(Unread) = Len(log) - Len(got)
                          /\ \A k \in 1..Len(Unread) : Unread[k] = Bytes(log[Len(got) + k])
<1>1. Len(log) \in Nat /\ Len(got) \in Nat /\ Len(got) <= Len(log)
  <2>1. log \in Seq(Rec) /\ got \in Seq(Seq(Int)) BY DEF TypeInv, TypeOK
  <2> QED BY <2>1 DEF DeliveredPrefix
<1>2. PICK n \in Nat : n = Len(log) - Len(got) BY <1>1
<1>3. ASSUME NEW k \in 1..n PROVE Bytes(log[Len(got) + k]) \in Seq(Int)
  <2>1. PICK j \in 1..Len(log) : j = Len(got) + k BY <1>1, <1>2
  <2>2. log[j].at \in Nat /\ log[j].len \in Nat BY LogFacts
  <2>3. Bytes(log[j]) \in Seq(Int) BY <2>2 DEF Bytes
  <2> QED BY <2>1, <2>3
<1>4. Unread = [k \in 1..n |-> Bytes(log[Len(got) + k])] BY <1>2 DEF Unread
<1>5. Unread \in Seq(Seq(Int)) /\ Len(Unread) = n
  BY <1>3, <1>4
<1> QED BY <1>2, <1>4, <1>5

\* The step in which the kernel publishes a record is the abstract Emit.
LEMMA PublishEmits ==
  ASSUME TypeInv, TypeInv', NEW it \in Iters, Inv1(it), Inv1(it)', HeadBound, KernelPublish
  PROVE  Queue!Next
<1> DEFINE q == pend[1]
           b == Bytes(q)
<1>1. /\ UNCHANGED got /\ log' = Append(log, q) /\ pend # << >> BY DEF KernelPublish
<1>2. q \in Rec /\ q.at \in Nat /\ q.len \in Lens /\ q.len \in Nat /\ q.at = data_head
  BY <1>1, PendFacts, RecFacts DEF Inv1, LogContiguous
<1>3. log \in Seq(Rec) /\ Len(log) \in Nat /\ Len(got) \in Nat BY Types
<1>4. /\ Len(log') = Len(log) + 1 /\ log'[Len(log) + 1] = q
      /\ \A k \in 1..Len(log) : log'[k] = log[k]
  BY <1>1, <1>2, <1>3
<1>5. b \in {Bytes([at |-> a, len |-> n]) : a \in 0..(MaxRecs * Size), n \in Lens}
  <2>1. q.at \in 0..(MaxRecs * Size)
    <3>1. PICK L \in Nat : L = Len(log) BY <1>3
    <3>2. MaxRecs \in Nat /\ L < MaxRecs /\ data_head <= L * Size
      BY <1>1, <3>1, BoundAssumption DEF HeadBound
    <3>3. Size * (MaxRecs - L) >= Size
      <4>1. MaxRecs - L \in Int /\ MaxRecs - L >= 1 BY <3>2
      <4> QED BY <4>1, SizeFacts, MulGap
    <3>4. L * Size <= MaxRecs * Size BY <3>2, <3>3, SizeFacts
    <3>5. L * Size \in Nat /\ MaxRecs * Size \in Nat BY <3>2, SizeFacts
    <3> QED BY <1>2, <3>2, <3>4, <3>5
  <2>2. q = [at |-> q.at, len |-> q.len] BY <1>2 DEF Rec
  <2> QED BY <1>2, <2>1, <2>2
<1> HIDE DEF q
<1>6. Unread' = Append(Unread, b)
  <2>1. /\ Unread \in Seq(Seq(Int)) /\ Len(Unread) = Len(log) - Len(got)
        /\ \A k \in 1..Len(Unread) : Unread[k] = Bytes(log[Len(got) + k])
    BY UnreadType DEF Inv1
  <2>2. Len(got) <= Len(log) BY DEF Inv1, DeliveredPrefix
  <2>3. PICK n \in Nat : n = Len(log) - Len(got) BY <1>3, <2>2
  <2>4. Unread' = [k \in 1..(n + 1) |-> Bytes(log'[Len(got) + k])]
    <3>1. Len(log') - Len(got') = n + 1 BY <1>1, <1>3, <1>4, <2>3
    <3> QED BY <1>1, <3>1 DEF Unread, Bytes
  <2>5. \A k \in 1..n : log'[Len(got) + k] = log[Len(got) + k]
    BY <1>3, <1>4, <2>3
  <2>6. log'[Len(got) + (n + 1)] = q
    <3>1. Len(got) + (n + 1) = Len(log) + 1 BY <1>3, <2>3
    <3> QED BY <1>4, <3>1
  <2>7. b \in Seq(Int) BY <1>2 DEF Bytes
  <2> DEFINE App == Append(Unread, b)
  <2>8. /\ App \in Seq(Seq(Int)) /\ Len(App) = Len(Unread) + 1
        /\ \A k \in 1..Len(Unread) : App[k] = Unread[k]
        /\ App[Len(Unread) + 1] = b
    BY ONLY <2>1, <2>7, AppendProperties
  <2> HIDE DEF App, b
  <2>9. Len(Unread) = n BY <2>1, <2>3
  <2>10. ASSUME NEW k \in 1..(n + 1) PROVE Bytes(log'[Len(got) + k]) = App[k]
    <3>1. CASE k = n + 1 BY <2>6, <2>8, <2>9, <3>1 DEF b
    <3>2. CASE k # n + 1
      <4>1. k \in 1..n BY <2>3, <3>2
      <4> QED BY <2>1, <2>5, <2>8, <2>9, <4>1
    <3> QED BY <3>1, <3>2
  <2>11. App = [k \in 1..(n + 1) |-> App[k]] BY <2>8, <2>9, SeqAsFcn
  <2>12. Unread' = App BY <2>4, <2>10, <2>11
  <2> QED BY <2>12 DEF App, b
<1> HIDE DEF b
<1>7. Queue!Emit(b) BY <1>1, <1>6 DEF Queue!Emit
<1> QED BY <1>5, <1>7 DEF Queue!Next

\* The step in which the closure runs is the abstract Deliver.
LEMMA ClosureDelivers ==
  ASSUME TypeInv, TypeInv', NEW it \in Iters, Inv1(it), Inv1(it)', Closure(it)
  PROVE  Queue!Next
<1>1. UNCHANGED log /\ got' = Append(got, AsBytes(it)) /\ pc[it] = "closure"
  BY DEF Closure, kernel
<1>2. InHand(it) = Len(got) + 1 BY <1>1 DEF InHand
<1>3. Len(got) + 1 \in 1..Len(log) /\ AsBytes(it) = Bytes(log[Len(got) + 1])
  BY <1>1, <1>2, ChunkIntact
<1>4. /\ Unread \in Seq(Seq(Int)) /\ Len(Unread) = Len(log) - Len(got)
      /\ \A k \in 1..Len(Unread) : Unread[k] = Bytes(log[Len(got) + k])
  BY UnreadType DEF Inv1
<1>5. Len(log) \in Nat /\ Len(got) \in Nat /\ got \in Seq(Seq(Int)) BY Types
<1>6. PICK n \in Nat : n = Len(log) - Len(got) /\ n >= 1
  <2>1. Len(log) - Len(got) \in Nat /\ Len(log) - Len(got) >= 1 BY <1>3, <1>5
  <2> QED BY <2>1
<1>7. Len(Unread) = n /\ Unread # << >>
  <2>1. Len(Unread) = n BY <1>4, <1>6
  <2>2. Len(<< >>) = 0 OBVIOUS
  <2> QED BY <1>6, <2>1, <2>2
<1>8. Head(Unread) = AsBytes(it)
  <2>1. 1 \in 1..n BY <1>6
  <2> QED BY <1>3, <1>4, <1>7, <2>1
<1>9. Unread' = Tail(Unread)
  <2>1. Len(got') = Len(got) + 1
    <3>1. got' \in Seq(Seq(Int)) BY DEF TypeInv, TypeOK
    <3> QED BY <1>1, <1>5, <3>1
  <2>2. Len(log) - Len(got') = n - 1 BY <1>5, <1>6, <2>1
  <2>3. Unread' = [k \in 1..(n - 1) |-> Bytes(log[(Len(got) + 1) + k])]
    BY <1>1, <2>1, <2>2 DEF Unread, Bytes
  <2> DEFINE Rest == Tail(Unread)
  <2>4. /\ Rest \in Seq(Seq(Int)) /\ Len(Rest) = Len(Unread) - 1
        /\ \A k \in 1..Len(Rest) : Rest[k] = Unread[k + 1]
    BY ONLY <1>4, <1>7, HeadTailProperties
  <2> HIDE DEF Rest
  <2>5. Len(Rest) = n - 1 BY <1>7, <2>4
  <2>6. ASSUME NEW k \in 1..(n - 1)
        PROVE Rest[k] = Bytes(log[(Len(got) + 1) + k])
    <3>1. k + 1 \in 1..n /\ Len(got) + (k + 1) = (Len(got) + 1) + k BY <1>5, <1>6
    <3> QED BY <1>4, <1>7, <2>4, <2>5, <3>1
  <2>7. Rest = [k \in 1..(n - 1) |-> Rest[k]] BY <2>4, <2>5, SeqAsFcn
  <2>8. Unread' = Rest BY <2>3, <2>6, <2>7
  <2> QED BY <2>8 DEF Rest
<1>10. Queue!Deliver BY <1>1, <1>7, <1>8, <1>9 DEF Queue!Deliver
<1> QED BY <1>10 DEF Queue!Next

\* A sampler popped by one iterator implements the record queue: publishing is
\* Emit, running the closure is Deliver, every other step changes nothing a
\* user can tell.
THEOREM RingImplementsQueue == ASSUME OneIterator PROVE Spec => ImplementsQueue
<1>1. PICK it \in Iters : Iters = {it} BY DEF OneIterator
<1>2. Init => TypeInv /\ Inv1(it) /\ HeadBound
  BY <1>1, TypeInit, SafeInit, HeadBoundInit
<1>3. TypeInv /\ Inv1(it) /\ HeadBound /\ [Next]_vars
        => TypeInv' /\ Inv1(it)' /\ HeadBound'
  BY <1>1, TypeStep, SafeStep, HeadBoundStep
<1>4. Init => Queue!Init
  <2>1. SUFFICES ASSUME Init PROVE Queue!Init OBVIOUS
  <2>2. log = << >> /\ got = << >> BY <2>1 DEF Init
  <2>3. Len(log) - Len(got) = 0 BY <2>2
  <2>4. [k \in 1..0 |-> Bytes(log[Len(got) + k])] = << >> OBVIOUS
  <2>5. Unread = << >> BY <2>3, <2>4 DEF Unread
  <2> QED BY <2>2, <2>5 DEF Queue!Init
<1>5. ASSUME TypeInv, Inv1(it), HeadBound, TypeInv', Inv1(it)', [Next]_vars
      PROVE  [Queue!Next]_(Queue!vars)
  <2>1. CASE KernelPublish BY <1>1, <1>5, <2>1, PublishEmits
  <2>2. CASE Closure(it) BY <1>1, <1>5, <2>2, ClosureDelivers
  <2>3. CASE UNCHANGED <<log, got>> BY <2>3 DEF Queue!vars, Unread, Bytes
  <2> QED
    BY <1>1, <1>5, <2>1, <2>2, <2>3
       DEF Next, Kernel, Iter, vars, kernel, KernelWrite, SetOutput,
           LoadTail, LoadHead, Borrow, CopyOut, StoreTail, DropChunk
<1>6. TypeInv /\ Inv1(it) /\ HeadBound /\ TypeInv' /\ Inv1(it)' /\ [Next]_vars
        => [Queue!Next]_(Queue!vars)
  BY <1>5
<1>7. Spec => Queue!Spec
  BY <1>2, <1>3, <1>4, <1>6, PTL DEF Spec, Queue!Spec
<1> QED BY <1>7 DEF ImplementsQueue

=============================================================================
