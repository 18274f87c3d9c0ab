---------------------------- MODULE AuxRing_proofs ----------------------------
(* Proofs about AuxRing. *)
EXTENDS AuxRing, NatLemmas, SequenceTheorems, TLAPS

ChunkType == [tail : Cells, max : Limits \cup {Unlimited}, len : Nat, new_tail : Cells,
              cow : {"Borrowed", "Owned"}, buf : Seq(Int)]

LEMMA SizeFacts == Size \in Nat /\ Size > 0
  BY SizeAssumption

LEMMA InCells == \A x \in Int : x % Size \in Cells
  BY SizeFacts, ModRange DEF Cells

LEMMA LimitedFacts == ASSUME NEW n \in Nat \ {0}, NEW max \in Limits \cup {Unlimited}
                      PROVE /\ Limited(n, max) \in 1..n
                            /\ max # Unlimited => Limited(n, max) <= max
<1>1. max # Unlimited => max \in Nat \ {0}
  BY LimitAssumption
<1> QED BY <1>1 DEF Limited

\* The type invariant, conjunct by conjunct, and the parts of a chunk.
LEMMA Types == ASSUME IInv
               PROVE /\ aux_head \in Nat /\ aux_tail \in Cells /\ mem \in [Cells -> Int]
                     /\ written \in Nat /\ got \in Seq(Int) /\ Len(got) \in Nat
                     /\ pc \in {"idle", "head", "take", "store", "closure", "drop"}
                     /\ chunk \in ChunkType
                     /\ chunk.tail \in Cells /\ chunk.len \in Nat /\ chunk.new_tail \in Cells
                     /\ chunk.max \in Limits \cup {Unlimited} /\ chunk.buf \in Seq(Int)
                     /\ chunk.cow \in {"Borrowed", "Owned"}
<1>1. TypeOK BY DEF IInv
<1> QED BY <1>1 DEF TypeOK, ChunkType

\* How the offsets of the invariant lie, without the bytes.
LEMMA Offsets == ASSUME IInv
                 PROVE /\ Position \in Nat /\ Freed \in Nat
                       /\ Freed <= aux_head /\ aux_head <= written /\ written - Freed < Size
                       /\ Position <= Freed
                       /\ aux_tail = Freed % Size
                       /\ aux_tail \in 0..(Size - 1)
<1>1. Position \in Nat BY DEF IInv, ChunkRight
<1>2. Freed \in Nat /\ Position <= Freed BY <1>1, Types DEF Freed
<1>3. aux_tail \in 0..(Size - 1) BY Types DEF Cells
<1> QED BY <1>1, <1>2, <1>3 DEF IInv, AreaRight

LEMMA InvInit == Init => IInv
<1> SUFFICES ASSUME Init PROVE IInv OBVIOUS
<1>1. 0 \in Cells /\ << >> \in Seq(Int) BY SizeFacts DEF Cells
<1>2. TypeOK BY <1>1, SizeFacts DEF Init, TypeOK, Cells
<1>3. Len(got) = 0 /\ pc = "idle" BY DEF Init
<1>4. Position = 0 /\ Freed = 0 BY <1>3 DEF Position, Freed
<1>5. 0 % Size = 0 BY SizeFacts, ModSmall
<1>6. AreaRight BY <1>4, <1>5, SizeFacts DEF Init, AreaRight
<1>7. ChunkRight BY <1>3, <1>4 DEF ChunkRight
<1>8. GotRight BY DEF Init, GotRight
<1> QED BY <1>2, <1>6, <1>7, <1>8 DEF IInv

-----------------------------------------------------------------------------
(* The kernel.                                                              *)

\* What the kernel takes for free space is at most what is free.
LEMMA SpaceFacts == ASSUME IInv
                    PROVE Space \in 0..(Size - 1 - (aux_head - Freed))
<1> DEFINE F == Freed
           H == aux_head
           N == Size
<1>1. F \in Nat /\ H \in Nat /\ N \in Nat /\ N > 0 /\ F <= H /\ H - F < N
  BY Offsets, Types, SizeFacts
<1>2. aux_tail = F % N /\ F % N \in Int BY Offsets
<1> HIDE DEF F, H, N
<1>3. ((F % N) - H - 1) % N = N - 1 - (H - F)
  <2>1. -H - 1 \in Int /\ F + (-H - 1) \in Int /\ (F + (-H - 1)) + N \in 0..(N - 1)
    BY <1>1
  <2>2. ((F % N) + (-H - 1)) % N = (F + (-H - 1)) % N
    BY ONLY <1>1, <2>1, ModAdd, F \in Int
  <2>3. (F + (-H - 1)) % N = (F + (-H - 1)) + N
    BY ONLY <1>1, <2>1, ModSmall
  <2>4. (F % N) + (-H - 1) = (F % N) - H - 1 BY <1>1, <1>2
  <2>5. (F + (-H - 1)) + N = N - 1 - (H - F) BY <1>1
  <2> QED BY <2>2, <2>3, <2>4, <2>5
<1>4. Space = N - 1 - (H - F) \/ Space = 0
  BY <1>2, <1>3 DEF Space, N, H
<1>5. N - 1 - (H - F) \in 0..(N - 1 - (H - F)) /\ 0 \in 0..(N - 1 - (H - F))
  BY <1>1
<1> QED BY <1>4, <1>5 DEF F, N, H

\* The hardware traces over free cells only.
LEMMA InvHwTrace == ASSUME IInv, NEW n \in Bursts, HwTrace(n) PROVE IInv'
<1> DEFINE F == Freed
<1>1. /\ n \in Nat /\ n >= 1 /\ n <= Space /\ written = aux_head /\ written' = aux_head + n
      /\ UNCHANGED <<aux_head, aux_tail, pc, chunk, got>>
  BY BurstAssumption DEF HwTrace
<1>2. F \in Nat /\ F <= aux_head /\ aux_head \in Nat /\ mem \in [Cells -> Int]
  BY Types, Offsets
<1>3. aux_head + n - F < Size /\ n < Size
  BY <1>1, <1>2, SpaceFacts, SizeFacts
<1>4. mem' = [p \in Cells |-> LET o == (p - aux_head) % Size
                              IN  IF o < n THEN aux_head + o ELSE mem[p]]
  BY DEF HwTrace
<1>5. \A p \in Cells : (p - aux_head) % Size \in 0..(Size - 1)
  BY <1>2, SizeFacts, ModRange DEF Cells
<1>6. mem' \in [Cells -> Int]
  BY <1>2, <1>4, <1>5
<1>7. TypeOK'
  BY <1>1, <1>2, <1>6, Types DEF TypeOK, ChunkType
<1>8. F' = F /\ Position' = Position
  BY <1>1 DEF Freed, Position
<1>9. \A o \in F..(written' - 1) : mem'[o % Size] = o
  <2> SUFFICES ASSUME NEW o \in F..(written' - 1) PROVE mem'[o % Size] = o
    OBVIOUS
  <2>0. o \in Int /\ F <= o /\ o < aux_head + n BY <1>1, <1>2
  <2> DEFINE e == o - aux_head
             b == -aux_head
  <2>1. e \in Int /\ b \in Int /\ o + b = e BY <1>2, <2>0
  <2>2. o % Size \in Cells BY <2>0, InCells
  <2>3. ((o % Size) + b) % Size = e % Size BY <2>0, <2>1, SizeFacts, ModAdd
  <2>4. (o % Size) - aux_head = (o % Size) + b BY <1>2, <2>2 DEF Cells
  <2>5. mem'[o % Size] = IF e % Size < n THEN aux_head + (e % Size) ELSE mem[o % Size]
    BY <1>4, <2>2, <2>3, <2>4
  <2>6. CASE o >= aux_head
    <3>1. e \in 0..(Size - 1) /\ e < n /\ aux_head + e = o
      BY <1>1, <1>2, <1>3, <2>0, <2>6, SizeFacts
    <3>2. e % Size = e BY <2>1, <3>1, SizeFacts, ModSmall
    <3> QED BY ONLY <2>5, <3>1, <3>2
  <2>7. CASE o < aux_head
    <3>1. e + Size \in 0..(Size - 1) /\ e + Size >= n
      BY <1>1, <1>2, <1>3, <2>0, <2>7, SizeFacts
    <3>2. e % Size = e + Size BY <2>1, <3>1, SizeFacts, ModSmall
    <3>3. mem'[o % Size] = mem[o % Size] BY <1>1, <2>1, <2>5, <3>1, <3>2, SizeFacts
    <3>4. o \in F..(written - 1) BY <1>1, <1>2, <2>0, <2>7
    <3> QED BY <3>3, <3>4 DEF IInv, AreaRight
  <2> QED BY <1>2, <2>0, <2>6, <2>7
<1> HIDE DEF F
<1>10. F <= aux_head /\ aux_head <= written' /\ written' - F < Size /\ aux_tail' = F % Size
  BY <1>1, <1>2, <1>3, Offsets DEF F
<1>11. AreaRight'
  BY <1>1, <1>8, <1>9, <1>10 DEF AreaRight, F
<1>12. ChunkRight'
  BY <1>1, <1>8 DEF IInv, ChunkRight
<1>13. GotRight' BY <1>1 DEF IInv, GotRight
<1> QED BY <1>7, <1>11, <1>12, <1>13 DEF IInv

LEMMA InvPublish == ASSUME IInv, Publish PROVE IInv'
<1>1. aux_head' = written /\ UNCHANGED <<aux_tail, mem, written, pc, chunk, got>>
  BY DEF Publish
<1>2. TypeOK' BY <1>1, Types DEF TypeOK, ChunkType
<1>3. Freed' = Freed /\ Position' = Position BY <1>1 DEF Freed, Position
<1>4. Freed \in Nat /\ Position \in Nat BY Offsets
<1>5. aux_head <= aux_head' /\ aux_head \in Nat /\ aux_head' \in Nat
  BY <1>1, Types, Offsets
<1>6. AreaRight' BY <1>1, <1>3, <1>4, <1>5 DEF IInv, AreaRight
<1>7. ChunkRight' BY <1>1, <1>3, <1>4, <1>5, Types DEF IInv, ChunkRight
<1>8. GotRight' BY <1>1 DEF IInv, GotRight
<1> QED BY <1>2, <1>6, <1>7, <1>8 DEF IInv

-----------------------------------------------------------------------------
(* The iterator.                                                            *)

\* Giving nothing back leaves the area right.
LEMMA AreaSame == ASSUME IInv, UNCHANGED <<aux_head, mem, written, aux_tail>>, Freed' = Freed
                  PROVE AreaRight'
  BY DEF IInv, AreaRight

\* Giving some published bytes back, or none, leaves the area right.
LEMMA AreaGivenBack == ASSUME IInv, NEW n \in Nat, UNCHANGED <<aux_head, mem, written>>,
                              Freed' = Freed + n, Freed + n <= aux_head,
                              aux_tail' = (Freed + n) % Size
                       PROVE AreaRight'
<1> DEFINE F == Freed
<1>1. F \in Nat /\ aux_head \in Nat /\ written \in Nat
      /\ aux_head <= written /\ written - F < Size
  BY Offsets, Types
<1>2. \A o \in F..(written - 1) : mem[o % Size] = o
  BY DEF IInv, AreaRight
<1> HIDE DEF F
<1>3. \A o \in (F + n)..(written - 1) : o \in F..(written - 1)
  BY <1>1
<1>4. \A o \in (F + n)..(written - 1) : mem[o % Size] = o
  BY <1>2, <1>3
<1>5. F + n <= aux_head /\ written - (F + n) < Size
  BY <1>1, SizeFacts DEF F
<1> QED BY <1>1, <1>4, <1>5 DEF AreaRight, F

LEMMA InvLoadTail == ASSUME IInv, LoadTail PROVE IInv'
<1>1. PICK max \in Limits : chunk' = [chunk EXCEPT !.tail = aux_tail, !.max = max]
  BY DEF LoadTail
<1>2. pc = "idle" /\ pc' = "head" /\ UNCHANGED <<aux_head, mem, written, aux_tail, got>>
  BY DEF LoadTail, trace
<1>3. chunk' \in ChunkType /\ chunk'.tail = aux_tail
  BY <1>1, Types DEF ChunkType
<1>4. TypeOK' BY <1>2, <1>3, Types DEF TypeOK, ChunkType
<1>5. Position' = Position /\ Freed' = Freed /\ Freed = Position
  BY <1>2 DEF Position, Freed
<1>6. ChunkRight' BY <1>2, <1>3, <1>5, Offsets DEF ChunkRight
<1>7. GotRight' BY <1>2 DEF IInv, GotRight
<1> QED BY <1>2, <1>4, <1>5, <1>6, <1>7, AreaSame DEF IInv

\* What lending_pop takes for unread is what is unread.
LEMMA AvailableFacts == ASSUME IInv, pc = "head", chunk.tail # Wrapped(aux_head)
                        PROVE /\ Available(chunk.tail, Wrapped(aux_head)) = aux_head - Position
                              /\ aux_head - Position >= 1
<1>1. Freed = Position BY DEF Freed
<1>2. Position \in Nat /\ Position <= aux_head /\ aux_head - Position < Size
  <2>1. Position \in Nat /\ Position <= aux_head BY Offsets, <1>1
  <2>2. aux_head <= written /\ written - Position < Size BY Offsets, <1>1
  <2>3. aux_head \in Nat /\ written \in Nat BY Types
  <2> QED BY ONLY <2>1, <2>2, <2>3, SizeFacts
<1> DEFINE P == Position
           H == aux_head
           N == Size
           n == H - P
           t == chunk.tail
           h == H % N
<1>21. P \in Nat /\ H \in Nat /\ N \in Nat /\ N > 0 /\ n \in 0..N /\ P + n = H /\ n < N
  <2>1. H \in Nat BY Types
  <2> HIDE DEF P, H, N
  <2>2. P \in Nat /\ P <= H /\ H - P < N BY <1>2 DEF P, H, N
  <2>3. N \in Nat /\ N > 0 BY SizeFacts DEF N
  <2> QED BY ONLY <2>1, <2>2, <2>3
<1>3. t = P % N /\ t \in 0..(N - 1) BY Types DEF IInv, ChunkRight, Cells
<1>4. h # t BY DEF Wrapped
<1> HIDE DEF P, H, N, n, t
<1>5. (P + n) % N = IF (P % N) + n < N THEN (P % N) + n ELSE (P % N) + n - N
  BY ONLY <1>21, CellStep, P \in Int
<1>6. h = IF t + n < N THEN t + n ELSE t + n - N
  BY ONLY <1>21, <1>3, <1>5
<1> HIDE DEF h
<1>7. n >= 1
  BY <1>21, <1>3, <1>4, <1>6
<1>8. (IF t < h THEN h - t ELSE N + h - t) = n
  BY ONLY <1>21, <1>3, <1>6, <1>7
<1> QED BY <1>7, <1>8 DEF Available, Wrapped, P, H, N, n, t, h

LEMMA InvLoadHead == ASSUME IInv, LoadHead PROVE IInv'
<1> DEFINE t == chunk.tail
           h == Wrapped(aux_head)
           n == Limited(Available(t, h), chunk.max)
<1>1. pc = "head" /\ UNCHANGED <<aux_head, mem, written, aux_tail, got>>
      /\ pc' \in {"idle", "take"}
  BY DEF LoadHead, trace
<1>2. Position' = Position /\ Freed' = Freed /\ Freed = Position
  BY <1>1 DEF Position, Freed
<1>3. GotRight' BY <1>1 DEF IInv, GotRight
<1>4. AreaRight' BY <1>1, <1>2, AreaSame
<1>5. CASE t = h
  <2>1. pc' = "idle" /\ chunk' = chunk BY <1>5 DEF LoadHead
  <2>2. TypeOK' BY <1>1, <2>1, Types DEF TypeOK, ChunkType
  <2>3. ChunkRight' BY <1>2, <2>1, Offsets DEF ChunkRight
  <2> QED BY <1>3, <1>4, <2>2, <2>3 DEF IInv
<1>6. CASE t # h
  <2>1. pc' = "take" /\ chunk' = [chunk EXCEPT !.len = n, !.new_tail = Wrapped(t + n)]
    BY <1>6 DEF LoadHead
  <2>2. Available(t, h) \in Nat \ {0} /\ Available(t, h) = aux_head - Position
    BY <1>1, <1>6, AvailableFacts, Offsets, Types
  <2>3. /\ n \in Nat /\ n >= 1 /\ n <= aux_head - Position
        /\ chunk.max # Unlimited => n <= chunk.max
    BY <2>2, LimitedFacts, Types
  <2>4. t = Position % Size /\ t \in Cells BY <1>1, Types DEF IInv, ChunkRight
  <2> HIDE DEF n
  <2>5. Wrapped(t + n) = (Position + n) % Size
    <3>1. Position \in Int /\ n \in Int BY <2>3, Offsets
    <3>2. ((Position % Size) + n) % Size = (Position + n) % Size
      BY <3>1, SizeFacts, ModAdd
    <3> QED BY <2>4, <3>2 DEF Wrapped
  <2>6. (Position + n) % Size \in Cells BY <2>3, Offsets, InCells
  <2>7. /\ chunk' \in ChunkType /\ chunk'.len = n /\ chunk'.tail = t
        /\ chunk'.max = chunk.max /\ chunk'.new_tail = (Position + n) % Size
    BY <2>1, <2>3, <2>5, <2>6, Types DEF ChunkType
  <2>8. TypeOK' BY <1>1, <2>1, <2>7, Types DEF TypeOK, ChunkType
  <2>9. Position + n <= aux_head BY <2>3, Offsets, Types
  <2>10. ChunkRight'
    BY <1>1, <1>2, <2>1, <2>3, <2>4, <2>7, <2>9, Offsets DEF ChunkRight
  <2> QED BY <1>3, <1>4, <2>8, <2>10 DEF IInv
<1> QED BY <1>5, <1>6

LEMMA InvBorrow == ASSUME IInv, Borrow PROVE IInv'
<1>1. /\ pc = "take" /\ pc' = "closure" /\ chunk.tail + chunk.len <= Size
      /\ chunk' = [chunk EXCEPT !.cow = "Borrowed", !.buf = <<>>]
      /\ UNCHANGED <<aux_head, mem, written, aux_tail, got>>
  BY DEF Borrow, trace
<1>2. << >> \in Seq(Int) OBVIOUS
<1>3. /\ chunk' \in ChunkType /\ chunk'.cow = "Borrowed"
      /\ chunk'.tail = chunk.tail /\ chunk'.len = chunk.len
      /\ chunk'.new_tail = chunk.new_tail /\ chunk'.max = chunk.max
  BY <1>1, <1>2, Types DEF ChunkType
<1>4. TypeOK' BY <1>1, <1>3, Types DEF TypeOK, ChunkType
<1>5. Position' = Position /\ Freed' = Freed
  BY <1>1, <1>3 DEF Position, Freed
<1>6. ChunkRight' BY <1>1, <1>3, <1>5 DEF IInv, ChunkRight
<1>7. GotRight' BY <1>1 DEF IInv, GotRight
<1> QED BY <1>1, <1>4, <1>5, <1>6, <1>7, AreaSame DEF IInv

\* Where the j-th byte after the cell of Position is.
LEMMA CellOf == ASSUME IInv, pc # "idle", NEW j \in 1..Size
                PROVE (Position + (j - 1)) % Size =
                        IF chunk.tail + (j - 1) < Size THEN chunk.tail + (j - 1)
                                                       ELSE chunk.tail + (j - 1) - Size
<1>1. Position \in Int /\ j - 1 \in 0..Size BY Offsets, SizeFacts
<1>2. chunk.tail = Position % Size BY DEF IInv, ChunkRight
<1> QED BY <1>1, <1>2, SizeFacts, CellStep

\* The bytes of the chunk that are still in the area.
LEMMA StillThere == ASSUME IInv, Freed = Position, pc \in {"take", "closure", "drop"},
                           NEW j \in 1..chunk.len
                    PROVE /\ mem[(Position + (j - 1)) % Size] = Position + j - 1
                          /\ j \in 1..Size
<1>1. /\ Position \in Nat /\ chunk.len \in Nat /\ aux_head \in Nat /\ written \in Nat
      /\ aux_head <= written /\ written - Position < Size
  BY Types, Offsets
<1>2. Position + chunk.len <= aux_head BY DEF IInv, ChunkRight
<1>3. j \in Nat /\ j <= chunk.len /\ j >= 1 BY <1>1
<1>4. Position + (j - 1) \in Position..(written - 1)
  BY <1>1, <1>2, <1>3
<1>5. mem[(Position + (j - 1)) % Size] = Position + (j - 1)
  BY <1>4 DEF IInv, AreaRight
<1> QED BY <1>1, <1>2, <1>3, <1>5, SizeFacts

LEMMA InvCopyOut == ASSUME IInv, CopyOut PROVE IInv'
<1> DEFINE t == chunk.tail
           n == chunk.len
           P == Position
<1>1. /\ pc = "take" /\ pc' = "store" /\ t + n > Size
      /\ chunk' = [chunk EXCEPT !.cow = "Owned", !.buf = Gather(t, n)]
      /\ UNCHANGED <<aux_head, mem, written, aux_tail, got>>
  BY DEF CopyOut, trace
<1>2. t \in 0..(Size - 1) /\ n \in Nat /\ P \in Nat BY Types, Offsets DEF Cells
<1>3. Freed = P BY <1>1 DEF Freed
<1>4. \A j \in 1..n : (IF j <= Size - t THEN mem[t + j - 1] ELSE mem[j - (Size - t) - 1])
                        = P + j - 1
  <2> SUFFICES ASSUME NEW j \in 1..n
               PROVE (IF j <= Size - t THEN mem[t + j - 1] ELSE mem[j - (Size - t) - 1])
                        = P + j - 1
    OBVIOUS
  <2>1. mem[(P + (j - 1)) % Size] = P + j - 1 /\ j \in 1..Size
    BY <1>1, <1>3, StillThere
  <2>2. (P + (j - 1)) % Size = IF t + (j - 1) < Size THEN t + (j - 1) ELSE t + (j - 1) - Size
    BY <1>1, <2>1, CellOf
  <2>3. /\ t + (j - 1) = t + j - 1 /\ t + (j - 1) - Size = j - (Size - t) - 1
        /\ t + (j - 1) < Size <=> j <= Size - t
    BY <1>2, SizeFacts
  <2> QED BY <2>1, <2>2, <2>3
<1>5. Gather(t, n) = [j \in 1..n |-> P + j - 1]
  BY <1>4 DEF Gather
<1>6. Gather(t, n) \in Seq(Int)
  BY <1>2, <1>5
<1> HIDE DEF P, t
<1>7. /\ chunk' \in ChunkType /\ chunk'.cow = "Owned" /\ chunk'.buf = Gather(t, n)
      /\ chunk'.tail = chunk.tail /\ chunk'.len = chunk.len
      /\ chunk'.new_tail = chunk.new_tail /\ chunk'.max = chunk.max
  BY <1>1, <1>6, Types DEF ChunkType
<1>8. TypeOK' BY <1>1, <1>7, Types DEF TypeOK, ChunkType
<1>9. Position' = Position /\ Freed' = Freed BY <1>1, <1>7 DEF Position, Freed
<1>10. chunk'.buf = [j \in 1..chunk'.len |-> Position' + j - 1]
  BY <1>5, <1>7, <1>9 DEF P
<1>11. ChunkRight' BY <1>1, <1>7, <1>9, <1>10 DEF IInv, ChunkRight
<1>12. GotRight' BY <1>1 DEF IInv, GotRight
<1> QED BY <1>1, <1>8, <1>9, <1>11, <1>12, AreaSame DEF IInv

LEMMA InvStoreTail == ASSUME IInv, StoreTail PROVE IInv'
<1>1. /\ pc = "store" /\ pc' = "closure" /\ aux_tail' = chunk.new_tail
      /\ UNCHANGED <<aux_head, mem, written, chunk, got>>
  BY DEF StoreTail, trace
<1>2. /\ chunk.cow = "Owned" /\ chunk.new_tail = (Position + chunk.len) % Size
      /\ Position + chunk.len <= aux_head
  BY <1>1 DEF IInv, ChunkRight
<1>3. Position' = Position /\ Freed = Position /\ Freed' = Position + chunk.len
  BY <1>1, <1>2 DEF Position, Freed
<1>4. TypeOK' BY <1>1, Types DEF TypeOK, ChunkType
<1>5. AreaRight' BY <1>1, <1>2, <1>3, Types, AreaGivenBack
<1>6. ChunkRight' BY <1>1, <1>2, <1>3 DEF IInv, ChunkRight
<1>7. GotRight' BY <1>1 DEF IInv, GotRight
<1> QED BY <1>4, <1>5, <1>6, <1>7 DEF IInv

\* What the chunk shows its holder: the next bytes of the stream.
LEMMA Intact == ASSUME IInv, pc \in {"store", "closure", "drop"}
                PROVE AsBytes = [j \in 1..chunk.len |-> Position + j - 1]
<1>1. CASE chunk.cow = "Owned"
  BY <1>1 DEF IInv, ChunkRight, AsBytes
<1>2. CASE chunk.cow = "Borrowed"
  <2>1. pc \in {"closure", "drop"} BY <1>2 DEF IInv, ChunkRight
  <2>2. Freed = Position /\ chunk.tail + chunk.len <= Size
    BY <1>2, <2>1 DEF Freed, IInv, ChunkRight
  <2>3. \A j \in 1..chunk.len : mem[chunk.tail + j - 1] = Position + j - 1
    <3> SUFFICES ASSUME NEW j \in 1..chunk.len
                 PROVE mem[chunk.tail + j - 1] = Position + j - 1
      OBVIOUS
    <3>1. mem[(Position + (j - 1)) % Size] = Position + j - 1 /\ j \in 1..Size
      BY <2>1, <2>2, StillThere
    <3>2. (Position + (j - 1)) % Size =
            IF chunk.tail + (j - 1) < Size THEN chunk.tail + (j - 1)
                                           ELSE chunk.tail + (j - 1) - Size
      BY <2>1, <3>1, CellOf
    <3>3. chunk.tail + (j - 1) < Size /\ chunk.tail + (j - 1) = chunk.tail + j - 1
      <4>1. chunk.tail \in Int /\ chunk.len \in Nat BY Types, SizeFacts DEF Cells
      <4> HIDE DEF Cells
      <4> QED BY <2>2, <4>1, SizeFacts
    <3> QED BY <3>1, <3>2, <3>3
  <2> QED BY <1>2, <2>3 DEF AsBytes
<1> QED BY <1>1, <1>2, Types

\* What the closure leaves in got.
LEMMA ClosureAdds == ASSUME IInv, Closure
                     PROVE /\ got' \in Seq(Int) /\ Len(got') = Len(got) + chunk.len
                           /\ got' = [j \in 1..Len(got') |-> j - 1]
<1> DEFINE P == Position
           n == chunk.len
           b == AsBytes
<1>1. P = Len(got) /\ P \in Nat /\ n \in Nat BY Types, Offsets DEF Closure, Position
<1>2. b = [j \in 1..n |-> P + j - 1] BY Intact DEF Closure
<1>3. got \in Seq(Int) /\ got = [j \in 1..P |-> j - 1]
  BY <1>1, Types DEF IInv, GotRight
<1>4. got' = got \o b BY DEF Closure
<1> HIDE DEF P, n, b
<1>5. b \in Seq(Int) /\ Len(b) = n BY <1>1, <1>2
<1>6. /\ got' \in Seq(Int) /\ Len(got') = P + n
      /\ \A j \in 1..(P + n) : got'[j] = IF j <= P THEN got[j] ELSE b[j - P]
  <2>1. /\ got \o b \in Seq(Int) /\ Len(got \o b) = Len(got) + Len(b)
        /\ \A j \in 1..(Len(got) + Len(b)) :
             (got \o b)[j] = IF j <= Len(got) THEN got[j] ELSE b[j - Len(got)]
    BY ONLY <1>3, <1>5, ConcatProperties
  <2>2. Len(got) = P BY <1>1
  <2> QED BY ONLY <1>4, <1>5, <2>1, <2>2
<1>7. \A j \in 1..(P + n) : got'[j] = j - 1
  <2> SUFFICES ASSUME NEW j \in 1..(P + n) PROVE got'[j] = j - 1
    OBVIOUS
  <2>1. CASE j <= P
    <3>1. j \in 1..P BY <1>1, <2>1
    <3>2. got[j] = j - 1 BY ONLY <1>3, <3>1
    <3> QED BY <1>6, <2>1, <3>2
  <2>2. CASE j > P
    <3>1. j - P \in 1..n BY <1>1, <2>2
    <3>2. b[j - P] = j - 1 BY <1>1, <1>2, <3>1
    <3> QED BY <1>1, <1>6, <2>2, <3>2
  <2> QED BY <1>1, <2>1, <2>2
<1>8. got' = [j \in 1..Len(got') |-> j - 1]
  BY <1>6, <1>7
<1> QED BY <1>1, <1>6, <1>8 DEF n

LEMMA InvClosure == ASSUME IInv, Closure PROVE IInv'
<1>1. /\ pc = "closure" /\ pc' = "drop"
      /\ UNCHANGED <<aux_head, mem, written, aux_tail, chunk>>
  BY DEF Closure, trace
<1>2. Position' = Position BY <1>1, ClosureAdds, Types DEF Position
<1>3. Freed' = Freed BY <1>1, <1>2 DEF Freed
<1>4. TypeOK' BY <1>1, ClosureAdds, Types DEF TypeOK, ChunkType
<1>5. AreaRight' BY <1>1, <1>3, AreaSame
<1>6. ChunkRight' BY <1>1, <1>2 DEF IInv, ChunkRight
<1>7. GotRight' BY ClosureAdds DEF GotRight
<1> QED BY <1>4, <1>5, <1>6, <1>7 DEF IInv

LEMMA InvDropChunk == ASSUME IInv, DropChunk PROVE IInv'
<1>1. /\ pc = "drop" /\ pc' = "idle" /\ UNCHANGED <<aux_head, mem, written, chunk, got>>
      /\ aux_tail' = IF chunk.cow = "Borrowed" THEN chunk.new_tail ELSE aux_tail
  BY DEF DropChunk, trace
<1>2. chunk.new_tail = (Position + chunk.len) % Size /\ Position + chunk.len <= aux_head
  BY <1>1 DEF IInv, ChunkRight
<1>3. Position' = Position + chunk.len /\ Position' \in Nat
  BY <1>1, Types DEF Position
<1>4. Freed' = Position + chunk.len BY <1>1, <1>3 DEF Freed
<1>5. TypeOK' BY <1>1, Types DEF TypeOK, ChunkType
<1>6. AreaRight'
  <2>1. CASE chunk.cow = "Borrowed"
    <3>1. Freed = Position BY <1>1, <2>1 DEF Freed
    <3> QED BY <1>1, <1>2, <1>4, <2>1, <3>1, Types, AreaGivenBack
  <2>2. CASE chunk.cow = "Owned"
    <3>1. Freed = Position + chunk.len BY <1>1, <2>2 DEF Freed
    <3>2. aux_tail' = aux_tail BY <1>1, <2>2
    <3> QED BY <1>1, <1>4, <3>1, <3>2, AreaSame
  <2> QED BY <2>1, <2>2, Types
<1>7. ChunkRight' BY <1>1, <1>3 DEF ChunkRight
<1>8. GotRight' BY <1>1 DEF IInv, GotRight
<1> QED BY <1>5, <1>6, <1>7, <1>8 DEF IInv

-----------------------------------------------------------------------------
(* The theorems.                                                            *)

LEMMA InvStep == IInv /\ [Next]_vars => IInv'
<1> SUFFICES ASSUME IInv, [Next]_vars PROVE IInv' OBVIOUS
<1>1. ASSUME NEW n \in Bursts, HwTrace(n) PROVE IInv' BY <1>1, InvHwTrace
<1>2. CASE Publish BY <1>2, InvPublish
<1>3. CASE Iter
  BY <1>3, InvLoadTail, InvLoadHead, InvBorrow, InvCopyOut, InvStoreTail, InvClosure,
     InvDropChunk DEF Iter
<1>4. CASE UNCHANGED vars
  BY <1>4 DEF vars, IInv, TypeOK, AreaRight, ChunkRight, GotRight, Position, Freed
<1> QED BY <1>1, <1>2, <1>3, <1>4 DEF Next

\* The bytes of the AUX area, its two indices and the chunk in hand always fit
\* together: for every size that is a power of two, every limit and every burst.
THEOREM InvAlways == Spec => []IInv
  BY InvInit, InvStep, PTL DEF Spec

\* Chunk::as_bytes (auxiliary/rb.rs, rb/cow.rs) shows exactly the next bytes of the
\* stream for as long as the chunk is held, whatever the hardware does meanwhile.
THEOREM ChunkStaysIntact == Spec => []HeldIntact
<1>1. IInv => HeldIntact
  <2> SUFFICES ASSUME IInv, pc \in {"store", "closure", "drop"}
               PROVE /\ AsBytes = [j \in 1..chunk.len |-> Position + j - 1]
                     /\ Position + chunk.len <= aux_head
                     /\ chunk.cow = "Borrowed" => chunk.tail + chunk.len <= Size
    BY DEF HeldIntact
  <2>1. AsBytes = [j \in 1..chunk.len |-> Position + j - 1] BY Intact
  <2> QED BY <2>1 DEF IInv, ChunkRight
<1> QED BY <1>1, InvAlways, PTL

\* The masked tail that lending_pop and CowChunk::drop store (auxiliary/rb.rs:44) ends the
\* tracing: however much the user reads, the kernel traces less than twice the area.
THEOREM TracingStops == Spec => [](written < 2 * Size)
<1> DEFINE Less == written < 2 * Size
<1>1. Init => Less BY SizeFacts DEF Init
<1>2. ASSUME IInv, Less, [Next]_vars PROVE Less'
  <2>1. ASSUME NEW n \in Bursts, HwTrace(n) PROVE Less'
    <3> DEFINE F == Freed
    <3>1. n \in Nat /\ n >= 1 /\ n <= Space /\ written' = aux_head + n
      BY <2>1, BurstAssumption DEF HwTrace
    <3>2. /\ F \in Nat /\ aux_head \in Nat /\ F <= aux_head /\ aux_tail = F % Size
          /\ F % Size \in 0..(Size - 1)
      BY <1>2, Offsets, Types
    <3>3. aux_head + n < F + Size
      BY <1>2, <3>1, <3>2, SpaceFacts, SizeFacts
    <3>4. aux_head - aux_tail < Size
      BY <3>1, <3>2, SizeFacts DEF Space
    <3> HIDE DEF F
    <3>5. F < Size
      <4> DEFINE q == F \div Size
      <4>1. q \in Int /\ F = Size * q + (F % Size) BY <3>2, SizeFacts, DivMod
      <4> HIDE DEF q
      <4>2. q >= 1 => Size * q >= Size BY <4>1, SizeFacts, MulGap
      <4>3. Size * q \in Int BY <4>1, SizeFacts
      <4>4. ~(q >= 1) BY <3>2, <3>4, <4>1, <4>2, <4>3, SizeFacts
      <4>5. q <= -1 => Size * (-q) >= Size BY <4>1, SizeFacts, MulGap
      <4>6. Size * (-q) = -(Size * q) BY <4>1, SizeFacts
      <4>7. ~(q <= -1) BY <3>2, <4>1, <4>3, <4>5, <4>6, SizeFacts
      <4>8. q = 0 BY <4>1, <4>4, <4>7
      <4> QED BY <3>2, <4>1, <4>8, SizeFacts
    <3> QED BY <3>1, <3>2, <3>3, <3>5, SizeFacts
  <2>2. CASE UNCHANGED written BY <1>2, <2>2
  <2> QED
    BY <1>2, <2>1, <2>2
       DEF Next, Iter, vars, trace, Publish, LoadTail, LoadHead, Borrow, CopyOut, StoreTail,
           Closure, DropChunk
<1>3. IInv /\ Less /\ [Next]_vars => Less' BY <1>2
<1> HIDE DEF Less
<1>4. Spec => []Less BY <1>1, <1>3, InvAlways, PTL DEF Spec
<1> QED BY <1>4 DEF Less

\* CowIter::next (auxiliary/iter/cow.rs) never runs its closure on nothing, nor on
\* more than max_chunk_len, and answers None only when nothing was left to read.
THEOREM NextAlwaysHandsOver == Spec => NextHandsOver
<1> DEFINE A == /\ got' # got \/ (pc = "closure" /\ pc' = "drop") =>
                     LET n == Len(got') - Len(got)
                     IN  n >= 1 /\ (chunk.max # Unlimited => n <= chunk.max)
                /\ pc = "head" /\ pc' = "idle" => Len(got) = aux_head
<1>1. ASSUME IInv, [Next]_vars PROVE A
  <2>1. CASE Closure
    <3>1. pc = "closure" BY <2>1 DEF Closure
    <3>2. Len(got') = Len(got) + chunk.len BY <1>1, <2>1, ClosureAdds
    <3>3. chunk.len >= 1 /\ (chunk.max # Unlimited => chunk.len <= chunk.max)
      BY <1>1, <3>1 DEF IInv, ChunkRight
    <3> QED BY <1>1, <3>1, <3>2, <3>3, Types
  <2>2. CASE LoadHead
    <3>1. pc = "head" /\ got' = got BY <2>2 DEF LoadHead
    <3>2. pc' = "idle" => chunk.tail = Wrapped(aux_head) BY <2>2 DEF LoadHead
    <3>3. /\ chunk.tail = Position % Size /\ Position = Len(got) /\ Freed = Position
          /\ Position \in Int /\ aux_head \in Int /\ Position <= aux_head
          /\ aux_head - Position < Size
      <4>1. Position = Len(got) /\ Freed = Position BY <3>1 DEF Position, Freed
      <4>2. chunk.tail = Position % Size BY <1>1, <3>1 DEF IInv, ChunkRight
      <4>3. IInv BY <1>1
      <4>4. /\ Freed \in Nat /\ Freed <= aux_head /\ aux_head <= written
            /\ written - Freed < Size /\ aux_head \in Nat /\ written \in Nat
        BY <4>3, Offsets, Types
      <4> QED BY <4>1, <4>2, <4>4, SizeFacts
    <3>4. Position % Size = aux_head % Size => Position = aux_head
      <4>1. Position - aux_head < Size BY <3>3, SizeFacts
      <4> QED BY <3>3, <4>1, SizeFacts, ModInj
    <3> QED BY <3>1, <3>2, <3>3, <3>4 DEF Wrapped
  <2>3. CASE UNCHANGED <<got, pc>> BY <2>3
  <2>4. CASE LoadTail \/ Borrow \/ CopyOut \/ StoreTail \/ DropChunk
    BY <2>4 DEF LoadTail, Borrow, CopyOut, StoreTail, DropChunk
  <2> QED
    BY <1>1, <2>1, <2>2, <2>3, <2>4 DEF Next, Iter, HwTrace, Publish, vars
<1>2. IInv /\ [Next]_vars => A BY <1>1
<1>3. IInv /\ [Next]_vars => [A]_vars BY <1>2
<1>4. Spec => [][A]_vars BY <1>3, InvAlways, PTL DEF Spec
<1> QED BY <1>4 DEF NextHandsOver

-----------------------------------------------------------------------------
(* The refinement.                                                          *)

\* The stream from the G-th byte to the H-th.
From(G, H) == [j \in 1..(H - G) |-> G + j - 1]

LEMMA FromFacts == ASSUME NEW G \in Nat, NEW H \in Nat, G <= H
                   PROVE  /\ From(G, H) \in Seq(Int) /\ Len(From(G, H)) = H - G
                          /\ \A j \in 1..(H - G) : From(G, H)[j] = G + j - 1
<1>1. PICK n \in Nat : n = H - G OBVIOUS
<1>2. \A j \in 1..n : G + j - 1 \in Int OBVIOUS
<1>3. From(G, H) = [j \in 1..n |-> G + j - 1] BY <1>1 DEF From
<1> QED BY <1>1, <1>2, <1>3

\* Any part of the stream is a stream.
LEMMA PartOf == ASSUME NEW G \in Nat, NEW H \in Nat, NEW K \in Nat, NEW L \in Nat,
                       G <= K, K <= L, L <= H
                PROVE SubSeq(From(G, H), K - G + 1, L - G) = From(K, L)
<1> DEFINE s == From(G, H)
           p == K - G + 1
           n == L - G
           u == SubSeq(s, p, n)
           v == From(K, L)
<1>1. s \in Seq(Int) /\ Len(s) = H - G /\ \A j \in 1..(H - G) : s[j] = G + j - 1
  BY FromFacts
<1>2. /\ v \in Seq(Int) /\ Len(v) = L - K
      /\ \A j \in 1..(L - K) : v[j] = K + j - 1
  BY FromFacts
<1>3. p \in Int /\ n \in Int /\ 1 <= p /\ p - 1 <= n /\ n <= H - G /\ n - p + 1 = L - K
      /\ p = K - G + 1
  OBVIOUS
<1> HIDE DEF s, v, p, n
<1>4. /\ u \in Seq(Int) /\ Len(u) = IF p <= n THEN n - p + 1 ELSE 0
      /\ \A j \in 1..(n - p + 1) : u[j] = s[p + j - 1]
  <2>1. \A i \in p..n : s[i] \in Int BY <1>1, <1>3
  <2> QED BY <1>3, <2>1, SubSeqProperties
<1> HIDE DEF u
<1>5. Len(u) = L - K BY <1>3, <1>4
<1>6. \A j \in 1..(L - K) : u[j] = v[j]
  <2> SUFFICES ASSUME NEW j \in 1..(L - K) PROVE u[j] = v[j] OBVIOUS
  <2>1. p + j - 1 \in 1..(H - G) /\ j \in 1..(n - p + 1) BY <1>3
  <2>2. s[p + j - 1] = G + (p + j - 1) - 1 BY <1>1, <2>1
  <2> QED BY <1>2, <1>3, <1>4, <2>1, <2>2
<1>7. u = v BY <1>2, <1>4, <1>5, <1>6
<1> QED BY <1>7 DEF u, v, s, p, n

\* The step in which the kernel publishes bytes is the abstract Trace.
LEMMA PublishTraces == ASSUME IInv, Publish PROVE Stream!Trace
<1> DEFINE G == Len(got)
           H == aux_head
           K == aux_head'
<1>1. G' = G /\ got' = got BY DEF Publish
<1>2. G \in Nat /\ H \in Nat /\ K \in Nat /\ G <= H /\ H < K
  BY Types, Offsets DEF Publish, Position, Freed, IInv, ChunkRight
<1> HIDE DEF G, H, K
<1>3. Len(From(G, H)) = H - G /\ Len(From(G, K)) = K - G /\ H - G \in Nat /\ H - G <= K - G
  BY <1>2, FromFacts
<1>4. SubSeq(From(G, K), 1, H - G) = From(G, H)
  <2>1. G <= G /\ H <= K BY <1>2
  <2>2. SubSeq(From(G, K), G - G + 1, H - G) = From(G, H) BY <1>2, <2>1, PartOf
  <2>3. G - G + 1 = 1 BY <1>2
  <2> QED BY <2>2, <2>3
<1>5. Len(From(G, K)) > Len(From(G, H)) BY <1>2, <1>3
<1>6. /\ Len(From(G, K)) > Len(From(G, H))
      /\ SubSeq(From(G, K), 1, Len(From(G, H))) = From(G, H)
      /\ got' = got
  BY <1>1, <1>3, <1>4, <1>5
<1> QED BY <1>1, <1>6 DEF Stream!Trace, From, G, H, K

\* The step in which the closure runs is the abstract Deliver.
LEMMA ClosureDelivers == ASSUME IInv, Closure PROVE Stream!Next
<1> DEFINE G == Len(got)
           H == aux_head
           n == chunk.len
           K == G + n
           u == From(G, H)
<1>1. /\ G = Position /\ G \in Nat /\ H \in Nat /\ n \in Nat /\ n >= 1 /\ K <= H
      /\ aux_head' = aux_head
  BY Types, Offsets DEF Closure, Position, IInv, ChunkRight, trace
<1>2. got' = got \o AsBytes /\ Len(got') = K BY ClosureAdds DEF Closure
<1>3. AsBytes = [j \in 1..n |-> G + j - 1] BY <1>1, Intact DEF Closure
<1> HIDE DEF G, H, n
<1>4. K \in Nat /\ G <= K /\ G <= G /\ H <= H /\ K - G = n /\ G - G + 1 = 1 BY <1>1
<1> HIDE DEF K
<1>5. AsBytes = SubSeq(u, 1, n)
  <2>1. SubSeq(From(G, H), G - G + 1, K - G) = From(G, K) BY <1>1, <1>4, PartOf
  <2>2. From(G, K) = [j \in 1..n |-> G + j - 1] BY <1>4 DEF From
  <2> QED BY <1>3, <1>4, <2>1, <2>2
<1>6. Len(u) = H - G
  <2>1. G <= H BY <1>1, <1>4
  <2> QED BY <1>1, <2>1, FromFacts
<1>7. From(K, H) = SubSeq(u, n + 1, Len(u))
  <2>1. SubSeq(From(G, H), K - G + 1, H - G) = From(K, H) BY <1>1, <1>4, PartOf
  <2> QED BY <1>4, <1>6, <2>1
<1>8. n \in 1..Len(u) BY <1>1, <1>4, <1>6
<1>9. got' = got \o SubSeq(u, 1, n) BY <1>2, <1>5
<1>10. From(Len(got'), aux_head') = SubSeq(u, n + 1, Len(u)) BY <1>1, <1>2, <1>7 DEF H
<1> QED BY <1>8, <1>9, <1>10 DEF Stream!Next, Stream!Deliver, From, G, H

\* The AUX area and its iterator implement the byte stream: every byte is delivered,
\* once and in order, and no call delivers an empty piece.
THEOREM AuxImplementsStream == Spec => ImplementsStream
<1>1. Init => Stream!Init
  <2>1. SUFFICES ASSUME Init PROVE Stream!Init OBVIOUS
  <2>a. got = << >> /\ aux_head = 0 BY <2>1 DEF Init
  <2>b. Len(got) = 0 BY <2>a
  <2>c. \A h, l : h = 0 /\ l = 0 => h - l = 0 OBVIOUS
  <2>2. got = << >> /\ aux_head - Len(got) = 0 BY <2>a, <2>b, <2>c
  <2>3. [j \in 1..0 |-> Len(got) + j - 1] = << >> OBVIOUS
  <2> QED BY <2>2, <2>3 DEF Stream!Init
<1>2. ASSUME IInv, [Next]_vars PROVE [Stream!Next]_(Stream!vars)
  <2>1. CASE Publish BY <1>2, <2>1, PublishTraces DEF Stream!Next
  <2>2. CASE Closure BY <1>2, <2>2, ClosureDelivers
  <2>3. CASE UNCHANGED <<aux_head, got>> BY <2>3 DEF Stream!vars
  <2> QED
    BY <1>2, <2>1, <2>2, <2>3
       DEF Next, Iter, vars, trace, HwTrace, LoadTail, LoadHead, Borrow, CopyOut, StoreTail,
           DropChunk
<1>3. IInv /\ [Next]_vars => [Stream!Next]_(Stream!vars) BY <1>2
<1>4. Spec => Stream!Spec BY <1>1, <1>3, InvAlways, PTL DEF Spec, Stream!Spec
<1> QED BY <1>4 DEF ImplementsStream
=============================================================================
