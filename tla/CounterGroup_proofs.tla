--------------------------- MODULE CounterGroup_proofs ---------------------------
(***************************************************************************)
(* The buffers of the counters of a group, for every number of siblings    *)
(* and all read formats.                                                   *)
(***************************************************************************)
EXTENDS CounterGroup, NatLemmas, SequenceTheorems, TLAPS

LEMMA OneIsBit == \A f, fmt : One(f, fmt) \in {0, 1}
BY DEF One

\* Stat::read_buf_size is never less than the kernel's event->read_size.
LEMMA RoomForRead ==
  ASSUME NEW n \in Nat \ {0}, NEW fmt
  PROVE  ReadBufSize(n, fmt) \in Nat /\ ReadSize(n, fmt) \in Nat
         /\ ReadBufSize(n, fmt) >= ReadSize(n, fmt)
         /\ ReadBufSize(n, fmt) >= ReadSize(1, fmt) /\ ReadSize(1, fmt) \in Nat
<1> DEFINE i == One("id", fmt) l == One("lost", fmt) g == One("group", fmt)
           t == One("enabled", fmt) u == One("running", fmt)
<1>1. i \in {0, 1} /\ l \in {0, 1} /\ g \in {0, 1} /\ t \in {0, 1} /\ u \in {0, 1}
  BY OneIsBit
<1>2. g = IF "group" \in fmt THEN 1 ELSE 0
  BY DEF One
<1>3. ReadBufSize(n, fmt) = 1 + t + u + n * (g + i + l)
  BY DEF ReadBufSize
<1>4. \A m : ReadSize(m, fmt) = t + u + IF g = 1 THEN 1 + m * (1 + i + l) ELSE 1 + i + l
  BY <1>2 DEF ReadSize
<1> HIDE DEF i, l, g, t, u
<1>5. PICK k \in {0, 1, 2} : k = i + l
  BY <1>1
<1>6. \A m : ReadSize(m, fmt) = t + u + IF g = 1 THEN 1 + m * (1 + k) ELSE 1 + k
  <2>1. 1 + i + l = 1 + k /\ \A m : 1 + m * (1 + i + l) = 1 + m * (1 + k)
    <3>1. 1 + i + l = 1 + k
      BY <1>1, <1>5
    <3>2. QED
      BY <3>1
  <2>2. QED
    BY <1>4, <2>1
<1>7. ReadBufSize(n, fmt) = 1 + t + u + n * (g + k)
  <2>1. g + i + l = g + k
    BY <1>1, <1>5
  <2>2. QED
    BY <1>3, <2>1
<1>8. n * 0 = 0 /\ n * 1 = n /\ n * 2 = n + n /\ n * 3 = n + n + n
      /\ 1 * 1 = 1 /\ 1 * 2 = 2 /\ 1 * 3 = 3
  OBVIOUS
<1>9. CASE g = 1
  <2>1. ReadBufSize(n, fmt) = 1 + t + u + n * (1 + k) /\ ReadSize(n, fmt) = t + u + (1 + n * (1 + k))
        /\ ReadSize(1, fmt) = t + u + (1 + 1 * (1 + k))
    BY <1>6, <1>7, <1>9
  <2>2. CASE k = 0
    BY <2>1, <2>2, <1>1, <1>8
  <2>3. CASE k = 1
    BY <2>1, <2>3, <1>1, <1>8
  <2>4. CASE k = 2
    BY <2>1, <2>4, <1>1, <1>8
  <2>5. QED
    BY <2>2, <2>3, <2>4
<1>10. CASE g = 0
  <2>1. ReadBufSize(n, fmt) = 1 + t + u + n * (0 + k) /\ ReadSize(n, fmt) = t + u + (1 + k)
        /\ ReadSize(1, fmt) = t + u + (1 + k)
    BY <1>6, <1>7, <1>10
  <2>2. CASE k = 0
    BY <2>1, <2>2, <1>1, <1>8
  <2>3. CASE k = 1
    BY <2>1, <2>3, <1>1, <1>8
  <2>4. CASE k = 2
    BY <2>1, <2>4, <1>1, <1>8
  <2>5. QED
    BY <2>2, <2>3, <2>4
<1>11. QED
  BY <1>1, <1>9, <1>10

\* A function on 1..n is a sequence of length n.
LEMMA FunIsSeq ==
  ASSUME NEW n \in Nat, NEW s, s = [j \in 1..n |-> s[j]]
  PROVE  IsSeq(s, n)
<1>1. s \in [1..n -> Range(s)]
  BY DEF Range
<1>2. s \in Seq(Range(s))
  BY <1>1
<1>3. Len(s) = n
  BY <1>1, <1>2, LenProperties
<1>4. QED
  BY <1>2, <1>3 DEF IsSeq

\* And a sequence of length n a function on 1..n.
LEMMA SeqIsFun ==
  ASSUME NEW n, NEW s, IsSeq(s, n)
  PROVE  n \in Nat /\ DOMAIN s = 1..n /\ s = [j \in 1..n |-> s[j]]
BY LenProperties DEF IsSeq

LEMMA AppendIsSeq ==
  ASSUME NEW n \in Nat, NEW s, IsSeq(s, n), NEW x
  PROVE  Append(s, x) = [j \in 1..(n + 1) |-> IF j = n + 1 THEN x ELSE s[j]]
<1>1. s \in Seq(Range(s)) /\ Len(s) = n
  BY DEF IsSeq
<1> DEFINE S == Range(s) \cup {x}
<1>2. s \in Seq(S)
  BY <1>1, LenProperties DEF Range
<1>3. x \in S
  OBVIOUS
<1> HIDE DEF S
<1>4. /\ Append(s, x) \in Seq(S) /\ Len(Append(s, x)) = n + 1
      /\ Append(s, x)[n + 1] = x /\ \A j \in 1..n : Append(s, x)[j] = s[j]
  BY <1>1, <1>2, <1>3, AppendProperties
<1>5. Append(s, x) = [j \in 1..(n + 1) |-> Append(s, x)[j]]
  BY <1>4, LenProperties
<1>6. QED
  BY <1>4, <1>5

\* A sequence with one element replaced.
LEMMA ExceptIsSeq ==
  ASSUME NEW n, NEW s, IsSeq(s, n), NEW e, NEW x
  PROVE  IsSeq([s EXCEPT ![e] = x], n)
<1>1. n \in Nat /\ s = [j \in 1..n |-> s[j]]
  BY SeqIsFun
<1>2. [s EXCEPT ![e] = x] = [j \in 1..n |-> [s EXCEPT ![e] = x][j]]
  BY <1>1
<1>3. QED
  BY <1>1, <1>2, FunIsSeq

\* Stat::read_buf_size grows with the group.
LEMMA RoomGrows ==
  ASSUME NEW n \in Nat, NEW fmt
  PROVE  ReadBufSize(n, fmt) \in Nat /\ ReadBufSize(n + 1, fmt) >= ReadBufSize(n, fmt)
<1> DEFINE i == One("id", fmt) l == One("lost", fmt) g == One("group", fmt)
           t == One("enabled", fmt) u == One("running", fmt)
<1>1. i \in {0, 1} /\ l \in {0, 1} /\ g \in {0, 1} /\ t \in {0, 1} /\ u \in {0, 1}
  BY OneIsBit
<1>2. \A m : ReadBufSize(m, fmt) = 1 + t + u + m * (g + i + l)
  BY DEF ReadBufSize
<1> HIDE DEF i, l, g, t, u
<1>3. PICK k \in {0, 1, 2, 3} : k = g + i + l
  BY <1>1
<1>4. ReadBufSize(n, fmt) = 1 + t + u + n * k /\ ReadBufSize(n + 1, fmt) = 1 + t + u + (n + 1) * k
  BY <1>2, <1>3
<1>5. CASE k = 0
  BY <1>1, <1>4, <1>5
<1>6. CASE k = 1
  BY <1>1, <1>4, <1>6
<1>7. CASE k = 2
  BY <1>1, <1>4, <1>7
<1>8. CASE k = 3
  BY <1>1, <1>4, <1>8
<1>9. QED
  BY <1>3, <1>5, <1>6, <1>7, <1>8

-----------------------------------------------------------------------------
LEMMA ZeroesIsSeq ==
  ASSUME NEW n \in Nat
  PROVE  IsSeq(Zeroes(n), n)
<1>1. Zeroes(n) = [j \in 1..n |-> Zeroes(n)[j]]
  BY DEF Zeroes
<1>2. QED
  BY <1>1, FunIsSeq

LEMMA InitBuffers == Init => BufferInv
<1> SUFFICES ASSUME Init PROVE BufferInv
  OBVIOUS
<1>1. PICK fmt \in LeaderFormats : formats = <<fmt>> /\ read_buf = <<Zeroes(ReadBufSize(1, fmt))>>
  BY DEF Init
<1>2. siblings = 0 /\ events = <<NewEvent(1)>>
  BY DEF Init
<1>3. fmt \subseteq Flags
  BY <1>1, FormatAssumption
<1>4. \A x : IsSeq(<<x>>, 1)
  <2>1. ASSUME NEW x PROVE IsSeq(<<x>>, 1)
    <3>1. <<x>> = [j \in 1..1 |-> <<x>>[j]]
      OBVIOUS
    <3>2. QED
      BY <3>1, FunIsSeq
  <2>2. QED
    BY <2>1
<1>5. IsSeq(Zeroes(ReadBufSize(1, fmt)), ReadBufSize(1, fmt)) /\ ReadBufSize(1, fmt) \in Nat
  BY RoomGrows, ZeroesIsSeq
<1>6. Len(read_buf[1]) = ReadBufSize(1, fmt) /\ IsSeq(read_buf[1], Len(read_buf[1]))
  BY <1>1, <1>5 DEF IsSeq
<1>7. Room(1) = ReadBufSize(1, fmt)
  BY <1>1, <1>2 DEF Room, Most
<1>8. QED
  BY <1>1, <1>2, <1>3, <1>4, <1>5, <1>6, <1>7 DEF BufferInv

\* Steps that leave the buffers and the formats alone.
LEMMA SameBuffers ==
  ASSUME BufferInv, UNCHANGED <<siblings, formats, read_buf>>, IsSeq(events', siblings + 1)
  PROVE  BufferInv'
BY DEF BufferInv, Room, Most, IsSeq, Range

\* CounterGroup::add: the leader's buffer grows when it must.
LEMMA AddKeeps ==
  ASSUME BufferInv, NEW fmt \in SiblingFormats, Add(fmt)
  PROVE  BufferInv'
<1>0. siblings \in Nat
  BY DEF BufferInv
<1> DEFINE n == LeaderBufSize(siblings')
           bufs == IF n > Len(read_buf[1]) THEN [read_buf EXCEPT ![1] = Zeroes(n)]
                                           ELSE read_buf
           own == Zeroes(ReadBufSize(1, fmt))
<1>1. /\ siblings' = siblings + 1 /\ siblings \in Nat
      /\ formats' = Append(formats, fmt) /\ read_buf' = Append(bufs, own)
      /\ events' = Append(events, NewEvent(Len(events) + 1))
  BY DEF Add, BufferInv
<1>2. /\ IsSeq(events, siblings + 1) /\ IsSeq(read_buf, siblings + 1)
      /\ IsSeq(formats, siblings + 1)
  BY DEF BufferInv
<1>3. n = ReadBufSize(siblings + 2, formats[1]) /\ n \in Nat
  <2>1. n = ReadBufSize(siblings + 2, formats[1])
    <3>1. siblings' + 1 = siblings + 2
      BY <1>1
    <3>2. formats[1]' = formats[1] \/ TRUE
      OBVIOUS
    <3>3. QED
      BY <3>1 DEF LeaderBufSize
  <2>2. QED
    BY <2>1, <1>1, RoomGrows
<1>4. IsSeq(own, ReadBufSize(1, fmt)) /\ ReadBufSize(1, fmt) \in Nat
  BY RoomGrows, ZeroesIsSeq
<1>5. IsSeq(bufs, siblings + 1)
  BY <1>2, ExceptIsSeq
<1>6. IsSeq(bufs[1], Len(bufs[1])) /\ Len(bufs[1]) >= n
  <2>1. CASE n > Len(read_buf[1])
    <3>1. bufs[1] = Zeroes(n)
      BY <2>1, <1>1, <1>2, SeqIsFun
    <3>2. QED
      BY <3>1, <1>3, ZeroesIsSeq DEF IsSeq
  <2>2. CASE ~(n > Len(read_buf[1]))
    <3>1. bufs[1] = read_buf[1] /\ IsSeq(read_buf[1], Len(read_buf[1]))
      BY <2>2, <1>1 DEF BufferInv
    <3>2. Len(read_buf[1]) \in Nat
      BY <3>1, SeqIsFun
    <3>3. QED
      BY <2>2, <3>1, <3>2, <1>3
  <2>3. QED
    BY <2>1, <2>2
<1> HIDE DEF n, bufs, own
<1>7. \A e \in 2..(siblings + 1) : bufs[e] = read_buf[e]
  BY <1>1, <1>2, SeqIsFun DEF bufs
<1>8. /\ IsSeq(read_buf', siblings + 2) /\ IsSeq(formats', siblings + 2)
      /\ IsSeq(events', siblings + 2)
      /\ read_buf'[siblings + 2] = own /\ formats'[siblings + 2] = fmt
      /\ \A e \in 1..(siblings + 1) : read_buf'[e] = bufs[e] /\ formats'[e] = formats[e]
  <2>1. PICK m \in Nat : m = siblings + 1
    BY <1>0
  <2>2. IsSeq(events, m) /\ IsSeq(bufs, m) /\ IsSeq(formats, m)
    BY <2>1, <1>2, <1>5
  <2>3. read_buf' = [j \in 1..(m + 1) |-> IF j = m + 1 THEN own ELSE bufs[j]]
    BY <1>1, <2>2, AppendIsSeq
  <2>4. formats' = [j \in 1..(m + 1) |-> IF j = m + 1 THEN fmt ELSE formats[j]]
    BY <1>1, <2>2, AppendIsSeq
  <2>5. events' = [j \in 1..(m + 1) |-> events'[j]]
    <3>1. PICK x : events' = Append(events, x)
      BY <1>1
    <3>2. events' = [j \in 1..(m + 1) |-> IF j = m + 1 THEN x ELSE events[j]]
      BY <3>1, <2>2, AppendIsSeq
    <3>3. QED
      BY <3>2
  <2>6. IsSeq(read_buf', m + 1) /\ IsSeq(formats', m + 1) /\ IsSeq(events', m + 1)
    <3>1. read_buf' = [j \in 1..(m + 1) |-> read_buf'[j]]
      BY <2>3
    <3>2. formats' = [j \in 1..(m + 1) |-> formats'[j]]
      BY <2>4
    <3>3. QED
      BY <3>1, <3>2, <2>5, FunIsSeq
  <2>7. m + 1 = siblings + 2
    BY <1>0, <2>1
  <2>8. QED
    BY <2>1, <2>3, <2>4, <2>6, <2>7
<1>9. ASSUME NEW e \in 1..(siblings + 2)
      PROVE  /\ formats'[e] \subseteq Flags
             /\ IsSeq(read_buf'[e], Len(read_buf'[e])) /\ Len(read_buf'[e]) >= Room(e)'
  <2>1. Room(e)' = ReadBufSize(IF e = 1 THEN siblings + 2 ELSE 1, formats'[e])
    <3>1. siblings' + 1 = siblings + 2
      BY <1>1
    <3>2. QED
      BY <3>1 DEF Room, Most
  <2>2. CASE e = 1
    <3>1. 1 \in 1..(siblings + 1)
      BY <1>0
    <3>2. read_buf'[1] = bufs[1] /\ formats'[1] = formats[1] /\ formats[1] \subseteq Flags
      BY <3>1, <1>8 DEF BufferInv
    <3>3. Room(1)' = n
      BY <2>1, <2>2, <3>2, <1>3
    <3>4. QED
      BY <2>2, <3>2, <3>3, <1>6
  <2>3. CASE e \in 2..(siblings + 1)
    <3>1. e \in 1..(siblings + 1) /\ e # 1
      BY <2>3, <1>0
    <3>2. read_buf'[e] = read_buf[e] /\ formats'[e] = formats[e]
      BY <2>3, <3>1, <1>7, <1>8
    <3>3. Room(e)' = Room(e)
      BY <2>1, <3>1, <3>2 DEF Room, Most
    <3>4. QED
      BY <3>1, <3>2, <3>3 DEF BufferInv
  <2>4. CASE e = siblings + 2
    <3>1. Room(e)' = ReadBufSize(1, fmt)
      BY <2>1, <2>4, <1>1, <1>8
    <3>2. read_buf'[e] = own /\ formats'[e] = fmt
      BY <2>4, <1>8
    <3>3. fmt \subseteq Flags
      BY FormatAssumption
    <3>4. QED
      BY <3>1, <3>2, <3>3, <1>4 DEF IsSeq
  <2>5. e = 1 \/ e \in 2..(siblings + 1) \/ e = siblings + 2
    BY <1>0
  <2>6. QED
    BY <2>2, <2>3, <2>4, <2>5
<1>10. siblings' + 1 = siblings + 2 /\ siblings' \in Nat
  BY <1>1
<1>11. QED
  BY <1>8, <1>9, <1>10 DEF BufferInv

\* Counter::stat: read(2) writes over the buffer and leaves its length.
LEMMA StatKeeps ==
  ASSUME BufferInv, NEW e \in Counters, DoStat(e)
  PROVE  BufferInv'
<1>1. UNCHANGED <<events, siblings, formats>> /\ read_buf' = [read_buf EXCEPT ![e] = Read(e).buf]
  BY DEF DoStat
<1>2. IsSeq(read_buf, siblings + 1) /\ IsSeq(events, siblings + 1)
  BY DEF BufferInv
<1>3. e \in 1..(siblings + 1)
  BY <1>2 DEF Counters, IsSeq
<1>4. IsSeq(read_buf[e], Len(read_buf[e]))
  BY <1>3 DEF BufferInv
<1>5. IsSeq(Read(e).buf, Len(read_buf[e])) /\ Len(Read(e).buf) = Len(read_buf[e])
  <2>1. Read(e).buf = [j \in DOMAIN read_buf[e] |-> Read(e).buf[j]]
    <3>1. read_buf[e] = [j \in DOMAIN read_buf[e] |-> read_buf[e][j]]
      BY <1>4, SeqIsFun
    <3>2. QED
      BY <3>1 DEF Read
  <2>2. DOMAIN read_buf[e] = 1..Len(read_buf[e]) /\ Len(read_buf[e]) \in Nat
    BY <1>4, SeqIsFun
  <2>3. QED
    BY <2>1, <2>2, FunIsSeq DEF IsSeq
<1>6. IsSeq(read_buf', siblings + 1)
  BY <1>1, <1>2, ExceptIsSeq
<1>7. \A c \in 1..(siblings + 1) : read_buf'[c] = IF c = e THEN Read(e).buf ELSE read_buf[c]
  BY <1>1, <1>2, SeqIsFun
<1>8. ASSUME NEW c \in 1..(siblings + 1)
      PROVE  IsSeq(read_buf'[c], Len(read_buf'[c])) /\ Len(read_buf'[c]) >= Room(c)'
  <2>1. Room(c)' = Room(c)
    BY <1>1 DEF Room, Most
  <2>2. Len(read_buf'[c]) = Len(read_buf[c])
    BY <1>5, <1>7
  <2>3. IsSeq(read_buf'[c], Len(read_buf'[c]))
    BY <1>5, <1>7 DEF BufferInv
  <2>4. QED
    BY <2>1, <2>2, <2>3 DEF BufferInv
<1>9. QED
  BY <1>1, <1>2, <1>6, <1>8 DEF BufferInv, IsSeq, Range

LEMMA NextBuffers == BufferInv /\ [Next]_vars => BufferInv'
<1> SUFFICES ASSUME BufferInv, [Next]_vars PROVE BufferInv'
  OBVIOUS
<1>1. IsSeq(events, siblings + 1) /\ Counters = 1..(siblings + 1) /\ siblings + 1 \in Nat
  BY DEF BufferInv, Counters, IsSeq
<1>2. ASSUME NEW e \in Counters, NEW f \in Tallies, Move(e, f) PROVE BufferInv'
  <2>1. events = [j \in 1..(siblings + 1) |-> events[j]]
    BY <1>1, SeqIsFun
  <2>2. events' = [j \in 1..(siblings + 1) |-> events'[j]]
    BY <1>2, <2>1 DEF Move
  <2>3. IsSeq(events', siblings + 1)
    BY <2>2, <1>1, FunIsSeq
  <2>4. QED
    BY <2>3, <1>2, SameBuffers DEF Move
<1>3. CASE PinFails
  BY <1>1, <1>3, SameBuffers DEF PinFails
<1>4. ASSUME NEW fmt \in SiblingFormats, Add(fmt) PROVE BufferInv'
  BY <1>4, AddKeeps
<1>5. CASE AddFails
  BY <1>1, <1>5, SameBuffers DEF AddFails
<1>6. CASE DropGroup
  BY <1>1, <1>6, SameBuffers DEF DropGroup
<1>7. CASE EnableGroup
  BY <1>1, <1>7, SameBuffers DEF EnableGroup
<1>8. ASSUME NEW cs, ClearCount(cs) PROVE BufferInv'
  <2>1. events' = [e \in 1..(siblings + 1) |-> events'[e]]
    BY <1>1, <1>8 DEF ClearCount
  <2>2. IsSeq(events', siblings + 1)
    BY <2>1, <1>1, FunIsSeq
  <2>3. QED
    BY <2>2, <1>8, SameBuffers DEF ClearCount
<1>9. ASSUME NEW e \in Counters, DoStat(e) PROVE BufferInv'
  BY <1>9, StatKeeps
<1>10. CASE UNCHANGED vars
  BY <1>1, <1>10, SameBuffers DEF vars
<1>11. QED
  BY <1>2, <1>3, <1>4, <1>5, <1>6, <1>7, <1>8, <1>9, <1>10 DEF Next, Kernel

LEMMA BuffersFit == BufferInv => BufferFits
<1> SUFFICES ASSUME BufferInv, NEW e \in Counters
    PROVE Len(read_buf[e]) >= ReadSize(Len(ReadGroup(e)), formats[e])
  BY DEF BufferFits
<1>1. /\ siblings \in Nat /\ e \in 1..(siblings + 1) /\ Len(events) = siblings + 1
      /\ IsSeq(read_buf[e], Len(read_buf[e])) /\ Len(read_buf[e]) >= Room(e)
  BY DEF BufferInv, Counters, IsSeq
<1>2. Len(read_buf[e]) \in Nat
  BY <1>1, SeqIsFun
<1>3. Len(ReadGroup(e)) = IF e = 1 /\ grouped THEN siblings + 1 ELSE 1
  BY <1>1 DEF ReadGroup
<1>4. PICK n \in Nat \ {0} : n = IF e = 1 THEN siblings + 1 ELSE 1
  BY <1>1
<1>5. Room(e) = ReadBufSize(n, formats[e])
  BY <1>4 DEF Room, Most
<1>6. /\ ReadBufSize(n, formats[e]) \in Nat
      /\ ReadBufSize(n, formats[e]) >= ReadSize(n, formats[e])
      /\ ReadBufSize(n, formats[e]) >= ReadSize(1, formats[e])
      /\ ReadSize(n, formats[e]) \in Nat /\ ReadSize(1, formats[e]) \in Nat
  BY RoomForRead
<1>7. Len(ReadGroup(e)) \in {n, 1}
  BY <1>3, <1>4
<1>8. ReadSize(Len(ReadGroup(e)), formats[e]) \in {ReadSize(n, formats[e]), ReadSize(1, formats[e])}
  BY <1>7
<1>9. Len(read_buf[e]) >= ReadBufSize(n, formats[e])
  BY <1>1, <1>5
<1>10. QED
  BY <1>2, <1>6, <1>8, <1>9

\* The strengthening of BufferFits holds in every reachable state: the buffer of
\* each counter has the words that CounterGroup::add and Counter::new gave it room for.
THEOREM BuffersHaveRoom == Spec => []BufferInv
BY InitBuffers, NextBuffers, PTL DEF Spec

\* No read of a counter's statistics meets ENOSPC, for a group of any size and with
\* any read formats (Counter::stat, CounterGroup::add).
THEOREM ReadsAlwaysFit == Spec => []BufferFits
BY BuffersHaveRoom, BuffersFit, PTL

-----------------------------------------------------------------------------
(* FlattenSeq: its recursive function, and what it makes of equal pieces.   *)

FlattenRec(f, s, n) ==
  f = [i \in 1..n |-> IF i = 1 THEN s[i] ELSE f[i - 1] \o s[i]]

LEMMA FlattenExists ==
  ASSUME NEW s, NEW n \in Nat
  PROVE  \E f : FlattenRec(f, s, n)
<1> DEFINE S == {m \in Nat : \E f : FlattenRec(f, s, m)}
<1>1. 0 \in S
  <2>1. FlattenRec([i \in 1..0 |-> 0], s, 0)
    BY DEF FlattenRec
  <2> QED BY <2>1
<1>2. \A m \in Nat : m \in S => m + 1 \in S
  <2> SUFFICES ASSUME NEW m \in Nat, m \in S PROVE m + 1 \in S OBVIOUS
  <2>1. PICK f : FlattenRec(f, s, m) OBVIOUS
  <2> DEFINE g == [i \in 1..(m + 1) |-> IF i = 1 THEN s[i] ELSE f[i - 1] \o s[i]]
  <2>2. \A i \in 1..m : g[i] = f[i]
    <3>1. \A i \in 1..m : f[i] = IF i = 1 THEN s[i] ELSE f[i - 1] \o s[i]
      BY <2>1 DEF FlattenRec
    <3>2. \A i \in 1..m : i \in 1..(m + 1) OBVIOUS
    <3> QED BY <3>1, <3>2
  <2>3. \A i \in 1..(m + 1) : i # 1 => i - 1 \in 1..m
    OBVIOUS
  <2>4. g = [i \in 1..(m + 1) |-> IF i = 1 THEN s[i] ELSE g[i - 1] \o s[i]]
    BY <2>2, <2>3
  <2>5. FlattenRec(g, s, m + 1) BY <2>4 DEF FlattenRec
  <2> QED BY <2>5
<1> HIDE DEF S
<1>3. n \in S BY <1>1, <1>2, SetInduction
<1> QED BY <1>3 DEF S

LEMMA FlattenIs ==
  ASSUME NEW s, Len(s) \in Nat \ {0}
  PROVE  \E f : FlattenRec(f, s, Len(s)) /\ FlattenSeq(s) = f[Len(s)]
<1> DEFINE f == CHOOSE h : FlattenRec(h, s, Len(s))
<1>1. \E h : FlattenRec(h, s, Len(s)) BY FlattenExists
<1>2. FlattenRec(f, s, Len(s)) BY <1>1
<1>3. FlattenSeq(s) = f[Len(s)] BY DEF FlattenSeq, FlattenRec
<1> QED BY <1>2, <1>3

\* Pieces of one length L: the result's length, and where each word is.
LEMMA FlattenUniform ==
  ASSUME NEW V, NEW s \in Seq(Seq(V)), Len(s) > 0, NEW L \in Nat,
         \A k \in 1..Len(s) : Len(s[k]) = L
  PROVE  /\ FlattenSeq(s) \in Seq(V)
         /\ Len(FlattenSeq(s)) = Len(s) * L
         /\ \A k \in 1..Len(s), j \in 1..L : FlattenSeq(s)[(k - 1) * L + j] = s[k][j]
<1>1. PICK f : FlattenRec(f, s, Len(s)) /\ FlattenSeq(s) = f[Len(s)]
  BY FlattenIs, LenProperties
<1> DEFINE Good(i) == /\ f[i] \in Seq(V)
                      /\ Len(f[i]) = i * L
                      /\ \A k \in 1..i, j \in 1..L : f[i][(k - 1) * L + j] = s[k][j]
           S == {m \in Nat : m + 1 \in 1..Len(s) => Good(m + 1)}
<1>2. \A k \in 1..Len(s) : s[k] \in Seq(V) /\ Len(s[k]) = L
  BY ElementOfSeq
<1>3. 0 \in S
  <2>1. f[1] = s[1] BY <1>1, LenProperties DEF FlattenRec
  <2>2. 1 \in 1..Len(s) BY LenProperties
  <2>3. Good(1)
    <3>1. f[1] \in Seq(V) /\ Len(f[1]) = 1 * L BY <1>2, <2>1, <2>2
    <3>2. \A k \in 1..1, j \in 1..L : (k - 1) * L + j = j /\ k = 1 OBVIOUS
    <3> QED BY <2>1, <3>1, <3>2
  <2> QED BY <2>3
<1>4. \A m \in Nat : m \in S => m + 1 \in S
  <2> SUFFICES ASSUME NEW m \in Nat, m \in S PROVE m + 1 \in S OBVIOUS
  <2> SUFFICES ASSUME m + 2 \in 1..Len(s) PROVE Good(m + 2)
    <3>1. m + 1 + 1 = m + 2 OBVIOUS
    <3> HIDE DEF Good
    <3> QED BY <3>1
  <2>1. Good(m + 1)
    <3>1. m + 1 \in 1..Len(s) BY LenProperties
    <3> HIDE DEF Good
    <3> QED BY <3>1
  <2>2. f[m + 2] = f[m + 1] \o s[m + 2]
    <3>1. m + 2 # 1 /\ (m + 2) - 1 = m + 1 OBVIOUS
    <3> HIDE DEF Good
    <3> QED BY <1>1, <3>1 DEF FlattenRec
  <2>3. s[m + 2] \in Seq(V) /\ Len(s[m + 2]) = L BY <1>2
  <2> DEFINE g == f[m + 1] h == s[m + 2]
  <2>4. /\ g \o h \in Seq(V) /\ Len(g \o h) = Len(g) + Len(h)
        /\ \A i \in 1..(Len(g) + Len(h)) : (g \o h)[i] = IF i <= Len(g) THEN g[i] ELSE h[i - Len(g)]
    <3>1. g \in Seq(V) /\ h \in Seq(V) BY <2>1, <2>3
    <3> HIDE DEF g, h
    <3> QED BY <3>1, ConcatProperties
  <2>5. Len(g) = (m + 1) * L /\ (m + 1) * L + L = (m + 2) * L /\ (m + 1) * L \in Nat BY <2>1
  <2>6. \A k \in 1..(m + 2), j \in 1..L : f[m + 2][(k - 1) * L + j] = s[k][j]
    <3> SUFFICES ASSUME NEW k \in 1..(m + 2), NEW j \in 1..L PROVE (g \o h)[(k - 1) * L + j] = s[k][j]
      BY <2>2
    <3>1. CASE k = m + 2
      <4>1. (k - 1) * L + j = Len(g) + j BY <2>5, <3>1
      <4>2. Len(g) + j \in 1..(Len(g) + Len(h)) /\ ~(Len(g) + j <= Len(g)) /\ (Len(g) + j) - Len(g) = j
        BY <2>3, <2>5
      <4> QED BY <2>4, <3>1, <4>1, <4>2
    <3>2. CASE k \in 1..(m + 1)
      <4> DEFINE a == (k - 1) * L b == (m + 1 - k) * L c == (m + 1) * L
      <4>1. c = a + L + b BY <3>2
      <4>2. a \in Nat /\ b \in Nat /\ c \in Nat BY <3>2
      <4>3. a + j \in 1..c /\ a + j <= c /\ Len(g) = c
        <5>1. Len(g) = c BY <2>5
        <5> HIDE DEF a, b, c, g
        <5> QED BY <4>1, <4>2, <5>1
      <4>4. (g \o h)[a + j] = g[a + j]
        <5>1. Len(h) \in Nat BY <2>3
        <5> HIDE DEF a, g, h, c
        <5> QED BY <2>4, <4>2, <4>3, <5>1
      <4> QED BY <2>1, <3>2, <4>4
    <3>3. k = m + 2 \/ k \in 1..(m + 1) OBVIOUS
    <3> QED BY <3>1, <3>2, <3>3
  <2> QED BY <2>2, <2>3, <2>4, <2>5, <2>6
<1>5. Len(s) - 1 \in Nat /\ (Len(s) - 1) + 1 = Len(s) BY LenProperties
<1>6. Len(s) - 1 \in S
  <2> HIDE DEF S
  <2> QED BY <1>3, <1>4, <1>5, SetInduction
<1>7. Good(Len(s)) 
  <2> HIDE DEF Good
  <2> QED BY <1>5, <1>6
<1> QED BY <1>1, <1>7

-----------------------------------------------------------------------------
(* Stat: what the kernel writes, word by word.                              *)

\* Words of one event of a group, and of its head.
EntryLen(fmt) == 1 + One("id", fmt) + One("lost", fmt)
HeadLen(fmt) == 1 + One("enabled", fmt) + One("running", fmt)

LEMMA LensType == \A fmt : EntryLen(fmt) \in 1..3 /\ HeadLen(fmt) \in 1..3
  BY OneIsBit DEF EntryLen, HeadLen

LEMMA OptWords ==
  ASSUME NEW f, NEW fmt, NEW v \in Nat
  PROVE  /\ Opt(f, fmt, v) \in Seq(Nat) /\ Len(Opt(f, fmt, v)) = One(f, fmt)
         /\ f \in fmt => Opt(f, fmt, v)[1] = v
BY DEF Opt, One

\* The words of two sequences, one after the other.
LEMMA Concat ==
  ASSUME NEW s \in Seq(Nat), NEW t \in Seq(Nat)
  PROVE  /\ s \o t \in Seq(Nat) /\ Len(s \o t) = Len(s) + Len(t)
         /\ \A i \in 1..Len(s) : (s \o t)[i] = s[i]
         /\ \A i \in 1..Len(t) : (s \o t)[Len(s) + i] = t[i]
<1>1. /\ s \o t \in Seq(Nat) /\ Len(s \o t) = Len(s) + Len(t)
      /\ \A i \in 1..(Len(s) + Len(t)) : (s \o t)[i] = IF i <= Len(s) THEN s[i] ELSE t[i - Len(s)]
  BY ConcatProperties
<1>2. Len(s) \in Nat /\ Len(t) \in Nat BY LenProperties
<1>3. ASSUME NEW i \in 1..Len(s) PROVE (s \o t)[i] = s[i] BY <1>1, <1>2, <1>3
<1>4. ASSUME NEW i \in 1..Len(t) PROVE (s \o t)[Len(s) + i] = t[i]
  <2>1. Len(s) + i \in 1..(Len(s) + Len(t)) /\ ~(Len(s) + i <= Len(s)) /\ (Len(s) + i) - Len(s) = i
    BY <1>2, <1>4
  <2> QED BY <1>1, <2>1
<1> QED BY <1>1, <1>3, <1>4

\* One word, then one for each of two flags.
Three(v, f, x, g, y, fmt) == <<v>> \o Opt(f, fmt, x) \o Opt(g, fmt, y)

LEMMA ThreeWords ==
  ASSUME NEW v \in Nat, NEW f, NEW x \in Nat, NEW g, NEW y \in Nat, NEW fmt,
         NEW w, w = Three(v, f, x, g, y, fmt)
  PROVE  /\ w \in Seq(Nat) /\ Len(w) = 1 + One(f, fmt) + One(g, fmt)
         /\ w[1] = v
         /\ f \in fmt => w[2] = x
         /\ g \in fmt => w[2 + One(f, fmt)] = y
<1> DEFINE s == <<v>> \o Opt(f, fmt, x)
<1>0. w = s \o Opt(g, fmt, y) BY DEF Three
<1>1. <<v>> \in Seq(Nat) /\ Len(<<v>>) = 1 /\ <<v>>[1] = v OBVIOUS
<1>2. /\ Opt(f, fmt, x) \in Seq(Nat) /\ Len(Opt(f, fmt, x)) = One(f, fmt)
      /\ f \in fmt => Opt(f, fmt, x)[1] = x
  BY OptWords
<1>3. /\ Opt(g, fmt, y) \in Seq(Nat) /\ Len(Opt(g, fmt, y)) = One(g, fmt)
      /\ g \in fmt => Opt(g, fmt, y)[1] = y
  BY OptWords
<1>4. /\ One(f, fmt) \in {0, 1} /\ One(g, fmt) \in {0, 1}
      /\ f \in fmt => One(f, fmt) = 1
      /\ g \in fmt => One(g, fmt) = 1
  BY DEF One
<1>5. /\ s \in Seq(Nat) /\ Len(s) = 1 + One(f, fmt) /\ s[1] = v
      /\ f \in fmt => s[2] = x
  <2>1. /\ s \in Seq(Nat) /\ Len(s) = 1 + Len(Opt(f, fmt, x))
        /\ \A i \in 1..1 : s[i] = <<v>>[i]
        /\ \A i \in 1..Len(Opt(f, fmt, x)) : s[1 + i] = Opt(f, fmt, x)[i]
    BY <1>1, <1>2, Concat
  <2> HIDE DEF s
  <2>2. f \in fmt => s[1 + 1] = x BY <1>2, <1>4, <2>1
  <2> QED BY <1>1, <1>2, <2>1, <2>2
<1>6. /\ w \in Seq(Nat) /\ Len(w) = Len(s) + Len(Opt(g, fmt, y))
      /\ \A i \in 1..Len(s) : w[i] = s[i]
      /\ \A i \in 1..Len(Opt(g, fmt, y)) : w[Len(s) + i] = Opt(g, fmt, y)[i]
  <2> DEFINE o == Opt(g, fmt, y)
  <2>1. /\ s \o o \in Seq(Nat) /\ Len(s \o o) = Len(s) + Len(o)
        /\ \A i \in 1..Len(s) : (s \o o)[i] = s[i]
        /\ \A i \in 1..Len(o) : (s \o o)[Len(s) + i] = o[i]
    <3> HIDE DEF s, o
    <3>1. o \in Seq(Nat) BY <1>3 DEF o
    <3> QED BY <1>5, <3>1, Concat
  <2> HIDE DEF s, o
  <2> QED BY <1>0, <2>1 DEF o
<1>7. w[1] = v /\ (f \in fmt => w[2] = x)
  <2> HIDE DEF s
  <2> QED BY <1>4, <1>5, <1>6
<1>8. g \in fmt => w[2 + One(f, fmt)] = y
  <2> HIDE DEF s
  <2>1. SUFFICES ASSUME g \in fmt PROVE w[2 + One(f, fmt)] = y OBVIOUS
  <2>2. w[Len(s) + 1] = y BY <1>3, <1>4, <1>6, <2>1
  <2>3. Len(s) + 1 = 2 + One(f, fmt) BY <1>4, <1>5
  <2> QED BY <2>2, <2>3
<1>9. Len(w) = 1 + One(f, fmt) + One(g, fmt)
  <2> HIDE DEF s
  <2> QED BY <1>3, <1>5, <1>6
<1> QED BY <1>6, <1>7, <1>8, <1>9

LEMMA EntryWords ==
  ASSUME NEW x \in Event, NEW fmt
  PROVE  /\ Entry(x, fmt) \in Seq(Nat) /\ Len(Entry(x, fmt)) = EntryLen(fmt)
         /\ Entry(x, fmt)[1] = x.count
         /\ "id" \in fmt => Entry(x, fmt)[2] = x.id
         /\ "lost" \in fmt => Entry(x, fmt)[2 + One("id", fmt)] = x.lost
<1>1. x.count \in Nat /\ x.id \in Nat /\ x.lost \in Nat BY DEF Event
<1> DEFINE w == Entry(x, fmt)
<1>2. w = Three(x.count, "id", x.id, "lost", x.lost, fmt) BY DEF Entry, Three
<1> HIDE DEF w
<1>3. /\ w \in Seq(Nat) /\ Len(w) = 1 + One("id", fmt) + One("lost", fmt)
      /\ w[1] = x.count
      /\ "id" \in fmt => w[2] = x.id
      /\ "lost" \in fmt => w[2 + One("id", fmt)] = x.lost
  BY <1>1, <1>2, ThreeWords
<1> QED BY <1>3 DEF w, EntryLen

\* A first word and the two times, as they stand before anything else.
Head1(v, x, fmt) == <<v>> \o Times(x, fmt)

LEMMA HeadWords ==
  ASSUME NEW v \in Nat, NEW x \in Event, NEW fmt
  PROVE  /\ Head1(v, x, fmt) \in Seq(Nat) /\ Len(Head1(v, x, fmt)) = HeadLen(fmt)
         /\ Head1(v, x, fmt)[1] = v
         /\ "enabled" \in fmt => Head1(v, x, fmt)[2] = x.enabled
         /\ "running" \in fmt => Head1(v, x, fmt)[2 + One("enabled", fmt)] = x.running
<1> DEFINE h == Head1(v, x, fmt)
           a == Opt("enabled", fmt, x.enabled) b == Opt("running", fmt, x.running)
<1>1. x.enabled \in Nat /\ x.running \in Nat BY DEF Event
<1>2. <<v>> \in Seq(Nat) /\ a \in Seq(Nat) /\ b \in Seq(Nat) BY <1>1, OptWords
<1>3. h = Three(v, "enabled", x.enabled, "running", x.running, fmt)
  <2>1. h = <<v>> \o (a \o b) BY DEF Head1, Times
  <2>2. Three(v, "enabled", x.enabled, "running", x.running, fmt) = <<v>> \o a \o b
    BY DEF Three
  <2> HIDE DEF a, b
  <2>3. <<v>> \o (a \o b) = <<v>> \o a \o b BY <1>2, ConcatAssociative
  <2> QED BY <2>1, <2>2, <2>3
<1>4. /\ h \in Seq(Nat) /\ Len(h) = 1 + One("enabled", fmt) + One("running", fmt)
      /\ h[1] = v
      /\ "enabled" \in fmt => h[2] = x.enabled
      /\ "running" \in fmt => h[2 + One("enabled", fmt)] = x.running
  <2> HIDE DEF h
  <2> QED BY <1>1, <1>3, ThreeWords
<1> QED BY <1>4 DEF HeadLen

\* Where the words of a read of one event are: PERF_FORMAT_GROUP is off.
LEMMA SingleWords ==
  ASSUME NEW g \in Seq(Event), Len(g) > 0, NEW fmt, "group" \notin fmt
  PROVE  LET w == KernelWords(g, fmt)
             at == 1 + HeadLen(fmt)
         IN  /\ w \in Seq(Nat) /\ Len(w) = HeadLen(fmt) + One("id", fmt) + One("lost", fmt)
             /\ w[1] = g[1].count
             /\ "enabled" \in fmt => w[2] = g[1].enabled
             /\ "running" \in fmt => w[2 + One("enabled", fmt)] = g[1].running
             /\ "id" \in fmt => w[at] = g[1].id
             /\ "lost" \in fmt => w[at + One("id", fmt)] = g[1].lost
<1> DEFINE x == g[1]
           h == <<x.count>> \o Times(x, fmt)
           i == Opt("id", fmt, x.id) l == Opt("lost", fmt, x.lost)
           w == h \o i \o l
<1>1. x \in Event BY ElementOfSeq, LenProperties
<1>2. x.count \in Nat /\ x.id \in Nat /\ x.lost \in Nat BY <1>1 DEF Event
<1>3. KernelWords(g, fmt) = w BY DEF KernelWords
<1>4. /\ h \in Seq(Nat) /\ Len(h) = HeadLen(fmt) /\ h[1] = x.count
      /\ "enabled" \in fmt => h[2] = x.enabled
      /\ "running" \in fmt => h[2 + One("enabled", fmt)] = x.running
  <2>1. h = Head1(x.count, x, fmt) BY DEF Head1
  <2> HIDE DEF h, x
  <2>2. x.count \in Nat BY <1>2
  <2>3. /\ Head1(x.count, x, fmt) \in Seq(Nat) /\ Len(Head1(x.count, x, fmt)) = HeadLen(fmt)
        /\ Head1(x.count, x, fmt)[1] = x.count
        /\ "enabled" \in fmt => Head1(x.count, x, fmt)[2] = x.enabled
        /\ "running" \in fmt => Head1(x.count, x, fmt)[2 + One("enabled", fmt)] = x.running
    BY <1>1, <2>2, HeadWords
  <2> QED BY <2>1, <2>3
<1>5. /\ i \in Seq(Nat) /\ Len(i) = One("id", fmt) /\ ("id" \in fmt => i[1] = x.id)
      /\ l \in Seq(Nat) /\ Len(l) = One("lost", fmt) /\ ("lost" \in fmt => l[1] = x.lost)
  <2>1. x.id \in Nat /\ x.lost \in Nat BY <1>2
  <2> HIDE DEF x
  <2> QED BY <2>1, OptWords
<1>6. /\ One("id", fmt) \in {0, 1} /\ ("id" \in fmt => One("id", fmt) = 1)
      /\ One("lost", fmt) \in {0, 1} /\ ("lost" \in fmt => One("lost", fmt) = 1)
      /\ One("enabled", fmt) \in {0, 1} /\ ("enabled" \in fmt => One("enabled", fmt) = 1)
      /\ One("running", fmt) \in {0, 1} /\ ("running" \in fmt => One("running", fmt) = 1)
  BY DEF One
<1>7. HeadLen(fmt) = 1 + One("enabled", fmt) + One("running", fmt) BY DEF HeadLen
<1> HIDE DEF x, h, i, l
<1> DEFINE hi == h \o i
<1>8. /\ hi \in Seq(Nat) /\ Len(hi) = Len(h) + Len(i)
      /\ \A k \in 1..Len(h) : hi[k] = h[k]
      /\ \A k \in 1..Len(i) : hi[Len(h) + k] = i[k]
  BY <1>4, <1>5, Concat
<1>9. /\ w \in Seq(Nat) /\ Len(w) = Len(hi) + Len(l)
      /\ \A k \in 1..Len(hi) : w[k] = hi[k]
      /\ \A k \in 1..Len(l) : w[Len(hi) + k] = l[k]
  <2> HIDE DEF hi
  <2> QED BY <1>5, <1>8, Concat DEF hi
<1> HIDE DEF hi, w
<1>10. Len(w) = HeadLen(fmt) + One("id", fmt) + One("lost", fmt)
  BY <1>4, <1>5, <1>8, <1>9
<1>11. w[1] = x.count /\ ("enabled" \in fmt => w[2] = x.enabled)
       /\ ("running" \in fmt => w[2 + One("enabled", fmt)] = x.running)
  <2>1. \A k \in 1..HeadLen(fmt) : w[k] = h[k] BY <1>4, <1>5, <1>6, <1>8, <1>9
  <2> QED BY <1>4, <1>6, <1>7, <2>1
<1>12. "id" \in fmt => w[1 + HeadLen(fmt)] = x.id
  <2> SUFFICES ASSUME "id" \in fmt PROVE w[1 + HeadLen(fmt)] = x.id OBVIOUS
  <2>1. hi[Len(h) + 1] = x.id BY <1>5, <1>6, <1>8
  <2>2. Len(h) + 1 \in 1..Len(hi) BY <1>4, <1>5, <1>6, <1>7, <1>8
  <2>3. Len(h) + 1 = 1 + HeadLen(fmt) BY <1>4, <1>6, <1>7
  <2> QED BY <1>9, <2>1, <2>2, <2>3
<1>13. "lost" \in fmt => w[1 + HeadLen(fmt) + One("id", fmt)] = x.lost
  <2> SUFFICES ASSUME "lost" \in fmt PROVE w[1 + HeadLen(fmt) + One("id", fmt)] = x.lost OBVIOUS
  <2>1. w[Len(hi) + 1] = x.lost BY <1>5, <1>6, <1>9
  <2>2. Len(hi) + 1 = 1 + HeadLen(fmt) + One("id", fmt) BY <1>4, <1>5, <1>6, <1>7, <1>8
  <2> QED BY <2>1, <2>2
<1> QED BY <1>3, <1>9, <1>10, <1>11, <1>12, <1>13 DEF x

\* Where the words of a read of a group are, each event's among them.
LEMMA GroupWords ==
  ASSUME NEW g \in Seq(Event), Len(g) > 0, NEW fmt, "group" \in fmt
  PROVE  LET w == KernelWords(g, fmt)
             at(k) == 1 + HeadLen(fmt) + (k - 1) * EntryLen(fmt)
         IN  /\ w \in Seq(Nat) /\ Len(w) = HeadLen(fmt) + Len(g) * EntryLen(fmt)
             /\ w[1] = Len(g)
             /\ "enabled" \in fmt => w[2] = g[1].enabled
             /\ "running" \in fmt => w[2 + One("enabled", fmt)] = g[1].running
             /\ \A k \in 1..Len(g) :
                  /\ w[at(k)] = g[k].count
                  /\ "id" \in fmt => w[at(k) + 1] = g[k].id
                  /\ "lost" \in fmt => w[at(k) + 1 + One("id", fmt)] = g[k].lost
<1> DEFINE n == Len(g)
           h == <<n>> \o Times(g[1], fmt)
           s == [k \in DOMAIN g |-> Entry(g[k], fmt)]
           f == FlattenSeq(s)
           w == h \o f
           L == EntryLen(fmt)
           H == HeadLen(fmt)
<1>1. n \in Nat \ {0} /\ DOMAIN g = 1..n /\ \A k \in 1..n : g[k] \in Event
  BY LenProperties, ElementOfSeq
<1>2. KernelWords(g, fmt) = w BY DEF KernelWords
<1>3. /\ h \in Seq(Nat) /\ Len(h) = H /\ h[1] = n
      /\ "enabled" \in fmt => h[2] = g[1].enabled
      /\ "running" \in fmt => h[2 + One("enabled", fmt)] = g[1].running
  <2> DEFINE x == g[1]
  <2>1. x \in Event /\ n \in Nat BY <1>1
  <2>2. h = Head1(n, x, fmt) BY DEF Head1
  <2>3. /\ h \in Seq(Nat) /\ Len(h) = HeadLen(fmt) /\ h[1] = n
        /\ "enabled" \in fmt => h[2] = x.enabled
        /\ "running" \in fmt => h[2 + One("enabled", fmt)] = x.running
    <3> HIDE DEF n, x, h
    <3>1. /\ Head1(n, x, fmt) \in Seq(Nat) /\ Len(Head1(n, x, fmt)) = HeadLen(fmt)
          /\ Head1(n, x, fmt)[1] = n
          /\ "enabled" \in fmt => Head1(n, x, fmt)[2] = x.enabled
          /\ "running" \in fmt => Head1(n, x, fmt)[2 + One("enabled", fmt)] = x.running
      BY <2>1, HeadWords
    <3> QED BY <2>2, <3>1
  <2> QED BY <2>3
<1>4. \A k \in 1..n : s[k] \in Seq(Nat) /\ Len(s[k]) = L
  BY <1>1, EntryWords
<1>5. s \in Seq(Seq(Nat)) /\ Len(s) = n
  <2>1. s \in [1..n -> Seq(Nat)] BY <1>1, <1>4
  <2>2. s \in Seq(Seq(Nat)) BY <1>1, <2>1
  <2>3. Len(s) = n BY <1>1, <2>1, <2>2, LenProperties
  <2> QED BY <2>2, <2>3
<1>6. L \in 1..3 /\ H \in 1..3 BY LensType
<1>7. /\ f \in Seq(Nat) /\ Len(f) = n * L
      /\ \A k \in 1..n, j \in 1..L : f[(k - 1) * L + j] = s[k][j]
  <2>1. /\ FlattenSeq(s) \in Seq(Nat) /\ Len(FlattenSeq(s)) = Len(s) * L
        /\ \A k \in 1..Len(s), j \in 1..L : FlattenSeq(s)[(k - 1) * L + j] = s[k][j]
    <3>1. L \in Nat /\ Len(s) > 0 /\ \A k \in 1..Len(s) : Len(s[k]) = L BY <1>1, <1>4, <1>5, <1>6
    <3> HIDE DEF s, L
    <3> QED BY <1>5, <3>1, FlattenUniform
  <2> HIDE DEF s, L, n
  <2> QED BY <1>5, <2>1
<1> HIDE DEF h, f
<1>8. /\ w \in Seq(Nat) /\ Len(w) = H + n * L
      /\ \A i \in 1..H : w[i] = h[i]
      /\ \A i \in 1..(n * L) : w[H + i] = f[i]
  <2>1. /\ h \o f \in Seq(Nat) /\ Len(h \o f) = Len(h) + Len(f)
        /\ \A i \in 1..Len(h) : (h \o f)[i] = h[i]
        /\ \A i \in 1..Len(f) : (h \o f)[Len(h) + i] = f[i]
    BY <1>3, <1>7, Concat
  <2> HIDE DEF n, L, H
  <2> QED BY <1>3, <1>7, <2>1
<1> HIDE DEF w
<1>9. /\ w[1] = n
      /\ "enabled" \in fmt => w[2] = g[1].enabled
      /\ "running" \in fmt => w[2 + One("enabled", fmt)] = g[1].running
  <2>1. H = 1 + One("enabled", fmt) + One("running", fmt) BY DEF HeadLen
  <2>2. /\ One("enabled", fmt) \in {0, 1} /\ ("enabled" \in fmt => One("enabled", fmt) = 1)
        /\ One("running", fmt) \in {0, 1} /\ ("running" \in fmt => One("running", fmt) = 1)
    BY DEF One
  <2>3. 1 \in 1..H /\ ("enabled" \in fmt => 2 \in 1..H)
        /\ ("running" \in fmt => 2 + One("enabled", fmt) \in 1..H)
    BY <2>1, <2>2
  <2> HIDE DEF n, H
  <2> QED BY <1>3, <1>8, <2>3
<1>10. ASSUME NEW k \in 1..n, NEW j \in 1..L
       PROVE  w[1 + H + (k - 1) * L + (j - 1)] = s[k][j]
  <2> DEFINE a == (k - 1) * L
             b == n * L
  <2>1. a \in Nat /\ a + L <= b /\ b \in Nat
    <3>1. n - k \in Nat /\ k - 1 \in Nat BY <1>1
    <3>2. (n - k) * L \in Nat /\ a \in Nat BY <3>1, <1>6
    <3>3. b = a + L + (n - k) * L BY <1>1, <1>6
    <3>4. L \in Nat BY <1>6
    <3> HIDE DEF a, b, L, n
    <3> QED BY <3>2, <3>3, <3>4
  <2>2. a + j \in 1..b
    <3> HIDE DEF a, b
    <3> QED BY <1>6, <2>1
  <2>3. w[H + (a + j)] = f[a + j] BY <1>8, <2>2
  <2>4. H + (a + j) = 1 + H + a + (j - 1)
    <3> HIDE DEF a
    <3> QED BY <1>6, <2>1
  <2> QED BY <1>7, <2>3, <2>4
<1>11. ASSUME NEW k \in 1..n
       PROVE  /\ w[1 + H + (k - 1) * L] = g[k].count
              /\ "id" \in fmt => w[1 + H + (k - 1) * L + 1] = g[k].id
              /\ "lost" \in fmt => w[1 + H + (k - 1) * L + 1 + One("id", fmt)] = g[k].lost
  <2> DEFINE a == 1 + H + (k - 1) * L
  <2>1. a \in Nat BY <1>1, <1>6
  <2>2. \A j \in 1..L : w[a + (j - 1)] = s[k][j] BY <1>10
  <2>3. /\ s[k][1] = g[k].count
        /\ "id" \in fmt => s[k][2] = g[k].id
        /\ "lost" \in fmt => s[k][2 + One("id", fmt)] = g[k].lost
    <3>1. s[k] = Entry(g[k], fmt) /\ g[k] \in Event BY <1>1
    <3> QED BY <3>1, EntryWords
  <2>4. L = 1 + One("id", fmt) + One("lost", fmt) BY DEF EntryLen
  <2>5. /\ One("id", fmt) \in {0, 1} /\ ("id" \in fmt => One("id", fmt) = 1)
        /\ One("lost", fmt) \in {0, 1} /\ ("lost" \in fmt => One("lost", fmt) = 1)
    BY DEF One
  <2> HIDE DEF a, s, L
  <2>6. w[a] = s[k][1]
    <3>1. 1 \in 1..L /\ a + (1 - 1) = a BY <2>1, <2>4, <2>5
    <3> QED BY <2>2, <3>1
  <2>7. "id" \in fmt => w[a + 1] = s[k][2]
    <3>1. "id" \in fmt => 2 \in 1..L /\ a + (2 - 1) = a + 1 BY <2>1, <2>4, <2>5
    <3> QED BY <2>2, <3>1
  <2>8. "lost" \in fmt => w[a + 1 + One("id", fmt)] = s[k][2 + One("id", fmt)]
    <3>1. PICK i \in {0, 1} : i = One("id", fmt) BY <2>5
    <3>2. "lost" \in fmt => 2 + i \in 1..L BY <2>4, <2>5, <3>1
    <3>3. a + ((2 + i) - 1) = a + 1 + i BY <2>1
    <3>4. "lost" \in fmt => w[a + 1 + i] = s[k][2 + i] BY <2>2, <3>2, <3>3
    <3> QED BY <3>1, <3>4
  <2> QED BY <2>3, <2>6, <2>7, <2>8 DEF a
<1>12. /\ w \in Seq(Nat) /\ Len(w) = H + n * L BY <1>8
<1> HIDE DEF H, L, n, s
<1> QED BY <1>2, <1>9, <1>11, <1>12 DEF H, L, n

-----------------------------------------------------------------------------
(* What Stat::from_ptr_offset makes of the kernel's words.                  *)

LEMMA EntryPlace ==
  ASSUME NEW fmt, NEW k \in Int
  PROVE  EntryAt(k, fmt) = 1 + HeadLen(fmt) + (k - 1) * EntryLen(fmt)
<1>1. HeadLen(fmt) = 1 + One("enabled", fmt) + One("running", fmt)
      /\ EntryLen(fmt) = 1 + One("id", fmt) + One("lost", fmt)
  BY DEF HeadLen, EntryLen
<1>2. One("enabled", fmt) \in {0, 1} /\ One("running", fmt) \in {0, 1}
  BY OneIsBit
<1>3. PICK a \in Int : a = (k - 1) * EntryLen(fmt)
  BY LensType
<1>4. EntryAt(k, fmt) = 2 + One("enabled", fmt) + One("running", fmt) + a
  BY <1>1, <1>3 DEF EntryAt
<1>5. 1 + HeadLen(fmt) + a = 2 + One("enabled", fmt) + One("running", fmt) + a
  BY <1>1, <1>2, <1>3
<1> QED BY <1>3, <1>4, <1>5

\* The parser finds in each word what the kernel put there, for every read format
\* and any number of siblings.
LEMMA ParseIsTruth ==
  ASSUME NEW g \in Seq(Event), Len(g) > 0, NEW fmt, NEW buf,
         \A i \in 1..Len(KernelWords(g, fmt)) : buf[i] = KernelWords(g, fmt)[i]
  PROVE  /\ FromPtr(buf, fmt) = TruthOf(g, fmt)
         /\ "group" \in fmt => buf[1] = Len(g)
<1> DEFINE w == KernelWords(g, fmt)
           H == HeadLen(fmt)
           L == EntryLen(fmt)
           n == Len(g)
           i == One("id", fmt) l == One("lost", fmt)
           t == One("enabled", fmt) u == One("running", fmt)
<1>1. /\ i \in {0, 1} /\ ("id" \in fmt => i = 1)
      /\ l \in {0, 1} /\ ("lost" \in fmt => l = 1)
      /\ t \in {0, 1} /\ ("enabled" \in fmt => t = 1)
      /\ u \in {0, 1} /\ ("running" \in fmt => u = 1)
  BY DEF One
<1>2. H = 1 + t + u /\ L = 1 + i + l
  BY DEF HeadLen, EntryLen
<1>3. n \in Nat \ {0} /\ \A k \in 1..n : g[k] \in Event
  BY LenProperties, ElementOfSeq
<1>4. CASE "group" \notin fmt
  <2>1. /\ Len(w) = H + i + l /\ w[1] = g[1].count
        /\ "enabled" \in fmt => w[2] = g[1].enabled
        /\ "running" \in fmt => w[2 + t] = g[1].running
        /\ "id" \in fmt => w[1 + H] = g[1].id
        /\ "lost" \in fmt => w[1 + H + i] = g[1].lost
    BY <1>4, SingleWords
  <2>2. \A j \in 1..Len(w) : buf[j] = w[j]
    OBVIOUS
  <2> HIDE DEF w, H, L, i, l, t, u
  <2>3. /\ buf[1] = g[1].count
        /\ "enabled" \in fmt => buf[2] = g[1].enabled
        /\ "running" \in fmt => buf[2 + t] = g[1].running
    BY <1>1, <1>2, <2>1, <2>2
  <2>4. "id" \in fmt => buf[2 + t + u] = g[1].id
    <3>1. 2 + t + u = 1 + H /\ ("id" \in fmt => 1 + H \in 1..Len(w)) BY <1>1, <1>2, <2>1
    <3> QED BY <2>1, <2>2, <3>1
  <2>5. "lost" \in fmt => buf[2 + t + u + i] = g[1].lost
    <3>1. 2 + t + u + i = 1 + H + i /\ ("lost" \in fmt => 1 + H + i \in 1..Len(w)) BY <1>1, <1>2, <2>1
    <3> QED BY <2>1, <2>2, <3>1
  <2>6. TruthOf(g, fmt) =
          [count |-> g[1].count, id |-> Asked("id", fmt, g[1].id),
           lost |-> Asked("lost", fmt, g[1].lost),
           enabled |-> Asked("enabled", fmt, g[1].enabled),
           running |-> Asked("running", fmt, g[1].running), siblings |-> <<>>]
    BY <1>4 DEF TruthOf
  <2>7. FromPtr(buf, fmt) =
          [count |-> buf[1], id |-> WordIf(buf, 2 + t + u, "id", fmt),
           lost |-> WordIf(buf, 2 + t + u + i, "lost", fmt),
           enabled |-> WordIf(buf, 2, "enabled", fmt),
           running |-> WordIf(buf, 2 + t, "running", fmt), siblings |-> <<>>]
    BY <1>4 DEF FromPtr, t, u, i
  <2>8. /\ WordIf(buf, 2 + t + u, "id", fmt) = Asked("id", fmt, g[1].id)
        /\ WordIf(buf, 2 + t + u + i, "lost", fmt) = Asked("lost", fmt, g[1].lost)
        /\ WordIf(buf, 2, "enabled", fmt) = Asked("enabled", fmt, g[1].enabled)
        /\ WordIf(buf, 2 + t, "running", fmt) = Asked("running", fmt, g[1].running)
    BY <2>3, <2>4, <2>5 DEF WordIf, Asked
  <2> QED BY <1>4, <2>3, <2>6, <2>7, <2>8
<1>5. CASE "group" \in fmt
  <2> DEFINE at(k) == 1 + H + (k - 1) * L
             own(x) == [count |-> x.count, id |-> Asked("id", fmt, x.id),
                        lost |-> Asked("lost", fmt, x.lost)]
  <2>1. /\ Len(w) = H + n * L /\ w[1] = n
        /\ "enabled" \in fmt => w[2] = g[1].enabled
        /\ "running" \in fmt => w[2 + t] = g[1].running
        /\ \A k \in 1..n : /\ w[at(k)] = g[k].count
                           /\ "id" \in fmt => w[at(k) + 1] = g[k].id
                           /\ "lost" \in fmt => w[at(k) + 1 + i] = g[k].lost
    BY <1>5, GroupWords
  <2>2. \A j \in 1..Len(w) : buf[j] = w[j]
    OBVIOUS
  <2>3. n * L \in Nat
    <3>1. L \in Nat BY LensType
    <3> QED BY <1>3, <3>1
  <2>4. /\ buf[1] = n
        /\ "enabled" \in fmt => buf[2] = g[1].enabled
        /\ "running" \in fmt => buf[2 + t] = g[1].running
    <3> HIDE DEF w, H, L, n, i, l, t, u
    <3> QED BY <1>1, <1>2, <2>1, <2>2, <2>3
  <2>5. ASSUME NEW k \in 1..n
        PROVE  Counts(buf, EntryAt(k, fmt), fmt) = own(g[k])
    <3> DEFINE a == (k - 1) * L
               b == n * L
               c == 1 + H + a
    <3>1. a \in Nat /\ a + L <= b
      <4>1. n - k \in Nat /\ k - 1 \in Nat /\ L \in Nat BY <1>3, LensType
      <4>2. (n - k) * L \in Nat /\ a \in Nat BY <4>1
      <4>3. b = a + L + (n - k) * L BY <1>3, <4>1
      <4> HIDE DEF a, b, L, n
      <4> QED BY <4>1, <4>2, <4>3
    <3>2. k \in Int BY <1>3
    <3>3. EntryAt(k, fmt) = c
      BY <3>2, EntryPlace
    <3>4. /\ w[c] = g[k].count
          /\ "id" \in fmt => w[c + 1] = g[k].id
          /\ "lost" \in fmt => w[c + 1 + i] = g[k].lost
      BY <2>1
    <3>5. Len(w) = H + b
      BY <2>1
    <3>6. H \in 1..3 /\ L \in 1..3
      BY LensType
    <3> HIDE DEF w, H, L, n, i, l, t, u, a, b
    <3>7. /\ c \in 1..Len(w)
          /\ "id" \in fmt => c + 1 \in 1..Len(w)
          /\ "lost" \in fmt => c + 1 + i \in 1..Len(w)
      BY <1>1, <1>2, <2>3, <3>1, <3>5, <3>6 DEF b
    <3> HIDE DEF c
    <3>8. /\ buf[c] = g[k].count
          /\ "id" \in fmt => buf[c + 1] = g[k].id
          /\ "lost" \in fmt => buf[c + 1 + i] = g[k].lost
      BY <2>2, <3>4, <3>7
    <3>9. Counts(buf, c, fmt) = [count |-> buf[c], id |-> WordIf(buf, c + 1, "id", fmt),
                                 lost |-> WordIf(buf, c + 1 + i, "lost", fmt)]
      BY DEF Counts, i
    <3> QED BY <3>3, <3>8, <3>9 DEF WordIf, Asked
  <2> HIDE DEF w, H, L, i, l, t, u
  <2>6. TruthOf(g, fmt) =
          [count |-> own(g[1]).count, id |-> own(g[1]).id, lost |-> own(g[1]).lost,
           enabled |-> Asked("enabled", fmt, g[1].enabled),
           running |-> Asked("running", fmt, g[1].running),
           siblings |-> [k \in 1..(n - 1) |-> own(g[k + 1])]]
    BY <1>5 DEF TruthOf
  <2>7. FromPtr(buf, fmt) =
          [count |-> Counts(buf, EntryAt(1, fmt), fmt).count,
           id |-> Counts(buf, EntryAt(1, fmt), fmt).id,
           lost |-> Counts(buf, EntryAt(1, fmt), fmt).lost,
           enabled |-> WordIf(buf, 2, "enabled", fmt),
           running |-> WordIf(buf, 2 + t, "running", fmt),
           siblings |-> [k \in 1..(buf[1] - 1) |-> Counts(buf, EntryAt(k + 1, fmt), fmt)]]
    BY <1>5 DEF FromPtr, t
  <2>8. Counts(buf, EntryAt(1, fmt), fmt) = own(g[1])
    BY <1>3, <2>5
  <2>9. [k \in 1..(buf[1] - 1) |-> Counts(buf, EntryAt(k + 1, fmt), fmt)]
        = [k \in 1..(n - 1) |-> own(g[k + 1])]
    <3>1. \A k \in 1..(n - 1) : k + 1 \in 1..n BY <1>3
    <3>2. \A k \in 1..(n - 1) : Counts(buf, EntryAt(k + 1, fmt), fmt) = own(g[k + 1])
      <4> HIDE DEF own
      <4> QED BY <2>5, <3>1
    <3> HIDE DEF own, n
    <3> QED BY <2>4, <3>2
  <2>10. /\ WordIf(buf, 2, "enabled", fmt) = Asked("enabled", fmt, g[1].enabled)
         /\ WordIf(buf, 2 + t, "running", fmt) = Asked("running", fmt, g[1].running)
    BY <2>4 DEF WordIf, Asked
  <2> HIDE DEF own
  <2>11. FromPtr(buf, fmt) = TruthOf(g, fmt)
    BY <2>6, <2>7, <2>8, <2>9, <2>10
  <2> QED BY <2>4, <2>11
<1> QED BY <1>4, <1>5

\* As many words as event->read_size says.
LEMMA WordsFillRead ==
  ASSUME NEW g \in Seq(Event), Len(g) > 0, NEW fmt
  PROVE  /\ KernelWords(g, fmt) \in Seq(Nat)
         /\ Len(KernelWords(g, fmt)) = ReadSize(Len(g), fmt)
<1> DEFINE i == One("id", fmt) l == One("lost", fmt)
           t == One("enabled", fmt) u == One("running", fmt)
           n == Len(g) w == KernelWords(g, fmt)
<1>1. i \in {0, 1} /\ l \in {0, 1} /\ t \in {0, 1} /\ u \in {0, 1}
  BY OneIsBit
<1>2. HeadLen(fmt) = 1 + t + u /\ EntryLen(fmt) = 1 + i + l
  BY DEF HeadLen, EntryLen
<1>3. n \in Nat BY LenProperties
<1>4. CASE "group" \notin fmt
  <2>1. w \in Seq(Nat) /\ Len(w) = HeadLen(fmt) + i + l
    BY <1>4, SingleWords
  <2>2. ReadSize(n, fmt) = t + u + (1 + i + l)
    BY <1>4 DEF ReadSize
  <2> HIDE DEF i, l, t, u, w, n
  <2>3. Len(w) = ReadSize(n, fmt) BY <1>1, <1>2, <2>1, <2>2
  <2> QED BY <2>1, <2>3 DEF w, n
<1>5. CASE "group" \in fmt
  <2>1. w \in Seq(Nat) /\ Len(w) = HeadLen(fmt) + n * EntryLen(fmt)
    BY <1>5, GroupWords
  <2>2. ReadSize(n, fmt) = t + u + (1 + n * EntryLen(fmt))
    BY <1>2, <1>5 DEF ReadSize
  <2>3. n * EntryLen(fmt) \in Nat
    <3>1. EntryLen(fmt) \in Nat BY LensType
    <3> QED BY <1>3, <3>1
  <2> HIDE DEF i, l, t, u, w, n
  <2>4. Len(w) = ReadSize(n, fmt) BY <1>1, <1>2, <2>1, <2>2, <2>3
  <2> QED BY <2>1, <2>4 DEF w, n
<1> QED BY <1>4, <1>5

\* What is parsed fits in read_buf_size, if the first word does not name more events.
LEMMA ParseFits ==
  ASSUME NEW n \in Nat \ {0}, NEW fmt, NEW buf, "group" \in fmt => buf[1] \in 0..n
  PROVE  WordsParsed(buf, fmt) \in Nat /\ WordsParsed(buf, fmt) <= ReadBufSize(n, fmt)
<1> DEFINE i == One("id", fmt) l == One("lost", fmt) p == One("group", fmt)
           t == One("enabled", fmt) u == One("running", fmt)
<1>1. i \in {0, 1} /\ l \in {0, 1} /\ t \in {0, 1} /\ u \in {0, 1} /\ p \in {0, 1}
  BY OneIsBit
<1>2. HeadLen(fmt) = 1 + t + u /\ EntryLen(fmt) = 1 + i + l
  BY DEF HeadLen, EntryLen
<1>3. ReadBufSize(n, fmt) = 1 + t + u + n * (p + i + l)
  BY DEF ReadBufSize
<1>4. CASE "group" \notin fmt
  <2>1. WordsParsed(buf, fmt) = 1 + t + u + i + l
    BY <1>4 DEF WordsParsed
  <2>2. p = 0 BY <1>4 DEF One
  <2> HIDE DEF i, l, t, u, p
  <2>3. PICK k \in {0, 1, 2} : k = i + l BY <1>1
  <2>4. n * (p + i + l) >= k /\ n * (p + i + l) \in Nat
    <3>1. p + i + l = k BY <1>1, <2>2, <2>3
    <3>2. n * k \in Nat /\ n * k >= k BY <2>3
    <3> QED BY <3>1, <3>2
  <2> QED BY <1>1, <1>3, <2>1, <2>3, <2>4
<1>5. CASE "group" \in fmt
  <2> DEFINE m == IF buf[1] > 1 THEN buf[1] ELSE 1
  <2>1. m \in 1..n BY <1>5
  <2>2. p = 1 BY <1>5 DEF One
  <2>3. WordsParsed(buf, fmt) = EntryAt(m + 1, fmt) - 1
    BY <1>5 DEF WordsParsed
  <2> HIDE DEF i, l, t, u, p, m
  <2>4. EntryAt(m + 1, fmt) = 1 + HeadLen(fmt) + m * EntryLen(fmt)
    <3>1. m + 1 \in Int /\ (m + 1) - 1 = m BY <2>1
    <3> QED BY <3>1, EntryPlace
  <2>5. PICK k \in 1..3 : k = EntryLen(fmt) BY LensType
  <2>6. p + i + l = k BY <1>1, <1>2, <2>2, <2>5
  <2>7. m * k \in Nat /\ n * k \in Nat /\ m * k <= n * k
    BY <2>1, <2>5
  <2>8. WordsParsed(buf, fmt) = 1 + t + u + m * k
    BY <1>1, <1>2, <2>3, <2>4, <2>5, <2>7
  <2>9. ReadBufSize(n, fmt) = 1 + t + u + n * k
    BY <1>3, <2>6
  <2> QED BY <1>1, <2>7, <2>8, <2>9
<1> QED BY <1>4, <1>5

-----------------------------------------------------------------------------
(* StatInv.                                                                 *)

LEMMA EventsAreSeq ==
  ASSUME StatInv, NEW e \in Counters
  PROVE  /\ e \in 1..(siblings + 1) /\ Most(e) \in Nat \ {0}
         /\ ReadGroup(e) \in Seq(Event) /\ Len(ReadGroup(e)) \in 1..Most(e)
<1>1. /\ siblings \in Nat /\ IsSeq(events, siblings + 1)
      /\ \A j \in 1..(siblings + 1) : events[j] \in Event
  BY DEF StatInv, BufferInv
<1>2. e \in 1..(siblings + 1) /\ Len(events) = siblings + 1
  BY <1>1 DEF Counters, IsSeq
<1>3. events \in [1..(siblings + 1) -> Event]
  BY <1>1, SeqIsFun
<1>4. events \in Seq(Event)
  BY <1>1, <1>3
<1>5. CASE e = 1 /\ grouped
  <2>1. ReadGroup(e) = events BY <1>5 DEF ReadGroup
  <2>2. Len(ReadGroup(e)) \in 1..Most(e) BY <1>1, <1>2, <1>5, <2>1 DEF Most
  <2> QED BY <1>1, <1>2, <1>4, <1>5, <2>1, <2>2 DEF Most
<1>6. CASE ~(e = 1 /\ grouped)
  <2>1. ReadGroup(e) = <<events[e]>> BY <1>6 DEF ReadGroup
  <2>2. <<events[e]>> \in Seq(Event) /\ Len(<<events[e]>>) = 1 BY <1>1, <1>2
  <2> QED BY <1>1, <1>2, <2>1, <2>2 DEF Most
<1> QED BY <1>5, <1>6

LEMMA InitStat == Init => StatInv
<1> SUFFICES ASSUME Init PROVE StatInv
  OBVIOUS
<1>1. BufferInv /\ StatIsExact
  BY InitBuffers DEF Init, StatIsExact, NoResult
<1>2. PICK fmt \in LeaderFormats : formats = <<fmt>> /\ read_buf = <<Zeroes(ReadBufSize(1, fmt))>>
  BY DEF Init
<1>3. siblings = 0 /\ events = <<NewEvent(1)>>
  BY DEF Init
<1>4. NewEvent(1) \in Event
  BY DEF NewEvent, Event
<1>5. ReadBufSize(1, fmt) >= 1 /\ ReadBufSize(1, fmt) \in Nat
  BY OneIsBit DEF ReadBufSize
<1>6. read_buf[1][1] = 0
  <2>1. 1 \in 1..ReadBufSize(1, fmt) BY <1>5
  <2> QED BY <1>2, <2>1 DEF Zeroes
<1> QED BY <1>1, <1>3, <1>4, <1>6 DEF StatInv, Most

\* Steps that leave the buffers alone, and of which no statistics come.
LEMMA SameWords ==
  ASSUME StatInv, BufferInv', UNCHANGED <<siblings, formats, read_buf>>,
         \A j \in 1..(siblings + 1) : events'[j] \in Event, result'.kind # "ok"
  PROVE  StatInv'
<1>1. StatIsExact'
  BY DEF StatIsExact
<1>2. ASSUME NEW e \in 1..(siblings + 1)
      PROVE  "group" \in formats'[e] => read_buf'[e][1] \in 0..Most(e)'
  BY DEF StatInv, Most
<1> QED BY <1>1, <1>2 DEF StatInv

\* CounterGroup::add: the new buffer, and the leader's if it is replaced, is of zeroes.
LEMMA AddKeepsStat ==
  ASSUME StatInv, NEW fmt \in SiblingFormats, Add(fmt)
  PROVE  StatInv'
<1>1. BufferInv /\ BufferInv'
  BY AddKeeps DEF StatInv
<1>2. StatIsExact'
  BY DEF Add, StatIsExact, NoResult
<1>3. siblings \in Nat /\ siblings' = siblings + 1
  BY <1>1 DEF Add, BufferInv
<1> DEFINE n == LeaderBufSize(siblings')
           bufs == IF n > Len(read_buf[1]) THEN [read_buf EXCEPT ![1] = Zeroes(n)]
                                           ELSE read_buf
           own == Zeroes(ReadBufSize(1, fmt))
           m == siblings + 1
<1>4. /\ IsSeq(events, m) /\ IsSeq(read_buf, m) /\ IsSeq(formats, m) /\ m \in Nat
  BY <1>1, <1>3 DEF BufferInv
<1>5. IsSeq(bufs, m)
  BY <1>4, ExceptIsSeq
<1>6. /\ events' = Append(events, NewEvent(m + 1)) /\ formats' = Append(formats, fmt)
      /\ read_buf' = Append(bufs, own)
  <2>1. Len(events) = m BY <1>4 DEF IsSeq
  <2> QED BY <2>1 DEF Add
<1>7. n \in Nat
  BY <1>3, RoomGrows DEF LeaderBufSize
<1>8. bufs[1][1] \in {0, read_buf[1][1]}
  <2>1. CASE n > Len(read_buf[1])
    <3>1. Len(read_buf[1]) \in Nat
      <4>1. IsSeq(read_buf[1], Len(read_buf[1])) BY <1>1, <1>3 DEF BufferInv
      <4> QED BY <4>1, SeqIsFun
    <3>2. bufs[1] = Zeroes(n)
      BY <2>1, <1>3, <1>4, SeqIsFun
    <3>3. 1 \in 1..n
      BY <2>1, <1>7, <3>1
    <3> QED BY <3>2, <3>3 DEF Zeroes
  <2>2. CASE ~(n > Len(read_buf[1]))
    BY <2>2
  <2> QED BY <2>1, <2>2
<1>9. \A e \in 2..m : bufs[e] = read_buf[e]
  BY <1>3, <1>4, SeqIsFun
<1> HIDE DEF n, bufs, m
<1>10. /\ read_buf' = [j \in 1..(m + 1) |-> IF j = m + 1 THEN own ELSE bufs[j]]
       /\ formats' = [j \in 1..(m + 1) |-> IF j = m + 1 THEN fmt ELSE formats[j]]
       /\ events' = [j \in 1..(m + 1) |-> IF j = m + 1 THEN NewEvent(m + 1) ELSE events[j]]
  <2> HIDE DEF own
  <2>1. \A s, x : IsSeq(s, m) =>
          Append(s, x) = [j \in 1..(m + 1) |-> IF j = m + 1 THEN x ELSE s[j]]
    BY <1>4, AppendIsSeq
  <2>2. read_buf' = [j \in 1..(m + 1) |-> IF j = m + 1 THEN own ELSE bufs[j]]
    BY <1>5, <1>6, <2>1
  <2>3. formats' = [j \in 1..(m + 1) |-> IF j = m + 1 THEN fmt ELSE formats[j]]
    BY <1>4, <1>6, <2>1
  <2>4. events' = [j \in 1..(m + 1) |-> IF j = m + 1 THEN NewEvent(m + 1) ELSE events[j]]
    BY <1>4, <1>6, <2>1
  <2> QED BY <2>2, <2>3, <2>4
<1> HIDE DEF own
<1>11. ASSUME NEW e \in 1..(m + 1)
       PROVE  /\ events'[e] \in Event
              /\ "group" \in formats'[e] => read_buf'[e][1] \in 0..Most(e)'
  <2>1. e = m + 1 \/ e \in 1..m
    BY <1>4
  <2>2. \A j \in 1..m : /\ events[j] \in Event
                        /\ "group" \in formats[j] => read_buf[j][1] \in 0..Most(j)
    BY DEF StatInv, m
  <2>3. \A j \in 1..m : Most(j) \in Nat /\ Most(j)' \in Nat /\ Most(j) <= Most(j)'
    BY <1>3 DEF Most
  <2>4. CASE e = m + 1
    <3>1. events'[e] = NewEvent(m + 1) /\ formats'[e] = fmt
      BY <1>4, <1>10, <2>4
    <3>2. "group" \notin fmt
      BY FormatAssumption
    <3>3. NewEvent(m + 1) \in Event
      BY <1>4 DEF NewEvent, Event
    <3> QED BY <3>1, <3>2, <3>3
  <2>5. CASE e \in 1..m /\ e # m + 1
    <3>1. events'[e] = events[e] /\ formats'[e] = formats[e] /\ read_buf'[e] = bufs[e]
      BY <1>4, <1>10, <2>5
    <3>2. bufs[e][1] \in {0, read_buf[e][1]}
      BY <1>4, <1>8, <1>9, <2>5
    <3>3. Most(e) \in Nat /\ Most(e)' \in Nat /\ Most(e) <= Most(e)'
      BY <2>3, <2>5
    <3> QED BY <2>2, <2>5, <3>1, <3>2, <3>3
  <2> QED BY <1>4, <2>1, <2>4, <2>5
<1> QED BY <1>1, <1>2, <1>3, <1>11 DEF StatInv, m

\* Counter::stat: the whole of the kernel's words is in the buffer, so that they are
\* what is parsed; or nothing is, in the error state.
LEMMA StatKeepsStat ==
  ASSUME StatInv, NEW e \in Counters, DoStat(e)
  PROVE  StatInv'
<1> DEFINE g == ReadGroup(e)
           fmt == formats[e]
           buf == read_buf[e]
           w == KernelWords(g, fmt)
<1>1. BufferInv /\ BufferInv'
  BY StatKeeps DEF StatInv
<1>2. /\ e \in 1..(siblings + 1) /\ Most(e) \in Nat \ {0}
      /\ g \in Seq(Event) /\ Len(g) \in 1..Most(e)
  BY EventsAreSeq
<1>3. /\ UNCHANGED <<events, error, grouped, siblings, formats>>
      /\ read_buf' = [read_buf EXCEPT ![e] = Read(e).buf]
      /\ result' = IF Read(e).kind = "err" THEN Failed
                   ELSE [kind |-> "ok", of |-> e, stat |-> FromPtr(read_buf'[e], formats[e])]
  BY DEF DoStat
<1>4. \A c \in 1..(siblings + 1) : read_buf'[c] = IF c = e THEN Read(e).buf ELSE read_buf[c]
  <2>1. IsSeq(read_buf, siblings + 1) BY <1>1 DEF BufferInv
  <2> QED BY <1>3, <2>1, SeqIsFun
<1>5. \A c \in 1..(siblings + 1) :
        /\ events'[c] \in Event /\ Most(c)' = Most(c)
        /\ "group" \in formats[c] => read_buf[c][1] \in 0..Most(c)
  BY <1>3 DEF StatInv, Most
<1>6. CASE e = 1 /\ error
  <2>1. Read(e).buf = read_buf[e] /\ Read(e).kind = "ok"
    BY <1>6 DEF Read
  <2>2. \A c \in 1..(siblings + 1) : read_buf'[c] = read_buf[c]
    BY <1>4, <2>1
  <2>3. StatIsExact'
    <3>1. result'.of = 1 /\ error'
      BY <1>3, <1>6, <2>1
    <3> QED BY <3>1 DEF StatIsExact
  <2> QED BY <1>1, <1>3, <1>5, <2>2, <2>3 DEF StatInv
<1>7. CASE ~(e = 1 /\ error)
  <2>1. w \in Seq(Nat) /\ Len(w) = ReadSize(Len(g), fmt)
    <3>1. Len(g) > 0 BY <1>2
    <3> HIDE DEF g, fmt
    <3> QED BY <1>2, <3>1, WordsFillRead
  <2>2. IsSeq(buf, Len(buf)) /\ Len(buf) >= ReadSize(Len(g), fmt)
    <3>1. IsSeq(buf, Len(buf)) BY <1>1, <1>2 DEF BufferInv
    <3>2. BufferFits BY <1>1, BuffersFit
    <3> QED BY <3>1, <3>2 DEF BufferFits
  <2>3. DOMAIN w = 1..Len(w) /\ DOMAIN buf = 1..Len(buf) /\ Len(buf) \in Nat /\ Len(w) \in Nat
        /\ Len(w) <= Len(buf)
    <3>1. DOMAIN w = 1..Len(w) /\ Len(w) \in Nat BY <2>1, LenProperties
    <3>2. DOMAIN buf = 1..Len(buf) /\ Len(buf) \in Nat BY <2>2, SeqIsFun
    <3> QED BY <2>1, <2>2, <3>1, <3>2
  <2>4. /\ Read(e).kind = "ok"
        /\ Read(e).buf = [j \in DOMAIN buf |-> IF j \in DOMAIN w THEN w[j] ELSE buf[j]]
    <3>1. ~(Len(buf) < ReadSize(Len(g), fmt)) BY <2>1, <2>2, <2>3
    <3> QED BY <1>7, <3>1 DEF Read
  <2>5. \A j \in 1..Len(w) : Read(e).buf[j] = w[j]
    <3> HIDE DEF w, buf
    <3> QED BY <2>3, <2>4
  <2>6. /\ FromPtr(Read(e).buf, fmt) = TruthOf(g, fmt)
        /\ "group" \in fmt => Read(e).buf[1] = Len(g)
    <3>1. Len(g) > 0 BY <1>2
    <3> DEFINE b == Read(e).buf
    <3>3. \A j \in 1..Len(KernelWords(g, fmt)) : b[j] = KernelWords(g, fmt)[j]
      BY <2>5
    <3> HIDE DEF g, fmt, b
    <3>4. /\ FromPtr(b, fmt) = TruthOf(g, fmt)
          /\ "group" \in fmt => b[1] = Len(g)
      BY <1>2, <3>1, <3>3, ParseIsTruth
    <3> QED BY <3>4 DEF b
  <2>7. StatIsExact'
    <3>1. read_buf'[e] = Read(e).buf BY <1>2, <1>4
    <3>2. result'.of = e /\ result'.stat = TruthOf(g, fmt)
      BY <1>3, <2>4, <2>6, <3>1
    <3>3. Truth(e)' = TruthOf(g, fmt)
      BY <1>3 DEF Truth, ReadGroup
    <3>4. Truth(result.of)' = TruthOf(g, fmt)
      BY <1>3, <3>2 DEF Truth, ReadGroup
    <3> QED BY <3>2, <3>4 DEF StatIsExact
  <2>8. ASSUME NEW c \in 1..(siblings + 1)
        PROVE  "group" \in formats'[c] => read_buf'[c][1] \in 0..Most(c)'
    <3>1. CASE c = e
      <4>1. "group" \in fmt => Read(e).buf[1] \in 0..Most(e)
        BY <1>2, <2>6
      <4> QED BY <1>3, <1>4, <1>5, <3>1, <4>1
    <3>2. CASE c # e
      BY <1>3, <1>4, <1>5, <3>2
    <3> QED BY <3>1, <3>2
  <2> QED BY <1>1, <1>3, <1>5, <2>7, <2>8 DEF StatInv
<1> QED BY <1>6, <1>7

LEMMA NextStat == StatInv /\ [Next]_vars => StatInv'
<1> SUFFICES ASSUME StatInv, [Next]_vars PROVE StatInv'
  OBVIOUS
<1>1. BufferInv /\ BufferInv'
  BY NextBuffers DEF StatInv
<1>2. /\ IsSeq(events, siblings + 1) /\ siblings \in Nat
      /\ \A j \in 1..(siblings + 1) : events[j] \in Event
      /\ Counters = 1..(siblings + 1) /\ DOMAIN events = 1..(siblings + 1)
  <2>1. IsSeq(events, siblings + 1) BY <1>1 DEF BufferInv
  <2> QED BY <1>1, <2>1, SeqIsFun DEF StatInv, BufferInv, Counters, IsSeq
<1>3. NoResult.kind # "ok" /\ Failed.kind # "ok"
  BY DEF NoResult, Failed
<1>4. ASSUME NEW e \in Counters, NEW f \in Tallies, Move(e, f) PROVE StatInv'
  <2>1. events' = [events EXCEPT ![e][f] = @ + 1]
    BY <1>4 DEF Move
  <2>2. ASSUME NEW j \in 1..(siblings + 1) PROVE events'[j] \in Event
    <3>1. events[j] \in Event BY <1>2
    <3>2. CASE j = e
      <4>1. events'[j] = [events[j] EXCEPT ![f] = @ + 1]
        BY <1>2, <2>1, <3>2
      <4>2. f = "count" \/ f = "lost" \/ f = "enabled" \/ f = "running"
        BY DEF Tallies
      <4> QED BY <3>1, <4>1, <4>2 DEF Event
    <3>3. CASE j # e
      BY <1>2, <2>1, <3>1, <3>3
    <3> QED BY <3>2, <3>3
  <2> QED BY <1>1, <1>3, <1>4, <2>2, SameWords DEF Move
<1>5. CASE PinFails
  BY <1>1, <1>2, <1>3, <1>5, SameWords DEF PinFails
<1>6. ASSUME NEW fmt \in SiblingFormats, Add(fmt) PROVE StatInv'
  BY <1>6, AddKeepsStat
<1>7. CASE AddFails
  BY <1>1, <1>2, <1>3, <1>7, SameWords DEF AddFails
<1>8. CASE DropGroup
  BY <1>1, <1>2, <1>3, <1>8, SameWords DEF DropGroup
<1>9. CASE EnableGroup
  BY <1>1, <1>2, <1>3, <1>9, SameWords DEF EnableGroup
<1>10. ASSUME NEW cs, ClearCount(cs) PROVE StatInv'
  <2>1. ASSUME NEW j \in 1..(siblings + 1) PROVE events'[j] \in Event
    <3>1. events[j] \in Event BY <1>2
    <3>2. events'[j] = IF j \in cs THEN [events[j] EXCEPT !.count = 0] ELSE events[j]
      BY <1>2, <1>10 DEF ClearCount
    <3> QED BY <3>1, <3>2 DEF Event
  <2> QED BY <1>1, <1>3, <1>10, <2>1, SameWords DEF ClearCount
<1>11. ASSUME NEW e \in Counters, DoStat(e) PROVE StatInv'
  BY <1>11, StatKeepsStat
<1>12. CASE UNCHANGED vars
  BY <1>1, <1>12 DEF vars, StatInv, StatIsExact, Most, Truth, ReadGroup
<1> QED
  BY <1>4, <1>5, <1>6, <1>7, <1>8, <1>9, <1>10, <1>11, <1>12 DEF Next, Kernel

LEMMA ParseStaysIn == StatInv => ParseInBounds
<1> SUFFICES ASSUME StatInv, NEW e \in Counters
    PROVE WordsParsed(read_buf[e], formats[e]) <= Len(read_buf[e])
  BY DEF ParseInBounds
<1>1. e \in 1..(siblings + 1) /\ Most(e) \in Nat \ {0}
  BY EventsAreSeq
<1>2. /\ "group" \in formats[e] => read_buf[e][1] \in 0..Most(e)
      /\ IsSeq(read_buf[e], Len(read_buf[e])) /\ Len(read_buf[e]) >= ReadBufSize(Most(e), formats[e])
  BY <1>1 DEF StatInv, BufferInv, Room
<1>3. Len(read_buf[e]) \in Nat
  BY <1>2, SeqIsFun
<1>4. /\ WordsParsed(read_buf[e], formats[e]) \in Nat
      /\ WordsParsed(read_buf[e], formats[e]) <= ReadBufSize(Most(e), formats[e])
  BY <1>1, <1>2, ParseFits
<1>5. ReadBufSize(Most(e), formats[e]) \in Nat
  BY <1>1, RoomGrows
<1> QED BY <1>2, <1>3, <1>4, <1>5

\* What a buffer holds, and the last statistics, in every reachable state.
THEOREM StatAlways == Spec => []StatInv
BY InitStat, NextStat, PTL DEF Spec

\* Counter::stat returns what the kernel counts, each word in its field, for every read
\* format and a group of any size (stat.rs: from_ptr_offset).
THEOREM StatTellsTheTruth == Spec => []StatIsExact
<1>1. StatInv => StatIsExact
  BY DEF StatInv
<1> QED BY <1>1, StatAlways, PTL

\* from_ptr_offset reads no word outside the buffer, whatever an earlier read, or none,
\* has left there.
THEOREM ParsesStayInBuffer == Spec => []ParseInBounds
BY StatAlways, ParseStaysIn, PTL
=============================================================================
