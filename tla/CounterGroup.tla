----------------------------- MODULE CounterGroup -----------------------------
(***************************************************************************)
(* Counters and counter groups (src/src/count/mod.rs, count/group.rs): the *)
(* group leader and its siblings, the buffer each of them reads its        *)
(* statistics into, and Counter::stat.  Neither type is shared by threads, *)
(* so each call is one step; the kernel counts between the calls.  External: *)
(* the kernel's group of events, its counts, and a pinned event that it    *)
(* cannot put on the PMU.                                                  *)
(***************************************************************************)
EXTENDS Stat

CONSTANTS LeaderFormats,    \* read formats of the leader
          SiblingFormats,   \* read formats of the siblings
          MaxSiblings,      \* bound: siblings added
          MaxMoves          \* bound: the kernel's updates of a count or time

ASSUME FormatAssumption == /\ LeaderFormats \subseteq SUBSET Flags
                           \* sibling::StatFormat has no `siblings'.
                           /\ SiblingFormats \subseteq SUBSET (Flags \ {"group"})

ASSUME BoundAssumption == MaxSiblings \in Nat /\ MaxMoves \in Nat

VARIABLES events,     \* the kernel's events: the leader, then its siblings
          error,      \* the leader is in the error state
          grouped,    \* the CounterGroup has not been dropped
          siblings,   \* how many counters CounterGroup.siblings keeps alive
          formats,    \* attr.read_format of each counter
          read_buf,   \* the buffer of each counter
          moves,      \* bound: updates made so far
          result      \* what the last call returned, if it was stat

vars == <<events, error, grouped, siblings, formats, read_buf, moves, result>>

Counters == 1..Len(events)

NoResult == [kind |-> "none"]
Failed == [kind |-> "err"]

Zeroes(n) == [j \in 1..n |-> 0]

\* Ids are unlike any count, so that no word passes for another.
NewEvent(n) == [id |-> 100 + n, count |-> 0, lost |-> 0, enabled |-> 0, running |-> 0]

-----------------------------------------------------------------------------
(* The kernel (external).                                                   *)

Tallies == {"count", "lost", "enabled", "running"}

Move(e, f) ==
  /\ moves < MaxMoves
  /\ e = 1 => ~error
  /\ events' = [events EXCEPT ![e][f] = @ + 1]
  /\ moves' = moves + 1
  /\ result' = NoResult
  /\ UNCHANGED <<error, grouped, siblings, formats, read_buf>>

\* A leader with pin_on_pmu cannot be put on the PMU.
PinFails ==
  /\ ~error
  /\ error' = TRUE
  /\ result' = NoResult
  /\ UNCHANGED <<events, grouped, siblings, formats, read_buf, moves>>

\* The group that a read of counter e is about.
ReadGroup(e) == IF e = 1 /\ grouped THEN events ELSE <<events[e]>>

-----------------------------------------------------------------------------
(* CounterGroup.                                                            *)

\* Mutant of LeaderBufSize: the leader itself is not counted.
LeaderBufSizeShort(n) == ReadBufSize(n, formats[1])

\* The size add gives the leader's buffer when there are n siblings.
LeaderBufSize(n) == ReadBufSize(n + 1, formats[1])

\* CounterGroup::add.  The leader's buffer is replaced, never resized, and only
\* by a larger one.
Add(fmt) ==
  /\ grouped
  /\ siblings < MaxSiblings
  /\ events' = Append(events, NewEvent(Len(events) + 1))
  /\ siblings' = siblings + 1
  /\ formats' = Append(formats, fmt)
  /\ LET n == LeaderBufSize(siblings')
         bufs == IF n > Len(read_buf[1]) THEN [read_buf EXCEPT ![1] = Zeroes(n)]
                                         ELSE read_buf
     IN  read_buf' = Append(bufs, Zeroes(ReadBufSize(1, fmt)))
  /\ result' = NoResult
  /\ UNCHANGED <<error, grouped, moves>>

\* perf_event_open fails: nothing has changed by then.
AddFails ==
  /\ grouped
  /\ result' = Failed
  /\ UNCHANGED <<events, error, grouped, siblings, formats, read_buf, moves>>

\* The group is dropped, and the leader with it; the user keeps the siblings'
\* counters that add returned.
DropGroup ==
  /\ grouped
  /\ grouped' = FALSE
  /\ result' = NoResult
  /\ UNCHANGED <<events, error, siblings, formats, read_buf, moves>>

\* clear_count of the group, or of one counter: only the counts go to 0.
ClearCount(cs) ==
  /\ 1 \in cs => grouped
  /\ events' = [e \in Counters |-> IF e \in cs THEN [events[e] EXCEPT !.count = 0]
                                               ELSE events[e]]
  /\ result' = NoResult
  /\ UNCHANGED <<error, grouped, siblings, formats, read_buf, moves>>

\* enable of the group or of the leader: a leader in the error state has
\* another go.
EnableGroup ==
  /\ grouped
  /\ error' = FALSE
  /\ result' = NoResult
  /\ UNCHANGED <<events, grouped, siblings, formats, read_buf, moves>>

-----------------------------------------------------------------------------
(* Counter::stat.                                                           *)

\* read(2): end of file in the error state, ENOSPC for a short buffer, or the
\* words, over the start of what the buffer held.
Read(e) ==
  LET words == KernelWords(ReadGroup(e), formats[e])
      buf == read_buf[e]
  IN  IF e = 1 /\ error THEN [kind |-> "ok", buf |-> buf]
      ELSE IF Len(buf) < ReadSize(Len(ReadGroup(e)), formats[e]) THEN [kind |-> "err", buf |-> buf]
      ELSE [kind |-> "ok",
            buf |-> [j \in DOMAIN buf |-> IF j \in DOMAIN words THEN words[j] ELSE buf[j]]]

\* The number of bytes read is not looked at.
DoStat(e) ==
  /\ e = 1 => grouped
  /\ read_buf' = [read_buf EXCEPT ![e] = Read(e).buf]
  /\ result' = IF Read(e).kind = "err" THEN Failed
               ELSE [kind |-> "ok", of |-> e, stat |-> FromPtr(read_buf'[e], formats[e])]
  /\ UNCHANGED <<events, error, grouped, siblings, formats, moves>>

-----------------------------------------------------------------------------
\* Counter::new and CounterGroup::from.
Init ==
  /\ events = <<NewEvent(1)>>
  /\ error = FALSE
  /\ grouped = TRUE
  /\ siblings = 0
  /\ \E fmt \in LeaderFormats :
       /\ formats = <<fmt>>
       /\ read_buf = <<Zeroes(ReadBufSize(1, fmt))>>
  /\ moves = 0
  /\ result = NoResult

Kernel == PinFails \/ \E e \in Counters, f \in Tallies : Move(e, f)

Next == \/ Kernel
        \/ (\E fmt \in SiblingFormats : Add(fmt)) \/ AddFails \/ DropGroup
        \/ EnableGroup
        \/ ClearCount(Counters) \/ \E e \in Counters : ClearCount({e}) \/ DoStat(e)

Spec == Init /\ [][Next]_vars

-----------------------------------------------------------------------------
\* However the group has grown, the kernel never finds a counter's buffer too
\* short for the words of its read format (ENOSPC).
BufferFits ==
  \A e \in Counters : Len(read_buf[e]) >= ReadSize(Len(ReadGroup(e)), formats[e])

\* The same, inductive: the leader's buffer has room for a group of all events, also
\* once the group is dropped, and a sibling's for one event.
IsSeq(s, n) == s \in Seq(Range(s)) /\ Len(s) = n

Most(e) == IF e = 1 THEN siblings + 1 ELSE 1

Room(e) == ReadBufSize(Most(e), formats[e])

BufferInv ==
  /\ siblings \in Nat
  /\ IsSeq(events, siblings + 1) /\ IsSeq(read_buf, siblings + 1) /\ IsSeq(formats, siblings + 1)
  /\ \A e \in 1..(siblings + 1) :
       /\ formats[e] \subseteq Flags
       /\ IsSeq(read_buf[e], Len(read_buf[e])) /\ Len(read_buf[e]) >= Room(e)

\* from_ptr_offset follows raw pointers: whatever the buffer holds, zeroes after
\* a reallocation or the words of an earlier read, it stays inside.
ParseInBounds ==
  \A e \in Counters : WordsParsed(read_buf[e], formats[e]) <= Len(read_buf[e])

Asked(f, fmt, v) == IF f \in fmt THEN v ELSE None

\* What the user asked to be told about the group of events g.
TruthOf(g, fmt) ==
  LET counts(x) == [count |-> x.count, id |-> Asked("id", fmt, x.id),
                    lost |-> Asked("lost", fmt, x.lost)]
      own == counts(g[1])
  IN  [count |-> own.count, id |-> own.id, lost |-> own.lost,
       enabled |-> Asked("enabled", fmt, g[1].enabled),
       running |-> Asked("running", fmt, g[1].running),
       siblings |-> IF "group" \in fmt THEN [k \in 1..(Len(g) - 1) |-> counts(g[k + 1])]
                                       ELSE <<>>]

Truth(e) == TruthOf(ReadGroup(e), formats[e])

\* stat returns what the kernel counts at that moment: each field asked for, and
\* no other, and the siblings in the order in which they were added.  (Not so in
\* the error state: see EofIsReported.)
StatIsExact ==
  result.kind = "ok" /\ ~(result.of = 1 /\ error) => result.stat = Truth(result.of)

\* Both, inductive: the kernel counts in words, and a leader's first word is at most the
\* number of events there have been when the buffer was last replaced, or 0.
Event == [id : Nat, count : Nat, lost : Nat, enabled : Nat, running : Nat]

StatInv ==
  /\ BufferInv
  /\ \A e \in 1..(siblings + 1) :
       /\ events[e] \in Event
       /\ "group" \in formats[e] => read_buf[e][1] \in 0..Most(e)
  /\ StatIsExact

\* Opts::pin_on_pmu (config/mod.rs:50): in the error state, stat returns EOF.
EofIsReported ==
  [][\A e \in Counters : e = 1 /\ error /\ DoStat(e) => result'.kind = "err"]_vars
=============================================================================
