---------------------------------- MODULE Stat ----------------------------------
(***************************************************************************)
(* The statistics a counter reads (src/src/count/stat.rs): how many u64    *)
(* words the buffer of a read must have, and what is made of the words.    *)
(* A read format is a set of flags: StatFormat::as_read_format.            *)
(***************************************************************************)
EXTENDS Integers, Sequences, SequencesExt

\* PERF_FORMAT_ID, TOTAL_TIME_ENABLED, TOTAL_TIME_RUNNING, LOST and GROUP.
Flags == {"id", "enabled", "running", "lost", "group"}

\* Option::None.  Words are unsigned.
None == -1

One(f, fmt) == IF f \in fmt THEN 1 ELSE 0

-----------------------------------------------------------------------------
(* What the kernel writes (external): the words, in order, for a group of   *)
(* events whose first is the leader, or for one event.                      *)

Opt(f, fmt, v) == IF f \in fmt THEN <<v>> ELSE <<>>

Times(e, fmt) == Opt("enabled", fmt, e.enabled) \o Opt("running", fmt, e.running)

Entry(e, fmt) == <<e.count>> \o Opt("id", fmt, e.id) \o Opt("lost", fmt, e.lost)

KernelWords(group, fmt) ==
  LET e == group[1]
  IN  IF "group" \in fmt
      THEN <<Len(group)>> \o Times(e, fmt)
             \o FlattenSeq([k \in DOMAIN group |-> Entry(group[k], fmt)])
      ELSE <<e.count>> \o Times(e, fmt) \o Opt("id", fmt, e.id) \o Opt("lost", fmt, e.lost)

\* event->read_size: a read with a smaller buffer fails with ENOSPC.
ReadSize(n, fmt) ==
  One("enabled", fmt) + One("running", fmt) +
  LET entry == 1 + One("id", fmt) + One("lost", fmt)
  IN  IF "group" \in fmt THEN 1 + n * entry ELSE entry

-----------------------------------------------------------------------------
(* Stat::read_buf_size, in words.                                           *)

\* Mutant of ReadBufSize: no word for the number of events of a group.
ReadBufSizeNoNr(n, fmt) ==
  One("enabled", fmt) + One("running", fmt)
    + n * (1 + One("id", fmt) + One("lost", fmt))

ReadBufSize(n, fmt) ==
  1 + One("enabled", fmt) + One("running", fmt)
    + n * (One("group", fmt) + One("id", fmt) + One("lost", fmt))

-----------------------------------------------------------------------------
(* Stat::from_ptr_offset: `when!' reads the word at the cursor only for a   *)
(* flag that is set.                                                        *)

WordIf(buf, at, f, fmt) == IF f \in fmt THEN buf[at] ELSE None

\* The count, id and lost count that start at the cursor.
Counts(buf, at, fmt) ==
  [count |-> buf[at],
   id    |-> WordIf(buf, at + 1, "id", fmt),
   lost  |-> WordIf(buf, at + 1 + One("id", fmt), "lost", fmt)]

\* Mutant of EntryAt: the cursor does not move over the lost counts.
EntryAtNoLost(k, fmt) ==
  2 + One("enabled", fmt) + One("running", fmt) + (k - 1) * (1 + One("id", fmt))

\* Where the k-th event of a group starts.
EntryAt(k, fmt) ==
  2 + One("enabled", fmt) + One("running", fmt)
    + (k - 1) * (1 + One("id", fmt) + One("lost", fmt))

FromPtr(buf, fmt) ==
  LET afterTimes == 2 + One("enabled", fmt) + One("running", fmt)
      own == IF "group" \in fmt THEN Counts(buf, EntryAt(1, fmt), fmt)
             ELSE [count |-> buf[1],
                   id    |-> WordIf(buf, afterTimes, "id", fmt),
                   lost  |-> WordIf(buf, afterTimes + One("id", fmt), "lost", fmt)]
  IN  [count    |-> own.count,
       id       |-> own.id,
       lost     |-> own.lost,
       enabled  |-> WordIf(buf, 2, "enabled", fmt),
       running  |-> WordIf(buf, 2 + One("enabled", fmt), "running", fmt),
       siblings |-> IF "group" \in fmt
                    THEN [k \in 1..(buf[1] - 1) |-> Counts(buf, EntryAt(k + 1, fmt), fmt)]
                    ELSE <<>>]

\* How many words that reads, counting from the first.
WordsParsed(buf, fmt) ==
  IF "group" \in fmt
  THEN EntryAt((IF buf[1] > 1 THEN buf[1] ELSE 1) + 1, fmt) - 1
  ELSE 1 + One("enabled", fmt) + One("running", fmt) + One("id", fmt) + One("lost", fmt)
=============================================================================
