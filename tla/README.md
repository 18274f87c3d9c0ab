# A verification of perf-event-open in TLA+

perf-event-open is a Rust interface to Linux `perf_event_open(2)`: counters and
groups of counters, samplers that pop records out of a ring buffer shared with
the kernel, and tracers that pop raw bytes out of a second one. This directory
holds TLA+ models of its stateful parts, the TLC configurations that check them
on small instances, and proofs that TLAPS checks for every instance.

Source paths below are relative to `src/src/`.

## Contents

- [Inventory](#inventory) of the system and what makes each part correct
- [Modules](#modules) and how they correspond to the code
- [Runs](#runs): what TLC checks, the bounds and why they are enough
- [Fairness](#fairness)
- [Proofs](#proofs): what is proved, from what, along which argument
- [Where the code and its documentation differ](#where-the-code-and-its-documentation-differ)
- [Assumptions about the environment](#assumptions-about-the-environment)
- [What is not modelled](#what-is-not-modelled), and the [plan](#plan)

## Inventory

| part | state | operations | hard behaviour | correct when |
|---|---|---|---|---|
| `sample/rb` record ring, `CowChunk` | `data_head`, `data_tail` and the data area, all shared with the kernel; the chunk's slice and `new_tail` | `lending_pop`; drop of a chunk | the kernel writes while the user reads without a lock; wrap-around; the size field across the end; who stores the tail when | a held chunk is never overwritten; every record comes out whole, once, in order; `None` means drained |
| `sample/iter` record iterators | `Wait`: `state`, the `waker`, the `close` eventfd; a thread per asynchronous iterator | `next`, `into_async`, `poll_next`, drop | task, thread and kernel interleave; a report between pop and registration; hang-up with records left | no lost wakeup; `Ready(None)` is final; drop ends the thread |
| `sample/auxiliary` AUX ring and iterators | `aux_head`, `aux_tail`, the AUX area | `lending_pop(max_chunk_len)`, drop | as for records, with chunks of arbitrary length | the bytes come out in order, none missing; chunks are neither empty nor too long |
| `sample/auxiliary/mod.rs` AUX tracer | a mapping; `aux_size` and `aux_offset` of the metadata page | `new`, `iter` | writes shared fields before a call that may fail | a failure leaves existing tracers alone |
| `sample/mod.rs` Sampler, `sample/arena.rs` | a reference to the perf file, a mapping, a parser | `new`, `iter`, `aux_tracer`, `pause`, `resume`, `enable_counter_with`, `sample_on`, metadata reads, drop | drop order; several iterators | one sampler per counter at a time; memory outlives its borrowers |
| `count/mod.rs` Counter | `attr`, the perf file, `read_buf` | `new`, `sampler`, `enable`, `disable`, `clear_count`, `stat`, `switch_to`, `query_bpf`, ... | a reused buffer; read results that are ignored; errors after a change of `attr` | `stat` tells what the kernel counts |
| `count/group.rs` CounterGroup | the leader, the siblings' `Rc`s | `from`, `add`, `enable`, `disable`, `clear_count`, drop | the leader's buffer grows with the group | no read finds a buffer too short |
| `count/stat.rs` Stat | none | `read_buf_size`, `from_ptr_offset` | 32 read formats, raw pointer reads | the right word in the right field, inside the buffer |
| `sample/record` parser | none | one parser per record type | a cursor moved by flags | what the kernel laid out is what is returned |
| `config` | none | options to `perf_event_attr`, for a leader and for a sibling | features by kernel version, two copies of one translation | an option is obeyed or refused, never dropped |
| `event` | none | event names to numbers, sysfs | | |
| `ffi`, `build`, bindings | none | system call wrappers, generated code | | |

How they interact: `Counter::sampler` gives a `Sampler` a shared reference to
the perf file and maps the ring. `Sampler::iter` and `aux_tracer` borrow the
mapping. An iterator calls `lending_pop` and hands the chunk to a closure (the
parser, or the user's), which drops it. The drop gives the space back to the
kernel by a store to the tail. An asynchronous iterator has a thread that sleeps
in `epoll_wait` on the perf file and wakes the task; the record and the AUX
iterators of a sampler share that file. `CounterGroup::add` opens
an event in the leader's kernel group, and so changes what the leader's `stat`
reads.

`PROJECT.json` lists every hazard of this code at its line, with the properties
that would catch it.

## Modules

| module | models | abstract specification |
|---|---|---|
| `RecordRing` | `sample/rb/mod.rs`, `sample/rb/cow.rs`, `CowIter::next`, `Sampler::iter`, `pause`, `resume` | `RecordQueue` |
| `AuxRing` | `sample/auxiliary/rb.rs`, its use of `CowChunk`, the AUX `next` and `iter` | `ByteStream` |
| `AsyncIter` | `into_async`, its thread, `poll_next` and drop in `sample/iter/cow.rs` | |
| `AsyncPair` | the same of `sample/auxiliary/iter/cow.rs`, several of them on one perf file | |
| `AsyncRelaxed` | `AsyncIter` with the orderings that `sample/iter/cow.rs` asks for | |
| `Lifecycle` | `Counter::sampler`, `Sampler::new`, `AuxTracer::new`, `sample/arena.rs`, all drops | |
| `CounterGroup` | `count/group.rs`, and `new`, `stat`, `enable`, `clear_count` of `count/mod.rs` | |
| `Stat` | `count/stat.rs`, as operators on words | the kernel's layout, `KernelWords` |
| `BpfQuery` | `attach_bpf` and `query_bpf` of `count/mod.rs` | |
| `SwitchTo` | `switch_to`, `enable`, `disable` of `count/mod.rs` | |
| `RecordBytes` | bytes, the cursor, `deref_offset`, `align_offset` | |
| `SampleRecord` | `Sample::from_ptr` and what it calls in `sample/record/sample.rs` | the kernel's order, `KernelOrder` |
| `SideRecord` | every other `from_ptr` of `sample/record`, and `RecordId` | `KernelHead`, `KernelSideOrder` |
| `Parser` | `UnsafeParser::parse`: composes `SampleRecord` and `SideRecord` | |
| `CallChain` | `parse_call_chain` | the contexts the kernel wrote |
| `Attr` | `config/attr.rs`, `config/sibling/attr.rs` | |

`MCCalls` puts the calls that need nobody else to come to an end side by side: those
of a counter (`Lifecycle`, `BpfQuery`, `SwitchTo`, `Attr`), of a group, and the parsers
of records and of call chains. These share no state, so each behaviour has one topic
and leaves the rest as it is.

The `MC*` modules instantiate the others for TLC, `*_proofs` hold the theorems (`Counter_proofs`
those of `Lifecycle`, `BpfQuery`, `SwitchTo` and `Attr`, `Parser_proofs` those of
`Parser` and `CallChain`), `NatLemmas` the lemmas about `%`, and induction over a set of
naturals, that they share. Definitions called "Mutant of ..." are
not part of a specification: each is a definition as a plausible bug would have
it, kept to show that the properties notice.

**RecordRing.** A byte is identified by its offset in the stream that the kernel
writes, and a cell of `mem` holds the offset of the byte last written there. "The
chunk holds record r" is then an equation about offsets, and torn, stale or
overwritten data shows as a wrong offset. The kernel (external) writes a record's
bytes, then publishes the head. An iterator's steps are the accesses to shared
memory: `LoadTail`, `LoadHead`, `Borrow` or `CopyOut` and `StoreTail`, `Closure`
(where a borrowed chunk is read from the ring) and `DropChunk`. `& (size - 1)` is
`% Size`, with `Size` a power of two. The size field is read from the two cells
that the code reads it from. If they do not hold the two size bytes of one record
(with racing iterators only) the value can be any length. `Iters` is the set of
iterators, because the type system allows several.

`Borrow` and `CopyOut` do in one step the read of the size field and, for
`CopyOut`, the copy. The kernel could write between those reads. With one
iterator the cells they touch cannot change (that is `LiveBytes`, proved), so
splitting the step further would add states and no behaviour.

**AuxRing** has the same shape for bytes. `LoadHead` also computes the length of
the chunk (locals only, no shared memory in between). The caller chooses
`max_chunk_len` anew in each call. `Space` is the room that the kernel finds: it
compares the running `aux_head`, unmasked, with the `aux_tail` it finds on the page,
which `lending_pop` has masked.

**AsyncIter** reduces the ring to the number of records in it. The thread's
`store` and `wake`, and the task's pop, register, compare-exchange and second pop,
are separate steps, so each interleaves with the others. `Cas` leaves out the
spurious failure of `compare_exchange_weak`, which the code retries without
changing anything. `StartPoll` is allowed at any time when the task is not inside
`poll_next`, woken or not, as futures may be polled spuriously.

**AsyncPair** composes any number of iterators that run this protocol: one of
records and one of the AUX area, which the code writes out twice
(`sample/auxiliary/iter/cow.rs` 44-228). Each has its own ring, `Wait`, thread and
epoll instance, a record in `iter`. They share the perf file and with it one
report, `poll_in`, that a poll takes away: `EpollIn` of one thread takes it from
the other, and so does the `EPOLL_CTL_ADD` of an `IntoAsync`. A hang-up stays.

**AsyncRelaxed** extends `AsyncIter` with what a weakly ordered machine may do.
A *view* is how many of the newest records its holder may still miss. The thread's
view is brought up to date by `epoll_wait`; it is released by `AtomicWaker::wake`
and acquired by `AtomicWaker::register` and by a poll that follows a wake-up;
`Wait::state`, stored and compared with `Ordering::Relaxed`, carries no view. A
pop may miss what the task's view allows it to. A failed compare-exchange may
also see the state before the last store, if nothing tells the task of that store.

**Lifecycle** has a `Counter`, attempts to make `Sampler`s and `AuxTracer`s, and
the mappings that keep the kernel's two areas. `Arc::strong_count` is the size of
the set of owners. `Sampler` is the check and the clone in `Counter::sampler`,
`MapRing` and `MapRingFails` the `mmap`. `DropPerf` and `DropArena` are apart,
because a `Sampler` is `Send` and its fields are dropped one after the other.
`AuxTracer` writes the length to the shared page, and `MapAux` or `MapAuxFails`
follows; nothing is undone on a failure. Lifetimes are in the guards: a sampler is
not dropped while a tracer borrows it (`Busy`).

**Stat** and **CounterGroup.** Neither a counter nor a group is shared by
threads, so a call is one step and only the kernel moves in between. `Stat` gives
the kernel's layout as a concatenation in the order of the comment at
`count/stat.rs:41-60`, and the parser by the positions its cursor goes through,
so that the two can disagree. `DoStat` overwrites the start of the old buffer
with what `read` returned, which is nothing in the error state. `result` is what
the call made in the last step returned.

**BpfQuery.** The buffer is a sequence of words, some of them `Uninit`, and the
arithmetic is of `Bits` bits. `Alloc`, `Ioctl` and `Parse` are steps of their own,
since programs come and go in the kernel. A panic is a state.

**SwitchTo.** The attr that the `Counter` keeps and the one in the kernel are two
variables. `switch_to` assigns first (`Assign`) and hands over the whole
afterwards, which the kernel may refuse.

**RecordBytes** represents a record as atoms at offsets. A read at a cursor gives
an atom's value if exactly that atom is there, and `Torn` otherwise, so a cursor
that has lost its way by one byte shows. The kernel's side lays atoms one after the
other; the parser's side is `Get`, `GetAll`, `GetBytes`, `StrLen`, `AlignOffset`.
**SampleRecord** and **SideRecord** write a record field by field in the kernel's
order and then parse it field by field in the code's order, with the cursor
`ptr`. `reach` is the end of what was looked at. The two orders are written down
separately. **CallChain** takes the words of one field apart; there the kernel's
limits on instruction pointers and contexts matter, and what a marker is is
arithmetic modulo `2^Width`.

**Attr.** A row of a table is an option, the version it is refused below, and a
field it sets. A request is a set of options, and its attr the set of fields, or
`Refused`. The tables are those of `config/attr.rs` and of `config/sibling/attr.rs`,
whose common rows are stated once. `Upgrade` builds the same program for a later
kernel.

## Runs

| run | instance | checks |
|---|---|---|
| `ring` | 32 bytes, records of 8, 9, 13 and 24, four records, one iterator, with fairness | `HeldIntact`, `TailAdvances`, `NoneOnlyWhenDrained`, `ImplementsQueue`, `Delivered` |
| `ring_two_iters` | two iterators | violates `TailStable` |
| `aux` | 8 bytes, bursts of 1, 3, 7, limits 1, 3, 5 and none, with fairness | `HeldIntact`, `NextHandsOver`, `ImplementsStream`, `Delivered` |
| `aux_masked_tail` | the same, without fairness | violates `RoomWhenDrained` |
| `async` | a ring of 5 records, a report for every 3, with fairness | `NoLostWakeup`, `NoneIsFinal`, `HangSticks`, `ParkedIsWoken` |
| `pair` | two iterators, rings of 1, with fairness | `SomeoneIsServed`, `NoneIsFinal`, `ComesToAnEnd` |
| `pair_report` | the same | violates `ParkedIsWoken` |
| `relaxed` | a ring of 3, a report for every 2, with fairness | `NoneOnlyAfterHangUp`, `ReportWakes`, `HangUpEnds`, `DropEndsThread` |
| `calls`, `Lifecycle` | three samplers, two tracers, two lengths and one that overflows | `OneLiveSampler`, `RefusedOnlyWhenActive`, `AuxRefusedOnlyForTracers` |
| `calls`, `BpfQuery` | integers of 3 bits, every `buf_len`, three programs | `WritesFit`, `AnswerIsExact` |
| `calls`, `SwitchTo` | breakpoints of two kinds, two addresses and two lengths, and events of another type | `OkMeansSwitched`, `RefusedForItself` |
| `calls`, `Attr` | builds for seven kernels, every option and every pair of options | `OnlyDroppedIgnored`, `UpgradeKeeps` |
| `calls`, `CounterGroup` | all 32 read formats of the leader, two siblings, two updates by the kernel | `BufferFits`, `ParseInBounds`, `StatIsExact` |
| `calls`, `Parser` | every pair of the 24 fields of a sample and two sets of nearly all; the other 22 types, lengths 1, 3, 7, 8, 9, every `RecordId` | `FieldsAreExact`, `StaysInRecord` |
| `calls`, `CallChain` | words of 6 bits, 15 markers, four instruction pointers, eight contexts | `ChainsAreExact` |
| `switch_restarts` | as for `SwitchTo` above, where every event can be placed | violates `SwitchKeepsRunning` |
| `group_pinned` | a leader in the error state | violates `EofIsReported` |
| `parser_namespaces` | as for `Parser` above, with a `RecordId` after namespaces | violates `FieldsAreExact` |

Five more configurations, each of one component and one property, give the
counterexamples of the other disagreements below (`tlc -config QueryZero.cfg BpfQuery`):

| configuration | module | instance | counterexample to |
|---|---|---|---|
| `SamplerPages.cfg` | `Lifecycle` | two samplers, one length | `NewSamplerNewPages` |
| `QueryZero.cfg` | `BpfQuery` | as above | `LostAreTold` |
| `OptionDropped.cfg` | `Attr` | two kernels, `call_chain` with and without `defer_user` | `NothingIgnored` |
| `ParserEmptyStack.cfg` | `MCParser` | as above, with branch stacks that have an index and no entries | `FieldsAreExact` |
| `ChainCookie.cfg` | `MCCallChain` | as above, with a limit of two contexts | `ChainsAreExact` |

What the properties say:

- `HeldIntact`: from `lending_pop` to the end of its drop, a chunk holds exactly
  the bytes that are next to be delivered.
- `TailAdvances`: the tail moves over one whole record at a time, the oldest, and
  only once that record's bytes are no longer needed.
- `NoneOnlyWhenDrained`: `None` means that all that was published is delivered.
- `RoomWhenDrained`: once the AUX area is drained, there is room in it. It is violated
  (`aux_masked_tail`).
- `ImplementsQueue`, `ImplementsStream`: refinement of the abstract
  specifications, with `unread` mapped to what is published and not delivered.
- `Delivered`: all that is published is delivered, under fairness.
- `NextHandsOver`: a chunk is never empty and never longer than `max_chunk_len`.
- `NoLostWakeup`: a parked task that nothing is going to wake has fewer records
  waiting than make a report.
- `SomeoneIsServed`: what is left of it when a report may go to the wrong
  iterator. Whenever all are stuck, one of them at least has its waker registered and
  less than a report in its ring. The others may have a full one.
- `NoneIsFinal`, `HangSticks`, `ComesToAnEnd`: the end of an asynchronous iterator.
- `NoneOnlyAfterHangUp`, `ReportWakes`: what is left with reordered loads.
- `OneLiveSampler`: what makes it sound for a `Sampler` to be `Send`.
- `RefusedOnlyWhenActive`, `AuxRefusedOnlyForTracers`: a failed call leaves
  nothing behind that makes a later one fail.
- `NewSamplerNewPages`: a new sampler's ring is not the one of a sampler before it. It is
  violated (`SamplerPages.cfg`).
- `BufferFits`, `ParseInBounds`: the leader's buffer against the
  growing group.
- `StatIsExact`: `stat` is what the kernel counts, field by field.
- `WritesFit`, `AnswerIsExact`: `query_bpf`'s buffer, also when its length has wrapped,
  and its answer. `LostAreTold`: a buffer that is too short for the programs is answered,
  and not by a panic. It is violated (`QueryZero.cfg`).
- `OkMeansSwitched`, `RefusedForItself`: the stored attr against the kernel's,
  whatever refused calls have left in it. `SwitchKeepsRunning`: a switch neither starts
  nor stops the counter. It is violated (`switch_restarts`).
- `FieldsAreExact`, `ChainsAreExact`: what the kernel wrote in a field is what is
  returned for that field. `StaysInRecord`: the parser, which is given no length,
  stays inside the record, and a sample is used up.
- `NothingIgnored`: without an option that it was asked for, an accepted attr would be
  another one. It is violated (`OptionDropped.cfg`).
- `OnlyDroppedIgnored`: what is true instead, of every request: the options that are left
  out are those in `Dropped` (`defer_user`), on a version below theirs.
- `UpgradeKeeps`: a build for a later kernel refuses nothing that was accepted, and its
  attr is the same but for the options that were asked for and dropped, which it sets.

Bounds. Four records wrap a ring of 32 bytes up to three times. The kernel only
emits lengths that are multiples of 8; 9 and 13 are there because `lending_pop`
provides for a size field that is split by the end of the area or has wrapped (7
bytes before the end, or less), and bring the tail to every such distance. A record
ends before, at and after the end of the area. The AUX area is
gone past once, with chunks that end before, at and past its end: after that there is no
tracing (`aux_masked_tail`, and `TracingStops` for every size), so no bound on the
bytes is needed. The asynchronous
protocol has no data beyond the number of records and of unreported records. A
ring of 5 with a report for each 3 has records left over from a report, a second
report on top of a first not yet collected, and a full ring. The pair needs no
more than a report's worth in each ring for one to take what is meant for the
other; the safety proofs are for any number and any rings. Two tracers and three samplers have one
being made, one in use and one on its way out. Two
siblings tell the order of siblings and the per-event stride apart. Two updates
make any two words differ, and the ids differ from all other words. Integers of 3
bits have all that is special about `query_bpf`: a length of 0, one below, at and
above the number of programs, one that the kernel refuses, and the two whose sum
wraps. A sample's field depends on those before it through the cursor alone, and
each pair puts every field directly after every other; the two large sets add
distance, and all read formats and branch formats. Strings of five lengths have
every kind of padding. In call chains the instruction pointers are 0, one in the
middle and the neighbour of the smallest marker, and a cookie may look like a
marker. Options act alone or in pairs in the code, no condition there
reads three. The seven versions are on both sides of most thresholds of the tables.

No run uses symmetry. Deadlock is checked for both rings.
The others really do come to an end (an iterator dropped with its thread gone, no
counter left, a record parsed, a panic), and their configurations say so.

No run checks a type invariant or an inductive invariant of its own, nor
`BorrowInBounds`: these are proved, which covers every instance.

## Fairness

- `RecordRing`, `AuxRing`: weak fairness of the kernel's publish (it finishes
  what it reserved) and of the iterator (the user goes on calling `next`). Nothing
  is assumed of the kernel's writing new data, of `pause` or of `resume`.
- `AsyncIter`, `AsyncRelaxed`: weak fairness of the thread, of the steps inside
  `poll_next`, and of polling a task that was woken or that wants the next record.
  This is what a scheduler and an executor provide. Fairness of the thread is of
  the thread as a whole. It is not assumed that a given event of several is the
  one `epoll_wait` returns.
- `AsyncPair`: the same for each iterator, and strong fairness of `EpollClose`. A
  thread whose iterator was dropped might otherwise be handed one report after
  another, of the other iterator's records. `epoll_wait`, asked for one event at a
  time, puts a level-triggered file back at the end of its ready list, so that the
  eventfd has its turn.

## Proofs

The `_proofs` modules prove, for every value of the constants that satisfies the
assumptions of the modules:

| theorem | statement |
|---|---|
| `RecordRing_proofs!TypeCorrect` | `Spec => []TypeOK`, for any number of iterators |
| `BorrowStaysInBounds` | `Spec => []BorrowInBounds`, for any number of iterators |
| `RingInvariant` | one iterator: `Spec => [](TypeInv /\ IInv)` |
| `ChunkStaysIntact` | one iterator: `Spec => []HeldIntact` |
| `DeliversInOrder` | one iterator: `Spec => []DeliveredPrefix` |
| `NoneMeansDrained` | one iterator: `Spec => NoneOnlyWhenDrained` |
| `TailMovesByOneRecord` | one iterator: `Spec => TailAdvances` |
| `RingImplementsQueue` | one iterator: `Spec => ImplementsQueue` |
| `AuxRing_proofs!InvAlways` | `Spec => []IInv` |
| `ChunkStaysIntact` | `Spec => []HeldIntact` |
| `TracingStops` | `Spec => [](written < 2 * Size)`, however fast the iterator is |
| `NextAlwaysHandsOver` | `Spec => NextHandsOver` |
| `AuxImplementsStream` | `Spec => ImplementsStream` |
| `AsyncIter_proofs!InvAlways`, `TypeCorrect` | `Spec => []IInv`, `Spec => []TypeOK` |
| `WakeupsAreNotLost` | `Spec => []NoLostWakeup` |
| `EndIsFinal` | `Spec => []NoneIsFinal` |
| `HangIsNotConsumed` | `Spec => HangSticks` |
| `NoneNeedsHangUp` | reordered loads: `RelaxedSpec => []NoneOnlyAfterHangUp` |
| `HangIsNotConsumedRelaxed` | reordered loads: `RelaxedSpec => HangSticks` |
| `AsyncPair_proofs!InvAlways`, `TypeCorrect` | `Spec => []IInv`, `Spec => []TypeOK`, for any number of iterators |
| `SomeoneIsAlwaysServed` | `Spec => []SomeoneIsServed` |
| `EndIsFinal` | `Spec => []NoneIsFinal` |
| `Counter_proofs!InvAlways` | `LifeSpec => []IInv`, for any samplers and tracers |
| `OneSamplerAtATime` | `LifeSpec => []OneLiveSampler` |
| `RefusalIsJustified` | `LifeSpec => []RefusedOnlyWhenActive` |
| `MapsAlways` | `LifeSpec => []MapsInv` |
| `AuxRefusalIsJustified` | `LifeSpec => []AuxRefusedOnlyForTracers` |
| `OkIsSwitched` | `SwitchSpec => []OkMeansSwitched`, for any events and placeable breakpoints |
| `RefusalIsForTheEvent` | `SwitchSpec => []RefusedForItself` |
| `KernelWritesFit` | `QuerySpec => []WritesFit`, for any programs and any width of a length |
| `QueryIsExact` | `QuerySpec => []AnswerIsExact` |
| `NoOtherIsIgnored` | `AttrSpec => []OnlyDroppedIgnored`, for any requests and levels |
| `UpgradesKeep` | `AttrSpec => UpgradeKeeps`, likewise |
| `CounterGroup_proofs!BuffersHaveRoom` | `Spec => []BufferInv`, for a group of any size and any read formats |
| `ReadsAlwaysFit` | `Spec => []BufferFits` |
| `StatAlways` | `Spec => []StatInv`, likewise |
| `StatTellsTheTruth` | `Spec => []StatIsExact` |
| `ParsesStayInBuffer` | `Spec => []ParseInBounds` |
| `Parser_proofs!ChainInvAlways` | `ContextsFit`: `ChainSpec => []ChainInv`, for any words and limits |
| `ContextsComeBack` | `ContextsFit`: `ChainSpec => []ChainsAreExact` |
| `ParserInvAlways` | aligned bytes, no stack without entries, no `RecordId` on namespaces: `ParserSpec => []ParserInv`, for any sets of fields, types, lengths and registers |
| `FieldsComeBack` | the same: `ParserSpec => []FieldsAreExact` |
| `ParserStaysIn` | the same: `ParserSpec => []StaysInRecord` |

Assumptions: the sizes of the areas are powers of two; record lengths are at least
a header (8) and less than the ring; bursts and limits are not zero; the bounds
are natural numbers; a report is for at least one record and at most a full ring;
there is an iterator; the identities in `Lifecycle` are finite and apart.
`2^Width` and `2^Bits` are natural numbers (which the arithmetic of the provers does not know).
A request has what can be asked (`Askable`): options that the tables have, with
what they are part of, and one of each choice.
"One iterator" is `OneIterator`, a hypothesis of each theorem that needs it, not a
global assumption. `ContextsFit` is another (the limit on contexts has room for each
of the kernel's once, a cookie counted as one; a default of 8 for 7 contexts), and so
are the three about the parser, `Bases = {0}`, `EmptyStacks = FALSE` and
`NamespacesWithId = FALSE`. Each of the five holds in the passing runs, and without
any one of them what is proved from it is false: `ring_two_iters`, `parser_namespaces`,
`ChainCookie.cfg` and `ParserEmptyStack.cfg` show four, and for `Bases` see below.

*The ring.* `HeldIntact` is not inductive: it says nothing of records not yet
taken, so nothing stops the kernel from having damaged them. The strengthening
`IInv` says where the tail is: at the record after the last one freed, where
`Freed` counts those delivered, plus one for a copied record whose closure has
not run, less one for a borrowed chunk not yet dropped. It also says that all that
was written from there on fits in the ring and is still in its cells
(`LiveBytes`), that records follow one another in the stream (`LogContiguous`),
what the iterator's locals say about the record it has in hand (`ChunkOK`), and
what was delivered (`DeliveredPrefix`). The kernel preserves `LiveBytes` because
its free space, computed from the tail, ends before the oldest unfreed byte.
Lemmas about `%` show that distinct offsets less than `Size` apart are in distinct
cells. The iterator preserves it because the two size bytes it reads are therefore
those of that record, so the new tail is the start of the next one. Refinement
follows: a publish is an `Emit`, the closure of a chunk is a `Deliver`, and every
other step leaves `unread` and `delivered` alone.

*Racing iterators.* `TypeCorrect` and `BorrowStaysInBounds` do not need
`OneIterator`. `NewTail` masks whatever length was read, and `Borrow` tests the
very length that it borrows.

*The AUX area.* The same argument, on bytes: `aux_tail` is the masked count of
what was freed, the bytes from there to `written` fit in the area and are in their
cells, and the chunk in hand is where they begin. Equal masked offsets mean an
empty area only since the kernel leaves a byte free; with that, a chunk is not
empty, which is the point of `NextHandsOver`. `TracingStops` follows from where
the tail is: the kernel writes while its unmasked head is less than `Size` ahead of
the tail, which is masked, so it has freed less than `Size` bytes by then, and what
it writes ends within `Size` of those.

*The asynchronous iterator.* `NoLostWakeup` becomes inductive with two
invariants on where a report can be: until the compare-exchange it is uncollected,
in the thread's hands, or in `state` (`ReportAhead`). After it, it is uncollected,
in the thread's hands before the wake, or has woken the task (`WakeAhead`). They
are joined by the waker's being registered before the compare-exchange
(`WakerKept`), and `HangMeansHup` carries `NoneIsFinal`.

*Reordered loads.* What is left needs neither a report nor a view. `HANG` is
written by the thread after it saw the hang-up, and a stale read of `state` can
only be of a value that the thread stored before (`old`), so what the task takes
for `HANG` was `HANG`: `HangMeansHup` and `WakerKept` stay inductive (`RelaxedInv`).

*Several iterators on one file.* `NoLostWakeup` is lost, as `pair_report` shows.
What is inductive is that for *some* iterator nothing is missing (`SomeoneAhead`):
a step that takes the report away from all leaves the one that took it with the
report in its hands, and every other step keeps whichever iterator it was.

*Samplers.* `OwnersExact` says that a sampler is an owner exactly while it is live
or being made, that there is at most one, and that one is being made only while
there is a counter. A strong count of 1, with the counter an owner, then leaves no
other owner: that is the one fact about cardinalities, and the reason why the
check excludes a second sampler and refuses none without cause.

*Tracers.* A refusal comes from the area's length, so `MapsInv` says what keeps the
area: the mappings are those of what is in use, and each live tracer has the area's
length (`MappedAsUsed`). It adds that a tracer's sampler is live (`TracersBorrow`), and
that while a tracer is about to be mapped the page has its length (`PageAgrees`). This
one is kept because that tracer's sampler is the only live one, and no second call of its
`aux_tracer` is under way.

*switch_to.* `RefusedForItself` follows since an assignment replaces all that a refused
call has left.

*Groups.* `BufferFits` compares the buffer with the group that the kernel has now,
so the step that adds an event must already know the room that the next size
takes. `BufferInv` says that each buffer has the words of `ReadBufSize` for all
the events there will have been. `ReadBufSize` is at least what the kernel
writes and grows with the group, and a read keeps the length of its buffer.

*Statistics.* `StatIsExact` follows from one lemma for a read of one event and one
for a read of a group: the words of `FromPtr` are those of `KernelWords`. The latter
is a concatenation over the group. Where a word is in it is shown by induction over
the number of events, in the form of `SetInduction`: a set of naturals with 0 that
has the successor of each member is all of them. What makes `ParseInBounds`
inductive is a bound on the word that a parser takes for the number of siblings:
in a buffer that no read has filled since it was made it is 0 (an error state),
and otherwise the number of events at that read, at most those there have been by
the time the buffer was last replaced (`StatInv`).

*Call chains.* The invariant names the place of each context in the words (`Laid`):
a marker, then its own instruction pointers, then the next. The cursor of
`parse_call_chain` is at such a place, or among the instruction pointers of the
last context begun (`CursorOK`). It cannot leave them early, since no instruction
pointer is a marker, and the word after them is one, whatever its value, known or
not. The cookie of a deferred context may be anything, and is not looked at. That it
is there at all is a count: contexts are distinct, `User` and the deferred one
exclude each other, so with all contexts before it there is room for two.

*Records.* `FieldsAreExact` says nothing of where the cursor is, so `ParserInv` does.
There is a position for each part of the record, in the kernel's order, that begins
where the part before it ends (`Shape`); a part's atoms lie between its position and
the next one, and are what was meant by it. What is taken is a prefix of that order
(`Prefix`), and the cursor is at the position of the first part not taken (`Cursor`):
the one statement that each `from_ptr` has to keep, and it can since the parser's
order is the kernel's (`ParseOrder` is `KernelOrder`, a lemma). Each field is then
one lemma: whatever atoms the kernel may have put between two positions, the reads
return their payload and end at the second one. A sample's positions are multiples of
8, which `align_offset` in raw data needs and every field keeps. Some parts leave the
cursor short of their end (the AUX snapshot, the namespaces, the cpu of a `RecordId`,
a string or code without a `RecordId` to follow); each is the last of its
record (`Final`). `Lay`, `Payload` and `Walk` are recursive functions over a sequence
of atoms; what they give for atoms laid one after the other is again shown by
`SetInduction`.

*query_bpf.* `QueryInv` says of a call under way that its buffer has the wrapped
number of words, and, once the kernel has answered without an error of another kind,
that nothing had wrapped: it refuses more than `MaxProgs`, far below where the sum
wraps. All that the answer is made of was then written by the kernel.

*Options.* A row's field and an option are in one-to-one relation but for what
`Askable` and `Implied` except, so a field in an attr tells that its option was asked
for. A row in which the code tests the version sets its field or refuses the request;
only one in `Dropped` does neither (`OnlyDroppedIgnored`). A row that did not refuse at
one level does not at a later one, and sets the same field, and a row in `Dropped` that
did not set its field does so from its version on (`Gained`, in `UpgradeKeeps`).

Only model-checked: every liveness property (fairness is out of the prover's reach).
Every safety invariant and action property of the passing runs is stated by one of
the theorems above.

## Where the code and its documentation differ

- `ring_two_iters`: the comment at `sample/rb/mod.rs:26` (and
  `sample/auxiliary/rb.rs:25`), "Thread safe since no more threads set the tail",
  does not hold of what the types allow. `Sampler::iter` takes `&self`, can be
  called repeatedly, and its iterators can be used in different (scoped) threads.
  The trace has one iterator store the tail while another is between its read of
  it and its own store. `TypeOK` and `BorrowInBounds` survive (proved for any number
  of iterators). `HeldIntact` and the refinement are only claimed for one iterator.
- `group_pinned`: `Opts::pin_on_pmu` (`config/mod.rs:48-50`) says that `stat`
  returns EOF for a counter in the error state. `Counter::stat` ignores the
  number of bytes read and returns `Ok` with what the buffer held before.
- `pair_report`: `poll_next` of the AUX iterator (`sample/auxiliary/iter/cow.rs:131`)
  registers the task for wake-up, but its report may be taken by the thread of the
  record iterator, which finds its own ring empty. The task sleeps until the next
  report, or the hang-up.
- `parser_namespaces`: `sample/record/ns.rs:102` reads the `RecordId` from the
  beginning of the array that comes before it.
- `aux_masked_tail`: `sample/auxiliary/rb.rs:44` masks the tail that is stored in
  `aux_tail`, which `perf_aux_output_begin` compares with a head that is not masked.
  After the head has gone past the size of the area there is no room in it, whatever
  was taken, so an iterator gets less than twice the area (`TracingStops`). The
  documentation of `next` (`sample/auxiliary/iter/cow.rs:30-31`) names slow iteration as
  the only cause of lost bytes.
- `SamplerPages.cfg`: `Sampler`'s fields drop the file before the mapping, so a sampler
  dropped in another thread may still be mapped when `Counter::sampler` finds a strong
  count of 1 (`count/mod.rs:133`). The new sampler shares the old pages, records included,
  where `count/mod.rs:126-127` says that pages will be allocated. No data race follows:
  `OneLiveSampler` holds.
- `QueryZero.cfg`: `query_bpf(0)` panics at `count/mod.rs:294` as soon as a program is
  attached, where `count/mod.rs:265-266` promises the number of lost IDs.
- `switch_restarts`: `switch_to` hands over the whole stored attr (`count/mod.rs:378`),
  with the `disabled` of `Counter::new`, and so stops a counter that was enabled since,
  or starts one that was disabled since. The comment at `count/mod.rs:360-362` says
  that no state breaks.
- `OptionDropped.cfg`: below linux-6.19 the option `CallChain::defer_user` is neither set
  nor refused (`config/attr.rs:131`, `config/sibling/attr.rs:128`), as every other option
  is. `config/mod.rs:707` says that it enables something.
- `ParserEmptyStack.cfg`: `sample/record/sample.rs:428` returns before the hardware index of
  a branch stack without entries, which the layout at `sample/record/sample.rs:109-114` has
  whatever the number of entries is. The field after the stack is then read from it.
- `ChainCookie.cfg`: the comment at `sample/record/sample.rs:383-384` says that a cookie is
  always available. The kernel stores it as a context, so
  `perf_event_max_contexts_per_stack` may cut a chain between the marker and its cookie,
  and `unwrap_unchecked` is reached with no word left. With the default of 8 it is not.

Two more conditions under which a property of the passing runs would fail have no configuration:

- `sample/iter/cow.rs:206` is a relaxed compare-exchange, so on a machine that
  reorders loads the pop after it may read an older head than what the state it saw
  stands for. The iterator can then end with records left, or sleep on them until the
  next report: `NoneIsFinal` and `ParkedIsWoken` fail under `RelaxedFair`.
  `NoneOnlyAfterHangUp` and `ReportWakes` are what survives (`relaxed`).
- A record that wraps is copied to a `Vec<u8>`, and `raw` data in it is measured with
  `align_offset(8)`, which is about addresses: `FieldsAreExact` fails with other
  `Bases` than 0. The parser's safety contract asks for aligned bytes
  (`sample/record/mod.rs:406-409`); the usual allocators provide them, the code does not
  ask for them.

## Assumptions about the environment

The kernel is external. It is modelled as the code relies on it: it publishes
the head after the bytes (the acquire load pairs with that); it leaves one byte of
a ring free, so that equal masked offsets mean empty; it discards a record that does not fit; it reports every n-th
record once, to one poller, and a hang-up for ever after. What is not in the
repository and decides a result is taken from the kernel's behaviour:

- a poll of a perf file exchanges the report for none, and `EPOLL_CTL_ADD` polls
  (`AsyncPair`);
- a second `mmap` of a ring, or of an AUX area, must have the length of the first,
  and shares its pages; the AUX length must be the one on the page (`Lifecycle`);
- `PERF_EVENT_IOC_QUERY_BPF` refuses more than 64 IDs, answers `ENOSPC` with the
  number there are and as many IDs as fit, and only counts for 0 (`BpfQuery`);
- `PERF_EVENT_IOC_MODIFY_ATTRIBUTES` is for breakpoints, stops the event first,
  takes over the breakpoint only if nothing else differs, and starts the event
  again unless `disabled` (`SwitchTo`);
- an option's field is known to the kernel version that the build is for (`Attr`);
- a call chain ends where one of its two limits cuts it, and a deferred context is
  its last, with a cookie that counts as a context (`CallChain`);
- the space left in the record ring is computed from the stored tail modulo the size of
  the ring (`RecordRing`), but in the AUX area only while the head, which is not masked,
  is less than the size of the area ahead of the tail, as it was stored (`AuxRing`).

`AtomicWaker` is taken as its contract says: `register` and `wake` are atomic, and
a `wake` happens before the `register` or the poll that sees it. Apart from
`AsyncRelaxed` the memory model is sequentially consistent. The tail's plain read
has no other writer when there is one iterator.

A chunk is dropped when its closure ends. `mem::forget` of one is safe Rust and
would hand the same record out again; of a `Sampler`, it would keep the strong
count up for good. Neither is an action of the models.

## What is not modelled

- Fields inside a word of a record: `data_src`, `transaction`, the flags of a
  branch, `Priv` and the bits of `header.misc`. Each is a shift and a mask of one
  value, with no state and no cursor.
- The values of options (a frequency, a mask of registers), which are copied into
  fields unchanged, and the event's own fields.
- Event tables and the reads of sysfs, targets, and the wrappers of system calls:
  no state of their own. `read`, `mmap`, `ioctl` are modelled where their results
  matter.
- `with_ftrace_filter`, `id`, `enable_all`, `disable_all`, `enable_counter_with`,
  `sample_on` and the reads of the metadata page: one system call or one load
  each, with no state on this side.
- The kernel bindings and the build scripts. The bindings are generated by bindgen
  for each kernel version, are declarations only, and are some 95 of every 100
  lines of the repository's Rust.

## Plan

Done: both rings (models, refinements, proofs), the asynchronous iterators alone,
together and with reordered loads, life cycles, statistics and groups, `query_bpf`,
`switch_to`, the parsers of all records, the translation of options.

What is left, in this order:

1. `RecordRing` with a forgotten chunk, and the record ring composed with
   `AsyncIter` in place of its counter.
2. A sampler's parser against the attr: that the `sample_type` a `Parser` was made
   with stays the one that the kernel lays records out by.
