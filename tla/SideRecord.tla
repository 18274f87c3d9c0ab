------------------------------- MODULE SideRecord -------------------------------
(***************************************************************************)
(* The records other than samples (src/src/sample/record): UnsafeParser::  *)
(* parse picks a from_ptr by the header's type.  Each reads a fixed head,  *)
(* some a tail of a length told by the record, and then, if sample_id_all  *)
(* is set, a RecordId that the kernel appends to every such record.        *)
(***************************************************************************)
EXTENDS RecordBytes

CONSTANTS Kinds,            \* the types of record
          Lengths,          \* lengths of strings, code and arrays
          NamespacesWithId  \* namespaces records come with a sample_id too

RecordIdFields == {"task", "time", "id", "stream_id", "cpu"}

-----------------------------------------------------------------------------
(* The kernel (external): perf_event_mmap_output, perf_event_comm_output... *)

U32(of) == Atom(4, of, 0)
U16(of) == Atom(2, of, 0)
Ids == <<U32("pid"), U32("tid")>>
Mapped == Ids \o <<Word("addr"), Word("len"), Word("pgoff")>>
Protection == <<U32("prot"), U32("flags")>>
Forked == <<U32("pid"), U32("ppid"), U32("tid"), U32("ptid"), Word("time")>>
Throttled == <<Word("time"), Word("id"), Word("stream_id")>>

KernelHead ==
  [mmap |-> Mapped,
   mmap2 |-> Mapped \o <<U32("major"), U32("minor"), Word("inode"), Word("inode_gen")>>
               \o Protection,
   mmap2_build_id |-> Mapped \o <<Atom(1, "build_id_size", 20), Atom(3, "pad", 0),
                                   Atom(20, "build_id", 20)>> \o Protection,
   read |-> Ids, comm |-> Ids, itrace_start |-> Ids, switch_cpu_wide |-> Ids,
   switch |-> <<>>, namespaces |-> Ids, exit |-> Forked, fork |-> Forked,
   throttle |-> Throttled, unthrottle |-> Throttled,
   lost |-> <<Word("id"), Word("lost")>>, lost_samples |-> <<Word("lost")>>,
   cgroup |-> <<Word("id")>>,
   ksymbol |-> <<Word("addr"), U32("len"), U16("type"), U16("flags")>>,
   text_poke |-> <<Word("addr")>>,
   bpf_event |-> <<U16("type"), U16("flags"), U32("id"), Word("tag")>>,
   aux |-> <<Word("offset"), Word("size"), Word("flags")>>,
   aux_output_hw_id |-> <<Word("hw_id")>>,
   callchain_deferred |-> <<Word("cookie")>>]

ASSUME SideAssumption ==
  /\ Kinds \subseteq DOMAIN KernelHead
  /\ Lengths \subseteq Nat \ {0}
  /\ NamespacesWithId \in BOOLEAN

WithString == {"mmap", "mmap2", "mmap2_build_id", "comm", "cgroup", "ksymbol"}

Alone == <<[id |-> 1, count |-> 2, lost |-> 3, enabled |-> 4, running |-> 5]>>

\* What follows the head: n is the length of a string with its NUL, of both
\* pieces of code, of an array.
KernelTail(n) ==
  CASE kind \in WithString -> <<Atom(n, "str", n)>> \o Pad(n)
    [] kind = "text_poke" -> <<Atom(2, "nr", n), Atom(2, "nr", 1)>> \o Blob("code", n + 1)
                               \o Pad(12 + n + 1)
    [] kind = "read" -> StatAtoms(Alone)
    [] kind = "namespaces" -> <<Nr(7)>> \o Words("dev_inode", 14)
    [] kind = "callchain_deferred" -> <<Nr(n)>> \o Words("ip", n)
    [] OTHER -> <<>>

\* perf_event__output_id_sample
KernelId(f) == CASE f = "task" -> <<U32("id_pid"), U32("id_tid")>>
                 [] f = "time" -> <<Word("id_time")>>
                 [] f = "id" -> <<Word("id_id")>>
                 [] f = "stream_id" -> <<Word("id_stream_id")>>
                 [] f = "cpu" -> <<U32("id_cpu"), Atom(4, "pad", 0)>>

KernelSideOrder == <<"head", "tail", "task", "time", "id", "stream_id", "cpu">>

\* All that the kernel may write for a part.
KernelPart(f) == CASE f = "head" -> {KernelHead[kind]}
                   [] f = "tail" -> {KernelTail(n) : n \in Lengths}
                   [] OTHER -> {KernelId(f)}

\* The parts that the record has.
Parts == {"head", "tail"} \cup (IF id_all THEN flags ELSE {})

WriteSide ==
  /\ kind # "sample" /\ Parts \ DOMAIN meant # {}
  /\ LET f == First(KernelSideOrder, Parts \ DOMAIN meant)
     IN  \E atoms \in KernelPart(f) : Write(f, atoms)

-----------------------------------------------------------------------------
(* The from_ptr functions.                                                  *)

Task == <<U32("pid"), U32("tid")>>

\* Mmap::from_ptr; the three bytes after the length of a build id are skipped.
MmapReads ==
  LET map == Task \o <<Word("addr"), Word("len"), Word("pgoff")>>
      device == <<U32("major"), U32("minor"), Word("inode"), Word("inode_gen")>>
      build_id == <<Atom(1, "build_id_size", 20), Atom(3, "pad", 0), Atom(20, "build_id", 20)>>
      ext == <<U32("prot"), U32("flags")>>
  IN  [mmap |-> map, mmap2 |-> map \o device \o ext, mmap2_build_id |-> map \o build_id \o ext]

\* Exit::from_ptr, which Fork::from_ptr calls.
ExitReads == <<U32("pid"), U32("ppid"), U32("tid"), U32("ptid"), Word("time")>>

\* Throttle::from_ptr, which Unthrottle::from_ptr calls.
ThrottleReads == <<Word("time"), Word("id"), Word("stream_id")>>

LostRecordsReads == <<Word("id"), Word("lost")>>
LostSamplesReads == <<Word("lost")>>
CgroupReads == <<Word("id")>>
KsymbolReads == <<Word("addr"), U32("len"), U16("type"), U16("flags")>>
TextPokeReads == <<Word("addr")>>
BpfEventReads == <<U16("type"), U16("flags"), U32("id"), Word("tag")>>
AuxReads == <<Word("offset"), Word("size"), Word("flags")>>
AuxOutputHwIdReads == <<Word("hw_id")>>
CallChainDeferredReads == <<Word("cookie")>>
CommReads == Task
ItraceStartReads == Task
CtxSwitchReads == [switch |-> <<>>, switch_cpu_wide |-> Task]

\* The match of UnsafeParser::parse, and what the from_ptr it calls reads with
\* deref_offset, in order, into which field.
Reads ==
  [mmap |-> MmapReads.mmap, mmap2 |-> MmapReads.mmap2,
   mmap2_build_id |-> MmapReads.mmap2_build_id,
   switch |-> CtxSwitchReads.switch, switch_cpu_wide |-> CtxSwitchReads.switch_cpu_wide,
   read |-> Task, namespaces |-> Task, comm |-> CommReads, itrace_start |-> ItraceStartReads,
   exit |-> ExitReads, fork |-> ExitReads,
   throttle |-> ThrottleReads, unthrottle |-> ThrottleReads,
   lost |-> LostRecordsReads, lost_samples |-> LostSamplesReads, cgroup |-> CgroupReads,
   ksymbol |-> KsymbolReads, text_poke |-> TextPokeReads, bpf_event |-> BpfEventReads,
   aux |-> AuxReads, aux_output_hw_id |-> AuxOutputHwIdReads,
   callchain_deferred |-> CallChainDeferredReads]

\* A cursor that goes over reads; a value that is not the field's is Torn.
Walk(p, reads) ==
  LET walk[i \in 0..Len(reads)] ==
        IF i = 0 THEN [p |-> p, vals |-> <<>>]
        ELSE LET c == walk[i - 1]
                 r == reads[i]
                 v == Get(c.p, r.w)
             IN  [p    |-> c.p + r.w,
                  vals |-> IF r.val.of = "pad" THEN c.vals
                           ELSE Append(c.vals, IF v.of = r.val.of THEN v ELSE Torn)]
  IN  walk[Len(reads)]

\* The RecordId comes last, in the order of RecordId::from_ptr.
SideOrder == <<"head", "tail", "task", "time", "id", "stream_id", "cpu">>

\* The record is written, and f is the next of its parts.
At(f) == /\ kind # "sample" /\ DOMAIN meant = Parts
         /\ Parts \ DOMAIN got # {}
         /\ f = First(SideOrder, Parts \ DOMAIN got)

ParseHead ==
  /\ At("head")
  /\ LET c == Walk(ptr, Reads[kind]) IN Take("head", c.vals, c.p, c.p)

\* These have nothing between the head and the record id.
NoTail ==
  /\ At("tail")
  /\ kind \notin WithString \cup {"text_poke", "read", "namespaces", "callchain_deferred"}
  /\ Take("tail", <<>>, ptr, ptr)

\* CStr::from_ptr, then the padding; no record id, no padding.
ParseStr ==
  /\ At("tail") /\ kind \in WithString
  /\ LET n == StrLen(ptr)
     IN  Take("tail", GetBytes(ptr, n),
              IF id_all THEN AlignOffset(ptr + n) ELSE ptr + n, ptr + n)

\* TextPoke::from_ptr: both pieces of code are taken as one slice.
ParseTextPoke ==
  /\ At("tail") /\ kind = "text_poke"
  /\ LET n == Get(ptr, 2).n + Get(ptr + 2, 2).n
         end == ptr + 4 + n
     IN  Take("tail", GetBytes(ptr + 4, n),
              IF id_all THEN AlignOffset(end) ELSE end, end)

\* Read::from_ptr; more words than any read of one event has.
ParseStat == At("tail") /\ kind = "read" /\ TakeStat("tail", 9)

\* Namespaces::from_ptr: the slice is taken at the cursor, which stays there.
ParseNamespaces ==
  /\ At("tail") /\ kind = "namespaces"
  /\ LET n == Get(ptr, 8).n
     IN  Take("tail", GetAll(ptr + 8, 8, 2 * n), ptr + 8, ptr + 8 + 16 * n)

ParseCallChainDeferred ==
  /\ At("tail") /\ kind = "callchain_deferred"
  /\ LET n == Get(ptr, 8).n
         end == ptr + 8 + 8 * n
     IN  Take("tail", GetAll(ptr + 8, 8, n), end, end)

-----------------------------------------------------------------------------
(* RecordId::from_ptr.                                                      *)

ParseIdTask == At("task") /\ Take("task", GetAll(ptr, 4, 2), ptr + 8, ptr + 8)

ParseIdWord == \E f \in {"time", "id", "stream_id"} :
  At(f) /\ Take(f, <<Get(ptr, 8)>>, ptr + 8, ptr + 8)

\* The last of them: the reserved half of the word is left alone.
ParseIdCpu == At("cpu") /\ Take("cpu", <<Get(ptr, 4)>>, ptr + 4, ptr + 4)

-----------------------------------------------------------------------------
SideInit ==
  /\ Blank
  /\ kind \in Kinds
  /\ id_all \in IF kind = "namespaces" /\ ~NamespacesWithId THEN {FALSE} ELSE BOOLEAN
  /\ flags \in IF id_all THEN SUBSET RecordIdFields ELSE {{}}
  /\ format \in IF kind = "read" THEN SUBSET (St!Flags \ {"group"}) ELSE {{}}
  /\ branch = {}

ParseSide ==
  \/ ParseHead
  \/ NoTail \/ ParseStr \/ ParseTextPoke \/ ParseStat \/ ParseNamespaces
  \/ ParseCallChainDeferred
  \/ ParseIdTask \/ ParseIdWord \/ ParseIdCpu
=============================================================================
