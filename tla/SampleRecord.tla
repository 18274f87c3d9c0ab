------------------------------ MODULE SampleRecord ------------------------------
(***************************************************************************)
(* Sample::from_ptr (src/src/sample/record/sample.rs): 24 optional fields, *)
(* each found only by having walked over all the fields before it.  The    *)
(* kernel writes the fields of sample_type, then the parser, which knows   *)
(* the same sample_type, takes them out one by one.                        *)
(***************************************************************************)
EXTENDS RecordBytes

CONSTANTS FlagSets,      \* the values of sample_type, as sets of fields
          EmptyStacks,   \* the kernel may write a branch stack of no entries
          UserRegs,      \* registers in sample_regs_user
          IntrRegs       \* registers in sample_regs_intr

\* PERF_SAMPLE_* in the order of perf_output_sample (external).
KernelOrder ==
  <<"ip", "tid", "time", "addr", "id", "stream_id", "cpu", "period", "read", "callchain",
    "raw", "branch_stack", "regs_user", "stack_user", "weight", "weight_struct",
    "data_src", "transaction", "regs_intr", "phys_addr", "cgroup", "data_page_size",
    "code_page_size", "aux">>

Fields == Range(KernelOrder)

ASSUME SampleAssumption ==
  /\ \A fs \in FlagSets : fs \subseteq Fields /\ ~({"weight", "weight_struct"} \subseteq fs)
  /\ EmptyStacks \in BOOLEAN
  /\ UserRegs \in Nat /\ IntrRegs \in Nat

-----------------------------------------------------------------------------
(* The kernel (external): perf_output_sample.                               *)

Group == <<[id |-> 1, count |-> 2, lost |-> 3, enabled |-> 4, running |-> 5],
           [id |-> 6, count |-> 7, lost |-> 8, enabled |-> 9, running |-> 10]>>

\* The index of a stack without entries tells nothing, but takes its place.
NoBranches == <<Nr(0)>> \o (IF "hw_index" \in branch THEN <<Atom(8, "pad", 0)>> ELSE <<>>)

\* data->br_stack.  It may be NULL, which is written as no entries and no index.
BranchAtoms(nr) ==
  <<Nr(nr)>> \o (IF "hw_index" \in branch THEN <<Word("hw_idx")>> ELSE <<>>)
    \o [i \in 1..nr |-> Atom(24, "lbr", i)]
    \o (IF "counters" \in branch THEN Words("cntr", nr) ELSE <<>>)

\* PERF_SAMPLE_REGS_ABI_NONE is told by the absence of registers.
RegsAtoms(of, n) ==
  {<<Atom(8, "nr", 0)>>} \cup {<<Atom(8, "abi", abi)>> \o Words(of, n) : abi \in {1, 2}}

\* All that the kernel may write for a field.
KernelAtoms(f) ==
  CASE f = "tid" -> {<<Atom(4, "pid", 0), Atom(4, "tid", 0)>>}
    [] f = "cpu" -> {<<Atom(4, "cpu", 0), Atom(4, "pad", 0)>>}
    [] f = "read" -> {StatAtoms(Group)}
    [] f = "callchain" -> {<<Nr(n)>> \o Words("ip", n) : n \in {0, 1, 3}}
    \* raw->size makes the size field and the data a multiple of 8.
    [] f = "raw" -> {<<Atom(4, "nr", n)>> \o Blob("raw", n) : n \in {4, 12}}
    [] f = "branch_stack" -> {<<Nr(0)>>} \cup {BranchAtoms(n) : n \in {1, 2}}
                               \cup (IF EmptyStacks THEN {NoBranches} ELSE {})
    [] f = "regs_user" -> RegsAtoms("user", UserRegs)
    [] f = "regs_intr" -> RegsAtoms("intr", IntrRegs)
    [] f = "stack_user" -> {<<Nr(0)>>} \cup
         {<<Nr(16), Atom(16, "stack", dyn), Atom(8, "nr", dyn)>> : dyn \in {0, 16}}
    [] f = "weight_struct" -> {<<Atom(4, "var1", 0), Atom(2, "var2", 0), Atom(2, "var3", 0)>>}
    [] f = "aux" -> {<<Nr(n)>> \o Blob("aux", n) : n \in {0, 8}}
    [] OTHER -> {<<Word(f)>>}

WriteSample ==
  /\ kind = "sample" /\ flags \ DOMAIN meant # {}
  /\ LET f == First(KernelOrder, flags \ DOMAIN meant)
     IN  \E atoms \in KernelAtoms(f) : Write(f, atoms)

-----------------------------------------------------------------------------
(* Sample::from_ptr, field by field.                                        *)

\* Mutant of ParseOrder: the order of the flags' bits, where the page sizes come
\* after the snapshot of the AUX area.
BitOrder ==
  <<"ip", "tid", "time", "addr", "id", "stream_id", "cpu", "period", "read", "callchain",
    "raw", "branch_stack", "regs_user", "stack_user", "weight", "weight_struct",
    "data_src", "transaction", "regs_intr", "phys_addr", "aux", "cgroup",
    "data_page_size", "code_page_size">>

ParseOrder ==
  <<"ip", "tid", "time", "addr", "id", "stream_id", "cpu", "period", "read", "callchain",
    "raw", "branch_stack", "regs_user", "stack_user", "weight", "weight_struct",
    "data_src", "transaction", "regs_intr", "phys_addr", "cgroup", "data_page_size",
    "code_page_size", "aux">>

\* `when!': the parser is at field f, which is in sample_type.
When(f) == /\ kind = "sample" /\ DOMAIN meant = flags
           /\ flags \ DOMAIN got # {}
           /\ f = First(ParseOrder, flags \ DOMAIN got)

\* The u64 at the cursor, when it is a length or an abi.
Len64 == Get(ptr, 8).n

WordFields == {"ip", "time", "addr", "id", "stream_id", "period", "weight", "data_src",
               "transaction", "phys_addr", "cgroup", "data_page_size", "code_page_size"}

ParseWord == \E f \in WordFields :
  When(f) /\ Take(f, <<Get(ptr, 8)>>, ptr + 8, ptr + 8)

ParseTask == When("tid") /\ Take("tid", GetAll(ptr, 4, 2), ptr + 8, ptr + 8)

ParseCpu == When("cpu") /\ Take("cpu", <<Get(ptr, 4)>>, ptr + 8, ptr + 8)

\* More words than any read of the group has.
ParseRead == When("read") /\ TakeStat("read", 20)

\* parse_call_chain; how it groups the words by their markers is CallChain.
ParseCallChain ==
  /\ When("callchain")
  /\ LET end == ptr + 8 + 8 * Len64
     IN  Take("callchain", GetAll(ptr + 8, 8, Len64), end, end)

ParseRaw ==
  /\ When("raw")
  /\ LET n == Get(ptr, 4).n
         end == ptr + 4 + n
     IN  Take("raw", GetBytes(ptr + 4, n), AlignOffset(end), end)

\* parse_lbr
ParseLbr ==
  /\ When("branch_stack")
  /\ LET nr == Len64
         idx == IF "hw_index" \in branch THEN 1 ELSE 0
         cntr == IF "counters" \in branch THEN nr ELSE 0
         lbr == ptr + 8 + 8 * idx
         end == lbr + 24 * nr + 8 * cntr
     IN  IF nr = 0 THEN Take("branch_stack", <<>>, ptr + 8, ptr + 8)
         ELSE Take("branch_stack",
                   GetAll(ptr + 8, 8, idx) \o GetAll(lbr, 24, nr)
                     \o GetAll(lbr + 24 * nr, 8, cntr),
                   end, end)

\* parse_regs: neither registers nor room for them without an abi.
ParseRegs == \E f \in {"regs_user", "regs_intr"} :
  /\ When(f)
  /\ LET n == IF f = "regs_user" THEN UserRegs ELSE IntrRegs
         end == ptr + 8 + 8 * n
     IN  IF Len64 = 0 THEN Take(f, <<>>, ptr + 8, ptr + 8)
         ELSE Take(f, GetAll(ptr, 8, 1 + n), end, end)

\* bytes[..dyn_len]
ParseStack ==
  /\ When("stack_user")
  /\ LET n == Len64
         dyn == Get(ptr + 8 + n, 8).n
         end == ptr + 8 + n + (IF n > 0 THEN 8 ELSE 0)
     IN  Take("stack_user",
              IF n = 0 THEN <<>> ELSE <<Val(Get(ptr + 8, n).of, dyn)>>, end, end)

ParseWeightVars ==
  /\ When("weight_struct")
  /\ Take("weight_struct",
          <<Get(ptr, 4), Get(ptr + 4, 2), Get(ptr + 6, 2)>>, ptr + 8, ptr + 8)

\* The last field: the cursor is left at the data.
ParseAux ==
  /\ When("aux")
  /\ Take("aux", GetBytes(ptr + 8, Len64), ptr + 8, ptr + 8 + Len64)

-----------------------------------------------------------------------------
SampleInit ==
  /\ Blank
  /\ kind = "sample" /\ id_all = FALSE
  /\ flags \in FlagSets
  /\ format \in IF "read" \in flags THEN SUBSET St!Flags ELSE {{}}
  /\ branch \in IF "branch_stack" \in flags THEN SUBSET {"hw_index", "counters"} ELSE {{}}

ParseSample ==
  \/ ParseWord \/ ParseTask \/ ParseCpu \/ ParseRead \/ ParseCallChain \/ ParseRaw
  \/ ParseLbr \/ ParseRegs \/ ParseStack \/ ParseWeightVars \/ ParseAux
=============================================================================
