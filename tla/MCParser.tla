-------------------------------- MODULE MCParser --------------------------------
(* Records of every type, and sets of sample fields, for TLC. *)
EXTENDS Parser

MCKinds == {"mmap", "mmap2", "mmap2_build_id", "read", "cgroup", "ksymbol", "text_poke",
            "bpf_event", "switch", "switch_cpu_wide", "namespaces", "itrace_start", "aux",
            "aux_output_hw_id", "comm", "exit", "fork", "throttle", "unthrottle", "lost",
            "lost_samples", "callchain_deferred"}

\* The two weights exclude each other.
Possible(fs) == ~({"weight", "weight_struct"} \subseteq fs)

All == Fields \ {"weight"}

\* Any field alone, after any other, and every field but a few.
MCPairs == {fs \in {{f, g} : f, g \in Fields} : Possible(fs)}
MCFull == {All \ {"callchain", "read", "regs_user", "raw"},
           (All \ {"weight_struct", "branch_stack", "stack_user"}) \cup {"weight"}}
MCSets == MCPairs \cup MCFull
=============================================================================
