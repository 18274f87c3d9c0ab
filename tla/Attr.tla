----------------------------------- MODULE Attr -----------------------------------
(***************************************************************************)
(* The options of a counter become a perf_event_attr                       *)
(* (src/src/config/attr.rs for a counter of its own or a leader,           *)
(* src/src/config/sibling/attr.rs for a sibling), in a crate that is built *)
(* for one kernel version: an option that is newer than that is refused.   *)
(* Options are the ones that differ from Opts::default(); a field of the   *)
(* attr that they give a value is in the set the attr is.  Values, the     *)
(* event's own fields and the kind of the error are left out.              *)
(* A kernel version x.y is 100 * x + y.                                    *)
(***************************************************************************)
EXTENDS Naturals, FiniteSets

CONSTANTS Levels,      \* the versions the crate is built for, features of Cargo.toml
          LeaderAsks,  \* sets of options: what a program asks of a leader ...
          SiblingAsks, \* ... and of a sibling
          WithSibling  \* Bound: the LeaderAsks whose leader is given a sibling

\* A row: an option, the version it is refused below, a field it sets.
Exclude == {
  <<"user", 400, "exclude_user">>, <<"kernel", 400, "exclude_kernel">>,
  <<"hv", 400, "exclude_hv">>, <<"host", 400, "exclude_host">>,
  <<"guest", 400, "exclude_guest">>, <<"idle", 400, "exclude_idle">>}

Counting == {
  <<"NewChild", 400, "inherit">>, <<"NewThread", 513, "inherit">>,
  <<"NewThread", 513, "inherit_thread">>,
  <<"Enable", 400, "enable_on_exec">>, <<"Remove", 513, "remove_on_exec">>,
  <<"config3", 603, "config3">>}

StatFormat == {
  <<"stat_id", 400, "FORMAT_ID">>, <<"time_enabled", 400, "FORMAT_TOTAL_TIME_ENABLED">>,
  <<"time_running", 400, "FORMAT_TOTAL_TIME_RUNNING">>,
  <<"lost_records", 600, "FORMAT_LOST">>}

Sampling == {
  <<"Freq", 400, "freq">>, <<"sample_skid", 400, "precise_ip">>,
  <<"Bytes", 400, "watermark">>, <<"on_aux_bytes", 401, "aux_watermark">>,
  <<"record_id_all", 400, "sample_id_all">>}

SampleFormat == {
  <<"stat", 400, "READ">>, <<"period", 400, "PERIOD">>, <<"cgroup", 507, "CGROUP">>,
  <<"user_stack", 400, "STACK_USER">>, <<"call_chain", 400, "CALLCHAIN">>,
  <<"exclude_user", 400, "exclude_callchain_user">>,
  <<"exclude_kernel", 400, "exclude_callchain_kernel">>,
  <<"max_stack_frames", 408, "sample_max_stack">>,
  <<"data_addr", 400, "ADDR">>, <<"data_phys_addr", 414, "PHYS_ADDR">>,
  <<"data_page_size", 511, "DATA_PAGE_SIZE">>, <<"data_source", 400, "DATA_SRC">>,
  <<"code_addr", 400, "IP">>, <<"code_page_size", 511, "CODE_PAGE_SIZE">>,
  <<"user_regs", 400, "REGS_USER">>, <<"intr_regs", 400, "REGS_INTR">>,
  <<"raw", 400, "RAW">>, <<"lbr", 400, "BRANCH_STACK">>, <<"aux", 505, "AUX">>,
  <<"txn", 400, "TRANSACTION">>, <<"Full", 400, "WEIGHT">>,
  <<"Vars", 512, "WEIGHT_STRUCT">>}

Lbr == {
  <<"target_user", 400, "BRANCH_USER">>, <<"target_kernel", 400, "BRANCH_KERNEL">>,
  <<"target_hv", 400, "BRANCH_HV">>,
  <<"any", 400, "BRANCH_ANY">>, <<"any_return", 400, "BRANCH_ANY_RETURN">>,
  <<"cond", 400, "BRANCH_COND">>, <<"ind_jump", 402, "BRANCH_IND_JUMP">>,
  <<"call_stack", 401, "BRANCH_CALL_STACK">>, <<"call", 404, "BRANCH_CALL">>,
  <<"any_call", 400, "BRANCH_ANY_CALL">>, <<"ind_call", 400, "BRANCH_IND_CALL">>,
  <<"in_tx", 400, "BRANCH_IN_TX">>, <<"no_tx", 400, "BRANCH_NO_TX">>,
  <<"abort_tx", 400, "BRANCH_ABORT_TX">>, <<"hw_index", 507, "BRANCH_HW_INDEX">>,
  <<"counter", 608, "BRANCH_COUNTERS">>, <<"branch_type", 414, "BRANCH_TYPE_SAVE">>,
  <<"branch_priv", 601, "BRANCH_PRIV_SAVE">>}

\* LbrEntryFormat::flags and cycles are there unless the attr says no.
LbrNot == {<<"flags", 405, "BRANCH_NO_FLAGS">>, <<"cycles", 405, "BRANCH_NO_CYCLES">>}

RecordIdFormat == {
  <<"id", 400, "ID">>, <<"stream_id", 400, "STREAM_ID">>, <<"cpu", 400, "CPU">>,
  <<"task", 400, "TID">>, <<"time", 400, "TIME">>}

\* UseBuildId(false) is Device, UseBuildId(true) is BuildId.
ExtraRecord == {
  <<"fork_exit", 400, "task">>, <<"read", 400, "inherit_stat">>, <<"comm", 400, "comm">>,
  <<"code", 400, "mmap">>, <<"data", 400, "mmap_data">>,
  <<"Device", 400, "mmap">>, <<"Device", 400, "mmap2">>,
  <<"BuildId", 512, "mmap">>, <<"BuildId", 512, "mmap2">>, <<"BuildId", 512, "build_id">>,
  <<"extra_cgroup", 507, "cgroup">>, <<"ksymbol", 501, "ksymbol">>,
  <<"bpf_event", 501, "bpf_event">>, <<"text_poke", 509, "text_poke">>,
  <<"ctx_switch", 403, "context_switch">>, <<"namespaces", 412, "namespaces">>,
  <<"call_chain_deferred", 619, "defer_output">>}

\* Rows that nothing refuses below their version: the field is just not set.
Dropped == {<<"defer_user", 619, "defer_callchain">>}

Common == UNION {Exclude, Counting, StatFormat, Sampling, SampleFormat, Lbr,
                 RecordIdFormat, ExtraRecord}

\* A Clock other than CLOCK_REALTIME, which is 0, gives clockid a value.
Timer == {<<c, 401, "use_clockid">> : c \in {"RealTime", "Tai"}}
           \cup {<<"Tai", 401, "clockid">>}

LeaderOnly == Timer \cup {
  <<"only_group", 400, "exclusive">>, <<"pin_on_pmu", 400, "pinned">>,
  <<"siblings", 400, "FORMAT_GROUP">>, <<"pause_aux", 613, "aux_start_paused">>,
  <<"sigtrap_on_sample", 513, "sigtrap">>}

SiblingOnly == {
  <<"aux_output", 504, "aux_output">>, <<"Pause", 613, "aux_pause">>,
  <<"Resume", 613, "aux_resume">>, <<"sigtrap", 513, "sigtrap">>}

-----------------------------------------------------------------------------
\* Mutant of FieldsOf: the page sizes of code and data are taken for one another.
FieldsOnePageSize(rows, level, asked) ==
  {IF r[3] = "CODE_PAGE_SIZE" THEN "DATA_PAGE_SIZE" ELSE r[3] :
     r \in {q \in rows : q[1] \in asked /\ q[2] =< level}}

\* The fields that rows set for the options asked, at a level that knows them.
FieldsOf(rows, level, asked) ==
  {r[3] : r \in {q \in rows : q[1] \in asked /\ q[2] =< level}}

\* unsupported!: an option that is asked is newer than the level.
Unsupported(rows, level, asked) == \E r \in rows : r[1] \in asked /\ level < r[2]

\* What an LBR asks to leave out.
LeftOut(asked) == IF "lbr" \in asked THEN {r[1] : r \in LbrNot} \ asked ELSE {}

\* Opts::enable clears the disabled that is there without it.
Disabled(asked) == IF "enable" \in asked THEN {} ELSE {"disabled"}

Refused == {"Err"}

\* Mutant of Translate: an option of a newer kernel is dropped.
TranslateDrops(rows, level, asked) ==
  UNION {FieldsOf(rows, level, asked), FieldsOf(LbrNot, level, LeftOut(asked)), Disabled(asked)}

\* The attr, or Err.
Translate(rows, level, asked) ==
  IF Unsupported(rows, level, asked) \/ Unsupported(LbrNot, level, LeftOut(asked))
  THEN Refused
  ELSE UNION {FieldsOf(rows \cup Dropped, level, asked),
              FieldsOf(LbrNot, level, LeftOut(asked)), Disabled(asked)}

Clock == {"use_clockid", "clockid"}

\* config::attr::from
LeaderAttr(level, asked) == Translate(Common \cup LeaderOnly, level, asked)

\* config::sibling::attr::from, which takes the clock of the leader's attr.
SiblingAttr(level, asked, of) ==
  LET own == Translate(Common \cup SiblingOnly, level, asked)
  IN  IF own = Refused THEN Refused ELSE own \cup (of \cap Clock)

-----------------------------------------------------------------------------
\* The options that only say how another one is done (the fields of
\* SampleFormat::call_chain and of SampleFormat::lbr), and that one.
OptionParts == [call_chain |-> {"exclude_user", "exclude_kernel", "max_stack_frames", "defer_user"},
          lbr |-> {r[1] : r \in Lbr \cup LbrNot}]

PartsOf(o) == IF o \in DOMAIN OptionParts THEN OptionParts[o] ELSE {}

\* Variants of one enum: at most one of them is asked for.
Variants == {{"NewChild", "NewThread"}, {"Enable", "Remove"}, {"Full", "Vars"},
            {"Device", "BuildId"}, {"RealTime", "Tai"}, {"Pause", "Resume"}}

\* What the types of Opts let a program ask for.
Askable(rows, asked) ==
  /\ asked \subseteq {r[1] : r \in UNION {rows, LbrNot, Dropped}} \cup {"enable"}
  /\ \A c \in Variants : ~(c \subseteq asked)
  /\ \A whole \in DOMAIN OptionParts : asked \cap OptionParts[whole] # {} => whole \in asked

ASSUME AttrAssumption ==
  /\ Levels \subseteq Nat /\ WithSibling \subseteq LeaderAsks
  /\ \A a \in LeaderAsks : Askable(Common \cup LeaderOnly, a)
  /\ \A a \in SiblingAsks : Askable(Common \cup SiblingOnly, a)

VARIABLES level,   \* the version that the program is built for
          leader,  \* the options it asks of a leader, and the attr it gets
          sibling  \* the same of a sibling

attrVars == <<level, leader, sibling>>

\* Nothing is asked of it yet.
Unasked == [asked |-> {"none"}, attr |-> Refused]

AttrInit == level \in Levels /\ leader = Unasked /\ sibling = Unasked

\* Counter::new
New ==
  /\ leader = Unasked
  /\ \E a \in LeaderAsks : leader' = [asked |-> a, attr |-> LeaderAttr(level, a)]
  /\ UNCHANGED <<level, sibling>>

\* CounterGroup::add on the group of a leader that there is.
AddSibling ==
  /\ leader.attr # Refused /\ leader.asked \in WithSibling /\ sibling = Unasked
  /\ \E a \in SiblingAsks :
       sibling' = [asked |-> a, attr |-> SiblingAttr(level, a, leader.attr)]
  /\ UNCHANGED <<level, leader>>

\* The same program, built for a later version.
Upgrade(l) ==
  /\ level < l
  /\ level' = l
  /\ leader # Unasked
  /\ leader' = [leader EXCEPT !.attr = LeaderAttr(l, leader.asked)]
  /\ sibling' = IF sibling = Unasked THEN Unasked
                ELSE [sibling EXCEPT !.attr = SiblingAttr(l, sibling.asked, leader'.attr)]

AttrNext == New \/ AddSibling \/ \E l \in Levels : Upgrade(l)

AttrSpec == AttrInit /\ [][AttrNext]_attrVars

-----------------------------------------------------------------------------
\* `This also enables Self::code' (Mmap::ext).
Implied(o, asked) == o = "code" /\ asked \cap {"Device", "BuildId"} # {}

\* The option o of an accepted request counts: without it the attr is another one,
\* or the request refused.
LeaderShows(o) ==
  \/ leader.attr = Refused \/ Implied(o, leader.asked)
  \/ LeaderAttr(level, leader.asked \ ({o} \cup PartsOf(o))) # leader.attr

SiblingShows(o) ==
  \/ sibling.attr = Refused \/ Implied(o, sibling.asked)
  \/ SiblingAttr(level, sibling.asked \ ({o} \cup PartsOf(o)), leader.attr) # sibling.attr

\* An option that is newer than the build is refused, as the documentation has it of
\* each: none is accepted and left out of the attr.
NothingIgnored ==
  /\ \A o \in leader.asked : LeaderShows(o)
  /\ \A o \in sibling.asked : SiblingShows(o)

\* The build is too old for option o, and does not say so.
DroppedAt(lvl, o) == \E r \in Dropped : r[1] = o /\ lvl < r[2]

\* What the two tables make of every request: an option that is left out of an
\* accepted attr is one of the rows for which the code has no test (defer_user), on
\* a level below theirs.
OnlyDroppedIgnored ==
  /\ \A o \in leader.asked : LeaderShows(o) \/ DroppedAt(level, o)
  /\ \A o \in sibling.asked : SiblingShows(o) \/ DroppedAt(level, o)

\* The fields of rows that a build for version `from' has dropped and one for `to' sets.
Gained(asked, from, to) ==
  {r[3] : r \in {q \in Dropped : q[1] \in asked /\ from < q[2] /\ q[2] =< to}}

\* What was accepted once is accepted by every later build and means the same, but for
\* the fields that were asked for and dropped, which appear with their version.
UpgradeKeeps ==
  [][\A l \in Levels : Upgrade(l) =>
       /\ leader.attr # Refused =>
            leader'.attr = leader.attr \cup Gained(leader.asked, level, l)
       /\ sibling.attr # Refused =>
            sibling'.attr = sibling.attr \cup Gained(sibling.asked, level, l)]_attrVars
=============================================================================
