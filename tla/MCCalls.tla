-------------------------------- MODULE MCCalls --------------------------------
(* The calls that need nobody else to come to an end, for TLC: those of a        *)
(* Counter (that make samplers and tracers, query_bpf, switch_to, the options it *)
(* is made of), the statistics of a group, and the parser of records and of call *)
(* chains.  They share no state, so a behaviour is about one of them, its topic, *)
(* and the others stay as they are.                                              *)
EXTENDS Lifecycle, BpfQuery, SwitchTo, Attr, MCCounterGroup, MCParser, MCCallChain

VARIABLE topic

-----------------------------------------------------------------------------
(* Counters.                                                                *)

\* Every value of the integer.
AllLens == 0..Max32

\* Breakpoints have config 0; an execution breakpoint (1) has no length.
SomePlaceable ==
  {e \in Events : /\ e.type_ = Breakpoint /\ e.config = 0
                  /\ e.bp_type = 1 => e.config2 = 0}

-----------------------------------------------------------------------------
(* Requests: every option, alone and with every other that can be asked with it. *)

\* What can be asked, made so by what it is a part of.
Ask(os) == os \cup {p \in DOMAIN OptionParts : os \cap OptionParts[p] # {}}

Asks(options) ==
  {Ask(pair) : pair \in {{o, p} : o, p \in options} \ Variants}

Options(rows) == {r[1] : r \in UNION {rows, LbrNot, Dropped}} \cup {"enable"}

SomeLeaders == Asks(Options(Common \cup LeaderOnly)) \cup {{}}
SomeSiblings == {Ask({o}) : o \in Options(Common \cup SiblingOnly)}
SomeWithSibling ==
  {{}} \cup {{o} : o \in {"RealTime", "Tai", "only_group", "pin_on_pmu", "siblings"}}

-----------------------------------------------------------------------------
counterVars == <<lifeVars, queryVars, switchVars, attrVars>>
parsedVars == <<parserVars, chainVars>>

\* One state of each (or few), where it is not the topic.
MCInit ==
  /\ topic \in {"life", "bpf", "switch", "attr", "group", "record", "chain"}
  /\ QueryInit /\ ChainInit
  /\ LifeInit
  /\ topic # "life" => call.exp = 1 /\ call.by = CHOOSE s \in Samplers : TRUE
  /\ AttrInit
  /\ topic # "attr" => level = 400
  /\ Init
  /\ topic # "group" => formats = <<{}>>
  /\ SwitchInit
  /\ topic # "switch" => /\ attr.event = [type_ |-> Breakpoint, config |-> 0, config1 |-> 0,
                                          config2 |-> 0, bp_type |-> 2]
                         /\ ~attr.disabled
  /\ ParserInit
  /\ topic # "record" => kind = "lost_samples" /\ ~id_all

MCNext ==
  \/ /\ topic = "life" /\ LifeNext
     /\ UNCHANGED <<topic, queryVars, switchVars, attrVars, vars, parsedVars>>
  \/ /\ topic = "bpf" /\ QueryNext
     /\ UNCHANGED <<topic, lifeVars, switchVars, attrVars, vars, parsedVars>>
  \/ /\ topic = "switch" /\ SwitchNext
     /\ UNCHANGED <<topic, lifeVars, queryVars, attrVars, vars, parsedVars>>
  \/ /\ topic = "attr" /\ AttrNext
     /\ UNCHANGED <<topic, lifeVars, queryVars, switchVars, vars, parsedVars>>
  \/ /\ topic = "group" /\ Next
     /\ UNCHANGED <<topic, counterVars, parsedVars>>
  \/ /\ topic = "record" /\ ParserNext
     /\ UNCHANGED <<topic, counterVars, vars, chainVars>>
  \/ /\ topic = "chain" /\ ChainNext
     /\ UNCHANGED <<topic, counterVars, vars, parserVars>>

MCSpec == MCInit /\ [][MCNext]_<<topic, counterVars, vars, parsedVars>>
=============================================================================
