------------------------------- MODULE Lifecycle -------------------------------
(***************************************************************************)
(* The lives of a Counter (src/src/count/mod.rs), of its Samplers (sample/ *)
(* mod.rs) and their AuxTracers (sample/auxiliary/mod.rs), and of what the *)
(* kernel keeps for them: the ring and the AUX area of the event, which    *)
(* live for as long as an Arena (sample/arena.rs) maps them.               *)
(*                                                                         *)
(* A Sampler is Send: it may be dropped in another thread, in two steps,   *)
(* while the Counter's thread calls sampler.  An AuxTracer borrows its     *)
(* Sampler.  The Arc<File> is the set of its owners.  A length is its exp. *)
(***************************************************************************)
EXTENDS Naturals, FiniteSets

CONSTANTS Samplers, Tracers,  \* identities; one is used again after a drop
          TheCounter,         \* the Counter as an owner of the file
          Exps,               \* the exp of a call
          TooBig              \* those whose length overflows a usize

ASSUME IdAssumption == /\ IsFiniteSet(Samplers)
                       /\ Samplers \cap Tracers = {}
                       /\ TheCounter \notin Samplers

ASSUME ExpAssumption == TooBig \subseteq Exps

VARIABLES owners,    \* of the Arc<File>; Arc::strong_count is their number
          call,      \* Counter::sampler: between the check and the mmap
          sampler,   \* per sampler: unused, live or dropping
          tracer,    \* per tracer: unused, mapping or live; whose it is; its exp
          ring,      \* kernel: the mappings that keep the ring, and its exp
          aux,       \* kernel: the same for the AUX area
          aux_size,  \* metadata.aux_size on the page of the ring
          returned   \* what the last step returned, if anything

lifeVars == <<owners, call, sampler, tracer, ring, aux, aux_size, returned>>

NoReturn == [kind |-> "none"]

\* A constructor returns Err, or Ok.
Returns(kind, e) == returned' = [kind |-> kind, exp |-> e]

Busy(s) == \E t \in Tracers : tracer[t].state # "unused" /\ tracer[t].of = s

-----------------------------------------------------------------------------
(* Counter::sampler and Sampler::new.                                       *)

StrongCount == Cardinality(owners)

\* Mutant of Sampler: the count is not looked at.
SamplerUnchecked(s, e) ==
  /\ TheCounter \in owners /\ call.pc = "idle" /\ sampler[s] = "unused"
  /\ e \notin TooBig
  /\ owners' = owners \cup {s}
  /\ call' = [pc |-> "mmap", by |-> s, exp |-> e]
  /\ returned' = NoReturn
  /\ UNCHANGED <<sampler, tracer, ring, aux, aux_size>>

\* The check, the clone of the Arc and the length.  A clone that is not used is
\* dropped again before the call returns.
Sampler(s, e) ==
  /\ TheCounter \in owners /\ call.pc = "idle" /\ sampler[s] = "unused"
  /\ \/ /\ StrongCount # 1
        /\ Returns("AlreadyExists", e)
        /\ UNCHANGED <<owners, call>>
     \/ /\ StrongCount = 1 /\ e \in TooBig
        /\ Returns("Overflow", e)
        /\ UNCHANGED <<owners, call>>
     \/ /\ StrongCount = 1 /\ e \notin TooBig
        /\ owners' = owners \cup {s}
        /\ call' = [pc |-> "mmap", by |-> s, exp |-> e]
        /\ returned' = NoReturn
  /\ UNCHANGED <<sampler, tracer, ring, aux, aux_size>>

\* The kernel has a ring of another length for the event (external).
WrongRing(e) == ring.maps # {} /\ ring.exp # e

\* Arena::new maps the ring: the kernel's, if it has one.
MapRing ==
  /\ call.pc = "mmap" /\ ~WrongRing(call.exp)
  /\ ring' = [maps |-> ring.maps \cup {call.by}, exp |-> call.exp]
  /\ aux_size' = IF ring.maps = {} THEN {} ELSE aux_size
  /\ sampler' = [sampler EXCEPT ![call.by] = "live"]
  /\ call' = [call EXCEPT !.pc = "idle"]
  /\ Returns("Ok", call.exp)
  /\ UNCHANGED <<owners, tracer, aux>>

\* Mutant of MapRingFails: the clone of the Arc is leaked.
MapRingFailsLeaks ==
  /\ call.pc = "mmap"
  /\ call' = [call EXCEPT !.pc = "idle"]
  /\ Returns(IF WrongRing(call.exp) THEN "EINVAL" ELSE "ENOMEM", call.exp)
  /\ UNCHANGED <<owners, sampler, tracer, ring, aux, aux_size>>

\* mmap fails, and Sampler::new drops its Arc.
MapRingFails ==
  /\ call.pc = "mmap"
  /\ owners' = owners \ {call.by}
  /\ call' = [call EXCEPT !.pc = "idle"]
  /\ Returns(IF WrongRing(call.exp) THEN "EINVAL" ELSE "ENOMEM", call.exp)
  /\ UNCHANGED <<sampler, tracer, ring, aux, aux_size>>

\* A Sampler's fields are dropped in the order of their declaration: its Arc,
DropPerf(s) ==
  /\ sampler[s] = "live" /\ ~Busy(s)
  /\ owners' = owners \ {s}
  /\ sampler' = [sampler EXCEPT ![s] = "dropping"]
  /\ returned' = NoReturn
  /\ UNCHANGED <<call, tracer, ring, aux, aux_size>>

\* then its Arena, which unmaps the ring.
DropArena(s) ==
  /\ sampler[s] = "dropping"
  /\ ring' = [ring EXCEPT !.maps = @ \ {s}]
  /\ sampler' = [sampler EXCEPT ![s] = "unused"]
  /\ returned' = NoReturn
  /\ UNCHANGED <<owners, call, tracer, aux, aux_size>>

DropCounter ==
  /\ TheCounter \in owners /\ call.pc = "idle"
  /\ owners' = owners \ {TheCounter}
  /\ returned' = NoReturn
  /\ UNCHANGED <<call, sampler, tracer, ring, aux, aux_size>>

-----------------------------------------------------------------------------
(* Sampler::aux_tracer and AuxTracer::new.                                  *)

\* Mutant of AuxTracer: the page is written for the first tracer only.
AuxTracerOnce(s, t, e) ==
  /\ sampler[s] = "live" /\ tracer[t].state = "unused"
  /\ \A u \in Tracers : ~(tracer[u].state = "mmap" /\ tracer[u].of = s)
  /\ e \notin TooBig
  /\ aux_size' = IF aux_size = {} THEN {e} ELSE aux_size
  /\ tracer' = [tracer EXCEPT ![t] = [state |-> "mmap", of |-> s, exp |-> e]]
  /\ returned' = NoReturn
  /\ UNCHANGED <<owners, call, sampler, ring, aux>>

\* The length goes to the shared page before the area is mapped.
AuxTracer(s, t, e) ==
  /\ sampler[s] = "live" /\ tracer[t].state = "unused"
  /\ \A u \in Tracers : ~(tracer[u].state = "mmap" /\ tracer[u].of = s)
  /\ \/ /\ e \in TooBig
        /\ Returns("AuxOverflow", e)
        /\ UNCHANGED <<aux_size, tracer>>
     \/ /\ e \notin TooBig
        /\ aux_size' = {e}
        /\ tracer' = [tracer EXCEPT ![t] = [state |-> "mmap", of |-> s, exp |-> e]]
        /\ returned' = NoReturn
  /\ UNCHANGED <<owners, call, sampler, ring, aux>>

\* The kernel refuses a length that is not the one on the page, and one that is
\* not that of the AUX area which it has already (external).
WrongAux(e) == aux_size # {e} \/ (aux.maps # {} /\ aux.exp # e)

MapAux(t) ==
  /\ tracer[t].state = "mmap" /\ ~WrongAux(tracer[t].exp)
  /\ aux' = [maps |-> aux.maps \cup {t}, exp |-> tracer[t].exp]
  /\ ring' = [ring EXCEPT !.maps = @ \cup {t}]
  /\ tracer' = [tracer EXCEPT ![t].state = "live"]
  /\ Returns("AuxOk", tracer[t].exp)
  /\ UNCHANGED <<owners, call, sampler, aux_size>>

\* Nothing is undone on the page.
MapAuxFails(t) ==
  /\ tracer[t].state = "mmap"
  /\ tracer' = [tracer EXCEPT ![t].state = "unused"]
  /\ Returns(IF WrongAux(tracer[t].exp) THEN "AuxEINVAL" ELSE "AuxENOMEM", tracer[t].exp)
  /\ UNCHANGED <<owners, call, sampler, ring, aux, aux_size>>

\* The tracer's Arena unmaps the AUX area.
DropTracer(t) ==
  /\ tracer[t].state = "live"
  /\ aux' = [aux EXCEPT !.maps = @ \ {t}]
  /\ ring' = [ring EXCEPT !.maps = @ \ {t}]
  /\ tracer' = [tracer EXCEPT ![t].state = "unused"]
  /\ returned' = NoReturn
  /\ UNCHANGED <<owners, call, sampler, aux_size>>

-----------------------------------------------------------------------------
\* Counter::new has opened the event; nothing is mapped.
LifeInit ==
  /\ owners = {TheCounter}
  /\ \E s \in Samplers, e \in Exps :
       /\ call = [pc |-> "idle", by |-> s, exp |-> e]
       /\ tracer = [t \in Tracers |-> [state |-> "unused", of |-> s, exp |-> e]]
       /\ ring = [maps |-> {}, exp |-> e]
       /\ aux = [maps |-> {}, exp |-> e]
  /\ sampler = [s \in Samplers |-> "unused"]
  /\ aux_size = {}
  /\ returned = NoReturn

LifeNext ==
  \/ \E s \in Samplers :
       \/ \E e \in Exps : Sampler(s, e) \/ \E t \in Tracers : AuxTracer(s, t, e)
       \/ DropPerf(s) \/ DropArena(s)
  \/ \E t \in Tracers : MapAux(t) \/ MapAuxFails(t) \/ DropTracer(t)
  \/ MapRing \/ MapRingFails \/ DropCounter

LifeSpec == LifeInit /\ [][LifeNext]_lifeVars

-----------------------------------------------------------------------------
Mapping == [maps : SUBSET (Samplers \cup Tracers), exp : Exps]

TypeOK ==
  /\ owners \subseteq {TheCounter} \cup Samplers
  /\ call \in [pc : {"idle", "mmap"}, by : Samplers, exp : Exps]
  /\ sampler \in [Samplers -> {"unused", "live", "dropping"}]
  /\ tracer \in [Tracers -> [state : {"unused", "mmap", "live"}, of : Samplers, exp : Exps]]
  /\ ring \in Mapping /\ aux \in Mapping
  /\ aux_size \subseteq Exps
  /\ returned.kind \in {"none", "AlreadyExists", "Overflow", "Ok", "EINVAL", "ENOMEM",
                      "AuxOverflow", "AuxOk", "AuxEINVAL", "AuxENOMEM"}

\* Sampler is Send because no two of them are ever usable at once: their chunks
\* would race for the tail.
OneLiveSampler ==
  \A s, u \in Samplers : sampler[s] = "live" /\ sampler[u] = "live" => s = u

\* sampler says AlreadyExists only while there is one: neither a call that failed
\* nor a sampler that was dropped stands in the way of the next.
RefusedOnlyWhenActive ==
  returned.kind = "AlreadyExists" => \E s \in Samplers : sampler[s] = "live"

\* A length is refused only for the tracers that have another one: the length that
\* a call left on the page when it failed does not make a later one fail.
AuxRefusedOnlyForTracers ==
  returned.kind = "AuxEINVAL" =>
    \E t \in Tracers : tracer[t].state = "live" /\ tracer[t].exp # returned.exp

\* `1 + 2^exp pages will be allocated for this': a new sampler gets a ring of its own,
\* with no records of a sampler before it.
NewSamplerNewPages == [][MapRing => ring.maps = {}]_lifeVars

-----------------------------------------------------------------------------
(* The inductive invariant behind the first two invariants.                 *)

\* The sampler that sampler is about to make.
Making(s) == call.pc = "mmap" /\ call.by = s

OwnersExact ==
  /\ \A s \in Samplers : s \in owners <=> sampler[s] = "live" \/ Making(s)
  /\ \A s, u \in Samplers : s \in owners /\ u \in owners => s = u
  /\ call.pc = "mmap" => TheCounter \in owners /\ sampler[call.by] = "unused"

IInv == TypeOK /\ OwnersExact /\ RefusedOnlyWhenActive

-----------------------------------------------------------------------------
(* The one behind AuxRefusedOnlyForTracers.                                 *)

\* The kernel's mappings are those of what is in use, and of samplers on their way out.
MappedAsUsed ==
  /\ ring.maps = {s \in Samplers : sampler[s] # "unused"}
                   \cup {t \in Tracers : tracer[t].state = "live"}
  /\ aux.maps = {t \in Tracers : tracer[t].state = "live"}
  /\ \A t \in Tracers : tracer[t].state = "live" => tracer[t].exp = aux.exp

\* The lifetime of a tracer: its sampler is not dropped before it.
TracersBorrow == \A t \in Tracers : tracer[t].state # "unused" => sampler[tracer[t].of] = "live"

\* The length on the page is that of the tracer about to be mapped.
PageAgrees == \A t \in Tracers : tracer[t].state = "mmap" => aux_size = {tracer[t].exp}

MapsInv == MappedAsUsed /\ TracersBorrow /\ PageAgrees /\ AuxRefusedOnlyForTracers
=============================================================================
