------------------------------ MODULE Counter_proofs ------------------------------
(* Proofs about the calls of a Counter: Lifecycle, for any number of samplers,   *)
(* tracers and lengths; SwitchTo, for any events, and any breakpoints that can   *)
(* be placed; BpfQuery, for any programs and any width of a length; Attr, for    *)
(* any requests and any levels.                                                  *)
EXTENDS Lifecycle, BpfQuery, SwitchTo, Attr, NatLemmas, SequenceTheorems, FiniteSetTheorems, TLAPS

-----------------------------------------------------------------------------
(* Lifecycle.                                                               *)

\* A strong count of one leaves the counter as the only owner.
LEMMA CounterAlone ==
  ASSUME TypeOK, TheCounter \in owners, StrongCount = 1
  PROVE  owners = {TheCounter}
<1>1. IsFiniteSet(Samplers \cup {TheCounter}) BY IdAssumption, FS_AddElement
<1>2. owners \subseteq Samplers \cup {TheCounter} BY DEF TypeOK
<1>3. IsFiniteSet(owners) BY <1>1, <1>2, FS_Subset
<1>4. \E x : owners = {x} BY <1>3, FS_Singleton DEF StrongCount
<1> QED BY <1>4

\* Another owner makes it more than one.
LEMMA CounterNotAlone ==
  ASSUME TypeOK, TheCounter \in owners, StrongCount # 1
  PROVE  \E s \in Samplers : s \in owners
<1>1. owners # {TheCounter} BY FS_Singleton DEF StrongCount
<1> QED BY <1>1 DEF TypeOK

LEMMA InvInit == LifeInit => IInv
<1> SUFFICES ASSUME LifeInit PROVE IInv OBVIOUS
<1>1. PICK s \in Samplers, e \in Exps :
        /\ call = [pc |-> "idle", by |-> s, exp |-> e]
        /\ tracer = [t \in Tracers |-> [state |-> "unused", of |-> s, exp |-> e]]
        /\ ring = [maps |-> {}, exp |-> e]
        /\ aux = [maps |-> {}, exp |-> e]
  BY DEF LifeInit
<1>2. returned.kind = "none" BY DEF LifeInit, NoReturn
<1>3. TypeOK
  <2>1. tracer \in [Tracers -> [state : {"unused", "mmap", "live"}, of : Samplers, exp : Exps]]
    BY <1>1
  <2>2. ring \in Mapping /\ aux \in Mapping BY <1>1 DEF Mapping
  <2>3. call \in [pc : {"idle", "mmap"}, by : Samplers, exp : Exps] BY <1>1
  <2> QED BY <1>2, <2>1, <2>2, <2>3 DEF LifeInit, TypeOK
<1>4. OwnersExact BY <1>1, IdAssumption DEF LifeInit, OwnersExact, Making
<1>5. RefusedOnlyWhenActive BY <1>2 DEF RefusedOnlyWhenActive
<1> QED BY <1>3, <1>4, <1>5 DEF IInv

-----------------------------------------------------------------------------
(* Counter::sampler, step by step.                                          *)

LEMMA SamplerStep ==
  ASSUME IInv, NEW s \in Samplers, NEW e \in Exps, Sampler(s, e) PROVE IInv'
<1>1. /\ TheCounter \in owners /\ call.pc = "idle" /\ sampler[s] = "unused"
      /\ sampler' = sampler /\ tracer' = tracer /\ ring' = ring /\ aux' = aux
      /\ aux_size' = aux_size /\ TypeOK /\ OwnersExact
  BY DEF Sampler, IInv
<1>2. CASE StrongCount # 1 /\ Returns("AlreadyExists", e) /\ UNCHANGED <<owners, call>>
  <2>1. returned'.kind = "AlreadyExists" BY <1>2 DEF Returns
  <2>2. TypeOK' BY <1>1, <1>2, <2>1 DEF TypeOK
  <2>3. OwnersExact' BY <1>1, <1>2 DEF OwnersExact, Making
  <2>4. PICK u \in Samplers : u \in owners BY <1>1, <1>2, CounterNotAlone
  <2>5. sampler[u] = "live" BY <1>1, <2>4 DEF OwnersExact, Making
  <2>6. RefusedOnlyWhenActive' BY <1>1, <2>5 DEF RefusedOnlyWhenActive
  <2> QED BY <2>2, <2>3, <2>6 DEF IInv
<1>3. CASE Returns("Overflow", e) /\ UNCHANGED <<owners, call>>
  <2>1. returned'.kind = "Overflow" BY <1>3 DEF Returns
  <2>2. TypeOK' BY <1>1, <1>3, <2>1 DEF TypeOK
  <2>3. OwnersExact' BY <1>1, <1>3 DEF OwnersExact, Making
  <2>4. RefusedOnlyWhenActive' BY <2>1 DEF RefusedOnlyWhenActive
  <2> QED BY <2>2, <2>3, <2>4 DEF IInv
<1>4. CASE /\ StrongCount = 1
           /\ owners' = owners \cup {s}
           /\ call' = [pc |-> "mmap", by |-> s, exp |-> e]
           /\ returned' = NoReturn
  <2>1. returned'.kind = "none" BY <1>4 DEF NoReturn
  <2>2. owners = {TheCounter} BY <1>1, <1>4, CounterAlone
  <2>3. call' \in [pc : {"idle", "mmap"}, by : Samplers, exp : Exps] BY <1>4
  <2>4. TypeOK' BY <1>1, <1>4, <2>1, <2>3 DEF TypeOK
  <2>5. call'.pc = "mmap" /\ call'.by = s BY <1>4
  <2>6. \A u \in Samplers : u \in owners' <=> u = s
    BY <1>4, <2>2, IdAssumption
  <2>7. \A u \in Samplers : sampler[u] # "live"
    BY <1>1, <2>2, IdAssumption DEF OwnersExact
  <2>8. OwnersExact' BY <1>1, <1>4, <2>5, <2>6, <2>7 DEF OwnersExact, Making
  <2>9. RefusedOnlyWhenActive' BY <2>1 DEF RefusedOnlyWhenActive
  <2> QED BY <2>4, <2>8, <2>9 DEF IInv
<1> QED BY <1>2, <1>3, <1>4 DEF Sampler

LEMMA MapRingStep == ASSUME IInv, MapRing PROVE IInv'
<1> DEFINE s == call.by
<1>1. /\ s \in Samplers /\ call.exp \in Exps /\ call.pc = "mmap" /\ TypeOK /\ OwnersExact
      /\ call \in [pc : {"idle", "mmap"}, by : Samplers, exp : Exps]
      /\ sampler \in [Samplers -> {"unused", "live", "dropping"}]
      /\ ring \in Mapping
  BY DEF MapRing, IInv, TypeOK
<1>2. /\ owners' = owners /\ tracer' = tracer /\ aux' = aux
      /\ sampler' = [sampler EXCEPT ![s] = "live"]
      /\ call' = [call EXCEPT !.pc = "idle"]
      /\ ring' = [maps |-> ring.maps \cup {s}, exp |-> call.exp]
      /\ aux_size' \subseteq Exps
  BY <1>1 DEF MapRing, TypeOK
<1>3. returned'.kind = "Ok" BY DEF MapRing, Returns
<1>4. TypeOK'
  <2>1. ring' \in Mapping BY <1>1, <1>2 DEF Mapping
  <2>2. sampler' \in [Samplers -> {"unused", "live", "dropping"}] BY <1>1, <1>2
  <2>3. call' \in [pc : {"idle", "mmap"}, by : Samplers, exp : Exps] BY <1>1, <1>2
  <2> QED BY <1>1, <1>2, <1>3, <2>1, <2>2, <2>3 DEF TypeOK
<1>5. OwnersExact'
  <2>1. call'.pc = "idle" BY <1>1, <1>2
  <2>2. \A u \in Samplers : sampler'[u] = IF u = s THEN "live" ELSE sampler[u]
    BY <1>1, <1>2
  <2>3. \A u \in Samplers : u \in owners <=> sampler[u] = "live" \/ u = s
    BY <1>1 DEF OwnersExact, Making
  <2> HIDE DEF s
  <2> QED BY <1>1, <1>2, <2>1, <2>2, <2>3 DEF OwnersExact, Making
<1>6. RefusedOnlyWhenActive' BY <1>3 DEF RefusedOnlyWhenActive
<1> QED BY <1>4, <1>5, <1>6 DEF IInv

LEMMA MapRingFailsStep == ASSUME IInv, MapRingFails PROVE IInv'
<1>1. /\ call.by \in Samplers /\ call.pc = "mmap" /\ TypeOK /\ OwnersExact
      /\ call \in [pc : {"idle", "mmap"}, by : Samplers, exp : Exps]
      /\ sampler' = sampler /\ tracer' = tracer /\ ring' = ring /\ aux' = aux
      /\ aux_size' = aux_size /\ owners' = owners \ {call.by}
      /\ call' = [call EXCEPT !.pc = "idle"]
  BY DEF MapRingFails, IInv, TypeOK
<1>2. returned'.kind \in {"EINVAL", "ENOMEM"} BY DEF MapRingFails, Returns
<1>3. call'.pc = "idle" /\ call' \in [pc : {"idle", "mmap"}, by : Samplers, exp : Exps]
  BY <1>1
<1>4. TypeOK' BY <1>1, <1>2, <1>3 DEF TypeOK
<1>5. OwnersExact' BY <1>1, <1>3 DEF OwnersExact, Making
<1>6. RefusedOnlyWhenActive' BY <1>2 DEF RefusedOnlyWhenActive
<1> QED BY <1>4, <1>5, <1>6 DEF IInv

-----------------------------------------------------------------------------
(* The drops, and the AUX area, which no Arc depends on.                    *)

LEMMA DropStep ==
  ASSUME IInv, DropCounter \/ \E s \in Samplers : DropPerf(s) \/ DropArena(s) PROVE IInv'
<1>1. TypeOK /\ OwnersExact /\ sampler \in [Samplers -> {"unused", "live", "dropping"}]
  BY DEF IInv, TypeOK
<1>2. returned'.kind = "none" BY DEF DropCounter, DropPerf, DropArena, NoReturn
<1>3. RefusedOnlyWhenActive' BY <1>2 DEF RefusedOnlyWhenActive
<1>4. CASE DropCounter
  <2>1. TypeOK' BY <1>1, <1>2, <1>4 DEF DropCounter, TypeOK
  <2>2. OwnersExact' BY <1>1, <1>4, IdAssumption DEF DropCounter, OwnersExact, Making
  <2> QED BY <1>3, <2>1, <2>2 DEF IInv
<1>5. ASSUME NEW s \in Samplers, DropPerf(s) PROVE IInv'
  <2>1. sampler' \in [Samplers -> {"unused", "live", "dropping"}]
    BY <1>1, <1>5 DEF DropPerf
  <2>2. TypeOK' BY <1>1, <1>2, <1>5, <2>1 DEF DropPerf, TypeOK
  <2>3. \A u \in Samplers : sampler'[u] = IF u = s THEN "dropping" ELSE sampler[u]
    BY <1>1, <1>5 DEF DropPerf
  <2>4. ~Making(s) BY <1>1, <1>5 DEF DropPerf, OwnersExact, Making
  <2>5. OwnersExact'
    BY <1>1, <1>5, <2>3, <2>4, IdAssumption DEF DropPerf, OwnersExact, Making, TypeOK
  <2> QED BY <1>3, <2>2, <2>5 DEF IInv
<1>6. ASSUME NEW s \in Samplers, DropArena(s) PROVE IInv'
  <2>1. sampler' \in [Samplers -> {"unused", "live", "dropping"}] /\ ring' \in Mapping
    BY <1>1, <1>6 DEF DropArena, TypeOK, Mapping
  <2>2. TypeOK' BY <1>1, <1>2, <1>6, <2>1 DEF DropArena, TypeOK
  <2>3. \A u \in Samplers : sampler'[u] = IF u = s THEN "unused" ELSE sampler[u]
    BY <1>1, <1>6 DEF DropArena
  <2>4. ~Making(s) BY <1>1, <1>6 DEF DropArena, OwnersExact, Making
  <2>5. OwnersExact'
    BY <1>1, <1>6, <2>3, <2>4 DEF DropArena, OwnersExact, Making, TypeOK
  <2> QED BY <1>3, <2>2, <2>5 DEF IInv
<1> QED BY <1>4, <1>5, <1>6

LEMMA AuxStep ==
  ASSUME IInv,
         \/ \E s \in Samplers, e \in Exps, t \in Tracers : AuxTracer(s, t, e)
         \/ \E t \in Tracers : MapAux(t) \/ MapAuxFails(t) \/ DropTracer(t)
  PROVE  IInv'
<1> DEFINE Tracer == [state : {"unused", "mmap", "live"}, of : Samplers, exp : Exps]
<1>1. /\ TypeOK /\ OwnersExact /\ tracer \in [Tracers -> Tracer]
      /\ owners' = owners /\ call' = call /\ sampler' = sampler
  BY DEF IInv, TypeOK, AuxTracer, MapAux, MapAuxFails, DropTracer
<1>2. returned'.kind \in {"none", "AuxOverflow", "AuxOk", "AuxEINVAL", "AuxENOMEM"}
  BY DEF AuxTracer, MapAux, MapAuxFails, DropTracer, NoReturn, Returns
<1>3. tracer' \in [Tracers -> Tracer] /\ ring' \in Mapping /\ aux' \in Mapping
      /\ aux_size' \subseteq Exps
  <2>1. ASSUME NEW s \in Samplers, NEW e \in Exps, NEW t \in Tracers, AuxTracer(s, t, e)
        PROVE  <1>3!:
    BY <1>1, <2>1 DEF AuxTracer, TypeOK
  <2>2. ASSUME NEW t \in Tracers, MapAux(t) PROVE <1>3!:
    <3>1. tracer[t] \in Tracer BY <1>1
    <3>2. tracer' \in [Tracers -> Tracer] BY <1>1, <2>2 DEF MapAux
    <3>3. ring' \in Mapping /\ aux' \in Mapping
      BY <1>1, <2>2, <3>1 DEF MapAux, TypeOK, Mapping
    <3> QED BY <1>1, <2>2, <3>2, <3>3 DEF MapAux, TypeOK
  <2>3. ASSUME NEW t \in Tracers, MapAuxFails(t) PROVE <1>3!:
    BY <1>1, <2>3 DEF MapAuxFails, TypeOK
  <2>4. ASSUME NEW t \in Tracers, DropTracer(t) PROVE <1>3!:
    BY <1>1, <2>4 DEF DropTracer, TypeOK, Mapping
  <2> QED BY <2>1, <2>2, <2>3, <2>4
<1>4. TypeOK' BY <1>1, <1>2, <1>3 DEF TypeOK
<1>5. OwnersExact' BY <1>1 DEF OwnersExact, Making
<1>6. RefusedOnlyWhenActive' BY <1>2 DEF RefusedOnlyWhenActive
<1> QED BY <1>4, <1>5, <1>6 DEF IInv

LEMMA InvStep == IInv /\ [LifeNext]_lifeVars => IInv'
<1> SUFFICES ASSUME IInv, [LifeNext]_lifeVars PROVE IInv' OBVIOUS
<1>1. CASE \E s \in Samplers, e \in Exps : Sampler(s, e) BY <1>1, SamplerStep
<1>2. CASE MapRing BY <1>2, MapRingStep
<1>3. CASE MapRingFails BY <1>3, MapRingFailsStep
<1>4. CASE DropCounter \/ \E s \in Samplers : DropPerf(s) \/ DropArena(s)
  BY <1>4, DropStep
<1>5. CASE \/ \E s \in Samplers, e \in Exps, t \in Tracers : AuxTracer(s, t, e)
           \/ \E t \in Tracers : MapAux(t) \/ MapAuxFails(t) \/ DropTracer(t)
  BY <1>5, AuxStep
<1>6. CASE UNCHANGED lifeVars
  BY <1>6 DEF lifeVars, IInv, TypeOK, OwnersExact, Making, RefusedOnlyWhenActive
<1> QED BY <1>1, <1>2, <1>3, <1>4, <1>5, <1>6 DEF LifeNext

\* The invariant that the theorems below rest on holds in every state.
THEOREM InvAlways == LifeSpec => []IInv
  BY InvInit, InvStep, PTL DEF LifeSpec

\* No two samplers of a counter are usable at once, in whatever threads they and
\* the counter are, and however the drop of one meets the creation of another.
THEOREM OneSamplerAtATime == LifeSpec => []OneLiveSampler
<1>1. IInv => OneLiveSampler BY DEF IInv, OwnersExact, OneLiveSampler
<1> QED BY <1>1, InvAlways, PTL

\* AlreadyExists is returned only while a sampler is usable.
THEOREM RefusalIsJustified == LifeSpec => []RefusedOnlyWhenActive
<1>1. IInv => RefusedOnlyWhenActive BY DEF IInv
<1> QED BY <1>1, InvAlways, PTL
-----------------------------------------------------------------------------
(* What is mapped, and the length on the page.                              *)

LEMMA MapsInit == LifeInit => MapsInv
<1> SUFFICES ASSUME LifeInit PROVE MapsInv OBVIOUS
<1>1. /\ \A t \in Tracers : tracer[t].state = "unused"
      /\ ring.maps = {} /\ aux.maps = {} /\ returned.kind = "none"
      /\ \A s \in Samplers : sampler[s] = "unused"
  BY DEF LifeInit, NoReturn
<1>2. MappedAsUsed BY <1>1 DEF MappedAsUsed
<1>3. TracersBorrow /\ PageAgrees /\ AuxRefusedOnlyForTracers
  BY <1>1 DEF TracersBorrow, PageAgrees, AuxRefusedOnlyForTracers
<1> QED BY <1>2, <1>3 DEF MapsInv

\* Steps of a sampler leave the tracers alone, and the page while there is one.
LEMMA MapsSampler ==
  ASSUME IInv, MapsInv,
         \/ \E s \in Samplers, e \in Exps : Sampler(s, e)
         \/ MapRing \/ MapRingFails \/ DropCounter
         \/ \E s \in Samplers : DropPerf(s) \/ DropArena(s)
  PROVE  MapsInv'
<1>1. /\ TypeOK /\ OwnersExact /\ MappedAsUsed /\ TracersBorrow /\ PageAgrees
      /\ sampler \in [Samplers -> {"unused", "live", "dropping"}] /\ ring \in Mapping
      /\ \A t \in Tracers : tracer[t].of \in Samplers
      /\ tracer' = tracer /\ aux' = aux
  BY DEF IInv, MapsInv, TypeOK, Sampler, MapRing, MapRingFails, DropCounter, DropPerf, DropArena
<1>2. returned'.kind # "AuxEINVAL"
  BY DEF Sampler, MapRing, MapRingFails, DropCounter, DropPerf, DropArena, Returns, NoReturn
<1>3. AuxRefusedOnlyForTracers' BY <1>2 DEF AuxRefusedOnlyForTracers
<1>4. ASSUME sampler' = sampler, ring' = ring, aux_size' = aux_size PROVE MapsInv'
  BY <1>1, <1>3, <1>4 DEF MapsInv, MappedAsUsed, TracersBorrow, PageAgrees
<1>5. CASE MapRing
  <2> DEFINE s == call.by
  <2>1. /\ s \in Samplers /\ sampler' = [sampler EXCEPT ![s] = "live"]
        /\ ring'.maps = ring.maps \cup {s}
        /\ aux_size' = IF ring.maps = {} THEN {} ELSE aux_size
    BY <1>1, <1>5 DEF MapRing, TypeOK
  <2>2. \A u \in Samplers : sampler'[u] = IF u = s THEN "live" ELSE sampler[u]
    BY <1>1, <2>1
  <2> HIDE DEF s
  <2>3. MappedAsUsed' BY <1>1, <2>1, <2>2 DEF MappedAsUsed
  <2>4. TracersBorrow' BY <1>1, <2>2 DEF TracersBorrow
  <2>5. ASSUME NEW t \in Tracers, tracer[t].state = "mmap" PROVE aux_size' = {tracer[t].exp}
    <3>1. sampler[tracer[t].of] = "live" BY <1>1, <2>5 DEF TracersBorrow
    <3>2. ring.maps # {} BY <1>1, <3>1 DEF MappedAsUsed
    <3> QED BY <1>1, <2>1, <2>5, <3>2 DEF PageAgrees
  <2>6. PageAgrees' BY <1>1, <2>5 DEF PageAgrees
  <2> QED BY <1>3, <2>3, <2>4, <2>6 DEF MapsInv
<1>6. ASSUME NEW s \in Samplers, DropPerf(s) PROVE MapsInv'
  <2>1. \A u \in Samplers : sampler'[u] = IF u = s THEN "dropping" ELSE sampler[u]
    BY <1>1, <1>6 DEF DropPerf
  <2>2. /\ sampler[s] = "live" /\ ~Busy(s)
        /\ ring' = ring /\ aux_size' = aux_size
    BY <1>6 DEF DropPerf
  <2>3. MappedAsUsed' BY <1>1, <2>1, <2>2 DEF MappedAsUsed
  <2>4. TracersBorrow' BY <1>1, <2>1, <2>2 DEF TracersBorrow, Busy
  <2>5. PageAgrees' BY <1>1, <2>2 DEF PageAgrees
  <2> QED BY <1>3, <2>3, <2>4, <2>5 DEF MapsInv
<1>7. ASSUME NEW s \in Samplers, DropArena(s) PROVE MapsInv'
  <2>1. \A u \in Samplers : sampler'[u] = IF u = s THEN "unused" ELSE sampler[u]
    BY <1>1, <1>7 DEF DropArena
  <2>2. sampler[s] = "dropping" /\ ring'.maps = ring.maps \ {s} /\ aux_size' = aux_size
    BY <1>1, <1>7 DEF DropArena, Mapping
  <2>3. MappedAsUsed' BY <1>1, <2>1, <2>2, IdAssumption DEF MappedAsUsed
  <2>4. TracersBorrow' BY <1>1, <2>1, <2>2 DEF TracersBorrow
  <2>5. PageAgrees' BY <1>1, <2>2 DEF PageAgrees
  <2> QED BY <1>3, <2>3, <2>4, <2>5 DEF MapsInv
<1>8. CASE (\E s \in Samplers, e \in Exps : Sampler(s, e)) \/ MapRingFails
  BY <1>4, <1>8 DEF Sampler, MapRingFails
<1>9. CASE DropCounter BY <1>4, <1>9 DEF DropCounter
<1> QED BY <1>5, <1>6, <1>7, <1>8, <1>9

\* The tracers that are to be mapped are those of the one live sampler.
LEMMA MapsTracer ==
  ASSUME IInv, MapsInv, NEW t \in Tracers,
         \/ \E s \in Samplers, e \in Exps : AuxTracer(s, t, e)
         \/ MapAux(t) \/ MapAuxFails(t) \/ DropTracer(t)
  PROVE  MapsInv'
<1> DEFINE Tracer == [state : {"unused", "mmap", "live"}, of : Samplers, exp : Exps]
<1>1. /\ TypeOK /\ OwnersExact /\ MappedAsUsed /\ TracersBorrow /\ PageAgrees
      /\ tracer \in [Tracers -> Tracer] /\ ring \in Mapping /\ aux \in Mapping
      /\ sampler' = sampler
  BY DEF IInv, MapsInv, TypeOK, AuxTracer, MapAux, MapAuxFails, DropTracer
<1>2. t \notin Samplers BY IdAssumption
<1>3. ASSUME NEW s \in Samplers, NEW e \in Exps, AuxTracer(s, t, e) PROVE MapsInv'
  <2>1. sampler[s] = "live" /\ tracer[t].state = "unused" /\ ring' = ring /\ aux' = aux
    BY <1>3 DEF AuxTracer
  <2>2. returned'.kind # "AuxEINVAL" BY <1>3 DEF AuxTracer, Returns, NoReturn
  <2>3. AuxRefusedOnlyForTracers' BY <2>2 DEF AuxRefusedOnlyForTracers
  <2>4. CASE UNCHANGED <<aux_size, tracer>>
    BY <1>1, <2>1, <2>3, <2>4 DEF MapsInv, MappedAsUsed, TracersBorrow, PageAgrees
  <2>5. CASE aux_size' = {e} /\ tracer' = [tracer EXCEPT ![t] = [state |-> "mmap", of |-> s, exp |-> e]]
    <3>1. /\ tracer'[t].state = "mmap" /\ tracer'[t].of = s /\ tracer'[t].exp = e
          /\ \A u \in Tracers \ {t} : tracer'[u] = tracer[u]
      BY <1>1, <2>5
    <3>2. ASSUME NEW u \in Tracers PROVE tracer[u].state # "mmap"
      <4>1. tracer[u].state = "mmap" => tracer[u].of # s BY <1>3 DEF AuxTracer
      <4>2. tracer[u].of \in Samplers BY <1>1
      <4>3. \A v \in Samplers : sampler[v] = "live" => v = s
        BY <1>1, <2>1 DEF OwnersExact
      <4> QED BY <1>1, <4>1, <4>2, <4>3 DEF TracersBorrow
    <3>3. MappedAsUsed' BY <1>1, <2>1, <3>1 DEF MappedAsUsed
    <3>4. TracersBorrow' BY <1>1, <2>1, <3>1 DEF TracersBorrow
    <3>5. PageAgrees' BY <2>5, <3>1, <3>2 DEF PageAgrees
    <3> QED BY <2>3, <3>3, <3>4, <3>5 DEF MapsInv
  <2> QED BY <1>3, <2>4, <2>5 DEF AuxTracer
<1>4. CASE MapAux(t)
  <2>1. /\ tracer[t].state = "mmap" /\ aux_size' = aux_size
        /\ aux.maps # {} => aux.exp = tracer[t].exp
        /\ aux'.maps = aux.maps \cup {t} /\ aux'.exp = tracer[t].exp
        /\ tracer' = [tracer EXCEPT ![t].state = "live"]
    BY <1>4 DEF MapAux, WrongAux
  <2>2. ring'.maps = ring.maps \cup {t} BY <1>1, <1>4 DEF MapAux, Mapping
  <2>3. /\ tracer'[t].state = "live" /\ tracer'[t].of = tracer[t].of /\ tracer'[t].exp = tracer[t].exp
        /\ \A u \in Tracers \ {t} : tracer'[u] = tracer[u]
    BY <1>1, <2>1
  <2>4. returned'.kind # "AuxEINVAL" BY <1>4 DEF MapAux, Returns
  <2>5. MappedAsUsed' BY <1>1, <1>2, <2>1, <2>2, <2>3 DEF MappedAsUsed
  <2>6. TracersBorrow' BY <1>1, <2>1, <2>3 DEF TracersBorrow
  <2>7. PageAgrees' BY <1>1, <2>1, <2>3 DEF PageAgrees
  <2>8. AuxRefusedOnlyForTracers' BY <2>4 DEF AuxRefusedOnlyForTracers
  <2> QED BY <2>5, <2>6, <2>7, <2>8 DEF MapsInv
<1>5. CASE MapAuxFails(t)
  <2>1. /\ tracer[t].state = "mmap" /\ ring' = ring /\ aux' = aux /\ aux_size' = aux_size
        /\ tracer' = [tracer EXCEPT ![t].state = "unused"]
    BY <1>5 DEF MapAuxFails
  <2>2. /\ tracer'[t].state = "unused"
        /\ \A u \in Tracers \ {t} : tracer'[u] = tracer[u]
    BY <1>1, <2>1
  <2>3. MappedAsUsed' BY <1>1, <2>1, <2>2 DEF MappedAsUsed
  <2>4. TracersBorrow' BY <1>1, <2>2 DEF TracersBorrow
  <2>5. PageAgrees' BY <1>1, <2>1, <2>2 DEF PageAgrees
  <2>6. AuxRefusedOnlyForTracers'
    <3>1. SUFFICES ASSUME returned'.kind = "AuxEINVAL"
                   PROVE  \E u \in Tracers : tracer'[u].state = "live" /\ tracer'[u].exp # returned'.exp
      BY DEF AuxRefusedOnlyForTracers
    <3>2. WrongAux(tracer[t].exp) /\ returned'.exp = tracer[t].exp
      BY <1>5, <3>1 DEF MapAuxFails, Returns
    <3>3. aux_size = {tracer[t].exp} BY <1>1, <2>1 DEF PageAgrees
    <3>4. aux.maps # {} /\ aux.exp # tracer[t].exp BY <3>2, <3>3 DEF WrongAux
    <3>5. PICK u \in Tracers : tracer[u].state = "live" BY <1>1, <3>4 DEF MappedAsUsed
    <3>6. u # t BY <2>1, <3>5
    <3> QED BY <1>1, <2>2, <3>2, <3>4, <3>5, <3>6 DEF MappedAsUsed
  <2> QED BY <2>3, <2>4, <2>5, <2>6 DEF MapsInv
<1>6. CASE DropTracer(t)
  <2>1. /\ tracer[t].state = "live" /\ aux_size' = aux_size
        /\ tracer' = [tracer EXCEPT ![t].state = "unused"]
    BY <1>6 DEF DropTracer
  <2>2. /\ ring'.maps = ring.maps \ {t}
        /\ aux'.maps = aux.maps \ {t} /\ aux'.exp = aux.exp
    BY <1>1, <1>6 DEF DropTracer, Mapping
  <2>3. /\ tracer'[t].state = "unused"
        /\ \A u \in Tracers \ {t} : tracer'[u] = tracer[u]
    BY <1>1, <2>1
  <2>4. returned'.kind # "AuxEINVAL" BY <1>6 DEF DropTracer, NoReturn
  <2>5. MappedAsUsed' BY <1>1, <1>2, <2>2, <2>3 DEF MappedAsUsed
  <2>6. TracersBorrow' BY <1>1, <2>3 DEF TracersBorrow
  <2>7. PageAgrees' BY <1>1, <2>1, <2>3 DEF PageAgrees
  <2>8. AuxRefusedOnlyForTracers' BY <2>4 DEF AuxRefusedOnlyForTracers
  <2> QED BY <2>5, <2>6, <2>7, <2>8 DEF MapsInv
<1> QED BY <1>3, <1>4, <1>5, <1>6

LEMMA MapsStep == IInv /\ MapsInv /\ [LifeNext]_lifeVars => MapsInv'
<1> SUFFICES ASSUME IInv, MapsInv, [LifeNext]_lifeVars PROVE MapsInv' OBVIOUS
<1>1. CASE \/ \E s \in Samplers, e \in Exps : Sampler(s, e)
           \/ MapRing \/ MapRingFails \/ DropCounter
           \/ \E s \in Samplers : DropPerf(s) \/ DropArena(s)
  BY <1>1, MapsSampler
<1>2. CASE \E t \in Tracers :
             \/ \E s \in Samplers, e \in Exps : AuxTracer(s, t, e)
             \/ MapAux(t) \/ MapAuxFails(t) \/ DropTracer(t)
  BY <1>2, MapsTracer
<1>3. CASE UNCHANGED lifeVars
  BY <1>3 DEF lifeVars, MapsInv, MappedAsUsed, TracersBorrow, PageAgrees, AuxRefusedOnlyForTracers
<1> QED BY <1>1, <1>2, <1>3 DEF LifeNext

THEOREM MapsAlways == LifeSpec => []MapsInv
  BY InvAlways, MapsInit, MapsStep, PTL DEF LifeSpec

\* The length which a failed aux_tracer leaves on the page is in nobody's way.
THEOREM AuxRefusalIsJustified == LifeSpec => []AuxRefusedOnlyForTracers
<1>1. MapsInv => AuxRefusedOnlyForTracers BY DEF MapsInv
<1> QED BY <1>1, MapsAlways, PTL

-----------------------------------------------------------------------------
(* SwitchTo.                                                                *)

Attrs == [event : Events, disabled : BOOLEAN]

\* What is compared by the two properties has its type.
SwitchInv ==
  /\ attr \in Attrs /\ kernel \in Attrs /\ asked \in Events
  /\ OkMeansSwitched /\ RefusedForItself

LEMMA AssignType ==
  ASSUME NEW a \in Attrs, NEW e \in Events
  PROVE  Assign(a, e) \in Attrs /\ Assign(a, e).event = e
BY DEF Assign, WithEvent, Attrs

LEMMA MovedType ==
  ASSUME NEW f \in Events, NEW e \in Events
  PROVE  Moved(f, e).type_ = f.type_
BY DEF Moved, Events

LEMMA SwitchInvInit == SwitchInit => SwitchInv
<1> SUFFICES ASSUME SwitchInit PROVE SwitchInv OBVIOUS
<1>1. PICK e \in Events, d \in BOOLEAN : attr = [event |-> e, disabled |-> d] /\ asked = e
  BY DEF SwitchInit
<1>2. kernel = attr /\ outcome = "none" BY DEF SwitchInit
<1> QED BY <1>1, <1>2 DEF SwitchInv, Attrs, OkMeansSwitched, RefusedForItself

\* What a call does to the event, whether the kernel takes it or not.
LEMMA SwitchStep ==
  ASSUME SwitchInv, NEW e \in Events, SwitchToEvent(e)
  PROVE  SwitchInv'
<1> DEFINE a == Assign(attr, e)
<1>1. attr \in Attrs /\ kernel \in Attrs /\ kernel.event \in Events
  BY DEF SwitchInv, Attrs
<1>2. a \in Attrs /\ a.event = e BY <1>1, AssignType
<1>3. asked' = e BY DEF SwitchToEvent
<1>4. CASE /\ kernel.event.type_ # Breakpoint \/ a.event.type_ # Breakpoint
           /\ attr' = a /\ outcome' = "Err" /\ kernel' = kernel /\ on' = on
  <2> HIDE DEF a
  <2>1. kernel.event.type_ = Breakpoint => Moved(kernel.event, e) # e
    BY <1>1, <1>2, <1>4, MovedType
  <2>2. RefusedForItself' BY <1>3, <1>4, <2>1 DEF RefusedForItself, Moved
  <2>3. OkMeansSwitched' BY <1>4 DEF OkMeansSwitched
  <2> QED BY <1>1, <1>2, <1>3, <1>4, <2>2, <2>3 DEF SwitchInv
<1>5. CASE Modify(a, Accepts(a)) /\ outcome' = IF Accepts(a) THEN "Ok" ELSE "Err"
  <2> HIDE DEF a
  <2>1. attr' = a /\ kernel' = (IF Accepts(a) THEN a ELSE kernel) BY <1>5 DEF Modify
  <2>2. kernel' \in Attrs BY <1>1, <1>2, <2>1
  <2>3. OkMeansSwitched' BY <1>2, <1>3, <1>5, <2>1 DEF OkMeansSwitched
  <2>4. RefusedForItself'
    <3>1. SUFFICES ASSUME outcome' = "Err"
                   PROVE  \/ kernel'.event.type_ # Breakpoint
                          \/ Moved(kernel'.event, e) # e
                          \/ e \notin Placeable
      BY <1>3 DEF RefusedForItself, Moved
    <3>2. ~Accepts(a) BY <1>5, <3>1
    <3> QED BY <1>2, <2>1, <3>2 DEF Accepts
  <2> QED BY <1>2, <1>3, <2>1, <2>2, <2>3, <2>4 DEF SwitchInv
<1> QED BY <1>4, <1>5 DEF SwitchToEvent

LEMMA SwitchInvNext == SwitchInv /\ [SwitchNext]_switchVars => SwitchInv'
<1> SUFFICES ASSUME SwitchInv, [SwitchNext]_switchVars PROVE SwitchInv' OBVIOUS
<1>1. CASE \E e \in Events : SwitchToEvent(e) BY <1>1, SwitchStep
<1>2. CASE Enable \/ Disable
  BY <1>2 DEF Enable, Disable, SwitchInv, OkMeansSwitched, RefusedForItself, Moved
<1>3. CASE UNCHANGED switchVars
  BY <1>3 DEF switchVars, SwitchInv, OkMeansSwitched, RefusedForItself, Moved
<1> QED BY <1>1, <1>2, <1>3 DEF SwitchNext

LEMMA SwitchInvAlways == SwitchSpec => []SwitchInv
  BY SwitchInvInit, SwitchInvNext, PTL DEF SwitchSpec

\* Ok means that the kernel counts what was asked for and that attr describes it,
\* whatever calls were refused before.
THEOREM OkIsSwitched == SwitchSpec => []OkMeansSwitched
<1>1. SwitchInv => OkMeansSwitched BY DEF SwitchInv
<1> QED BY <1>1, SwitchInvAlways, PTL

\* A refused call leaves nothing in the stored attr that makes a later one fail.
THEOREM RefusalIsForTheEvent == SwitchSpec => []RefusedForItself
<1>1. SwitchInv => RefusedForItself BY DEF SwitchInv
<1> QED BY <1>1, SwitchInvAlways, PTL

-----------------------------------------------------------------------------
(* BpfQuery.                                                                *)

\* What the words of query_bpf's buffer are.
QueryWords == Int \cup Progs

LEMMA QueryTypes ==
  /\ 2^Bits \in Nat /\ Max32 = 2^Bits - 1 /\ Max32 + 1 = 2^Bits
  /\ MaxProgs \in Nat \ {0} /\ MaxProgs + 2 <= Max32 /\ BufLens \subseteq 0..Max32
<1>1. 2^Bits \in Nat /\ MaxProgs \in Nat \ {0} /\ MaxProgs + 2 <= Max32 /\ BufLens \subseteq 0..Max32
  BY QueryAssumption
<1>2. PICK N \in Nat : N = 2^Bits BY <1>1
<1> QED BY <1>1, <1>2 DEF Max32

\* The words that are allocated are those meant, unless their number has wrapped, and
\* then at most one is left.
LEMMA AllocatedWords ==
  ASSUME NEW n \in 0..Max32
  PROVE  /\ BufWords(n) % (Max32 + 1) \in 0..Max32
         /\ BufWords(n) <= Max32 => BufWords(n) % (Max32 + 1) = n + 2
         /\ BufWords(n) > Max32 => BufWords(n) % (Max32 + 1) <= 1 /\ n > MaxProgs
         /\ BufWords(n) % (Max32 + 1) = 0 => BufWords(n) > Max32
<1>1. PICK M \in Nat : M = Max32 BY QueryTypes
<1>2. BufWords(n) = n + 2 /\ n \in 0..M /\ M + 1 \in Nat /\ M + 1 > 0 /\ MaxProgs \in Nat /\ MaxProgs + 2 <= M
  BY <1>1, QueryTypes DEF BufWords
<1>3. (n + 2) % (M + 1) \in 0..M
  <2>1. (n + 2) % (M + 1) \in 0..((M + 1) - 1) BY <1>2, ModRange
  <2> QED BY <1>2, <2>1
<1>4. n + 2 <= M => (n + 2) % (M + 1) = n + 2
  <2>1. n + 2 <= M => n + 2 \in 0..((M + 1) - 1) BY <1>2
  <2> QED BY <1>2, <2>1, ModSmall
<1>5. n + 2 > M => (n + 2) % (M + 1) = n + 2 - (M + 1)
  <2>1. n + 2 > M => (n + 2) - (M + 1) \in 0..((M + 1) - 1) BY <1>2
  <2> QED BY <1>2, <2>1, ModSmall
<1> QED BY <1>1, <1>2, <1>3, <1>4, <1>5

\* What is cut out of an answer is what was attached.
LEMMA CutOut ==
  ASSUME NEW n \in Nat, NEW m \in 0..n, NEW seen \in Seq(Progs), m <= Len(seen),
         NEW b \in Seq(QueryWords), Len(b) = n + 2,
         \A i \in 1..n : i <= Len(seen) => b[i + 2] = seen[i]
  PROVE  /\ SubSeq(b, 3, 2 + m) = SubSeq(seen, 1, m)
         /\ Len(SubSeq(b, 3, 2 + m)) = m
<1>1. PICK l \in Nat : l = Len(seen) BY LenProperties
<1>2. \A i \in 1..m : b[i + 2] = seen[i] /\ seen[i] \in Progs
  BY <1>1, ElementOfSeq
<1>3. \A j \in 3..(2 + m) : b[j] \in Progs
  <2> SUFFICES ASSUME NEW j \in 3..(2 + m) PROVE b[j] \in Progs OBVIOUS
  <2>1. j - 2 \in 1..m /\ (j - 2) + 2 = j OBVIOUS
  <2> QED BY <1>2, <2>1
<1> DEFINE x == SubSeq(b, 3, 2 + m)
           y == SubSeq(seen, 1, m)
<1>4. /\ x \in Seq(Progs) /\ Len(x) = IF 3 <= 2 + m THEN (2 + m) - 3 + 1 ELSE 0
      /\ \A i \in 1..((2 + m) - 3 + 1) : x[i] = b[3 + i - 1]
  BY <1>3, SubSeqProperties
<1>5. /\ y \in Seq(Progs) /\ Len(y) = IF 1 <= m THEN m - 1 + 1 ELSE 0
      /\ \A i \in 1..(m - 1 + 1) : y[i] = seen[1 + i - 1]
  BY <1>2, SubSeqProperties
<1> HIDE DEF x, y
<1>6. Len(x) = m /\ Len(y) = m BY <1>4, <1>5
<1>7. \A i \in 1..m : x[i] = y[i]
  <2> SUFFICES ASSUME NEW i \in 1..m PROVE x[i] = y[i] OBVIOUS
  <2>1. x[i] = b[3 + i - 1] /\ y[i] = seen[1 + i - 1]
    <3>1. i \in 1..((2 + m) - 3 + 1) /\ i \in 1..(m - 1 + 1) OBVIOUS
    <3> QED BY <1>4, <1>5, <3>1
  <2>2. 3 + i - 1 = i + 2 /\ 1 + i - 1 = i OBVIOUS
  <2> QED BY <1>2, <2>1, <2>2
<1>8. x = y BY <1>4, <1>5, <1>6, <1>7, SeqEqual
<1> QED BY <1>6, <1>8 DEF x, y

-----------------------------------------------------------------------------
LEMMA QueryInvInit == QueryInit => QueryInv
<1> SUFFICES ASSUME QueryInit PROVE QueryInv OBVIOUS
<1>1. attached \in Seq(Progs) BY DEF QueryInit
<1>2. buf_len \in 0..Max32
  <2>1. PICK M \in Nat : M = Max32 /\ M > 0 BY QueryTypes
  <2> QED BY <2>1 DEF QueryInit
<1> QED BY <1>1, <1>2 DEF QueryInit, QueryInv, AnswerIsExact, NoAnswer

LEMMA ProgsKeep ==
  ASSUME QueryInv, NEW p \in Progs, AttachBpf(p) \/ Detach(p)
  PROVE  QueryInv'
<1>1. UNCHANGED <<stage, buf_len, buf, errno, answer>> BY DEF AttachBpf, Detach
<1>2. attached' \in Seq(Progs)
  <2>1. attached \in Seq(Progs) BY DEF QueryInv
  <2>2. CASE AttachBpf(p) BY <2>1, <2>2, AppendProperties DEF AttachBpf
  <2>3. CASE Detach(p)
    <3>1. PICK i \in 1..Len(attached) :
            attached' = SubSeq(attached, 1, i - 1) \o SubSeq(attached, i + 1, Len(attached))
      BY <2>3 DEF Detach
    <3>2. PICK l \in Nat : l = Len(attached) BY <2>1, LenProperties
    <3>3. \A j \in 1..l : attached[j] \in Progs BY <2>1, <3>2, ElementOfSeq
    <3>4. i \in Int /\ i - 1 \in Int /\ i + 1 \in Int /\ i <= l /\ i >= 1 BY <3>2
    <3>5. SubSeq(attached, 1, i - 1) \in Seq(Progs)
      <4>1. \A j \in 1..(i - 1) : attached[j] \in Progs BY <3>3, <3>4
      <4> QED BY <3>4, <4>1, SubSeqProperties
    <3>6. SubSeq(attached, i + 1, l) \in Seq(Progs)
      <4>1. \A j \in (i + 1)..l : attached[j] \in Progs BY <3>3, <3>4
      <4> QED BY <3>4, <4>1, SubSeqProperties
    <3> QED BY <3>1, <3>2, <3>5, <3>6, ConcatProperties
  <2> QED BY <2>2, <2>3
<1> QED BY <1>1, <1>2 DEF QueryInv, Allocated, Answered, AnswerIsExact

LEMMA AllocKeeps ==
  ASSUME QueryInv, NEW n \in BufLens, Alloc(n)
  PROVE  QueryInv'
<1>1. n \in 0..Max32 BY QueryTypes
<1>2. PICK M \in Nat : M = Max32 BY QueryTypes
<1>3. PICK len \in 0..M : len = BufWords(n) % (Max32 + 1) BY <1>1, <1>2, AllocatedWords
<1>4. attached' = attached /\ buf_len' = n /\ answer' = NoAnswer BY DEF Alloc
<1>5. CASE stage' = "panicked"
  <2> QED BY <1>1, <1>4, <1>5 DEF QueryInv, AnswerIsExact, NoAnswer
<1>6. CASE stage' # "panicked"
  <2>1. /\ len # 0 /\ stage' = "ioctl"
        /\ buf' = [i \in 1..len |-> IF i = 1 THEN n ELSE Uninit]
    BY <1>3, <1>6 DEF Alloc
  <2>2. Allocated'
    <3>1. \A i \in 1..len : (IF i = 1 THEN n ELSE Uninit) \in QueryWords
      BY <1>1, <1>2 DEF QueryWords, Uninit
    <3>2. buf' \in [1..len -> QueryWords] BY <2>1, <3>1
    <3>3. buf' \in Seq(QueryWords) /\ Len(buf') = len BY <1>2, <3>2
    <3>4. buf'[1] = n BY <2>1
    <3> QED BY <1>3, <1>4, <2>1, <3>3, <3>4 DEF Allocated, QueryWords
  <2> QED BY <1>1, <1>4, <2>1, <2>2 DEF QueryInv, AnswerIsExact, NoAnswer
<1> QED BY <1>5, <1>6

LEMMA IoctlKeeps ==
  ASSUME QueryInv, Ioctl
  PROVE  QueryInv'
<1>1. /\ attached \in Seq(Progs) /\ buf_len \in 0..Max32 /\ Allocated
      /\ attached' = attached /\ buf_len' = buf_len /\ stage' = "parse"
      /\ answer'.kind = "none" /\ answer'.seen = attached
  BY DEF QueryInv, Ioctl
<1>2. AnswerIsExact' BY <1>1 DEF AnswerIsExact
<1>3. PICK n \in Nat : n = buf_len /\ n \in 0..Max32
  <2>1. PICK M \in Nat : M = Max32 BY QueryTypes
  <2> QED BY <1>1, <2>1
<1>4. PICK l \in Nat : l = Len(attached) BY <1>1, LenProperties
<1>5. buf[1] = n BY <1>1, <1>3 DEF Allocated
<1>6. CASE UNCHANGED buf /\ errno' \notin {"OK", "ENOSPC"}
  BY <1>1, <1>2, <1>6 DEF QueryInv, Allocated
<1>7. CASE errno' = QueryErrno(n) /\ errno' # "E2BIG" /\
           buf' = [i \in DOMAIN buf \cup 2..(n + 2) |->
                     IF i = 1 THEN n ELSE IF i <= n + 2 THEN QueryWrites(n)[i] ELSE buf[i]]
  <2>1. n <= MaxProgs /\ errno' = IF n > 0 /\ l > n THEN "ENOSPC" ELSE "OK"
    BY <1>3, <1>4, <1>7, QueryTypes DEF QueryErrno
  <2>2. Len(buf) = n + 2
    <3>1. PICK M \in Nat : M = Max32 BY QueryTypes
    <3>2. BufWords(n) <= Max32 BY <1>3, <2>1, <3>1, QueryTypes DEF BufWords
    <3> QED BY <1>1, <1>3, <3>2, AllocatedWords DEF Allocated
  <2>3. DOMAIN buf \cup 2..(n + 2) = 1..(n + 2)
    <3>1. DOMAIN buf = 1..(n + 2) BY <1>1, <2>2, LenProperties DEF Allocated
    <3> QED BY <3>1
  <2>4. \A i \in 1..l : attached[i] \in Progs BY <1>1, <1>4, ElementOfSeq
  <2>5. \A i \in 2..(n + 2) : QueryWrites(n)[i] = IF i = 2 THEN l
                                                ELSE IF i - 2 <= l THEN attached[i - 2] ELSE 0
    BY <1>4 DEF QueryWrites
  <2>6. buf' = [i \in 1..(n + 2) |-> IF i = 1 THEN n ELSE QueryWrites(n)[i]]
    BY <1>7, <2>3
  <2>7. buf' \in Seq(QueryWords) /\ Len(buf') = n + 2
    <3>1. ASSUME NEW i \in 1..(n + 2)
          PROVE  (IF i = 1 THEN n ELSE QueryWrites(n)[i]) \in QueryWords
      <4>1. CASE i \in {1, 2} BY <2>5, <4>1 DEF QueryWords
      <4>2. CASE i > 2 /\ i - 2 <= l
        <5>1. i - 2 \in 1..l /\ i \in 2..(n + 2) BY <4>2
        <5> QED BY <2>4, <2>5, <4>2, <5>1 DEF QueryWords
      <4>3. CASE i > 2 /\ ~(i - 2 <= l)
        <5>1. i \in 2..(n + 2) BY <4>3
        <5> QED BY <2>5, <4>3, <5>1 DEF QueryWords
      <4> QED BY <4>1, <4>2, <4>3
    <3>2. buf' \in [1..(n + 2) -> QueryWords] BY <2>6, <3>1
    <3> QED BY <3>2
  <2>8. Allocated'
    <3>1. buf'[1] = n BY <2>6
    <3> QED BY <1>1, <1>3, <2>2, <2>7, <3>1 DEF Allocated, QueryWords
  <2>9. Answered(attached)'
    <3>1. buf'[2] = l BY <2>5, <2>6
    <3>2. ASSUME NEW i \in 1..n, i <= l PROVE buf'[i + 2] = attached[i]
      <4>1. i + 2 \in 2..(n + 2) /\ i + 2 # 2 /\ i + 2 # 1 /\ (i + 2) - 2 = i OBVIOUS
      <4>2. QueryWrites(n)[i + 2] = attached[i] BY <2>5, <3>2, <4>1
      <4> QED BY <2>6, <4>1, <4>2
    <3> QED BY <1>1, <1>3, <1>4, <2>7, <3>1, <3>2 DEF Answered
  <2>10. /\ errno' = "OK" => n = 0 \/ l <= n
         /\ errno' = "ENOSPC" => l > n
    BY <2>1
  <2> QED BY <1>1, <1>2, <1>3, <1>4, <2>8, <2>9, <2>10 DEF QueryInv, Answered
<1> QED BY <1>5, <1>6, <1>7 DEF Ioctl, QueryErrno

LEMMA ParseKeeps ==
  ASSUME QueryInv, Parse
  PROVE  QueryInv'
<1>1. /\ attached \in Seq(Progs) /\ buf_len \in 0..Max32 /\ Allocated
      /\ UNCHANGED <<attached, buf_len, buf, errno>>
      /\ stage = "parse" /\ answer.kind = "none" /\ answer.seen \in Seq(Progs)
      /\ errno \in {"OK", "ENOSPC"} => Answered(answer.seen)
      /\ errno = "OK" => buf_len = 0 \/ Len(answer.seen) <= buf_len
      /\ errno = "ENOSPC" => Len(answer.seen) > buf_len
  BY DEF QueryInv, Parse
<1>2. PICK n \in Nat : n = buf_len
  <2>1. PICK M \in Nat : M = Max32 BY QueryTypes
  <2> QED BY <1>1, <2>1
<1>3. PICK l \in Nat : l = Len(answer.seen) BY <1>1, LenProperties
<1>4. PICK seen : seen = answer.seen OBVIOUS
<1>5. errno \in {"OK", "ENOSPC"} =>
        /\ Len(buf) = n + 2 /\ buf[2] = l /\ buf \in Seq(QueryWords)
        /\ \A i \in 1..n : i <= l => buf[i + 2] = seen[i]
  BY <1>1, <1>2, <1>3, <1>4 DEF Answered, Allocated, QueryWords
<1>6. CASE errno = "OK" /\ 2 + buf[2] > Len(buf)
  <2>1. ~(2 + buf[2] <= Len(buf)) BY <1>5, <1>6
  <2>2. stage' = "panicked" /\ answer' = answer BY <1>6, <2>1 DEF Parse
  <2> QED BY <1>1, <2>2 DEF QueryInv, AnswerIsExact
<1>7. CASE errno = "OK" /\ 2 + buf[2] <= Len(buf)
  <2>1. l <= n BY <1>5, <1>7
  <2>2. PICK ids : ids = SubSeq(buf, 3, 2 + buf[2]) OBVIOUS
  <2>3. ids = SubSeq(seen, 1, l) /\ Len(ids) = l
    <3>1. l \in 0..n /\ seen \in Seq(Progs) /\ l <= Len(seen) BY <1>1, <1>3, <1>4, <2>1
    <3>2. buf[2] = l BY <1>5, <1>7
    <3> QED BY <1>5, <1>7, <2>2, <3>1, <3>2, CutOut
  <2>4. /\ stage' = "idle" /\ answer'.kind = "Ok" /\ answer'.ids = ids /\ answer'.lost = 0
        /\ answer'.seen = seen
    <3>1. ~(2 + buf[2] > Len(buf)) BY <1>5, <1>7
    <3> QED BY <1>4, <1>7, <2>2, <3>1 DEF Parse
  <2> QED BY <1>1, <1>3, <1>4, <2>3, <2>4 DEF QueryInv, AnswerIsExact
<1>8. CASE errno = "ENOSPC"
  <2>1. l > n BY <1>1, <1>2, <1>3, <1>8
  <2>2. PICK ids : ids = SubSeq(buf, 3, Len(buf)) OBVIOUS
  <2>3. ids = SubSeq(seen, 1, n) /\ Len(ids) = n
    <3>1. Len(buf) = 2 + n BY <1>5, <1>8
    <3> QED BY <1>1, <1>3, <1>4, <1>5, <1>8, <2>1, <2>2, <3>1, CutOut
  <2>4. /\ stage' = "idle" /\ answer'.kind = "Ok" /\ answer'.ids = ids
        /\ answer'.lost = l - n /\ answer'.seen = seen
    BY <1>2, <1>4, <1>5, <1>8, <2>2 DEF Parse
  <2>5. AnswerIsExact'
    <3>1. n + (l - n) = l OBVIOUS
    <3> QED BY <1>1, <1>2, <1>3, <1>4, <2>3, <2>4, <3>1 DEF AnswerIsExact
  <2> QED BY <1>1, <2>4, <2>5 DEF QueryInv
<1>9. CASE errno \notin {"OK", "ENOSPC"}
  <2>1. stage' = "idle" /\ answer'.kind = "Err" /\ answer'.errno = errno BY <1>9 DEF Parse
  <2> QED BY <1>1, <1>9, <2>1 DEF QueryInv, AnswerIsExact
<1> QED BY <1>6, <1>7, <1>8, <1>9 DEF Parse

LEMMA QueryInvNext == QueryInv /\ [QueryNext]_queryVars => QueryInv'
<1> SUFFICES ASSUME QueryInv, [QueryNext]_queryVars PROVE QueryInv' OBVIOUS
<1>1. CASE \E p \in Progs : AttachBpf(p) \/ Detach(p) BY <1>1, ProgsKeep
<1>2. CASE \E n \in BufLens : Alloc(n) BY <1>2, AllocKeeps
<1>3. CASE Ioctl BY <1>3, IoctlKeeps
<1>4. CASE Parse BY <1>4, ParseKeeps
<1>5. CASE UNCHANGED queryVars
  BY <1>5 DEF queryVars, QueryInv, Allocated, Answered, AnswerIsExact
<1> QED BY <1>1, <1>2, <1>3, <1>4, <1>5 DEF QueryNext

LEMMA QueryInvAlways == QuerySpec => []QueryInv
  BY QueryInvInit, QueryInvNext, PTL DEF QuerySpec

\* query_bpf hands the kernel a buffer that holds all it writes, for every length a
\* caller passes, also those whose sum of u32 has wrapped.
THEOREM KernelWritesFit == QuerySpec => []WritesFit
<1>1. QueryInv => WritesFit BY DEF QueryInv, WritesFit, Allocated
<1> QED BY <1>1, QueryInvAlways, PTL

\* What query_bpf returns as Ok is what was attached, in order, and the number it
\* lost, whatever the buffer's length.
THEOREM QueryIsExact == QuerySpec => []AnswerIsExact
<1>1. QueryInv => AnswerIsExact BY DEF QueryInv
<1> QED BY <1>1, QueryInvAlways, PTL

-----------------------------------------------------------------------------
(* Attr: the rows.                                                          *)

LEMMA CommonRows == \A r \in Common : r[2] \in Nat /\ r[3] \notin Clock
  BY DEF Common, Exclude, Counting, StatFormat, Sampling, SampleFormat, Lbr, RecordIdFormat,
         ExtraRecord, Clock

LEMMA OtherRows ==
  /\ \A r \in UNION {LbrNot, SiblingOnly, Dropped} : r[2] \in Nat /\ r[3] \notin Clock
  /\ \A r \in LeaderOnly : r[2] \in Nat
<1>1. \A r \in UNION {LbrNot, SiblingOnly, Dropped} : r[2] \in Nat /\ r[3] \notin Clock
  BY DEF LbrNot, SiblingOnly, Dropped, Clock
<1>2. \A r \in Timer : r[2] \in Nat BY DEF Timer
<1> QED BY <1>1, <1>2 DEF LeaderOnly

LeaderRows == Common \cup LeaderOnly

SiblingRows == Common \cup SiblingOnly

LEMMA RowLevels ==
  /\ \A r \in UNION {LeaderRows, SiblingRows, LbrNot, Dropped} : r[2] \in Nat
  /\ \A r \in UNION {SiblingRows, LbrNot, Dropped} : r[3] \notin Clock
  BY CommonRows, OtherRows DEF LeaderRows, SiblingRows

\* Pairs of options that set one field, and are not asked for together unless `code'
\* is implied.
Rivals == {<<"code", "Device">>, <<"code", "BuildId">>,
           <<"Device", "code">>, <<"BuildId", "code">>,
           <<"NewChild", "NewThread">>, <<"NewThread", "NewChild">>,
           <<"Device", "BuildId">>, <<"BuildId", "Device">>,
           <<"RealTime", "Tai">>, <<"Tai", "RealTime">>}

\* Two rows of one field are one option's, or rivals.
Apart(r, q) == r[3] = q[3] => r[1] = q[1] \/ <<r[1], q[1]>> \in Rivals

LEMMA OwnFields ==
  /\ \A r, q \in UNION {LeaderRows, LbrNot, Dropped} : Apart(r, q)
  /\ \A r, q \in UNION {SiblingRows, LbrNot, Dropped} : Apart(r, q)
<1>1. \A r, q \in UNION {Common, LbrNot, Dropped} : Apart(r, q)
  BY SMTT(60)
     DEF Common, Exclude, Counting, StatFormat, Sampling, SampleFormat, Lbr,
         RecordIdFormat, ExtraRecord, LbrNot, Dropped, Rivals, Apart
<1>2. \A r \in UNION {Common, LbrNot, Dropped}, q \in LeaderOnly \cup SiblingOnly : r[3] # q[3]
  BY SMTT(60)
     DEF Common, Exclude, Counting, StatFormat, Sampling, SampleFormat, Lbr,
         RecordIdFormat, ExtraRecord, LbrNot, Dropped, LeaderOnly, SiblingOnly, Timer
<1>3. \A r, q \in LeaderOnly : Apart(r, q)
  BY SMTT(60) DEF LeaderOnly, Timer, Rivals, Apart
<1>4. \A r, q \in SiblingOnly : Apart(r, q)
  BY SMTT(60) DEF SiblingOnly, Apart
<1>5. \A r, q : r[3] # q[3] => Apart(r, q) BY DEF Apart
<1>6. \A r, q \in UNION {Common, LbrNot, Dropped, LeaderOnly} : Apart(r, q)
  BY <1>1, <1>2, <1>3, <1>5
<1>7. \A r, q \in UNION {Common, LbrNot, Dropped, SiblingOnly} : Apart(r, q)
  BY <1>1, <1>2, <1>4, <1>5
<1> QED BY <1>6, <1>7 DEF LeaderRows, SiblingRows

-----------------------------------------------------------------------------
(* Translation.                                                             *)

\* The fields of what is asked for, whatever the level.
Plain(rows, opts) == {r[3] : r \in {q \in rows : q[1] \in opts}}

\* The rows of Dropped that a level knows.
KnownAt(lvl) == {r \in Dropped : r[2] =< lvl}

\* What an accepted request becomes.
Whole(rows, opts) == UNION {Plain(rows, opts), Plain(LbrNot, LeftOut(opts)), Disabled(opts)}

Accepted(rows, lvl, opts) ==
  /\ ~Unsupported(rows, lvl, opts) /\ ~Unsupported(LbrNot, lvl, LeftOut(opts))

LEMMA FieldsWhenKnown ==
  ASSUME NEW rows, NEW lvl, NEW opts, \A r \in rows : r[1] \in opts => r[2] =< lvl
  PROVE  FieldsOf(rows, lvl, opts) = Plain(rows, opts)
<1>1. {q \in rows : q[1] \in opts /\ q[2] =< lvl} = {q \in rows : q[1] \in opts}
  OBVIOUS
<1> QED BY <1>1 DEF FieldsOf, Plain

\* Rows that refuse nothing set what the level knows.
LEMMA FieldsWhenDropped ==
  ASSUME NEW rows, NEW lvl, NEW opts, \A r \in rows : r[1] \in opts => r[2] =< lvl
  PROVE  FieldsOf(rows \cup Dropped, lvl, opts) = Plain(rows \cup KnownAt(lvl), opts)
<1>1. {q \in rows \cup Dropped : q[1] \in opts /\ q[2] =< lvl}
        = {q \in rows \cup KnownAt(lvl) : q[1] \in opts}
  BY DEF KnownAt
<1> QED BY <1>1 DEF FieldsOf, Plain

LEMMA Supported ==
  ASSUME NEW rows, \A r \in rows : r[2] \in Nat, NEW lvl \in Nat, NEW opts,
         ~Unsupported(rows, lvl, opts)
  PROVE  \A r \in rows : r[1] \in opts => r[2] =< lvl
BY DEF Unsupported

LEMMA TranslateCases ==
  ASSUME NEW rows \in {LeaderRows, SiblingRows}, NEW lvl \in Nat, NEW opts
  PROVE  Translate(rows, lvl, opts) = IF Accepted(rows, lvl, opts)
                                      THEN Whole(rows \cup KnownAt(lvl), opts) ELSE Refused
<1>1. CASE ~Accepted(rows, lvl, opts) BY <1>1 DEF Accepted, Translate
<1>2. CASE Accepted(rows, lvl, opts)
  <2>1. \A r \in rows : r[1] \in opts => r[2] =< lvl
    BY <1>2, RowLevels, Supported DEF Accepted
  <2>2. \A r \in LbrNot : r[1] \in LeftOut(opts) => r[2] =< lvl
    BY <1>2, RowLevels, Supported DEF Accepted
  <2>3. FieldsOf(rows \cup Dropped, lvl, opts) = Plain(rows \cup KnownAt(lvl), opts)
    BY <2>1, FieldsWhenDropped
  <2>4. FieldsOf(LbrNot, lvl, LeftOut(opts)) = Plain(LbrNot, LeftOut(opts))
    BY <2>2, FieldsWhenKnown
  <2> QED BY <1>2, <2>3, <2>4 DEF Accepted, Translate, Whole
<1> QED BY <1>1, <1>2

\* A later level refuses nothing that an earlier one accepted.
LEMMA AcceptedLater ==
  ASSUME NEW rows \in {LeaderRows, SiblingRows}, NEW lvl \in Nat, NEW l \in Nat, lvl < l,
         NEW opts, Accepted(rows, lvl, opts)
  PROVE  Accepted(rows, l, opts)
<1>1. \A r \in rows : r[2] \in Nat BY RowLevels
<1>2. \A r \in LbrNot : r[2] \in Nat BY RowLevels
<1> QED BY <1>1, <1>2 DEF Accepted, Unsupported

\* A sibling's own options say nothing of a clock.
LEMMA SiblingsOwn ==
  ASSUME NEW lvl, NEW opts
  PROVE  Translate(SiblingRows, lvl, opts) \cap Clock = {}
<1>1. \A f \in FieldsOf(SiblingRows \cup Dropped, lvl, opts) : f \notin Clock
  BY RowLevels DEF FieldsOf
<1>2. \A f \in FieldsOf(LbrNot, lvl, LeftOut(opts)) : f \notin Clock
  BY RowLevels DEF FieldsOf
<1>3. \A f \in Disabled(opts) \cup Refused : f \notin Clock
  BY DEF Disabled, Refused, Clock
<1> QED BY <1>1, <1>2, <1>3 DEF Translate

LEMMA SiblingAttrIs ==
  ASSUME NEW lvl, NEW opts, NEW of
  PROVE  SiblingAttr(lvl, opts, of) = IF Translate(SiblingRows, lvl, opts) = Refused THEN Refused
           ELSE Translate(SiblingRows, lvl, opts) \cup (of \cap Clock)
BY DEF SiblingAttr, SiblingRows

-----------------------------------------------------------------------------
(* The invariant: an attr is what its level makes of its request.           *)

AttrInv ==
  /\ level \in Levels
  /\ \/ leader = Unasked
     \/ \E a \in LeaderAsks : leader = [asked |-> a, attr |-> LeaderAttr(level, a)]
  /\ \/ sibling = Unasked
     \/ /\ leader # Unasked
        /\ \E a \in SiblingAsks :
             sibling = [asked |-> a, attr |-> SiblingAttr(level, a, leader.attr)]

\* What is asked of a leader is not what is asked of none.
LEMMA NoneIsNoOption ==
  ASSUME NEW a \in LeaderAsks
  PROVE  a # {"none"}
<1>1. \A r \in UNION {LeaderRows, LbrNot, Dropped} : r[1] # "none"
  BY DEF LeaderRows, LeaderOnly, Timer, Common, Exclude, Counting, StatFormat, Sampling, SampleFormat,
         Lbr, RecordIdFormat, ExtraRecord, LbrNot, Dropped
<1>2. a \subseteq {r[1] : r \in UNION {LeaderRows, LbrNot, Dropped}} \cup {"enable"}
  BY AttrAssumption DEF Askable, LeaderRows
<1> QED BY <1>1, <1>2

LEMMA AttrInvInit == AttrInit => AttrInv
  BY DEF AttrInit, AttrInv

LEMMA AttrInvNext == AttrInv /\ [AttrNext]_attrVars => AttrInv'
<1> SUFFICES ASSUME AttrInv, [AttrNext]_attrVars PROVE AttrInv' OBVIOUS
<1>1. CASE New
  <2>1. PICK a \in LeaderAsks : leader' = [asked |-> a, attr |-> LeaderAttr(level, a)]
    BY <1>1 DEF New
  <2>2. level' = level /\ sibling' = sibling BY <1>1 DEF New
  <2>3. leader = Unasked BY <1>1 DEF New
  <2> QED BY <2>1, <2>2, <2>3 DEF AttrInv
<1>2. CASE AddSibling BY <1>2 DEF AddSibling, AttrInv, Unasked
<1>3. ASSUME NEW l \in Levels, Upgrade(l) PROVE AttrInv'
  <2>1. PICK a \in LeaderAsks : leader = [asked |-> a, attr |-> LeaderAttr(level, a)]
    BY <1>3 DEF Upgrade, AttrInv
  <2>2. level' = l /\ leader' = [asked |-> a, attr |-> LeaderAttr(l, a)]
    BY <1>3, <2>1 DEF Upgrade
  <2>3. CASE sibling = Unasked
    BY <1>3, <2>2, <2>3 DEF Upgrade, AttrInv
  <2>4. CASE sibling # Unasked
    <3>1. PICK b \in SiblingAsks : sibling = [asked |-> b, attr |-> SiblingAttr(level, b, leader.attr)]
      BY <2>4 DEF AttrInv
    <3>2. sibling' = [asked |-> b, attr |-> SiblingAttr(l, b, leader'.attr)]
      BY <1>3, <2>4, <3>1 DEF Upgrade
    <3>3. leader' # Unasked BY <2>2, NoneIsNoOption DEF Unasked
    <3> QED BY <1>3, <2>2, <3>2, <3>3 DEF AttrInv
  <2> QED BY <2>3, <2>4
<1>4. CASE UNCHANGED attrVars BY <1>4 DEF attrVars, AttrInv
<1> QED BY <1>1, <1>2, <1>3, <1>4 DEF AttrNext

LEMMA AttrInvAlways == AttrSpec => []AttrInv
  BY AttrInvInit, AttrInvNext, PTL DEF AttrSpec

LEMMA GainedFields ==
  ASSUME NEW opts, NEW lvl, NEW l
  PROVE  \A f \in Gained(opts, lvl, l) : f # "Err" /\ f \notin Clock
BY DEF Gained, Dropped, Clock

\* A later build accepts what an earlier one accepted, and gives it the same attr, but for
\* an option that the earlier one dropped.
LEMMA SameLater ==
  ASSUME NEW rows \in {LeaderRows, SiblingRows}, NEW lvl \in Levels, NEW l \in Levels, lvl < l,
         NEW opts, Translate(rows, lvl, opts) # Refused
  PROVE  /\ Translate(rows, l, opts) = Translate(rows, lvl, opts) \cup Gained(opts, lvl, l)
         /\ Translate(rows, l, opts) # Refused
<1>1. lvl \in Nat /\ l \in Nat BY AttrAssumption
<1>2. Accepted(rows, lvl, opts) BY <1>1, TranslateCases
<1>3. Accepted(rows, l, opts) BY <1>1, <1>2, AcceptedLater
<1>4. \A r \in Dropped : r[2] \in Nat BY RowLevels
<1>5. \A r : r \in KnownAt(l) <=> r \in KnownAt(lvl) \/ (r \in Dropped /\ lvl < r[2] /\ r[2] =< l)
  BY <1>1, <1>4 DEF KnownAt
<1>6. Plain(rows \cup KnownAt(l), opts) = Plain(rows \cup KnownAt(lvl), opts) \cup Gained(opts, lvl, l)
  BY <1>5 DEF Plain, Gained
<1>7. Whole(rows \cup KnownAt(l), opts) = Whole(rows \cup KnownAt(lvl), opts) \cup Gained(opts, lvl, l)
  BY <1>6 DEF Whole
<1>8. Translate(rows, l, opts) = Translate(rows, lvl, opts) \cup Gained(opts, lvl, l)
  BY <1>1, <1>2, <1>3, <1>7, TranslateCases
<1>9. Translate(rows, l, opts) # Refused BY <1>8, GainedFields DEF Refused
<1> QED BY <1>8, <1>9

\* A sibling has a leader, which stays one.
LeaderTaken == sibling # Unasked => leader.attr # Refused

LEMMA LeaderTakenAlways == AttrSpec => []LeaderTaken
<1>1. AttrInit => LeaderTaken BY DEF AttrInit, LeaderTaken
<1>2. ASSUME AttrInv, LeaderTaken, [AttrNext]_attrVars PROVE LeaderTaken'
  <2>1. CASE New BY <1>2, <2>1 DEF New, AttrInv, LeaderTaken
  <2>2. CASE AddSibling BY <2>2 DEF AddSibling, LeaderTaken
  <2>3. ASSUME NEW l \in Levels, Upgrade(l), sibling' # Unasked PROVE leader'.attr # Refused
    <3>1. PICK a \in LeaderAsks : leader = [asked |-> a, attr |-> LeaderAttr(level, a)]
      BY <1>2, <2>3 DEF Upgrade, AttrInv
    <3>2. level \in Levels /\ level < l BY <1>2, <2>3 DEF AttrInv, Upgrade
    <3>3. leader' = [asked |-> a, attr |-> LeaderAttr(l, a)] BY <2>3, <3>1 DEF Upgrade
    <3>4. leader.attr = Translate(LeaderRows, level, a) /\ leader'.attr = Translate(LeaderRows, l, a)
      BY <3>1, <3>3 DEF LeaderAttr, LeaderRows
    <3>5. leader.attr # Refused BY <1>2, <2>3 DEF Upgrade, LeaderTaken
    <3> QED BY <3>2, <3>4, <3>5, SameLater
  <2>4. CASE UNCHANGED attrVars BY <1>2, <2>4 DEF attrVars, LeaderTaken
  <2> QED BY <1>2, <2>1, <2>2, <2>3, <2>4 DEF AttrNext, LeaderTaken
<1> QED BY <1>1, <1>2, AttrInvAlways, PTL DEF AttrSpec

\* What attr.rs made of a request at one level it makes of it at every later one, and
\* adds only the fields it had left out without a word.
THEOREM UpgradesKeep == AttrSpec => UpgradeKeeps
<1>1. ASSUME AttrInv, LeaderTaken, NEW l \in Levels, Upgrade(l)
      PROVE  /\ leader.attr # Refused =>
                  leader'.attr = leader.attr \cup Gained(leader.asked, level, l)
             /\ sibling.attr # Refused =>
                  sibling'.attr = sibling.attr \cup Gained(sibling.asked, level, l)
  <2>1. PICK a \in LeaderAsks : leader = [asked |-> a, attr |-> LeaderAttr(level, a)]
    BY <1>1 DEF Upgrade, AttrInv
  <2>2. level \in Levels /\ level < l BY <1>1 DEF AttrInv, Upgrade
  <2>3. leader' = [asked |-> a, attr |-> LeaderAttr(l, a)] BY <1>1, <2>1 DEF Upgrade
  <2>4. /\ leader.asked = a /\ leader.attr = Translate(LeaderRows, level, a)
        /\ leader'.attr = Translate(LeaderRows, l, a)
    BY <2>1, <2>3 DEF LeaderAttr, LeaderRows
  <2>5. leader.attr # Refused => leader'.attr = leader.attr \cup Gained(a, level, l)
    BY <2>2, <2>4, SameLater
  <2>6. ASSUME sibling.attr # Refused
        PROVE  sibling'.attr = sibling.attr \cup Gained(sibling.asked, level, l)
    <3>1. sibling # Unasked BY <2>6 DEF Unasked
    <3>2. PICK b \in SiblingAsks : sibling = [asked |-> b, attr |-> SiblingAttr(level, b, leader.attr)]
      BY <1>1, <3>1 DEF AttrInv
    <3>3. sibling' = [asked |-> b, attr |-> SiblingAttr(l, b, leader'.attr)]
      BY <1>1, <3>1, <3>2 DEF Upgrade
    <3>4. Translate(SiblingRows, level, b) # Refused BY <2>6, <3>2, SiblingAttrIs
    <3>5. /\ Translate(SiblingRows, l, b) = Translate(SiblingRows, level, b) \cup Gained(b, level, l)
          /\ Translate(SiblingRows, l, b) # Refused
      BY <2>2, <3>4, SameLater
    <3>6. leader'.attr \cap Clock = leader.attr \cap Clock
      <4>1. leader.attr # Refused BY <1>1, <3>1 DEF LeaderTaken
      <4>2. \A f \in Gained(a, level, l) : f \notin Clock BY GainedFields
      <4> QED BY <2>5, <4>1, <4>2
    <3>7. sibling.attr = Translate(SiblingRows, level, b) \cup (leader.attr \cap Clock)
      BY <3>2, <3>4, SiblingAttrIs
    <3>8. sibling'.attr = Translate(SiblingRows, l, b) \cup (leader'.attr \cap Clock)
      BY <3>3, <3>5, SiblingAttrIs
    <3> QED BY <3>2, <3>5, <3>6, <3>7, <3>8
  <2> QED BY <2>4, <2>5, <2>6
<1>2. AttrInv /\ LeaderTaken /\ [AttrNext]_attrVars =>
        [\A l \in Levels : Upgrade(l) =>
           /\ leader.attr # Refused =>
                leader'.attr = leader.attr \cup Gained(leader.asked, level, l)
           /\ sibling.attr # Refused =>
                sibling'.attr = sibling.attr \cup Gained(sibling.asked, level, l)]_attrVars
  BY <1>1
<1> QED BY <1>2, AttrInvAlways, LeaderTakenAlways, PTL DEF AttrSpec, UpgradeKeeps

-----------------------------------------------------------------------------
(* No option is without effect.                                             *)

LEMMA RowNames ==
  /\ \A rows \in {LeaderRows, SiblingRows} :
       /\ \A r \in rows \cup Dropped, q \in LbrNot : r[3] # q[3]
       /\ \A r \in UNION {rows, Dropped, LbrNot} : r[3] # "disabled"
       /\ \A r \in rows \cup Dropped : r[1] = "code" => r[3] = "mmap"
       /\ <<"Device", 400, "mmap2">> \in rows /\ <<"BuildId", 512, "build_id">> \in rows
  /\ \A r, q \in LbrNot : r[3] = q[3] => r[1] = q[1]
<1>1. \A r \in UNION {Common, LeaderOnly, SiblingOnly, Dropped} :
        /\ \A q \in LbrNot : r[3] # q[3]
        /\ r[3] # "disabled"
        /\ r[1] = "code" => r[3] = "mmap"
  BY SMTT(60) DEF Common, Exclude, Counting, StatFormat, Sampling, SampleFormat, Lbr,
     RecordIdFormat, ExtraRecord, LbrNot, Dropped, LeaderOnly, SiblingOnly, Timer
<1>2. /\ <<"Device", 400, "mmap2">> \in Common /\ <<"BuildId", 512, "build_id">> \in Common
  BY DEF Common, ExtraRecord
<1>3. \A r \in LbrNot : r[3] # "disabled" /\ \A q \in LbrNot : r[3] = q[3] => r[1] = q[1]
  BY DEF LbrNot
<1> QED BY <1>1, <1>2, <1>3 DEF LeaderRows, SiblingRows

\* No two variants of one enum are asked for.
LEMMA OneVariant ==
  ASSUME NEW rows, NEW a, Askable(rows, a)
  PROVE  /\ ~("NewChild" \in a /\ "NewThread" \in a)
         /\ ~("Device" \in a /\ "BuildId" \in a)
         /\ ~("RealTime" \in a /\ "Tai" \in a)
<1>1. \A c \in Variants : ~(c \subseteq a) BY DEF Askable
<1> QED BY <1>1 DEF Variants

\* An option that is asked for sets a field that nothing else asked for sets.
LEMMA OwnRow ==
  ASSUME NEW rows \in {LeaderRows, SiblingRows}, NEW a, Askable(rows, a),
         NEW r \in rows \cup Dropped, r[1] \in a, ~Implied(r[1], a)
  PROVE  \E s \in rows \cup Dropped :
           s[1] = r[1] /\ \A q \in rows \cup Dropped : q[1] \in a /\ q[3] = s[3] => q[1] = r[1]
<1>1. \A s, q \in rows \cup Dropped :
        s[3] = q[3] => s[1] = q[1] \/ <<s[1], q[1]>> \in Rivals
  BY OwnFields DEF Apart
<1>2. CASE r[1] = "Device"
  <2> DEFINE s == <<"Device", 400, "mmap2">>
  <2>1. s \in rows \cup Dropped /\ s[1] = "Device" /\ s[3] = "mmap2" BY RowNames
  <2>2. ASSUME NEW q \in rows \cup Dropped, q[1] \in a, q[3] = s[3], q[1] # "Device" PROVE FALSE
    <3>1. <<"Device", q[1]>> \in Rivals BY <1>1, <2>1, <2>2
    <3>2. q[1] \in {"code", "BuildId"} BY <3>1 DEF Rivals
    <3>3. q[1] # "code" BY <2>1, <2>2, RowNames
    <3> QED BY <1>2, <2>2, <3>2, <3>3, OneVariant
  <2> QED BY <1>2, <2>1, <2>2
<1>3. CASE r[1] = "BuildId"
  <2> DEFINE s == <<"BuildId", 512, "build_id">>
  <2>1. s \in rows \cup Dropped /\ s[1] = "BuildId" /\ s[3] = "build_id" BY RowNames
  <2>2. ASSUME NEW q \in rows \cup Dropped, q[1] \in a, q[3] = s[3], q[1] # "BuildId" PROVE FALSE
    <3>1. <<"BuildId", q[1]>> \in Rivals BY <1>1, <2>1, <2>2
    <3>2. q[1] \in {"code", "Device"} BY <3>1 DEF Rivals
    <3>3. q[1] # "code" BY <2>1, <2>2, RowNames
    <3> QED BY <1>3, <2>2, <3>2, <3>3, OneVariant
  <2> QED BY <1>3, <2>1, <2>2
<1>4. CASE r[1] \notin {"Device", "BuildId"}
  <2>1. ASSUME NEW q \in rows \cup Dropped, q[1] \in a, q[3] = r[3], q[1] # r[1] PROVE FALSE
    <3>1. <<r[1], q[1]>> \in Rivals BY <1>1, <2>1
    <3>2. \/ r[1] = "code" /\ q[1] \in {"Device", "BuildId"}
          \/ r[1] = "NewChild" /\ q[1] = "NewThread"
          \/ r[1] = "NewThread" /\ q[1] = "NewChild"
          \/ r[1] = "RealTime" /\ q[1] = "Tai"
          \/ r[1] = "Tai" /\ q[1] = "RealTime"
      BY <1>4, <3>1 DEF Rivals
    <3>3. CASE r[1] = "code" /\ q[1] \in {"Device", "BuildId"}
      BY <2>1, <3>3 DEF Implied
    <3> QED BY <2>1, <3>2, <3>3, OneVariant
  <2> QED BY <2>1
<1> QED BY <1>2, <1>3, <1>4

LEMMA OptionCounts ==
  ASSUME NEW rows \in {LeaderRows, SiblingRows}, NEW lvl \in Nat, NEW a, Askable(rows, a),
         NEW o \in a, ~Implied(o, a), ~DroppedAt(lvl, o),
         NEW d, d = a \ ({o} \cup PartsOf(o)),
         Translate(rows, lvl, a) # Refused, Translate(rows, lvl, d) # Refused
  PROVE  \E f : ~(f \in Translate(rows, lvl, a) <=> f \in Translate(rows, lvl, d))
<1>1. d \subseteq a /\ o \notin d OBVIOUS
<1> DEFINE all == rows \cup KnownAt(lvl)
<1>2. /\ Translate(rows, lvl, a) = Whole(all, a) /\ Translate(rows, lvl, d) = Whole(all, d)
      /\ all \subseteq rows \cup Dropped
  BY TranslateCases DEF KnownAt
<1> HIDE DEF all
<1>3. PICK r \in UNION {rows, LbrNot, Dropped} : o = r[1] \/ o = "enable"
  BY RowNames DEF Askable
<1>4. CASE o = "enable"
  <2>1. "disabled" \in Whole(all, d) BY <1>1, <1>4 DEF Whole, Disabled
  <2>2. "disabled" \notin Whole(all, a)
    <3>1. "disabled" \notin Disabled(a) BY <1>4 DEF Disabled
    <3>2. "disabled" \notin Plain(all, a) BY <1>2, RowNames DEF Plain
    <3>3. "disabled" \notin Plain(LbrNot, LeftOut(a)) BY RowNames DEF Plain
    <3> QED BY <3>1, <3>2, <3>3 DEF Whole
  <2> QED BY <1>2, <2>1, <2>2
<1>5. CASE r \in rows \cup Dropped /\ o = r[1]
  <2>1. PICK s \in rows \cup Dropped :
          s[1] = o /\ \A q \in rows \cup Dropped : q[1] \in a /\ q[3] = s[3] => q[1] = o
    BY <1>5, OwnRow
  <2>2. s[3] \in Whole(all, a)
    <3>1. ASSUME s \in Dropped PROVE s \in KnownAt(lvl)
      <4>1. s[2] \in Nat BY <3>1, RowLevels
      <4>2. ~(lvl < s[2]) BY <2>1, <3>1 DEF DroppedAt
      <4> QED BY <3>1, <4>1, <4>2 DEF KnownAt
    <3>2. s \in all BY <3>1 DEF all
    <3> QED BY <2>1, <3>2 DEF Whole, Plain
  <2>3. s[3] \notin Whole(all, d)
    <3>1. s[3] \notin Disabled(d) BY <2>1, RowNames DEF Disabled
    <3>2. s[3] \notin Plain(all, d) BY <1>1, <1>2, <2>1 DEF Plain
    <3>3. s[3] \notin Plain(LbrNot, LeftOut(d)) BY <2>1, RowNames DEF Plain
    <3> QED BY <3>1, <3>2, <3>3 DEF Whole
  <2> QED BY <1>2, <2>2, <2>3
<1>6. CASE r \in LbrNot /\ o = r[1]
  <2>1. "lbr" \in d
    <3>1. OptionParts["lbr"] = {q[1] : q \in Lbr \cup LbrNot} /\ DOMAIN OptionParts = {"call_chain", "lbr"}
      BY DEF OptionParts
    <3>2. "lbr" \in a BY <1>6, <3>1 DEF Askable
    <3>3. o \in {"flags", "cycles"} BY <1>6 DEF LbrNot
    <3>4. PartsOf(o) = {} BY <3>1, <3>3 DEF PartsOf
    <3> QED BY <3>2, <3>3, <3>4
  <2>2. o \in LeftOut(d) BY <1>1, <1>6, <2>1 DEF LeftOut
  <2>3. r[3] \in Whole(all, d) BY <1>6, <2>2 DEF Whole, Plain
  <2>4. r[3] \notin Whole(all, a)
    <3>1. r[3] \notin Disabled(a) BY <1>6, RowNames DEF Disabled
    <3>2. r[3] \notin Plain(all, a) BY <1>2, <1>6, RowNames DEF Plain
    <3>3. r[3] \notin Plain(LbrNot, LeftOut(a))
      <4>1. o \notin LeftOut(a) BY DEF LeftOut
      <4> QED BY <1>6, <4>1, RowNames DEF Plain
    <3> QED BY <3>1, <3>2, <3>3 DEF Whole
  <2> QED BY <1>2, <2>3, <2>4
<1> QED BY <1>3, <1>4, <1>5, <1>6

\* An option of an accepted request is visible in the attr that attr.rs makes of it, for
\* any request, leader or sibling, unless its row is one of Dropped and newer than the
\* level.
THEOREM NoOtherIsIgnored == AttrSpec => []OnlyDroppedIgnored
<1>1. ASSUME AttrInv PROVE OnlyDroppedIgnored
  <2>1. level \in Nat BY <1>1, AttrAssumption DEF AttrInv
  <2>2. ASSUME NEW o \in leader.asked, leader.attr # Refused, ~Implied(o, leader.asked),
               ~DroppedAt(level, o)
        PROVE  LeaderAttr(level, leader.asked \ ({o} \cup PartsOf(o))) # leader.attr
    <3>1. leader # Unasked BY <2>2 DEF Unasked
    <3>2. PICK a \in LeaderAsks : leader = [asked |-> a, attr |-> LeaderAttr(level, a)]
      BY <1>1, <3>1 DEF AttrInv
    <3>3. Askable(LeaderRows, a) BY AttrAssumption DEF LeaderRows
    <3>4. PICK d : d = a \ ({o} \cup PartsOf(o)) OBVIOUS
    <3>5. /\ leader.asked = a /\ leader.attr = Translate(LeaderRows, level, a)
          /\ LeaderAttr(level, d) = Translate(LeaderRows, level, d)
      BY <3>2 DEF LeaderAttr, LeaderRows
    <3>6. CASE Translate(LeaderRows, level, d) = Refused BY <2>2, <3>4, <3>5, <3>6
    <3>7. CASE Translate(LeaderRows, level, d) # Refused
      <4>1. \E f : ~(f \in Translate(LeaderRows, level, a) <=> f \in Translate(LeaderRows, level, d))
        BY <2>1, <2>2, <3>3, <3>4, <3>5, <3>7, OptionCounts
      <4> QED BY <3>4, <3>5, <4>1
    <3> QED BY <3>6, <3>7
  <2>3. ASSUME NEW o \in sibling.asked, sibling.attr # Refused, ~Implied(o, sibling.asked),
               ~DroppedAt(level, o)
        PROVE  SiblingAttr(level, sibling.asked \ ({o} \cup PartsOf(o)), leader.attr) # sibling.attr
    <3>1. sibling # Unasked BY <2>3 DEF Unasked
    <3>2. PICK a \in SiblingAsks : sibling = [asked |-> a, attr |-> SiblingAttr(level, a, leader.attr)]
      BY <1>1, <3>1 DEF AttrInv
    <3>3. Askable(SiblingRows, a) BY AttrAssumption DEF SiblingRows
    <3>4. PICK d : d = a \ ({o} \cup PartsOf(o)) OBVIOUS
    <3>5. PICK A : A = Translate(SiblingRows, level, a) OBVIOUS
    <3>6. PICK D : D = Translate(SiblingRows, level, d) OBVIOUS
    <3>7. sibling.asked = a /\ A # Refused /\ sibling.attr = A \cup (leader.attr \cap Clock)
      BY <2>3, <3>2, <3>5, SiblingAttrIs
    <3>8. CASE D = Refused BY <2>3, <3>4, <3>6, <3>7, <3>8, SiblingAttrIs
    <3>9. CASE D # Refused
      <4>1. PICK f : ~(f \in A <=> f \in D)
        BY <2>1, <2>3, <3>3, <3>4, <3>5, <3>6, <3>7, <3>9, OptionCounts
      <4>2. f \notin Clock BY <3>5, <3>6, <4>1, SiblingsOwn
      <4>3. SiblingAttr(level, d, leader.attr) = D \cup (leader.attr \cap Clock)
        BY <3>6, <3>9, SiblingAttrIs
      <4> QED BY <3>4, <3>7, <4>1, <4>2, <4>3
    <3> QED BY <3>8, <3>9
  <2> QED BY <2>2, <2>3 DEF OnlyDroppedIgnored, LeaderShows, SiblingShows
<1> QED BY <1>1, AttrInvAlways, PTL
=============================================================================
