-------------------------------- MODULE SwitchTo --------------------------------
(***************************************************************************)
(* Counter::switch_to (src/src/count/mod.rs): the attr that the Counter    *)
(* keeps is changed first, and then given to the kernel as a whole, which  *)
(* may refuse it.  The kernel is external (perf_event_modify_attr): it     *)
(* stops the event, takes over the breakpoint and `disabled' if nothing    *)
(* else differs, and starts the event unless its attr says disabled.       *)
(***************************************************************************)
EXTENDS Naturals

CONSTANTS Types,      \* values of attr.type_, Breakpoint among them
          Breakpoint, \* PERF_TYPE_BREAKPOINT
          Configs,    \* values of config, config1 and config2 alike
          BpTypes,    \* HW_BREAKPOINT_R, ...
          Placeable   \* breakpoints the hardware takes

Events == [type_ : Types, config : Configs, config1 : Configs, config2 : Configs,
           bp_type : BpTypes]

ASSUME EventAssumption == Breakpoint \in Types /\ Placeable \subseteq Events

VARIABLES attr,     \* the Counter's: its event, and disabled
          kernel,   \* the event's: the same
          on,       \* the event counts
          asked,    \* history: the last event asked for
          outcome   \* what the last call to switch_to returned

switchVars == <<attr, kernel, on, asked, outcome>>

WithEvent(a, e) == [event |-> e, disabled |-> a.disabled]

\* The breakpoint of event e in place of that of f: what the kernel takes over.
Moved(f, e) == [f EXCEPT !.config1 = e.config1, !.config2 = e.config2, !.bp_type = e.bp_type]

\* The kernel's answer to an attr a (external).
Accepts(a) == /\ kernel.event.type_ = Breakpoint
              /\ Moved(kernel.event, a.event) = a.event
              /\ a.event \in Placeable

\* Mutant of Assign: a config of 0 leaves the one that is there.
AssignNonZero(a, e) ==
  WithEvent(a, [e EXCEPT !.config = IF @ = 0 THEN a.event.config ELSE @])

\* The fields of the attr that switch_to assigns.
Assign(a, e) == WithEvent(a, e)

\* Mutant of Modify: the stored attr follows only a switch that the kernel made.
ModifyIfOk(a, ok) ==
  /\ kernel' = IF ok THEN a ELSE kernel
  /\ attr' = attr
  /\ on' = ~kernel'.disabled

\* PERF_IOC_OP_MODIFY_ATTRS on the changed attr: stop, take over, start.
Modify(a, ok) ==
  /\ attr' = a
  /\ kernel' = IF ok THEN a ELSE kernel
  /\ on' = ~kernel'.disabled

\* Before the event is stopped the kernel turns away another type.
SwitchToEvent(e) ==
  LET a == Assign(attr, e)
  IN  /\ asked' = e
      /\ \/ /\ kernel.event.type_ # Breakpoint \/ a.event.type_ # Breakpoint
            /\ attr' = a
            /\ outcome' = "Err"
            /\ UNCHANGED <<kernel, on>>
         \/ /\ kernel.event.type_ = Breakpoint /\ a.event.type_ = Breakpoint
            /\ Modify(a, Accepts(a))
            /\ outcome' = IF Accepts(a) THEN "Ok" ELSE "Err"

\* Counter::enable and Counter::disable do not touch the attr, here or there.
Enable == on' = TRUE /\ outcome' = "none" /\ UNCHANGED <<attr, kernel, asked>>

Disable == on' = FALSE /\ outcome' = "none" /\ UNCHANGED <<attr, kernel, asked>>

-----------------------------------------------------------------------------
\* Counter::new: Opts::enable says whether the event counts from the start.
SwitchInit ==
  /\ \E e \in Events, disabled \in BOOLEAN :
       /\ e.type_ = Breakpoint => e \in Placeable
       /\ attr = [event |-> e, disabled |-> disabled]
       /\ on = ~disabled
       /\ asked = e
  /\ kernel = attr
  /\ outcome = "none"

SwitchNext == (\E e \in Events : SwitchToEvent(e)) \/ Enable \/ Disable

SwitchSpec == SwitchInit /\ [][SwitchNext]_switchVars

-----------------------------------------------------------------------------
\* Ok means that the kernel counts the event that was asked for, and that the
\* stored attr describes it.
OkMeansSwitched == outcome = "Ok" => kernel.event = asked /\ attr = kernel

\* What a refused call left in the stored attr does not make a later call fail: an
\* Err is due to the event that was asked for, or to the kind of this counter.
RefusedForItself ==
  outcome = "Err" => \/ kernel.event.type_ # Breakpoint
                    \/ Moved(kernel.event, asked) # asked
                    \/ asked \notin Placeable

\* `We will only change fields about event config, this will not break any
\* consumptions or states': switching changes which event is counted, and not
\* whether it is.
SwitchKeepsRunning == [][(\E e \in Events : SwitchToEvent(e)) => on' = on]_switchVars
=============================================================================
