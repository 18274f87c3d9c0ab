------------------------------ MODULE AsyncRelaxed ------------------------------
(***************************************************************************)
(* AsyncIter on a machine that reorders loads (AArch64, POWER): Wait.state *)
(* is stored and compared with Ordering::Relaxed, so that seeing WAKE or   *)
(* HANG does not make the task see the records behind it.  AtomicWaker,    *)
(* whose register acquires what wake has released, does.                   *)
(*                                                                         *)
(* A view is how many of the newest records its holder need not see yet.   *)
(* Coherence makes views only better; Emit makes all of them worse.        *)
(***************************************************************************)
EXTENDS AsyncIter, FiniteSetsExt

VARIABLES behind,     \* the task's view of the ring
          thread_view,\* the thread's, which epoll_wait brings up to date
          waker_view, \* what the last wake released in the AtomicWaker
          known,      \* the task cannot but see the last store to state
          old         \* state before that store

views == <<behind, thread_view, waker_view>>
allVars == <<vars, views, known, old>>

\* No more than is in the ring can be missed.
Missing(n) == IF n > avail' THEN avail' ELSE n

KernelStep ==
  /\ Emit \/ HangUp
  /\ LET new == avail' - avail
     IN  /\ behind' = Missing(behind + new)
         /\ thread_view' = Missing(thread_view + new)
         /\ waker_view' = Missing(waker_view + new)
  /\ UNCHANGED <<known, old>>

\* A report or a hang-up comes with all that the kernel published before it.
EpollWait ==
  /\ EpollIn \/ EpollHup \/ EpollClose
  /\ thread_view' = 0
  /\ UNCHANGED <<behind, waker_view, known, old>>

\* state.store(.., Relaxed): nothing tells the task.
Store ==
  /\ StoreWake \/ StoreHang
  /\ old' = state
  /\ known' = FALSE
  /\ UNCHANGED views

\* The view and the store are released together.
WakeReleases ==
  /\ Wake
  /\ waker_view' = thread_view
  /\ UNCHANGED <<behind, thread_view, known, old>>

-----------------------------------------------------------------------------
(* What the task acquires with the waker, and where.                        *)

Acquire ==
  /\ behind' = Min({behind, waker_view})
  /\ known' = (known \/ thread \notin {"wake", "wake_last"})

\* The executor hands a woken task over; one that polls for its own reasons has
\* acquired nothing.
StartPollSees ==
  /\ StartPoll
  /\ IF notified THEN Acquire ELSE UNCHANGED <<behind, known>>
  /\ UNCHANGED <<thread_view, waker_view, old>>

\* AtomicWaker::register.
RegisterAcquires ==
  /\ Register
  /\ Acquire
  /\ UNCHANGED <<thread_view, waker_view, old>>

-----------------------------------------------------------------------------
(* The loads of poll_next.                                                  *)

\* lending_pop loads the head and may miss up to behind of the newest records.
PopOld(place, next) == \E m \in 0..behind :
  /\ task = place
  /\ IF m < avail
     THEN avail' = avail - 1 /\ task' = "idle" /\ UNCHANGED exhausted
     ELSE /\ task' = next
          /\ exhausted' = (exhausted \/ place = "pop_hang")
          /\ UNCHANGED avail
  /\ behind' = m
  /\ thread_view' = Missing(thread_view)
  /\ waker_view' = Missing(waker_view)
  /\ UNCHANGED <<since, poll_in, hup, close, state, waker, notified, thread, known, old>>

Pop == PopOld("pop", "register") \/ PopOld("pop_wake", "parked") \/ PopOld("pop_hang", "idle")

\* Mutant of CasOld: whatever is not WAIT is taken for HANG.
CasHangs ==
  /\ task = "cas"
  /\ task' = IF state = "WAIT" THEN "parked" ELSE "pop_hang"
  /\ known' = TRUE
  /\ UNCHANGED <<kernel, close, state, waker, notified, thread, exhausted, views, old>>

\* The exchange sees the last store; the load of a failed one may see the one before.
CasOld ==
  \/ Cas /\ known' = TRUE /\ UNCHANGED <<views, old>>
  \/ /\ task = "cas" /\ ~known /\ old = "WAIT"
     /\ task' = "parked"
     /\ UNCHANGED <<kernel, close, state, waker, notified, thread, exhausted, views, known, old>>

DropIter == Drop /\ UNCHANGED <<views, known, old>>

-----------------------------------------------------------------------------
\* into_async has just made the system calls that bring both up to date.
RelaxedInit ==
  /\ Init
  /\ behind = 0 /\ thread_view = 0
  /\ waker_view = avail
  /\ known = TRUE /\ old = "WAIT"

RelaxedThread == EpollWait \/ Store \/ WakeReleases
RelaxedPoll == RegisterAcquires \/ Pop \/ CasOld

RelaxedNext == KernelStep \/ RelaxedThread \/ StartPollSees \/ RelaxedPoll \/ DropIter

RelaxedSpec == RelaxedInit /\ [][RelaxedNext]_allVars

\* As in AsyncIter.
RelaxedFair ==
  /\ RelaxedSpec
  /\ WF_allVars(RelaxedThread)
  /\ WF_allVars(RelaxedPoll)
  /\ WF_allVars((task = "idle" \/ notified) /\ ~exhausted /\ StartPollSees)

-----------------------------------------------------------------------------
\* None may come too early, with records still in the ring, but
\* never while the target lives: only the hang-up itself lets poll_next say None.
NoneOnlyAfterHangUp == exhausted => hup

\* A report that comes while the task is parked wakes it, so that records missed
\* before are missed until the next report only.
ReportWakes == (task = "parked" /\ poll_in) ~> (task # "parked")

-----------------------------------------------------------------------------
(* The inductive invariant behind the first.                                *)

RelaxedTypeOK ==
  /\ TypeOK
  /\ {behind, thread_view, waker_view} \subseteq 0..avail
  /\ known \in BOOLEAN /\ old \in {"WAIT", "WAKE", "HANG"}

RelaxedInv == RelaxedTypeOK /\ WakerKept /\ HangMeansHup /\ NoneOnlyAfterHangUp
=============================================================================
