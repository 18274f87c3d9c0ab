------------------------------- MODULE AsyncIter -------------------------------
(***************************************************************************)
(* The asynchronous record iterator (src/src/sample/iter/cow.rs): the task *)
(* that polls AsyncCowIter::poll_next, the thread that into_async spawns   *)
(* to sleep in epoll_wait, and the Wait they share.  The ring is reduced   *)
(* to the number of records in it (RecordRing has the rest); each pop, and *)
(* each access to Wait, is a step of its own.                              *)
(*                                                                         *)
(* External: the kernel, which reports every WakeEvery-th record once to   *)
(* whoever polls the perf fd (WakeUp::on) and hangs up when the target is  *)
(* gone; the executor, which polls a task again once its waker was woken;  *)
(* AtomicWaker, whose register and wake are taken as atomic.               *)
(***************************************************************************)
EXTENDS Naturals

CONSTANTS Cap,        \* records that fit in the ring
          WakeEvery   \* records between two reports of the perf fd

\* WakeUp::on "must be properly set": a report comes before the ring is full.
ASSUME WakeAssumption == /\ Cap \in Nat \ {0}
                         /\ WakeEvery \in 1..Cap

VARIABLES avail,      \* records in the ring
          since,      \* records written since the last report
          poll_in,    \* a report nobody has collected (EPOLLIN)
          hup,        \* the target is gone (EPOLLHUP)
          close,      \* Wait.close was written
          state,      \* Wait.state
          waker,      \* Wait.waker holds the task's waker
          notified,   \* the task was woken and not yet polled
          thread,     \* where the spawned thread is
          task,       \* where the task is in poll_next, or what it does
          exhausted   \* history: poll_next has returned Ready(None)

kernel == <<avail, since, poll_in, hup>>
vars == <<avail, since, poll_in, hup, close, state, waker, notified, thread, task,
          exhausted>>

-----------------------------------------------------------------------------
(* The kernel (external).                                                   *)

\* A record that finds no room is lost and counts for nothing.
Emit ==
  /\ ~hup
  /\ avail < Cap
  /\ avail' = avail + 1
  /\ since' = (IF since + 1 = WakeEvery THEN 0 ELSE since + 1)
  /\ poll_in' = (poll_in \/ since + 1 = WakeEvery)
  /\ UNCHANGED <<hup, close, state, waker, notified, thread, task, exhausted>>

HangUp ==
  /\ ~hup
  /\ hup' = TRUE
  /\ UNCHANGED <<avail, since, poll_in, close, state, waker, notified, thread, task,
                 exhausted>>

-----------------------------------------------------------------------------
(* The thread spawned by into_async.                                        *)

\* epoll_wait returns the close event.
EpollClose ==
  /\ thread = "epoll"
  /\ close
  /\ thread' = "done"
  /\ UNCHANGED <<kernel, close, state, waker, notified, task, exhausted>>

\* It returns EPOLLIN of the perf fd; the report is collected.
EpollIn ==
  /\ thread = "epoll"
  /\ poll_in /\ ~hup
  /\ poll_in' = FALSE
  /\ thread' = "store_wake"
  /\ UNCHANGED <<avail, since, hup, close, state, waker, notified, task, exhausted>>

\* It returns EPOLLHUP of the perf fd.
EpollHup ==
  /\ thread = "epoll"
  /\ hup
  /\ thread' = "store_hang"
  /\ UNCHANGED <<kernel, close, state, waker, notified, task, exhausted>>

StoreWake ==
  /\ thread = "store_wake"
  /\ state' = "WAKE"
  /\ thread' = "wake"
  /\ UNCHANGED <<kernel, close, waker, notified, task, exhausted>>

\* Mutant of StoreHang: the hang-up is stored like any other report.
StoreHangAsWake ==
  /\ thread = "store_hang"
  /\ state' = "WAKE"
  /\ thread' = "wake_last"
  /\ UNCHANGED <<kernel, close, waker, notified, task, exhausted>>

StoreHang ==
  /\ thread = "store_hang"
  /\ state' = "HANG"
  /\ thread' = "wake_last"
  /\ UNCHANGED <<kernel, close, waker, notified, task, exhausted>>

\* Mutant of WakeTask: the waker is taken and not woken.
WakeNobody == waker' = FALSE /\ UNCHANGED notified

\* AtomicWaker::wake: takes the waker, if there is one, and wakes it.
WakeTask == /\ waker' = FALSE
            /\ notified' = (notified \/ waker)

Wake ==
  /\ thread \in {"wake", "wake_last"}
  /\ WakeTask
  /\ thread' = IF thread = "wake" THEN "epoll" ELSE "done"
  /\ UNCHANGED <<kernel, close, state, task, exhausted>>

-----------------------------------------------------------------------------
(* AsyncCowIter::poll_next.                                                 *)

\* The task is polled for the first time, after Ready, because it was woken,
\* or for no reason of ours (a join or a select over several futures).
StartPoll ==
  /\ task \in {"idle", "parked"}
  /\ notified' = FALSE
  /\ task' = "pop"
  /\ UNCHANGED <<kernel, close, state, waker, thread, exhausted>>

\* lending_pop, in one of its three places: a record makes poll_next Ready.
PopSome(place) ==
  /\ task = place
  /\ avail > 0
  /\ avail' = avail - 1
  /\ task' = "idle"
  /\ UNCHANGED <<since, poll_in, hup, close, state, waker, notified, thread, exhausted>>

PopNone(place, next) ==
  /\ task = place
  /\ avail = 0
  /\ task' = next
  /\ UNCHANGED <<kernel, close, state, waker, notified, thread, exhausted>>

\* The pop that poll_next starts with.
PopFirst == PopSome("pop") \/ PopNone("pop", "register")

Register ==
  /\ task = "register"
  /\ waker' = TRUE
  /\ task' = "cas"
  /\ UNCHANGED <<kernel, close, state, notified, thread, exhausted>>

\* Mutant of Cas: the exchange consumes a hang-up as well.
CasAny ==
  /\ task = "cas"
  /\ state' = "WAIT"
  /\ task' = IF state = "WAIT" THEN "parked" ELSE
             IF state = "WAKE" THEN "pop_wake" ELSE "pop_hang"
  /\ UNCHANGED <<kernel, close, waker, notified, thread, exhausted>>

\* The compare-exchange of WAKE by WAIT.  Its spurious failure is retried.
Cas ==
  /\ task = "cas"
  /\ \/ state = "WAIT" /\ task' = "parked"   /\ UNCHANGED state
     \/ state = "WAKE" /\ task' = "pop_wake" /\ state' = "WAIT"
     \/ state = "HANG" /\ task' = "pop_hang" /\ UNCHANGED state
  /\ UNCHANGED <<kernel, close, waker, notified, thread, exhausted>>

\* Mutant of PopAfterWake: a consumed report makes poll_next Pending at once.
ParkAfterWake ==
  /\ task = "pop_wake"
  /\ task' = "parked"
  /\ UNCHANGED <<kernel, close, state, waker, notified, thread, exhausted>>

PopAfterWake == PopSome("pop_wake") \/ PopNone("pop_wake", "parked")

\* Mutant of PopAfterHang: a hang-up ends the iterator with records unread.
EndAtHang ==
  /\ task = "pop_hang"
  /\ task' = "idle"
  /\ exhausted' = TRUE
  /\ UNCHANGED <<kernel, close, state, waker, notified, thread>>

\* After a hang-up poll_next is always Ready, with None once the ring is empty.
PopAfterHang ==
  \/ PopSome("pop_hang")
  \/ /\ task = "pop_hang"
     /\ avail = 0
     /\ task' = "idle"
     /\ exhausted' = TRUE
     /\ UNCHANGED <<kernel, close, state, waker, notified, thread>>

\* Mutant of Drop: the thread is not told.
DropSilently ==
  /\ task \in {"idle", "parked"}
  /\ task' = "dropped"
  /\ UNCHANGED <<kernel, close, state, waker, notified, thread, exhausted>>

\* Drop for AsyncCowIter: eventfd_write to close.
Drop ==
  /\ task \in {"idle", "parked"}
  /\ task' = "dropped"
  /\ close' = TRUE
  /\ UNCHANGED <<kernel, state, waker, notified, thread, exhausted>>

-----------------------------------------------------------------------------
\* into_async has added the perf fd to the epoll instance, which polls it once
\* and so collects any report of the records already there.
Init ==
  /\ avail \in 0..Cap
  /\ since \in 0..(WakeEvery - 1)
  /\ poll_in = FALSE
  /\ hup \in BOOLEAN
  /\ close = FALSE
  /\ state = "WAIT"
  /\ waker = FALSE
  /\ notified = FALSE
  /\ thread = "epoll"
  /\ task = "idle"
  /\ exhausted = FALSE

Kernel == Emit \/ HangUp
Thread == EpollClose \/ EpollIn \/ EpollHup \/ StoreWake \/ StoreHang \/ Wake
PollNext == PopFirst \/ Register \/ Cas \/ PopAfterWake \/ PopAfterHang

Next == Kernel \/ Thread \/ StartPoll \/ PollNext \/ Drop

Spec == Init /\ [][Next]_vars

\* The thread runs; poll_next runs to its end; the executor polls a task that
\* was woken; the user of the iterator asks for the next record until None.
PollWoken == (task = "idle" \/ notified) /\ ~exhausted /\ StartPoll

FairSpec == /\ Spec
            /\ WF_vars(Thread)
            /\ WF_vars(PollNext)
            /\ WF_vars(PollWoken)

-----------------------------------------------------------------------------
TypeOK ==
  /\ avail \in 0..Cap
  /\ since \in 0..(WakeEvery - 1)
  /\ poll_in \in BOOLEAN
  /\ hup \in BOOLEAN
  /\ close \in BOOLEAN
  /\ state \in {"WAIT", "WAKE", "HANG"}
  /\ waker \in BOOLEAN
  /\ notified \in BOOLEAN
  /\ thread \in {"epoll", "store_wake", "wake", "store_hang", "wake_last", "done"}
  /\ task \in {"idle", "parked", "pop", "register", "cas", "pop_wake", "pop_hang",
               "dropped"}
  /\ exhausted \in BOOLEAN

\* Nothing is on its way to the task: neither the kernel nor the thread has
\* anything for it, and it was not woken.
NothingComing == ~poll_in /\ ~hup /\ thread = "epoll" /\ ~notified

\* A task that poll_next left Pending, and that nothing is going to wake, has
\* left fewer records in the ring than the next report is made of, all of them
\* written since the last one.  No report gets lost between the thread's store
\* and wake and the task's pop, register and compare-exchange.
NoLostWakeup ==
  task = "parked" /\ NothingComing => waker /\ avail <= since

\* Ready(None) is final: it is returned only when the target is gone and the
\* ring is empty, so no record is left behind and none can come.
NoneIsFinal == exhausted => hup /\ avail = 0

\* The hang-up, once the thread has stored it, is not consumed by any poll.
HangSticks == [][state = "HANG" => state' = "HANG"]_vars

\* A task is never left parked with a full report's worth of records.
ParkedIsWoken == (task = "parked" /\ avail >= WakeEvery) ~> (task # "parked")

\* When the target is gone, the iterator comes to its end, unless it is dropped.
HangUpEnds == hup ~> (exhausted \/ task = "dropped")

\* Dropping the iterator ends the thread.
DropEndsThread == (task = "dropped") ~> (thread = "done")

-----------------------------------------------------------------------------
(* The inductive invariant behind the safety properties.                    *)

\* Until the compare-exchange: if more than the records since the last report
\* are in the ring, that report is still to be seen in state.
ReportAhead ==
  task \in {"register", "cas"} =>
    avail <= since \/ poll_in \/ hup \/ thread = "store_wake" \/ state = "WAKE"

\* After it: that report is still to wake the task.
WakeAhead ==
  task = "parked" =>
    avail <= since \/ poll_in \/ hup \/ thread \in {"store_wake", "wake"} \/ notified

\* Once registered, the waker is in place or was woken.
WakerKept ==
  task \in {"cas", "pop_wake", "pop_hang", "parked"} => waker \/ notified

\* HANG means that the target is gone, and the thread is past its loop.
HangMeansHup ==
  /\ state = "HANG" => hup /\ thread \in {"wake_last", "done"}
  /\ thread \in {"store_hang", "wake_last"} \/ task = "pop_hang" => hup

IInv == /\ TypeOK
        /\ ReportAhead
        /\ WakeAhead
        /\ WakerKept
        /\ HangMeansHup
        /\ NoneIsFinal
=============================================================================
