------------------------------- MODULE AsyncPair -------------------------------
(***************************************************************************)
(* Several asynchronous iterators of one sampler: of its records           *)
(* (src/src/sample/iter/cow.rs) and of its AUX area (src/src/sample/       *)
(* auxiliary/iter/cow.rs).  Each has its ring, its task, its Wait and its  *)
(* thread, and runs the protocol of AsyncIter.  They share the perf fd:    *)
(* each thread has an epoll instance with that fd in it.                   *)
(*                                                                         *)
(* External: a poll of a perf fd takes the report away (perf_poll exchanges *)
(* rb->poll for 0), so of several epoll instances one gets it, and the     *)
(* poll that EPOLL_CTL_ADD makes takes it from all.  A hang-up stays.      *)
(***************************************************************************)
EXTENDS Naturals

CONSTANTS Iters,      \* the iterators
          Cap,        \* chunks that fit in each ring
          WakeEvery   \* chunks of a ring between two of its reports

ASSUME PairAssumption == /\ Iters # {}
                         /\ Cap \in Nat \ {0}
                         /\ WakeEvery \in 1..Cap

VARIABLES poll_in,    \* a report nobody has collected (EPOLLIN)
          hup,        \* the target is gone (EPOLLHUP)
          iter        \* per iterator: its ring, its Wait, its thread, its task

vars == <<poll_in, hup, iter>>

\* Iterator i changes to r.
Becomes(i, r) == iter' = [iter EXCEPT ![i] = r]

-----------------------------------------------------------------------------
(* The kernel (external).                                                   *)

Emit(i) ==
  /\ ~hup
  /\ iter[i].avail < Cap
  /\ LET report == iter[i].since + 1 = WakeEvery
     IN  /\ Becomes(i, [iter[i] EXCEPT !.avail = @ + 1,
                                       !.since = IF report THEN 0 ELSE @ + 1])
         /\ poll_in' = (poll_in \/ report)
  /\ UNCHANGED hup

HangUp ==
  /\ ~hup
  /\ hup' = TRUE
  /\ UNCHANGED <<poll_in, iter>>

-----------------------------------------------------------------------------
(* into_async, and the thread it spawns.                                    *)

IntoAsync(i) ==
  /\ iter[i].thread = "none"
  /\ poll_in' = FALSE
  /\ Becomes(i, [iter[i] EXCEPT !.thread = "epoll", !.task = "idle"])
  /\ UNCHANGED hup

EpollClose(i) ==
  /\ iter[i].thread = "epoll" /\ iter[i].close
  /\ Becomes(i, [iter[i] EXCEPT !.thread = "done"])
  /\ UNCHANGED <<poll_in, hup>>

EpollIn(i) ==
  /\ iter[i].thread = "epoll" /\ poll_in /\ ~hup
  /\ poll_in' = FALSE
  /\ Becomes(i, [iter[i] EXCEPT !.thread = "store_wake"])
  /\ UNCHANGED hup

EpollHup(i) ==
  /\ iter[i].thread = "epoll" /\ hup
  /\ Becomes(i, [iter[i] EXCEPT !.thread = "store_hang"])
  /\ UNCHANGED <<poll_in, hup>>

Store(i) ==
  /\ iter[i].thread \in {"store_wake", "store_hang"}
  /\ Becomes(i, [iter[i] EXCEPT
       !.state = IF iter[i].thread = "store_hang" THEN "HANG" ELSE "WAKE",
       !.thread = IF iter[i].thread = "store_hang" THEN "wake_last" ELSE "wake"])
  /\ UNCHANGED <<poll_in, hup>>

\* AtomicWaker::wake; after a hang-up the thread ends.
Wake(i) ==
  /\ iter[i].thread \in {"wake", "wake_last"}
  /\ Becomes(i, [iter[i] EXCEPT
       !.waker = FALSE,
       !.notified = iter[i].notified \/ iter[i].waker,
       !.thread = IF iter[i].thread = "wake_last" THEN "done" ELSE "epoll"])
  /\ UNCHANGED <<poll_in, hup>>

-----------------------------------------------------------------------------
(* AsyncCowIter::poll_next, and its drop.                                   *)

StartPoll(i) ==
  /\ iter[i].task \in {"idle", "parked"}
  /\ Becomes(i, [iter[i] EXCEPT !.notified = FALSE, !.task = "pop"])
  /\ UNCHANGED <<poll_in, hup>>

\* lending_pop, in one of its three places, finds a chunk: Ready.
PopSome(i) ==
  /\ iter[i].task \in {"pop", "pop_wake", "pop_hang"} /\ iter[i].avail > 0
  /\ Becomes(i, [iter[i] EXCEPT !.avail = @ - 1, !.task = "idle"])
  /\ UNCHANGED <<poll_in, hup>>

\* It finds none: the task registers, is Pending, or after a hang-up has None.
PopNone(i) ==
  /\ iter[i].task \in {"pop", "pop_wake", "pop_hang"} /\ iter[i].avail = 0
  /\ Becomes(i, [iter[i] EXCEPT
       !.task = IF iter[i].task = "pop" THEN "register"
                ELSE IF iter[i].task = "pop_wake" THEN "parked" ELSE "idle",
       !.exhausted = iter[i].exhausted \/ iter[i].task = "pop_hang"])
  /\ UNCHANGED <<poll_in, hup>>

\* Mutant of Register: the wake-up that came before is consumed here.
RegisterAndClear(i) ==
  /\ iter[i].task = "register"
  /\ Becomes(i, [iter[i] EXCEPT !.waker = TRUE, !.task = "cas",
                                !.state = IF @ = "WAKE" THEN "WAIT" ELSE @])
  /\ UNCHANGED <<poll_in, hup>>

Register(i) ==
  /\ iter[i].task = "register"
  /\ Becomes(i, [iter[i] EXCEPT !.waker = TRUE, !.task = "cas"])
  /\ UNCHANGED <<poll_in, hup>>

\* Mutant of Cas: whatever is not WAIT is taken for HANG.
CasHang(i) ==
  /\ iter[i].task = "cas"
  /\ Becomes(i, [iter[i] EXCEPT
       !.task = IF iter[i].state = "WAIT" THEN "parked" ELSE "pop_hang",
       !.state = IF iter[i].state = "WAKE" THEN "WAIT" ELSE iter[i].state])
  /\ UNCHANGED <<poll_in, hup>>

Cas(i) ==
  /\ iter[i].task = "cas"
  /\ Becomes(i, [iter[i] EXCEPT
       !.task = IF iter[i].state = "WAIT" THEN "parked"
                ELSE IF iter[i].state = "WAKE" THEN "pop_wake" ELSE "pop_hang",
       !.state = IF iter[i].state = "WAKE" THEN "WAIT" ELSE iter[i].state])
  /\ UNCHANGED <<poll_in, hup>>

\* Mutant of Drop: the thread is not told.
DropSilently(i) ==
  /\ iter[i].task \in {"idle", "parked"}
  /\ Becomes(i, [iter[i] EXCEPT !.task = "dropped"])
  /\ UNCHANGED <<poll_in, hup>>

Drop(i) ==
  /\ iter[i].task \in {"idle", "parked"}
  /\ Becomes(i, [iter[i] EXCEPT !.task = "dropped", !.close = TRUE])
  /\ UNCHANGED <<poll_in, hup>>

-----------------------------------------------------------------------------
\* No iterator is asynchronous yet; the rings may have something in them.
Init ==
  /\ poll_in \in BOOLEAN
  /\ hup \in BOOLEAN
  /\ iter \in [Iters -> [avail : 0..Cap, since : 0..(WakeEvery - 1), close : {FALSE},
                         state : {"WAIT"}, waker : {FALSE}, notified : {FALSE},
                         thread : {"none"}, task : {"none"}, exhausted : {FALSE}]]

Thread(i) == EpollClose(i) \/ EpollIn(i) \/ EpollHup(i) \/ Store(i) \/ Wake(i)
PollNext(i) == PopSome(i) \/ PopNone(i) \/ Register(i) \/ Cas(i)

Next == \/ HangUp
        \/ \E i \in Iters : \/ Emit(i) \/ IntoAsync(i) \/ Thread(i)
                            \/ StartPoll(i) \/ PollNext(i) \/ Drop(i)

Spec == Init /\ [][Next]_vars

\* As in AsyncIter, for each iterator; and epoll_wait, asked for one event at a
\* time, rotates its ready list, so that reports do not keep back the close event.
PollWoken(i) ==
  (iter[i].task = "idle" \/ iter[i].notified) /\ ~iter[i].exhausted /\ StartPoll(i)

FairSpec == Spec /\ \A i \in Iters : /\ WF_vars(Thread(i))
                                     /\ SF_vars(EpollClose(i))
                                     /\ WF_vars(PollNext(i) \/ PollWoken(i))

-----------------------------------------------------------------------------
IterType ==
  [avail : 0..Cap, since : 0..(WakeEvery - 1), close : BOOLEAN,
   state : {"WAIT", "WAKE", "HANG"}, waker : BOOLEAN, notified : BOOLEAN,
   thread : {"none", "epoll", "store_wake", "wake", "store_hang", "wake_last", "done"},
   task : {"none", "idle", "parked", "pop", "register", "cas", "pop_wake", "pop_hang",
           "dropped"},
   exhausted : BOOLEAN]

TypeOK == /\ poll_in \in BOOLEAN
          /\ hup \in BOOLEAN
          /\ iter \in [Iters -> IterType]

\* Iterator i is Pending and nothing is on its way to it.
Stuck(i) == /\ iter[i].task = "parked"
            /\ ~poll_in /\ ~hup
            /\ iter[i].thread = "epoll" /\ ~iter[i].notified

\* A report that goes to the wrong iterator is not lost on all: when all are
\* stuck, one of them at least has less in its ring than makes a report.
SomeoneIsServed ==
  (\A i \in Iters : Stuck(i)) =>
    \E i \in Iters : iter[i].waker /\ iter[i].avail <= iter[i].since

\* No iterator ends for what happens to another: only a hang-up makes None, when
\* the iterator's own ring is empty.
NoneIsFinal == \A i \in Iters : iter[i].exhausted => hup /\ iter[i].avail = 0

\* A hang-up reaches every iterator, unlike a report, and a drop its own thread:
\* after either the thread ends, and the user has seen None or no longer looks.
ComesToAnEnd == \A i \in Iters :
  ((iter[i].thread # "none" /\ hup) \/ iter[i].task = "dropped")
    ~> (iter[i].thread = "done" /\ (iter[i].exhausted \/ iter[i].task = "dropped"))

\* An iterator is never left parked with a report's worth in its ring.
ParkedIsWoken == \A i \in Iters :
  (iter[i].task = "parked" /\ iter[i].avail >= WakeEvery) ~> (iter[i].task # "parked")

-----------------------------------------------------------------------------
(* The inductive invariant behind the safety properties.                    *)

\* What is in the ring of i is less than a report, or a report is ahead that i
\* will see: in state until the compare-exchange, as a wake-up after it.
Ahead(i) ==
  LET it == iter[i]
      less == it.avail <= it.since \/ poll_in \/ hup \/ it.thread = "store_wake"
  IN  /\ it.task \in {"register", "cas"} => less \/ it.state = "WAKE"
      /\ it.task = "parked" => less \/ it.thread = "wake" \/ it.notified

\* Once registered, the waker is in place or was woken.
WakerKept(i) ==
  iter[i].task \in {"cas", "pop_wake", "pop_hang", "parked"} =>
    iter[i].waker \/ iter[i].notified

\* HANG means that the target is gone, and the thread is past its loop.
HangMeansHup(i) ==
  /\ iter[i].state = "HANG" => hup /\ iter[i].thread \in {"wake_last", "done"}
  /\ iter[i].thread \in {"store_hang", "wake_last"} \/ iter[i].task = "pop_hang" => hup

\* Whoever takes a report away from another has it himself.
SomeoneAhead == \E i \in Iters : Ahead(i)

IInv == /\ TypeOK
        /\ SomeoneAhead
        /\ \A i \in Iters : WakerKept(i) /\ HangMeansHup(i)
        /\ NoneIsFinal
=============================================================================
