--------------------------- MODULE AsyncPair_proofs ---------------------------
(* Proofs about AsyncPair, for any number of iterators on one perf fd, every *)
(* ring size and every wake-up interval.                                     *)
EXTENDS AsyncPair, TLAPS

LEMMA InvInit == Init => IInv
<1> SUFFICES ASSUME Init PROVE IInv OBVIOUS
<1>1. /\ iter \in [Iters -> IterType]
      /\ \A i \in Iters : /\ iter[i].task = "none" /\ iter[i].thread = "none"
                          /\ iter[i].state = "WAIT" /\ iter[i].exhausted = FALSE
  BY DEF Init, IterType
<1>2. TypeOK BY <1>1 DEF Init, TypeOK
<1>3. \A i \in Iters : Ahead(i) BY <1>1 DEF Ahead
<1>4. SomeoneAhead BY <1>3, PairAssumption DEF SomeoneAhead
<1>5. \A i \in Iters : WakerKept(i) /\ HangMeansHup(i)
  BY <1>1 DEF WakerKept, HangMeansHup
<1>6. NoneIsFinal BY <1>1 DEF NoneIsFinal
<1> QED BY <1>2, <1>4, <1>5, <1>6 DEF IInv

\* What a step of iterator k must do for the invariant: a report is taken only
\* by one who then has it, and a hang-up is not undone.
LEMMA StepOfOne ==
  ASSUME IInv, NEW k \in Iters, NEW r \in IterType, Becomes(k, r),
         poll_in' \in BOOLEAN, hup' \in BOOLEAN, hup => hup',
         (poll_in => poll_in') \/ Ahead(k)', Ahead(k) => Ahead(k)',
         WakerKept(k)', HangMeansHup(k)', r.exhausted => hup' /\ r.avail = 0
  PROVE  IInv'
<1>1. /\ iter \in [Iters -> IterType] /\ iter' \in [Iters -> IterType]
      /\ iter'[k] = r
      /\ \A i \in Iters \ {k} : iter'[i] = iter[i]
  BY DEF IInv, TypeOK, Becomes
<1>2. TypeOK' BY <1>1 DEF TypeOK
<1>3. SomeoneAhead'
  <2>1. PICK w \in Iters : Ahead(w) BY DEF IInv, SomeoneAhead
  <2>2. CASE Ahead(k)' BY <2>2 DEF SomeoneAhead
  <2>3. CASE ~Ahead(k)'
    <3>1. w # k /\ (poll_in => poll_in') BY <2>1, <2>3
    <3>2. iter'[w] = iter[w] BY <1>1, <3>1
    <3>3. Ahead(w)' BY <2>1, <3>1, <3>2 DEF Ahead
    <3> QED BY <3>3 DEF SomeoneAhead
  <2> QED BY <2>2, <2>3
<1>4. ASSUME NEW i \in Iters
      PROVE  WakerKept(i)' /\ HangMeansHup(i)' /\ (iter[i].exhausted => hup /\ iter[i].avail = 0)'
  <2>1. CASE i = k BY <1>1, <2>1
  <2>2. CASE i # k
    <3>1. iter'[i] = iter[i] BY <1>1, <2>2
    <3> QED BY <3>1 DEF IInv, WakerKept, HangMeansHup, NoneIsFinal
  <2> QED BY <2>1, <2>2
<1> QED BY <1>2, <1>3, <1>4 DEF IInv, NoneIsFinal

\* The kernel writes a chunk to the ring of k.
LEMMA EmitStep == ASSUME IInv, NEW k \in Iters, Emit(k) PROVE IInv'
<1> DEFINE report == iter[k].since + 1 = WakeEvery
           next == IF report THEN 0 ELSE iter[k].since + 1
           r == [iter[k] EXCEPT !.avail = iter[k].avail + 1, !.since = next]
<1>1. /\ iter[k] \in IterType /\ Cap \in Nat /\ WakeEvery \in 1..Cap
      /\ iter \in [Iters -> IterType]
      /\ iter[k].avail < Cap /\ ~hup /\ hup' = hup
      /\ Becomes(k, r) /\ poll_in' = (poll_in \/ report) /\ iter'[k] = r
      /\ poll_in \in BOOLEAN /\ hup \in BOOLEAN
  BY PairAssumption DEF IInv, TypeOK, Emit, Becomes
<1>2. /\ iter[k].avail \in Nat /\ iter[k].since \in 0..(WakeEvery - 1)
      /\ iter[k].avail + 1 \in 0..Cap
  BY <1>1 DEF IterType
<1>3. next \in 0..(WakeEvery - 1) /\ (~report => next = iter[k].since + 1)
  BY <1>1, <1>2
<1>4. ~iter[k].exhausted BY <1>1 DEF IInv, NoneIsFinal
<1> HIDE DEF report, next
<1>5. r \in IterType BY <1>1, <1>2, <1>3 DEF IterType
<1>6. /\ r.avail = iter[k].avail + 1 /\ r.since = next
      /\ r.task = iter[k].task /\ r.thread = iter[k].thread /\ r.state = iter[k].state
      /\ r.waker = iter[k].waker /\ r.notified = iter[k].notified
      /\ r.exhausted = iter[k].exhausted
  BY <1>1 DEF IterType
<1> HIDE DEF r
<1>7. WakerKept(k)' /\ HangMeansHup(k)'
  BY <1>1, <1>6 DEF IInv, WakerKept, HangMeansHup
<1>8. Ahead(k) => Ahead(k)'
  <2>1. CASE report BY <1>1, <2>1 DEF Ahead
  <2>2. CASE ~report
    <3>1. iter[k].avail <= iter[k].since => iter'[k].avail <= iter'[k].since
      BY <1>1, <1>2, <1>3, <1>6, <2>2
    <3> QED BY <1>1, <1>6, <2>2, <3>1 DEF Ahead
  <2> QED BY <2>1, <2>2
<1> QED BY <1>1, <1>4, <1>5, <1>6, <1>7, <1>8, StepOfOne

\* The thread of iterator k.
LEMMA ThreadStep == ASSUME IInv, NEW k \in Iters, IntoAsync(k) \/ Thread(k) PROVE IInv'
<1>1. /\ iter[k] \in IterType /\ poll_in \in BOOLEAN /\ hup \in BOOLEAN
      /\ iter \in [Iters -> IterType]
      /\ WakerKept(k) /\ HangMeansHup(k) /\ (iter[k].exhausted => hup /\ iter[k].avail = 0)
  BY DEF IInv, TypeOK, NoneIsFinal
<1>2. CASE IntoAsync(k)
  <2> DEFINE r == [iter[k] EXCEPT !.thread = "epoll", !.task = "idle"]
  <2>1. /\ Becomes(k, r) /\ iter'[k] = r /\ poll_in' = FALSE /\ hup' = hup
        /\ iter[k].thread = "none"
    BY <1>1, <1>2 DEF IntoAsync, Becomes
  <2>2. r \in IterType BY <1>1 DEF IterType
  <2>3. Ahead(k)' /\ WakerKept(k)' BY <1>1, <2>1 DEF Ahead, WakerKept, IterType
  <2>4. HangMeansHup(k)' BY <1>1, <2>1 DEF HangMeansHup, IterType
  <2>5. r.exhausted => hup' /\ r.avail = 0 BY <1>1, <2>1 DEF IterType
  <2> HIDE DEF r
  <2> QED BY <1>1, <2>1, <2>2, <2>3, <2>4, <2>5, StepOfOne
<1>3. CASE EpollClose(k)
  <2> DEFINE r == [iter[k] EXCEPT !.thread = "done"]
  <2>1. /\ Becomes(k, r) /\ iter'[k] = r /\ poll_in' = poll_in /\ hup' = hup
        /\ iter[k].thread = "epoll"
    BY <1>1, <1>3 DEF EpollClose, Becomes
  <2>2. r \in IterType BY <1>1 DEF IterType
  <2>3. Ahead(k) => Ahead(k)' BY <1>1, <2>1 DEF Ahead, IterType
  <2>4. WakerKept(k)' /\ HangMeansHup(k)'
    BY <1>1, <2>1 DEF WakerKept, HangMeansHup, IterType
  <2>5. r.exhausted => hup' /\ r.avail = 0 BY <1>1, <2>1 DEF IterType
  <2> HIDE DEF r
  <2> QED BY <1>1, <2>1, <2>2, <2>3, <2>4, <2>5, StepOfOne
<1>4. CASE EpollIn(k)
  <2> DEFINE r == [iter[k] EXCEPT !.thread = "store_wake"]
  <2>1. /\ Becomes(k, r) /\ iter'[k] = r /\ poll_in' = FALSE /\ hup' = hup
        /\ iter[k].thread = "epoll"
    BY <1>1, <1>4 DEF EpollIn, Becomes
  <2>2. r \in IterType BY <1>1 DEF IterType
  <2>3. Ahead(k)' BY <1>1, <2>1 DEF Ahead, IterType
  <2>4. WakerKept(k)' /\ HangMeansHup(k)'
    BY <1>1, <2>1 DEF WakerKept, HangMeansHup, IterType
  <2>5. r.exhausted => hup' /\ r.avail = 0 BY <1>1, <2>1 DEF IterType
  <2> HIDE DEF r
  <2> QED BY <1>1, <2>1, <2>2, <2>3, <2>4, <2>5, StepOfOne
<1>5. CASE EpollHup(k)
  <2> DEFINE r == [iter[k] EXCEPT !.thread = "store_hang"]
  <2>1. /\ Becomes(k, r) /\ iter'[k] = r /\ poll_in' = poll_in /\ hup' = hup
        /\ iter[k].thread = "epoll" /\ hup
    BY <1>1, <1>5 DEF EpollHup, Becomes
  <2>2. r \in IterType BY <1>1 DEF IterType
  <2>3. Ahead(k)' BY <1>1, <2>1 DEF Ahead, IterType
  <2>4. WakerKept(k)' /\ HangMeansHup(k)'
    BY <1>1, <2>1 DEF WakerKept, HangMeansHup, IterType
  <2>5. r.exhausted => hup' /\ r.avail = 0 BY <1>1, <2>1 DEF IterType
  <2> HIDE DEF r
  <2> QED BY <1>1, <2>1, <2>2, <2>3, <2>4, <2>5, StepOfOne
<1>6. CASE Store(k)
  <2> DEFINE hang == iter[k].thread = "store_hang"
             r == [iter[k] EXCEPT !.state = IF hang THEN "HANG" ELSE "WAKE",
                                  !.thread = IF hang THEN "wake_last" ELSE "wake"]
  <2>1. /\ Becomes(k, r) /\ iter'[k] = r /\ poll_in' = poll_in /\ hup' = hup
        /\ iter[k].thread \in {"store_wake", "store_hang"}
    BY <1>1, <1>6 DEF Store, Becomes
  <2>2. r \in IterType BY <1>1 DEF IterType
  <2>3. Ahead(k)'
    <3>1. CASE hang BY <1>1, <2>1, <3>1 DEF Ahead, HangMeansHup, IterType
    <3>2. CASE ~hang BY <1>1, <2>1, <3>2 DEF Ahead, IterType
    <3> QED BY <3>1, <3>2
  <2>4. WakerKept(k)' /\ HangMeansHup(k)'
    BY <1>1, <2>1 DEF WakerKept, HangMeansHup, IterType
  <2>5. r.exhausted => hup' /\ r.avail = 0 BY <1>1, <2>1 DEF IterType
  <2> HIDE DEF r, hang
  <2> QED BY <1>1, <2>1, <2>2, <2>3, <2>4, <2>5, StepOfOne
<1>7. CASE Wake(k)
  <2> DEFINE note == iter[k].notified \/ iter[k].waker
             r == [iter[k] EXCEPT
                     !.waker = FALSE, !.notified = note,
                     !.thread = IF iter[k].thread = "wake_last" THEN "done" ELSE "epoll"]
  <2>1. /\ Becomes(k, r) /\ iter'[k] = r /\ poll_in' = poll_in /\ hup' = hup
        /\ iter[k].thread \in {"wake", "wake_last"}
    BY <1>1, <1>7 DEF Wake, Becomes
  <2>6. note \in BOOLEAN /\ (iter[k].waker \/ iter[k].notified => note) OBVIOUS
  <2> HIDE DEF note
  <2>2. r \in IterType BY <1>1, <2>6 DEF IterType
  <2>3. WakerKept(k)' /\ HangMeansHup(k)'
    BY <1>1, <2>1, <2>6 DEF WakerKept, HangMeansHup, IterType
  <2>4. Ahead(k) => Ahead(k)'
    BY <1>1, <2>1, <2>6 DEF Ahead, WakerKept, HangMeansHup, IterType
  <2>5. r.exhausted => hup' /\ r.avail = 0 BY <1>1, <2>1 DEF IterType
  <2> HIDE DEF r
  <2> QED BY <1>1, <2>1, <2>2, <2>3, <2>4, <2>5, StepOfOne
<1> QED BY <1>2, <1>3, <1>4, <1>5, <1>6, <1>7 DEF Thread

\* The task of iterator k.
LEMMA TaskStep ==
  ASSUME IInv, NEW k \in Iters, StartPoll(k) \/ PollNext(k) \/ Drop(k) PROVE IInv'
<1>1. /\ iter[k] \in IterType /\ poll_in \in BOOLEAN /\ hup \in BOOLEAN
      /\ iter \in [Iters -> IterType]
      /\ WakerKept(k) /\ HangMeansHup(k) /\ (iter[k].exhausted => hup /\ iter[k].avail = 0)
  BY DEF IInv, TypeOK, NoneIsFinal
<1>2. CASE StartPoll(k)
  <2> DEFINE r == [iter[k] EXCEPT !.notified = FALSE, !.task = "pop"]
  <2>1. /\ Becomes(k, r) /\ iter'[k] = r /\ poll_in' = poll_in /\ hup' = hup
    BY <1>1, <1>2 DEF StartPoll, Becomes
  <2>2. r \in IterType BY <1>1 DEF IterType
  <2>3. Ahead(k)' /\ WakerKept(k)' BY <1>1, <2>1 DEF Ahead, WakerKept, IterType
  <2>4. HangMeansHup(k)' BY <1>1, <2>1 DEF HangMeansHup, IterType
  <2>5. r.exhausted => hup' /\ r.avail = 0 BY <1>1, <2>1 DEF IterType
  <2> HIDE DEF r
  <2> QED BY <1>1, <2>1, <2>2, <2>3, <2>4, <2>5, StepOfOne
<1>3. CASE PopSome(k)
  <2> DEFINE r == [iter[k] EXCEPT !.avail = iter[k].avail - 1, !.task = "idle"]
  <2>1. /\ Becomes(k, r) /\ iter'[k] = r /\ poll_in' = poll_in /\ hup' = hup
        /\ iter[k].avail > 0
    BY <1>1, <1>3 DEF PopSome, Becomes
  <2>2. iter[k].avail - 1 \in 0..Cap BY <1>1, <2>1, PairAssumption DEF IterType
  <2>3. r \in IterType BY <1>1, <2>2 DEF IterType
  <2>4. Ahead(k)' /\ WakerKept(k)' BY <1>1, <2>1 DEF Ahead, WakerKept, IterType
  <2>5. HangMeansHup(k)' BY <1>1, <2>1 DEF HangMeansHup, IterType
  <2>6. ~r.exhausted BY <1>1, <2>1 DEF IterType
  <2> HIDE DEF r
  <2> QED BY <1>1, <2>1, <2>3, <2>4, <2>5, <2>6, StepOfOne
<1>4. CASE PopNone(k)
  <2> DEFINE ends == iter[k].exhausted \/ iter[k].task = "pop_hang"
             r == [iter[k] EXCEPT
                     !.task = IF iter[k].task = "pop" THEN "register"
                              ELSE IF iter[k].task = "pop_wake" THEN "parked" ELSE "idle",
                     !.exhausted = ends]
  <2>1. /\ Becomes(k, r) /\ iter'[k] = r /\ poll_in' = poll_in /\ hup' = hup
        /\ iter[k].avail = 0 /\ iter[k].task \in {"pop", "pop_wake", "pop_hang"}
    BY <1>1, <1>4 DEF PopNone, Becomes
  <2>2. ends \in BOOLEAN /\ (ends => hup)
    BY <1>1 DEF HangMeansHup, IterType
  <2> HIDE DEF ends
  <2>3. r \in IterType BY <1>1, <2>2 DEF IterType
  <2>4. Ahead(k)'
    <3>1. r.avail = 0 /\ r.since \in Nat BY <1>1, <2>1, PairAssumption DEF IterType
    <3>2. iter'[k].avail <= iter'[k].since BY <2>1, <3>1
    <3> QED BY <3>2 DEF Ahead
  <2>5. WakerKept(k)' /\ HangMeansHup(k)'
    BY <1>1, <2>1 DEF WakerKept, HangMeansHup, IterType
  <2>6. r.exhausted => hup' /\ r.avail = 0 BY <1>1, <2>1, <2>2 DEF IterType
  <2> HIDE DEF r
  <2> QED BY <1>1, <2>1, <2>3, <2>4, <2>5, <2>6, StepOfOne
<1>5. CASE Register(k)
  <2> DEFINE r == [iter[k] EXCEPT !.waker = TRUE, !.task = "cas"]
  <2>1. /\ Becomes(k, r) /\ iter'[k] = r /\ poll_in' = poll_in /\ hup' = hup
        /\ iter[k].task = "register"
    BY <1>1, <1>5 DEF Register, Becomes
  <2>2. r \in IterType BY <1>1 DEF IterType
  <2>3. Ahead(k) => Ahead(k)' BY <1>1, <2>1 DEF Ahead, IterType
  <2>4. WakerKept(k)' /\ HangMeansHup(k)'
    BY <1>1, <2>1 DEF WakerKept, HangMeansHup, IterType
  <2>5. r.exhausted => hup' /\ r.avail = 0 BY <1>1, <2>1 DEF IterType
  <2> HIDE DEF r
  <2> QED BY <1>1, <2>1, <2>2, <2>3, <2>4, <2>5, StepOfOne
<1>6. CASE Cas(k)
  <2> DEFINE r == [iter[k] EXCEPT
                     !.task = IF iter[k].state = "WAIT" THEN "parked"
                              ELSE IF iter[k].state = "WAKE" THEN "pop_wake" ELSE "pop_hang",
                     !.state = IF iter[k].state = "WAKE" THEN "WAIT" ELSE iter[k].state]
  <2>1. /\ Becomes(k, r) /\ iter'[k] = r /\ poll_in' = poll_in /\ hup' = hup
        /\ iter[k].task = "cas"
    BY <1>1, <1>6 DEF Cas, Becomes
  <2>2. r \in IterType BY <1>1 DEF IterType
  <2>3. Ahead(k) => Ahead(k)' BY <1>1, <2>1 DEF Ahead, IterType
  <2>4. WakerKept(k)' /\ HangMeansHup(k)'
    BY <1>1, <2>1 DEF WakerKept, HangMeansHup, IterType
  <2>5. r.exhausted => hup' /\ r.avail = 0 BY <1>1, <2>1 DEF IterType
  <2> HIDE DEF r
  <2> QED BY <1>1, <2>1, <2>2, <2>3, <2>4, <2>5, StepOfOne
<1>7. CASE Drop(k)
  <2> DEFINE r == [iter[k] EXCEPT !.task = "dropped", !.close = TRUE]
  <2>1. /\ Becomes(k, r) /\ iter'[k] = r /\ poll_in' = poll_in /\ hup' = hup
    BY <1>1, <1>7 DEF Drop, Becomes
  <2>2. r \in IterType BY <1>1 DEF IterType
  <2>3. Ahead(k)' /\ WakerKept(k)' BY <1>1, <2>1 DEF Ahead, WakerKept, IterType
  <2>4. HangMeansHup(k)' BY <1>1, <2>1 DEF HangMeansHup, IterType
  <2>5. r.exhausted => hup' /\ r.avail = 0 BY <1>1, <2>1 DEF IterType
  <2> HIDE DEF r
  <2> QED BY <1>1, <2>1, <2>2, <2>3, <2>4, <2>5, StepOfOne
<1> QED BY <1>2, <1>3, <1>4, <1>5, <1>6, <1>7 DEF PollNext

LEMMA HangUpStep == IInv /\ HangUp => IInv'
<1> SUFFICES ASSUME IInv, HangUp PROVE IInv' OBVIOUS
<1>1. hup' = TRUE /\ poll_in' = poll_in /\ iter' = iter BY DEF HangUp
<1>2. TypeOK' BY <1>1 DEF IInv, TypeOK
<1>3. \A i \in Iters : Ahead(i)' BY <1>1 DEF Ahead
<1>4. SomeoneAhead' BY <1>3, PairAssumption DEF SomeoneAhead
<1>5. \A i \in Iters : WakerKept(i)' /\ HangMeansHup(i)'
  BY <1>1 DEF IInv, WakerKept, HangMeansHup
<1>6. NoneIsFinal' BY <1>1 DEF IInv, NoneIsFinal
<1> QED BY <1>2, <1>4, <1>5, <1>6 DEF IInv

LEMMA InvStep == IInv /\ [Next]_vars => IInv'
<1> SUFFICES ASSUME IInv, [Next]_vars PROVE IInv' OBVIOUS
<1>1. CASE HangUp BY <1>1, HangUpStep
<1>2. ASSUME NEW i \in Iters, Emit(i) PROVE IInv' BY <1>2, EmitStep
<1>3. ASSUME NEW i \in Iters, IntoAsync(i) \/ Thread(i) PROVE IInv'
  BY <1>3, ThreadStep
<1>4. ASSUME NEW i \in Iters, StartPoll(i) \/ PollNext(i) \/ Drop(i) PROVE IInv'
  BY <1>4, TaskStep
<1>5. CASE UNCHANGED vars
  BY <1>5 DEF vars, IInv, TypeOK, SomeoneAhead, Ahead, WakerKept, HangMeansHup, NoneIsFinal
<1> QED BY <1>1, <1>2, <1>3, <1>4, <1>5 DEF Next

\* The invariant that the theorems below rest on holds in every state.
THEOREM InvAlways == Spec => []IInv
  BY InvInit, InvStep, PTL DEF Spec

\* Every state of the iterators is well-typed, however many share the fd.
THEOREM TypeCorrect == Spec => []TypeOK
<1>1. IInv => TypeOK BY DEF IInv
<1> QED BY <1>1, InvAlways, PTL

\* Whenever all iterators are stuck, one of them at least has its waker in place and
\* less than a report in its ring.  The others may have missed a full one.
THEOREM SomeoneIsAlwaysServed == Spec => []SomeoneIsServed
<1>1. IInv => SomeoneIsServed
  <2> SUFFICES ASSUME IInv, \A i \in Iters : Stuck(i)
               PROVE  \E i \in Iters : iter[i].waker /\ iter[i].avail <= iter[i].since
    BY DEF SomeoneIsServed
  <2>1. PICK w \in Iters : Ahead(w) BY DEF IInv, SomeoneAhead
  <2>2. iter[w].waker BY DEF IInv, WakerKept, Stuck
  <2>3. iter[w].avail <= iter[w].since BY <2>1 DEF Ahead, Stuck
  <2> QED BY <2>2, <2>3
<1> QED BY <1>1, InvAlways, PTL

\* No iterator ends because of another: None means that the target is gone and
\* that the iterator's own ring is empty.
THEOREM EndIsFinal == Spec => []NoneIsFinal
<1>1. IInv => NoneIsFinal BY DEF IInv
<1> QED BY <1>1, InvAlways, PTL
=============================================================================
