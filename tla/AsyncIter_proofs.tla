--------------------------- MODULE AsyncIter_proofs ---------------------------
(* Proofs about AsyncIter and AsyncRelaxed, for every ring size and every  *)
(* wake-up interval.                                                       *)
EXTENDS AsyncRelaxed, TLAPS

LEMMA InvInit == Init => IInv
<1> SUFFICES ASSUME Init PROVE IInv OBVIOUS
<1>1. TypeOK BY WakeAssumption DEF Init, TypeOK
<1>2. ReportAhead /\ WakeAhead /\ WakerKept
  BY DEF Init, ReportAhead, WakeAhead, WakerKept
<1>3. HangMeansHup /\ NoneIsFinal BY DEF Init, HangMeansHup, NoneIsFinal
<1> QED BY <1>1, <1>2, <1>3 DEF IInv

\* Taking a record leaves the task idle and the ring with one record less.
LEMMA PopSomeStep == ASSUME IInv, NEW place, PopSome(place) PROVE IInv'
<1>1. /\ avail > 0 /\ avail' = avail - 1 /\ task' = "idle"
      /\ UNCHANGED <<since, poll_in, hup, close, state, waker, notified, thread, exhausted>>
  BY DEF PopSome
<1>2. avail \in 0..Cap BY DEF IInv, TypeOK
<1>3. avail' \in 0..Cap BY <1>1, <1>2, WakeAssumption
<1>4. TypeOK' BY <1>1, <1>3 DEF IInv, TypeOK
<1>5. ReportAhead' /\ WakeAhead' /\ WakerKept'
  BY <1>1 DEF ReportAhead, WakeAhead, WakerKept
<1>6. HangMeansHup' BY <1>1 DEF IInv, HangMeansHup
<1>7. ~exhausted BY <1>1, <1>2 DEF IInv, NoneIsFinal
<1>8. NoneIsFinal' BY <1>1, <1>7 DEF NoneIsFinal
<1> QED BY <1>4, <1>5, <1>6, <1>8 DEF IInv

LEMMA InvStep == IInv /\ [Next]_vars => IInv'
<1> SUFFICES ASSUME IInv, [Next]_vars PROVE IInv'
  OBVIOUS
<1> USE DEF IInv, TypeOK, ReportAhead, WakeAhead, WakerKept, HangMeansHup, NoneIsFinal, kernel
<1>1. CASE Emit
  <2>1. /\ ~hup /\ avail < Cap /\ avail' = avail + 1
        /\ UNCHANGED <<hup, close, state, waker, notified, thread, task, exhausted>>
    BY <1>1 DEF Emit
  <2>2. avail \in Nat /\ since \in Nat /\ Cap \in Nat /\ WakeEvery \in Nat /\ since < WakeEvery
    BY WakeAssumption
  <2>3. CASE since + 1 = WakeEvery
    <3>1. since' = 0 /\ poll_in' = TRUE BY <1>1, <2>3 DEF Emit
    <3>2. TypeOK' BY <2>1, <2>2, <3>1
    <3>3. ReportAhead' /\ WakeAhead' BY <3>1
    <3>4. WakerKept' /\ HangMeansHup' /\ NoneIsFinal' BY <2>1
    <3> QED BY <3>2, <3>3, <3>4
  <2>4. CASE since + 1 # WakeEvery
    <3>1. since' = since + 1 /\ poll_in' = poll_in BY <1>1, <2>4 DEF Emit
    <3>2. TypeOK' BY <2>1, <2>2, <2>4, <3>1
    <3>3. avail <= since => avail' <= since' BY <2>1, <2>2, <3>1
    <3>4. ReportAhead' /\ WakeAhead' BY <2>1, <3>1, <3>3
    <3>5. WakerKept' /\ HangMeansHup' /\ NoneIsFinal' BY <2>1
    <3> QED BY <3>2, <3>4, <3>5
  <2> QED BY <2>3, <2>4
<1>2. CASE HangUp
  BY <1>2 DEF HangUp
<1>3. CASE EpollClose
  BY <1>3 DEF EpollClose
<1>4. CASE EpollIn
  BY <1>4 DEF EpollIn
<1>5. CASE EpollHup
  BY <1>5 DEF EpollHup
<1>6. CASE StoreWake
  BY <1>6 DEF StoreWake
<1>7. CASE StoreHang
  BY <1>7 DEF StoreHang
<1>8. CASE Wake
  BY <1>8 DEF Wake, WakeTask
<1>9. CASE StartPoll
  BY <1>9 DEF StartPoll
<1>10. CASE PopFirst
  <2>1. CASE PopSome("pop")
    BY <2>1, PopSomeStep
  <2>2. CASE PopNone("pop", "register")
    <3>1. avail = 0 /\ task' = "register" /\ task = "pop"
          /\ UNCHANGED <<kernel, close, state, waker, notified, thread, exhausted>>
      BY <2>2 DEF PopNone
    <3>2. avail' <= since' BY <3>1, WakeAssumption
    <3> QED BY <3>1, <3>2
  <2> QED BY <1>10, <2>1, <2>2 DEF PopFirst
<1>11. CASE Register
  BY <1>11 DEF Register
<1>12. CASE Cas
  BY <1>12 DEF Cas
<1>13. CASE PopAfterWake
  <2>1. CASE PopSome("pop_wake")
    BY <2>1, PopSomeStep
  <2>2. CASE PopNone("pop_wake", "parked")
    <3>1. avail = 0 /\ task' = "parked" /\ task = "pop_wake"
          /\ UNCHANGED <<kernel, close, state, waker, notified, thread, exhausted>>
      BY <2>2 DEF PopNone
    <3>2. avail' <= since' BY <3>1, WakeAssumption
    <3> QED BY <3>1, <3>2
  <2> QED BY <1>13, <2>1, <2>2 DEF PopAfterWake
<1>14. CASE PopAfterHang
  <2>1. CASE PopSome("pop_hang")
    BY <2>1, PopSomeStep
  <2>2. CASE ~PopSome("pop_hang")
    BY <1>14, <2>2 DEF PopAfterHang
  <2> QED BY <2>1, <2>2
<1>15. CASE Drop
  BY <1>15 DEF Drop
<1>16. CASE UNCHANGED vars
  BY <1>16 DEF vars
<1> QED
  BY <1>1, <1>2, <1>3, <1>4, <1>5, <1>6, <1>7, <1>8, <1>9, <1>10, <1>11, <1>12,
     <1>13, <1>14, <1>15, <1>16
     DEF Next, Kernel, Thread, PollNext

\* The invariant that the theorems below rest on holds in every state.
THEOREM InvAlways == Spec => []IInv
  BY InvInit, InvStep, PTL DEF Spec

\* Every state of the asynchronous iterator is well-typed.
THEOREM TypeCorrect == Spec => []TypeOK
<1>1. IInv => TypeOK BY DEF IInv
<1> QED BY <1>1, InvAlways, PTL

\* No wake-up is lost: a parked task that nothing is about to wake has its
\* waker in place and fewer records in the ring than make a report.
THEOREM WakeupsAreNotLost == Spec => []NoLostWakeup
<1>1. IInv => NoLostWakeup
  BY DEF IInv, WakeAhead, WakerKept, NoLostWakeup, NothingComing
<1> QED BY <1>1, InvAlways, PTL

\* The iterator ends only when the target is gone and the ring is empty.
THEOREM EndIsFinal == Spec => []NoneIsFinal
<1>1. IInv => NoneIsFinal BY DEF IInv
<1> QED BY <1>1, InvAlways, PTL

\* No poll consumes the hang-up, whatever the thread still does.
THEOREM HangIsNotConsumed == Spec => HangSticks
<1>1. IInv /\ [Next]_vars => [state = "HANG" => state' = "HANG"]_vars
  <2> SUFFICES ASSUME IInv, Next, state = "HANG" PROVE state' = "HANG"
    BY DEF vars
  <2>1. thread \in {"wake_last", "done"} BY DEF IInv, HangMeansHup
  <2> QED
    BY <2>1
       DEF Next, Kernel, Thread, PollNext, Emit, HangUp, EpollClose, EpollIn, EpollHup,
           StoreWake, StoreHang, Wake, StartPoll, PopFirst, PopSome, PopNone, Register,
           Cas, PopAfterWake, PopAfterHang, Drop, kernel
<1> QED BY <1>1, InvAlways, PTL DEF Spec, HangSticks

-----------------------------------------------------------------------------
(* AsyncRelaxed.                                                            *)

\* What a pop may miss is a number of records that there are.
LEMMA MissingFits ==
  ASSUME RelaxedTypeOK, avail' \in Nat, NEW n \in Nat
  PROVE  Missing(n) \in 0..avail'
BY DEF Missing

LEMMA AcquireFits ==
  ASSUME RelaxedTypeOK, Acquire
  PROVE  behind' \in 0..avail /\ known' \in BOOLEAN
<1>1. avail \in Nat /\ behind \in 0..avail /\ waker_view \in 0..avail
  BY WakeAssumption DEF RelaxedTypeOK, TypeOK
<1>2. \E x \in {behind, waker_view} : \A y \in {behind, waker_view} : x =< y
  BY <1>1
<1>3. Min({behind, waker_view}) \in {behind, waker_view} BY <1>2 DEF Min
<1>4. known' \in BOOLEAN BY DEF Acquire
<1> QED BY <1>1, <1>3, <1>4 DEF Acquire

LEMMA RelaxedInvInit == RelaxedInit => RelaxedInv
<1> SUFFICES ASSUME RelaxedInit PROVE RelaxedInv OBVIOUS
<1>1. TypeOK BY WakeAssumption DEF RelaxedInit, Init, TypeOK
<1>2. avail \in Nat BY <1>1, WakeAssumption DEF TypeOK
<1>3. RelaxedTypeOK BY <1>1, <1>2 DEF RelaxedInit, RelaxedTypeOK
<1> QED BY <1>3
        DEF RelaxedInit, Init, RelaxedInv, WakerKept, HangMeansHup, NoneOnlyAfterHangUp

\* A kernel step makes no view worse than the ring is long.
LEMMA KernelStepKeeps == ASSUME RelaxedInv, KernelStep PROVE RelaxedInv'
<1>1. /\ avail \in Nat /\ since \in Nat /\ Cap \in Nat /\ WakeEvery \in Nat /\ avail <= Cap
      /\ since < WakeEvery /\ TypeOK
      /\ behind \in 0..avail /\ thread_view \in 0..avail /\ waker_view \in 0..avail
  BY WakeAssumption DEF RelaxedInv, RelaxedTypeOK, TypeOK
<1>2. UNCHANGED <<close, state, waker, notified, thread, task, exhausted, known, old>>
  BY DEF KernelStep, Emit, HangUp
<1>3. avail' \in avail..Cap /\ since' \in 0..(WakeEvery - 1) /\ poll_in' \in BOOLEAN
  <2>1. CASE HangUp BY <1>1, <2>1 DEF HangUp, TypeOK
  <2>2. CASE Emit
    <3>1. avail' = avail + 1 /\ avail < Cap BY <2>2 DEF Emit
    <3>2. avail' \in avail..Cap BY <1>1, <3>1
    <3>3. since' \in 0..(WakeEvery - 1) BY <1>1, <2>2 DEF Emit
    <3>4. poll_in' \in BOOLEAN BY <1>1, <2>2 DEF Emit, TypeOK
    <3> QED BY <3>2, <3>3, <3>4
  <2> QED BY <2>1, <2>2 DEF KernelStep
<1>4. hup' \in BOOLEAN /\ (hup => hup')
  BY <1>1 DEF KernelStep, Emit, HangUp, TypeOK
<1>5. TypeOK' BY <1>1, <1>2, <1>3, <1>4 DEF TypeOK
<1>6. behind' \in 0..avail' /\ thread_view' \in 0..avail' /\ waker_view' \in 0..avail'
  <2>1. avail' \in Nat
    BY <1>1, <1>3
  <2>2. PICK new \in Nat : new = avail' - avail
    <3>1. \A a \in Nat, c \in Nat : \A b \in a..c : b - a \in Nat OBVIOUS
    <3> QED BY <1>1, <1>3, <3>1
  <2>3. /\ behind' = Missing(behind + new)
        /\ thread_view' = Missing(thread_view + new)
        /\ waker_view' = Missing(waker_view + new)
    BY <2>2 DEF KernelStep
  <2>4. behind + new \in Nat /\ thread_view + new \in Nat /\ waker_view + new \in Nat BY <1>1
  <2>5. RelaxedTypeOK BY DEF RelaxedInv
  <2>6. \A n \in Nat : Missing(n) \in 0..avail' BY <2>1, <2>5, MissingFits
  <2> QED BY <2>3, <2>4, <2>6
<1>7. RelaxedTypeOK' BY <1>2, <1>5, <1>6 DEF RelaxedInv, RelaxedTypeOK
<1>8. WakerKept' BY <1>2 DEF RelaxedInv, WakerKept
<1>9. HangMeansHup' /\ NoneOnlyAfterHangUp'
  BY <1>2, <1>4 DEF RelaxedInv, HangMeansHup, NoneOnlyAfterHangUp
<1> QED BY <1>7, <1>8, <1>9 DEF RelaxedInv

\* Nor does a step that takes no record.
LEMMA RelaxedThreadKeeps ==
  ASSUME RelaxedInv, EpollWait \/ Store \/ WakeReleases
  PROVE  RelaxedInv'
<1>1. avail' = avail /\ avail \in Nat /\ hup' = hup
  BY WakeAssumption
     DEF RelaxedInv, RelaxedTypeOK, TypeOK, EpollWait, EpollIn, EpollHup, EpollClose, Store,
         StoreWake, StoreHang, WakeReleases, Wake, kernel
<1>2. {behind', thread_view', waker_view'} \subseteq 0..avail
  BY <1>1 DEF RelaxedInv, RelaxedTypeOK, EpollWait, Store, WakeReleases, views
<1>3. TypeOK' /\ known' \in BOOLEAN /\ old' \in {"WAIT", "WAKE", "HANG"}
  <2>1. TypeOK /\ known \in BOOLEAN /\ old \in {"WAIT", "WAKE", "HANG"}
    BY DEF RelaxedInv, RelaxedTypeOK
  <2>2. CASE EpollWait
    <3>1. UNCHANGED <<known, old>> BY <2>2 DEF EpollWait
    <3>2. CASE EpollIn BY <2>1, <3>1, <3>2 DEF TypeOK, EpollIn
    <3>3. CASE EpollHup BY <2>1, <3>1, <3>3 DEF TypeOK, EpollHup, kernel
    <3>4. CASE EpollClose BY <2>1, <3>1, <3>4 DEF TypeOK, EpollClose, kernel
    <3> QED BY <2>2, <3>2, <3>3, <3>4 DEF EpollWait
  <2>3. CASE Store
    <3>1. known' = FALSE /\ old' = state BY <2>3 DEF Store
    <3>2. known' \in BOOLEAN /\ old' \in {"WAIT", "WAKE", "HANG"}
      BY <2>1, <3>1 DEF TypeOK
    <3>3. CASE StoreWake BY <2>1, <3>2, <3>3 DEF TypeOK, StoreWake, kernel
    <3>4. CASE StoreHang BY <2>1, <3>2, <3>4 DEF TypeOK, StoreHang, kernel
    <3> QED BY <2>3, <3>3, <3>4 DEF Store
  <2>4. CASE WakeReleases
    <3>1. notified' \in BOOLEAN /\ waker' \in BOOLEAN
      BY <2>1, <2>4 DEF TypeOK, WakeReleases, Wake, WakeTask
    <3> QED BY <2>1, <2>4, <3>1 DEF TypeOK, WakeReleases, Wake, kernel
  <2> QED BY <2>2, <2>3, <2>4
<1>4. WakerKept'
  BY DEF RelaxedInv, WakerKept, EpollWait, EpollIn, EpollHup, EpollClose, Store,
         StoreWake, StoreHang, WakeReleases, Wake, WakeTask
<1>5. HangMeansHup' /\ NoneOnlyAfterHangUp'
  BY DEF RelaxedInv, RelaxedTypeOK, TypeOK, HangMeansHup, NoneOnlyAfterHangUp, EpollWait, EpollIn,
         EpollHup, EpollClose, Store, StoreWake, StoreHang, WakeReleases, Wake, kernel
<1> QED BY <1>1, <1>2, <1>3, <1>4, <1>5 DEF RelaxedInv, RelaxedTypeOK

LEMMA RelaxedPollKeeps ==
  ASSUME RelaxedInv, StartPollSees \/ RegisterAcquires \/ CasOld \/ DropIter
  PROVE  RelaxedInv'
<1>1. avail' = avail /\ avail \in Nat /\ hup' = hup
  BY WakeAssumption
     DEF RelaxedInv, RelaxedTypeOK, TypeOK, StartPollSees, StartPoll, RegisterAcquires, Register,
         CasOld, Cas, DropIter, Drop, kernel
<1>2. {behind', thread_view', waker_view'} \subseteq 0..avail /\ known' \in BOOLEAN
  <2>1. behind \in 0..avail /\ thread_view \in 0..avail /\ waker_view \in 0..avail
        /\ known \in BOOLEAN
    BY DEF RelaxedInv, RelaxedTypeOK
  <2>2. Acquire => behind' \in 0..avail /\ known' \in BOOLEAN
    BY AcquireFits DEF RelaxedInv
  <2> QED BY <2>1, <2>2 DEF StartPollSees, RegisterAcquires, CasOld, DropIter, views
<1>3. TypeOK' /\ old' \in {"WAIT", "WAKE", "HANG"}
  <2>1. TypeOK /\ old \in {"WAIT", "WAKE", "HANG"}
    BY DEF RelaxedInv, RelaxedTypeOK
  <2>2. CASE StartPollSees BY <2>1, <2>2 DEF TypeOK, StartPollSees, StartPoll, kernel
  <2>3. CASE RegisterAcquires BY <2>1, <2>3 DEF TypeOK, RegisterAcquires, Register, kernel
  <2>4. CASE CasOld
    <3>1. CASE Cas BY <2>1, <2>4, <3>1 DEF TypeOK, CasOld, Cas, kernel
    <3>2. CASE ~Cas BY <2>1, <2>4, <3>2 DEF TypeOK, CasOld, kernel
    <3> QED BY <3>1, <3>2
  <2>5. CASE DropIter BY <2>1, <2>5 DEF TypeOK, DropIter, Drop, kernel
  <2> QED BY <2>2, <2>3, <2>4, <2>5
<1>4. WakerKept'
  BY DEF RelaxedInv, RelaxedTypeOK, TypeOK, WakerKept, StartPollSees, StartPoll, RegisterAcquires,
         Register, CasOld, Cas, DropIter, Drop
<1>5. HangMeansHup' /\ NoneOnlyAfterHangUp'
  BY DEF RelaxedInv, RelaxedTypeOK, TypeOK, HangMeansHup, NoneOnlyAfterHangUp, StartPollSees,
         StartPoll, RegisterAcquires, Register, CasOld, Cas, DropIter, Drop, kernel
<1> QED BY <1>1, <1>2, <1>3, <1>4, <1>5 DEF RelaxedInv, RelaxedTypeOK

\* A pop takes one record, or misses all there are.
LEMMA PopOldKeeps ==
  ASSUME RelaxedInv, NEW place, NEW next, PopOld(place, next),
         <<place, next>> \in {<<"pop", "register">>, <<"pop_wake", "parked">>, <<"pop_hang", "idle">>}
  PROVE  RelaxedInv'
<1>1. /\ avail \in Nat /\ Cap \in Nat /\ avail <= Cap
      /\ behind \in 0..avail /\ thread_view \in 0..avail /\ waker_view \in 0..avail
  BY WakeAssumption DEF RelaxedInv, RelaxedTypeOK, TypeOK
<1>2. PICK m \in 0..behind :
        /\ task = place
        /\ IF m < avail
           THEN avail' = avail - 1 /\ task' = "idle" /\ UNCHANGED exhausted
           ELSE /\ task' = next
                /\ exhausted' = (exhausted \/ place = "pop_hang")
                /\ UNCHANGED avail
        /\ behind' = m
        /\ thread_view' = Missing(thread_view)
        /\ waker_view' = Missing(waker_view)
        /\ UNCHANGED <<since, poll_in, hup, close, state, waker, notified, thread, known, old>>
  BY DEF PopOld
<1>3. avail' \in 0..avail /\ m <= avail' BY <1>1, <1>2
<1>4. behind' \in 0..avail' /\ thread_view' \in 0..avail' /\ waker_view' \in 0..avail'
  BY <1>1, <1>2, <1>3 DEF Missing
<1>5. TypeOK' /\ RelaxedTypeOK'
  <2>1. avail' \in 0..Cap BY <1>1, <1>3
  <2>2. task' \in {"idle", "register", "parked"} /\ exhausted' \in BOOLEAN
    BY <1>2 DEF RelaxedInv, RelaxedTypeOK, TypeOK
  <2> QED BY <1>2, <1>4, <2>1, <2>2 DEF RelaxedInv, RelaxedTypeOK, TypeOK
<1>6. WakerKept' BY <1>2 DEF RelaxedInv, WakerKept
<1>7. HangMeansHup' /\ NoneOnlyAfterHangUp'
  BY <1>2 DEF RelaxedInv, HangMeansHup, NoneOnlyAfterHangUp
<1> QED BY <1>5, <1>6, <1>7 DEF RelaxedInv

LEMMA RelaxedInvStep == RelaxedInv /\ [RelaxedNext]_allVars => RelaxedInv'
<1> SUFFICES ASSUME RelaxedInv, [RelaxedNext]_allVars PROVE RelaxedInv' OBVIOUS
<1>1. CASE KernelStep BY <1>1, KernelStepKeeps
<1>2. CASE RelaxedThread BY <1>2, RelaxedThreadKeeps DEF RelaxedThread
<1>3. CASE StartPollSees \/ RegisterAcquires \/ CasOld \/ DropIter BY <1>3, RelaxedPollKeeps
<1>4. CASE Pop BY <1>4, PopOldKeeps DEF Pop
<1>5. CASE UNCHANGED allVars
  BY <1>5 DEF allVars, vars, views, RelaxedInv, RelaxedTypeOK, TypeOK, WakerKept, HangMeansHup,
              NoneOnlyAfterHangUp
<1> QED BY <1>1, <1>2, <1>3, <1>4, <1>5 DEF RelaxedNext, RelaxedPoll

LEMMA RelaxedInvAlways == RelaxedSpec => []RelaxedInv
  BY RelaxedInvInit, RelaxedInvStep, PTL DEF RelaxedSpec

\* Whatever loads are reordered, poll_next does not say None while the target lives.
THEOREM NoneNeedsHangUp == RelaxedSpec => []NoneOnlyAfterHangUp
<1>1. RelaxedInv => NoneOnlyAfterHangUp BY DEF RelaxedInv
<1> QED BY <1>1, RelaxedInvAlways, PTL

\* Nor does a compare-exchange that sees an older state consume the hang-up.
THEOREM HangIsNotConsumedRelaxed == RelaxedSpec => HangSticks
<1>1. RelaxedInv /\ [RelaxedNext]_allVars => [state = "HANG" => state' = "HANG"]_vars
  <2> SUFFICES ASSUME RelaxedInv, RelaxedNext, state = "HANG" PROVE state' = "HANG"
    BY DEF vars, allVars
  <2>1. thread \in {"wake_last", "done"} BY DEF RelaxedInv, HangMeansHup
  <2> QED
    BY <2>1
       DEF RelaxedNext, KernelStep, RelaxedThread, RelaxedPoll, Emit, HangUp, EpollWait, EpollClose,
           EpollIn, EpollHup, Store, StoreWake, StoreHang, WakeReleases, Wake, StartPollSees,
           StartPoll, RegisterAcquires, Register, Pop, PopOld, CasOld, Cas, DropIter, Drop, kernel
<1> QED BY <1>1, RelaxedInvAlways, PTL DEF RelaxedSpec, HangSticks
=============================================================================
