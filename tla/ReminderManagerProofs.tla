------------------------ MODULE ReminderManagerProofs ------------------------
(***************************************************************************)
(* Theorems about ReminderManager for any number of reminders, any set of  *)
(* delays, any longest sleep and any number of ends of the worker.         *)
(***************************************************************************)
EXTENDS ReminderManager, TLAPS

TypeOK ==
  /\ status \in [Ids -> {"none", "pending", "fired", "cancelled"}]
  /\ due \in [Ids -> Nat]
  /\ creating \subseteq Ids
  /\ cancelling \in [Ids -> {"no", "update", "fired", "cancelled"}]
  /\ answer \in [Ids -> {"none", "fired", "cancelled"}]
  /\ pc \in {"off", "loop", "pick", "doze", "asleep", "fire", "put"}
  /\ changed \in BOOLEAN /\ woken \in BOOLEAN /\ stopping \in BOOLEAN
  /\ picked \in Ids \cup {Nobody}
  /\ wakeAt \in Nat /\ now \in Nat /\ ends \in Nat
  /\ heard \in [Ids -> Nat]

\* The reminder between its UPDATE and its announcement is not announced yet,
\* and its row says already that it is over.
PickedInv ==
  /\ pc \in {"fire", "put"} => picked \in Ids
  /\ pc = "put" => heard[picked] = 0 /\ status[picked] \in {"fired", "cancelled"}

\* A reminder that was announced has a row, and the row is over.
HeardInv ==
  \A i \in Ids : heard[i] \in {0, 1} /\ (heard[i] = 1 => status[i] \in {"fired", "cancelled"})

\* A worker on its way into the wait overlooks no row for longer than the row
\* lasts: it is to wake up in time, or has a notification it will see, or the
\* create that inserted the row has not notified yet.
NapInv ==
  \A i \in Ids : status[i] = "pending" /\ i \notin creating =>
    /\ pc = "doze" => changed \/ wakeAt <= due[i]
    /\ pc = "asleep" => woken \/ wakeAt <= due[i]

IInv == TypeOK /\ PickedInv /\ HeardInv /\ NapInv

-----------------------------------------------------------------------------
LEMMA InitIInv == Init => IInv
<1> SUFFICES ASSUME Init PROVE IInv
  OBVIOUS
<1>1. TypeOK
  BY DEF Init, TypeOK
<1>2. PickedInv /\ HeardInv /\ NapInv
  BY DEF Init, PickedInv, HeardInv, NapInv
<1> QED BY <1>1, <1>2 DEF IInv

\* Steps that insert, cancel and announce: the callers.
LEMMA CallersStep == ASSUME IInv, Callers PROVE IInv'
<1> USE ReminderAssumption DEF ReminderAssumption, IInv, TypeOK, rows, callers, sleep, Notify, Wakes
<1>1. ASSUME NEW d \in Delays, CreateRow(d) PROVE IInv'
  <2>1. PICK i \in Ids :
          /\ status[i] = "none"
          /\ status' = [status EXCEPT ![i] = "pending"]
          /\ due' = [due EXCEPT ![i] = now + d]
          /\ creating' = creating \cup {i}
    BY <1>1 DEF CreateRow
  <2>2. UNCHANGED <<cancelling, answer, pc, changed, picked, wakeAt, woken, stopping, heard, now, ends>>
    BY <1>1 DEF CreateRow
  <2>3. d \in Nat
    OBVIOUS
  <2>4. TypeOK'
    BY <2>1, <2>2, <2>3
  <2>5. PickedInv' /\ HeardInv' /\ NapInv'
    BY <2>1, <2>2 DEF PickedInv, HeardInv, NapInv
  <2> QED BY <2>4, <2>5
<1>2. ASSUME NEW i \in Ids, CreateNotify(i) PROVE IInv'
  BY <1>2 DEF CreateNotify, PickedInv, HeardInv, NapInv
<1>3. ASSUME NEW i \in Ids, CancelRead(i) PROVE IInv'
  <2>1. cancelling' \in [Ids -> {"no", "update", "fired", "cancelled"}]
    BY <1>3 DEF CancelRead
  <2> QED BY <1>3, <2>1 DEF CancelRead, PickedInv, HeardInv, NapInv
<1>4. ASSUME NEW i \in Ids, CancelUpdate(i) PROVE IInv'
  BY <1>4 DEF CancelUpdate, PickedInv, HeardInv, NapInv
<1>5. ASSUME NEW i \in Ids, CancelReturn(i) PROVE IInv'
  BY <1>5 DEF CancelReturn, PickedInv, HeardInv, NapInv
<1> QED BY <1>1, <1>2, <1>3, <1>4, <1>5 DEF Callers

\* The worker falls asleep no longer than until the first reminder it sees.
LEMMA PickStep == ASSUME IInv, Pick PROVE IInv'
<1> USE ReminderAssumption DEF ReminderAssumption, IInv, TypeOK, rows, callers, sleep
<1>1. CASE Pending = {} /\ wakeAt' = now + WaitLimit /\ pc' = "doze" /\ UNCHANGED picked
  BY <1>1 DEF Pick, Pending, PickedInv, HeardInv, NapInv
<1>2. ASSUME NEW i \in Ids, Earliest(i), due[i] > now,
             wakeAt' = now + Nap(i), pc' = "doze", picked' = picked
      PROVE  IInv'
  <2>1. now + Nap(i) \in Nat /\ now + Nap(i) <= due[i]
    BY <1>2 DEF Nap
  <2>2. \A j \in Ids : status[j] = "pending" => now + Nap(i) <= due[j]
    BY <1>2, <2>1 DEF Earliest, Pending
  <2> QED BY <1>2, <2>1, <2>2 DEF Pick, PickedInv, HeardInv, NapInv
<1>3. ASSUME NEW i \in Ids, picked' = i, pc' = "fire", wakeAt' = wakeAt
      PROVE  IInv'
  BY <1>3 DEF Pick, PickedInv, HeardInv, NapInv
<1> QED BY <1>1, <1>2, <1>3 DEF Pick

LEMMA WorkerStep == ASSUME IInv, Worker PROVE IInv'
<1> USE DEF IInv, TypeOK, rows, callers, sleep
<1>1. CASE Loop
  BY <1>1 DEF Loop, PickedInv, HeardInv, NapInv
<1>2. CASE Pick
  BY <1>2, PickStep
<1>3. CASE Doze
  BY <1>3 DEF Doze, PickedInv, HeardInv, NapInv
<1>4. CASE Wake
  BY <1>4 DEF Wake, PickedInv, HeardInv, NapInv
<1>5. CASE Fire
  BY <1>5 DEF Fire, PickedInv, HeardInv, NapInv, Nobody
<1>6. CASE Put
  BY <1>6 DEF Put, PickedInv, HeardInv, NapInv, Nobody
<1>7. CASE Die
  BY <1>7 DEF Die, PickedInv, HeardInv, NapInv, Nobody
<1> QED BY <1>1, <1>2, <1>3, <1>4, <1>5, <1>6, <1>7 DEF Worker

LEMMA StepIInv == IInv /\ [Next]_vars => IInv'
<1> SUFFICES ASSUME IInv, [Next]_vars PROVE IInv'
  OBVIOUS
<1> USE DEF IInv, TypeOK, rows, callers, sleep
<1>1. CASE Worker
  BY <1>1, WorkerStep
<1>2. CASE Callers
  BY <1>2, CallersStep
<1>3. CASE Start
  BY <1>3 DEF Start, PickedInv, HeardInv, NapInv
<1>4. CASE Stop
  BY <1>4 DEF Stop, Wakes, PickedInv, HeardInv, NapInv
<1>5. CASE Tick
  BY <1>5 DEF Tick, PickedInv, HeardInv, NapInv
<1>6. CASE Crash
  <2>1. cancelling' = [i \in Ids |-> "no"] /\ creating' = {} /\ pc' = "off" /\ picked' = Nobody
    BY <1>6 DEF Crash
  <2>2. TypeOK'
    <3>1. cancelling' \in [Ids -> {"no", "update", "fired", "cancelled"}]
      BY <2>1
    <3>2. ends' \in Nat
      BY <1>6 DEF Crash
    <3>3. UNCHANGED <<status, due, answer, heard, now>> /\ wakeAt' = 0
      BY <1>6 DEF Crash
    <3>4. changed' \in BOOLEAN /\ woken' \in BOOLEAN /\ stopping' \in BOOLEAN
      BY <1>6 DEF Crash
    <3> QED BY <2>1, <3>1, <3>2, <3>3, <3>4
  <2>3. PickedInv' /\ HeardInv' /\ NapInv'
    BY <1>6, <2>1 DEF Crash, PickedInv, HeardInv, NapInv
  <2> QED BY <2>2, <2>3
<1>7. CASE UNCHANGED vars
  BY <1>7 DEF vars, PickedInv, HeardInv, NapInv
<1> QED BY <1>1, <1>2, <1>3, <1>4, <1>5, <1>6, <1>7 DEF Next

LEMMA Invariance == Spec => []IInv
BY InitIInv, StepIInv, PTL DEF Spec

-----------------------------------------------------------------------------
\* The rows and the worker's thread are well typed: the callers and the worker,
\* with the crash between any two of their steps, keep every row in one of its
\* four states and the worker in one of its places.
THEOREM TypeCorrect == Spec => []TypeOK
<1>1. IInv => TypeOK
  BY DEF IInv
<1> QED BY <1>1, Invariance, PTL

\* However _run, create, cancel, stop and a death of the process interleave, a
\* reminder is announced at most once, and never while its row is pending.
THEOREM AnnouncedAtMostOnce == Spec => []AnnouncedOnce
<1>1. IInv => AnnouncedOnce
  BY DEF IInv, TypeOK, HeardInv, AnnouncedOnce
<1> QED BY <1>1, Invariance, PTL

\* The UPDATE of the worker looks at the status again, so that a row cancelled
\* between the worker's SELECT and its UPDATE stays cancelled.
THEOREM CancelledIsFinal == Spec => CancelledStays
<1>1. IInv /\ [Next]_vars =>
        [\A i \in Ids : status[i] = "cancelled" => status'[i] = "cancelled"]_vars
  <2> SUFFICES ASSUME IInv, Next, NEW i \in Ids, status[i] = "cancelled"
               PROVE  status'[i] = "cancelled"
    OBVIOUS
  <2> USE DEF IInv, TypeOK, rows
  <2>1. CASE \E d \in Delays : CreateRow(d)
    BY <2>1 DEF CreateRow
  <2>2. CASE \E j \in Ids : CancelUpdate(j)
    BY <2>2 DEF CancelUpdate
  <2>3. CASE Fire
    BY <2>3 DEF Fire, PickedInv
  <2>4. CASE UNCHANGED status
    BY <2>4
  <2> QED
    BY <2>1, <2>2, <2>3, <2>4
    DEF Next, Worker, Callers, Loop, Pick, Doze, Wake, Put, Die, CreateNotify, CancelRead,
        CancelReturn, Start, Stop, Tick, Crash
<1> QED BY <1>1, Invariance, PTL DEF Spec, CancelledStays

\* A row inserted while the worker goes to sleep, before or after it looked at
\* the version of the condition, does not make it sleep past the row's time.
THEOREM FiredOnTime == Spec => OnTime
<1>1. IInv /\ [Next]_vars =>
        [now' # now => \A i \in Ids :
           status[i] = "pending" /\ due[i] <= now => pc = "off" \/ i \in creating]_vars
  <2> SUFFICES ASSUME IInv, Next, now' # now, NEW i \in Ids,
                      status[i] = "pending", due[i] <= now, pc # "off"
               PROVE  i \in creating
    OBVIOUS
  <2>1. Tick
    BY DEF Next, Worker, Callers, Loop, Pick, Doze, Wake, Fire, Put, Die, CreateRow,
           CreateNotify, CancelRead, CancelUpdate, CancelReturn, Start, Stop, Crash
  <2>2. pc = "asleep" /\ ~woken /\ ~(wakeAt <= now)
    BY <2>1 DEF Tick, Timeout
  <2> QED BY <2>2 DEF IInv, TypeOK, NapInv
<1> QED BY <1>1, Invariance, PTL DEF Spec, OnTime
=============================================================================
