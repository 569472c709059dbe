------------------------ MODULE AgentTaskManagerProofs ------------------------
(***************************************************************************)
(* Theorems about AgentTaskManager for any number of tasks, any plans, any *)
(* limits, and any number of stops, restarts and journal failures.         *)
(***************************************************************************)
EXTENDS AgentTaskManager, FiniteSetTheorems, TLAPS

Executing == pc \notin {"off", "poll", "get", "listen"}
Deciding == pc \in {"begin", "preflight", "start"}
Stepping == pc \in {"step", "call", "handler", "return"}

\* Which steps have run and been undone, by what the worker is about to do.
WorkerInv ==
  /\ Executing => /\ current \in Tasks /\ current < nextId
                  /\ task[current].steps \in Plans
                  /\ task[current].status \in Statuses
                  /\ ~Deciding => task[current].status # "QUEUED"
  /\ Deciding => /\ ran[current] = <<>> /\ undone[current] = <<>>
                 /\ task[current].results = {}
  /\ Stepping => /\ undone[current] = <<>>
                 /\ step \in 1..Len(task[current].steps)
                 /\ task[current].results \subseteq 1..(step - 1)
                 /\ Len(ran[current]) = IF pc = "return" THEN step ELSE step - 1
  /\ pc = "undo" => /\ verdict # "NONE"
                    /\ toUndo \subseteq 1..Len(ran[current])
                    /\ \A i \in 1..Len(undone[current]), k \in toUndo : k < undone[current][i]
  /\ pc = "notify" => taken.status \in Statuses

\* Tasks in the queue are distinct, unstarted, and not the one in execution.
QueueInv ==
  \A i \in 1..Len(queue) : queue[i] # Sentinel =>
    /\ queue[i] < nextId
    /\ ran[queue[i]] = <<>> /\ undone[queue[i]] = <<>>
    /\ task[queue[i]].steps \in Plans /\ task[queue[i]].results = {}
    /\ task[queue[i]].status \in Statuses
    /\ Executing => queue[i] # current
    /\ \A j \in 1..Len(queue) : queue[j] = queue[i] => i = j

\* Whoever was promised that no step ran still carries the raised flag
\* wherever the task may meet the worker again.
PromiseInv ==
  /\ \A t \in Tasks : task[t].status = "QUEUED" => ran[t] = <<>>
  /\ \A t \in promised :
       /\ ran[t] = <<>>
       /\ Executing /\ current = t =>
            task[t].cancel /\ pc \notin {"call", "handler", "return", "complete"}
       /\ \A i \in 1..Len(queue) : queue[i] = t => task[t].cancel

IInv ==
  /\ TypeOK /\ WorkerInv /\ QueueInv /\ PromiseInv
  /\ submitting => nextId <= MaxTasks

-----------------------------------------------------------------------------
\* Typing of the shared pieces.

LEMMA ConstantFacts ==
  /\ MaxTasks \in Nat /\ MaxSteps \in Nat /\ QueueLimit \in Nat /\ MaxFailures \in Nat
  /\ MaxStops \in Nat /\ MaxRestarts \in Nat
  /\ \A p \in Plans : p \in Seq(Kinds) /\ 1 <= Len(p) /\ Len(p) <= MaxSteps
  /\ Sentinel \notin Tasks
<1>1. Sentinel \notin Tasks
  BY DEF Sentinel, Tasks
<1>2. /\ MaxTasks \in Nat /\ MaxSteps \in Nat /\ QueueLimit \in Nat /\ MaxFailures \in Nat
      /\ MaxStops \in Nat /\ MaxRestarts \in Nat
  BY ManagerAssumption DEF ManagerAssumption
<1>3. \A p \in Plans : p \in Seq(Kinds) /\ 1 <= Len(p) /\ Len(p) <= MaxSteps
  BY ManagerAssumption DEF ManagerAssumption
<1> QED BY <1>1, <1>2, <1>3

LEMMA UnsavedRecord == Unsaved \in Records
BY ConstantFacts DEF Unsaved, Records

LEMMA QueuedRecord ==
  ASSUME NEW p \in Plans
  PROVE  /\ NewRecord(p) \in Records
         /\ NewRecord(p).status = "QUEUED" /\ NewRecord(p).steps = p
         /\ NewRecord(p).results = {} /\ NewRecord(p).cancel = FALSE
<1>1. NewRecord(p) \in Records
  BY ConstantFacts DEF NewRecord, Records, Statuses
<1>2. /\ NewRecord(p).status = "QUEUED" /\ NewRecord(p).steps = p
      /\ NewRecord(p).results = {} /\ NewRecord(p).cancel = FALSE
  BY DEF NewRecord
<1> QED BY <1>1, <1>2

LEMMA SnapshotRecord ==
  ASSUME NEW r \in Records
  PROVE  Snapshot(r) \in Records /\ Snapshot(r).status = r.status
BY DEF Snapshot, Records

LEMMA StatusRecord ==
  ASSUME NEW r \in Records, NEW s \in Statuses
  PROVE  /\ [r EXCEPT !.status = s] \in Records
         /\ [r EXCEPT !.cancel = TRUE] \in Records
         /\ [r EXCEPT !.status = s, !.cancel = TRUE] \in Records
BY DEF Records

\* A record of a later process is a record, and none of them is queued.
LEMMA RecoveredRecord ==
  ASSUME NEW r \in Records
  PROVE  Recovered(r) \in Records /\ Recovered(r).status # "QUEUED"
BY DEF Recovered, Records, Statuses, Closed

LEMMA SaveType ==
  ASSUME TypeOK, NEW t \in Tasks, NEW r \in Records, Save(t, r)
  PROVE  journal' \in [Tasks -> Records] /\ failures' \in 0..MaxFailures
<1>1. journal \in [Tasks -> Records] /\ failures \in 0..MaxFailures
  BY DEF TypeOK
<1>2. Snapshot(r) \in Records
  BY SnapshotRecord
<1>3. CASE journal' = [journal EXCEPT ![t] = Snapshot(r)] /\ UNCHANGED failures
  BY <1>1, <1>2, <1>3
<1>4. CASE failures < MaxFailures /\ failures' = failures + 1 /\ UNCHANGED journal
  BY <1>1, <1>4, ConstantFacts
<1> QED BY <1>3, <1>4 DEF Save, Lost

LEMMA UpdateType ==
  ASSUME TypeOK, NEW t \in Tasks, NEW r \in Records, Update(t, r)
  PROVE  /\ task' \in [Tasks -> Records] /\ task'[t] = r
         /\ \A u \in Tasks \ {t} : task'[u] = task[u]
         /\ journal' \in [Tasks -> Records] /\ failures' \in 0..MaxFailures
BY SaveType DEF Update, TypeOK

-----------------------------------------------------------------------------
LEMMA InitIInv == Init => IInv
<1> SUFFICES ASSUME Init PROVE IInv
  OBVIOUS
<1> USE DEF Init, Idle
<1>1. TypeOK
  <2>1. /\ task \in [Tasks -> Records] /\ journal \in [Tasks -> Records] /\ taken \in Records
    BY UnsavedRecord
  <2>2. /\ tracked \in SUBSET Tasks /\ queue \in Seq(Tasks \cup {Sentinel})
        /\ stopTodo \in SUBSET Tasks /\ promised \in SUBSET Tasks
        /\ toUndo \in SUBSET (1..MaxSteps) /\ changed \in [Tasks -> SUBSET (1..MaxSteps)]
    OBVIOUS
  <2>3. /\ ran \in [Tasks -> Seq(1..MaxSteps)] /\ undone \in [Tasks -> Seq(1..MaxSteps)]
        /\ notices \in [Tasks -> Seq(Statuses)]
    OBVIOUS
  <2>4. /\ nextId \in 1..(MaxTasks + 1) /\ Len(queue) <= QueueLimit /\ stops \in 0..MaxStops
        /\ step \in 0..MaxSteps /\ failures \in 0..MaxFailures /\ restarts \in 0..MaxRestarts
    BY ConstantFacts
  <2>5. /\ stopping \in BOOLEAN /\ submitting \in BOOLEAN /\ locked \in BOOLEAN
        /\ pc \in Points /\ current \in Tasks \cup {Sentinel} /\ result \in Results
        /\ verdict \in {"NONE", "FAILED", "CANCELLED", "TIMED_OUT"}
    BY DEF Points, Results
  <2> QED BY <2>1, <2>2, <2>3, <2>4, <2>5 DEF TypeOK
<1>2. WorkerInv /\ QueueInv
  BY DEF WorkerInv, QueueInv, Executing, Deciding, Stepping
<1>3. PromiseInv
  BY DEF PromiseInv, Unsaved
<1> QED BY <1>1, <1>2, <1>3 DEF IInv

-----------------------------------------------------------------------------
\* Every step keeps the types, given where the worker is.
LEMMA TypeStep ==
  ASSUME IInv, [Next]_vars
  PROVE  TypeOK'
<1> USE DEF IInv, memory, control, worker, world, disk, Outside, Goto
<1>1. ASSUME Start \/ SubmitStart PROVE TypeOK'
  BY <1>1, ZenonT(40) DEF Start, SubmitStart, StartWorker, TypeOK, Points
<1>2. ASSUME NEW p \in Plans, SubmitInsert(p) PROVE TypeOK'
  <2>1. CASE UNCHANGED <<memory, disk, notices, world>>
    <3>1. /\ submitting' \in BOOLEAN /\ stuck' \in {stuck, current}
          /\ UNCHANGED <<stopping, stopTodo, stops, worker, restarts>>
      BY <1>2, <2>1 DEF SubmitInsert, TypeOK
    <3> QED BY <2>1, <3>1 DEF TypeOK
  <2>2. CASE ~UNCHANGED <<memory, disk, notices, world>>
    <3> DEFINE t == nextId
    <3>1. /\ Update(t, NewRecord(p)) /\ tracked' = Trimmed(tracked \cup {t}, task')
          /\ nextId' = t + 1 /\ queue' = Append(queue, t) /\ submitting /\ submitting' = FALSE
          /\ notices' = [notices EXCEPT ![t] = <<>>] /\ ran' = [ran EXCEPT ![t] = <<>>]
          /\ changed' = [changed EXCEPT ![t] = {}] /\ undone' = [undone EXCEPT ![t] = <<>>]
          /\ promised' = promised \ {t}
          /\ UNCHANGED <<stopping, stopTodo, stops, stuck, worker, restarts>> /\ ~Full
      BY <1>2, <2>2 DEF SubmitInsert
    <3>2. t \in Tasks /\ nextId' \in 1..(MaxTasks + 1)
      BY <3>1, ConstantFacts DEF TypeOK, Tasks
    <3>3. Len(queue) < QueueLimit
      BY <3>1, ConstantFacts DEF Full, TypeOK
    <3>4. queue' \in Seq(Tasks \cup {Sentinel}) /\ Len(queue') <= QueueLimit
      BY <3>1, <3>2, <3>3, ConstantFacts DEF TypeOK
    <3>5. task' \in [Tasks -> Records] /\ journal' \in [Tasks -> Records] /\ failures' \in 0..MaxFailures
      BY <3>1, <3>2, QueuedRecord, UpdateType
    <3>6. tracked' \in SUBSET Tasks
      BY <3>1, <3>2 DEF TypeOK, Trimmed
    <3> HIDE DEF t
    <3>7. /\ notices' \in [Tasks -> Seq(Statuses)] /\ ran' \in [Tasks -> Seq(1..MaxSteps)]
          /\ undone' \in [Tasks -> Seq(1..MaxSteps)]
      <4>1. <<>> \in Seq(Statuses) /\ <<>> \in Seq(1..MaxSteps)
        OBVIOUS
      <4>2. notices' \in [Tasks -> Seq(Statuses)]
        BY <3>1, <4>1 DEF TypeOK
      <4>3. ran' \in [Tasks -> Seq(1..MaxSteps)]
        BY <3>1, <4>1 DEF TypeOK
      <4>4. undone' \in [Tasks -> Seq(1..MaxSteps)]
        BY <3>1, <4>1 DEF TypeOK
      <4> QED BY <4>2, <4>3, <4>4
    <3>8. changed' \in [Tasks -> SUBSET (1..MaxSteps)] /\ promised' \in SUBSET Tasks
      BY <3>1 DEF TypeOK
    <3>9. UNCHANGED <<stopping, stopTodo, stops, stuck, worker, restarts>> /\ submitting' \in BOOLEAN
      BY <3>1
    <3> QED BY <3>2, <3>4, <3>5, <3>6, <3>7, <3>8, <3>9 DEF TypeOK
  <2> QED BY <1>2, <2>1, <2>2 DEF SubmitInsert
<1>3. ASSUME NEW t \in Tasks, Cancel(t) PROVE TypeOK'
  <2>1. task[t] \in Records /\ "CANCELLED" \in Statuses
    BY DEF TypeOK, Statuses, Closed
  <2>4. /\ UNCHANGED <<tracked, nextId, queue, stopping, stopTodo, stops, submitting, worker,
                       restarts, ran, changed, undone>>
        /\ stuck' \in Tasks \cup {Sentinel}
    BY <1>3 DEF Cancel, TypeOK
  <2>2. CASE CancelNow(t)
    <3>1. task' \in [Tasks -> Records] /\ journal' \in [Tasks -> Records] /\ failures' \in 0..MaxFailures
      BY <2>1, <2>2, StatusRecord, UpdateType DEF CancelNow
    <3>2. notices' \in [Tasks -> Seq(Statuses)]
      BY <2>1, <2>2 DEF CancelNow, TypeOK
    <3>3. promised' \in SUBSET Tasks
      BY <2>2 DEF CancelNow, TypeOK
    <3> QED BY <2>4, <3>1, <3>2, <3>3 DEF TypeOK
  <2>3. CASE CancelLater(t)
    <3>1. task' \in [Tasks -> Records] /\ journal' \in [Tasks -> Records] /\ failures' \in 0..MaxFailures
      BY <2>1, <2>3, StatusRecord, UpdateType DEF CancelLater
    <3>2. UNCHANGED <<notices, promised>>
      BY <2>3 DEF CancelLater
    <3> QED BY <2>4, <3>1, <3>2 DEF TypeOK
  <2> QED BY <1>3, <2>2, <2>3 DEF Cancel
<1>4. ASSUME NEW t \in Tasks, NEW s \in {"RESOLVED", "CANCELLED"}, CloseWaiting(t, s) PROVE TypeOK'
  <2>1. task[t] \in Records /\ s \in Statuses
    BY DEF TypeOK, Statuses, Closed
  <2>2. task' \in [Tasks -> Records] /\ journal' \in [Tasks -> Records] /\ failures' \in 0..MaxFailures
    BY <1>4, <2>1, StatusRecord, UpdateType DEF CloseWaiting
  <2>3. notices' \in [Tasks -> Seq(Statuses)]
    BY <1>4, <2>1 DEF CloseWaiting, TypeOK
  <2>4. UNCHANGED <<tracked, nextId, queue, control, worker, restarts, world>>
    BY <1>4 DEF CloseWaiting
  <2> QED BY <2>2, <2>3, <2>4 DEF TypeOK
<1>5. ASSUME StopBegin PROVE TypeOK'
  <2>1. queue' \in Seq(Tasks \cup {Sentinel}) /\ Len(queue') <= QueueLimit
    BY <1>5, ConstantFacts DEF StopBegin, Full, TypeOK
  <2> QED BY <1>5, <2>1, ConstantFacts DEF StopBegin, TypeOK
<1>6. ASSUME NEW t \in Tasks, StopRecord(t) PROVE TypeOK'
  <2>1. task' \in [Tasks -> Records] /\ journal' \in [Tasks -> Records] /\ failures' \in 0..MaxFailures
    <3>1. task[t] \in Records /\ "CANCELLED" \in Statuses
      BY DEF TypeOK, Statuses, Closed
    <3> QED BY <1>6, <3>1, StatusRecord, UpdateType DEF StopRecord, TypeOK
  <2>2. queue' \in Seq(Tasks \cup {Sentinel}) /\ Len(queue') <= QueueLimit
    BY <1>6, ConstantFacts, SMTT(30) DEF StopRecord, Full, TypeOK
  <2> QED BY <1>6, <2>1, <2>2 DEF StopRecord, TypeOK
<1>7. ASSUME Restart PROVE TypeOK'
  <2>1. ASSUME Lost, LoadNothing
        PROVE  /\ task' \in [Tasks -> Records] /\ tracked' \in SUBSET Tasks
               /\ nextId' \in 1..(MaxTasks + 1)
               /\ journal' \in [Tasks -> Records] /\ failures' \in 0..MaxFailures
    <3>1. task' \in [Tasks -> Records] /\ tracked' \in SUBSET Tasks /\ nextId' \in 1..(MaxTasks + 1)
      BY <2>1, UnsavedRecord, ConstantFacts DEF LoadNothing
    <3>2. journal' \in [Tasks -> Records] /\ failures' \in 0..MaxFailures
      BY <2>1, ConstantFacts DEF Lost, LoadNothing, TypeOK
    <3> QED BY <3>1, <3>2
  <2>2. ASSUME NEW ids \in SUBSET Tasks, Load(ids)
        PROVE  /\ task' \in [Tasks -> Records] /\ tracked' \in SUBSET Tasks
               /\ nextId' \in 1..(MaxTasks + 1)
               /\ journal' \in [Tasks -> Records] /\ failures' \in 0..MaxFailures
    <3>1. task' \in [Tasks -> Records] /\ tracked' \in SUBSET Tasks /\ nextId' \in 1..(MaxTasks + 1)
      BY <2>2, UnsavedRecord, RecoveredRecord DEF Load, TypeOK
    <3>2. PICK lost \in SUBSET ids :
            /\ failures' = failures + Cardinality(lost) /\ failures' <= MaxFailures
            /\ journal' = [t \in Tasks |-> IF t \in ids \ lost THEN Recovered(journal[t]) ELSE journal[t]]
      BY <2>2 DEF Load
    <3>3. IsFiniteSet(lost) /\ Cardinality(lost) \in Nat
      <4>1. IsFiniteSet(1..MaxTasks) /\ lost \subseteq 1..MaxTasks
        BY ConstantFacts, FS_Interval DEF Tasks
      <4>2. IsFiniteSet(lost)
        BY <4>1, FS_Subset
      <4> QED BY <4>2, FS_CardinalityType
    <3>4. failures' \in 0..MaxFailures
      BY <3>2, <3>3, ConstantFacts DEF TypeOK
    <3>5. journal' \in [Tasks -> Records]
      BY <3>2, RecoveredRecord DEF TypeOK
    <3> QED BY <3>1, <3>4, <3>5
  <2>3. /\ task' \in [Tasks -> Records] /\ tracked' \in SUBSET Tasks
        /\ nextId' \in 1..(MaxTasks + 1)
        /\ journal' \in [Tasks -> Records] /\ failures' \in 0..MaxFailures
    <3>1. Newest({t \in Tasks : journal[t] # Unsaved}) \in SUBSET Tasks
      BY DEF Newest
    <3> QED BY <1>7, <2>1, <2>2, <3>1 DEF Restart, LoadNothing, TypeOK
  <2>4. /\ queue' \in Seq(Tasks \cup {Sentinel}) /\ Len(queue') <= QueueLimit
        /\ restarts' \in 0..MaxRestarts /\ step' \in 0..MaxSteps
    BY <1>7, ConstantFacts DEF Restart, FreshQueue, TypeOK
  <2>5. /\ stopping' \in BOOLEAN /\ stopTodo' \in SUBSET Tasks /\ submitting' \in BOOLEAN
        /\ pc' \in Points /\ current' \in Tasks \cup {Sentinel} /\ result' \in Results
        /\ verdict' \in {"NONE", "FAILED", "CANCELLED", "TIMED_OUT"}
        /\ toUndo' \in SUBSET (1..MaxSteps) /\ locked' \in BOOLEAN /\ taken' \in Records
    BY <1>7, UnsavedRecord DEF Restart, Points, Results
  <2> QED BY <1>7, <2>3, <2>4, <2>5 DEF Restart, TypeOK
<1>8. ASSUME Poll PROVE TypeOK'
  BY <1>8 DEF Poll, TypeOK, Points
<1>9. ASSUME Get PROVE TypeOK'
  <2>1. queue' \in Seq(Tasks \cup {Sentinel}) /\ Len(queue') <= QueueLimit
    <3>1. queue \in Seq(Tasks \cup {Sentinel}) /\ Len(queue) <= QueueLimit /\ QueueLimit \in Nat
      BY ConstantFacts DEF TypeOK
    <3>2. queue' = queue \/ (queue # <<>> /\ queue' = Tail(queue))
      BY <1>9 DEF Get
    <3>3. CASE queue # <<>> /\ queue' = Tail(queue)
      <4>1. Tail(queue) \in Seq(Tasks \cup {Sentinel}) /\ Len(Tail(queue)) = Len(queue) - 1
        BY <3>1, <3>3
      <4> QED BY <3>1, <3>3, <4>1
    <3> QED BY <3>1, <3>2, <3>3
  <2>2. pc' \in Points /\ current' \in Tasks \cup {Sentinel}
    BY <1>9 DEF Get, TypeOK, Points
  <2>3. UNCHANGED <<task, Outside, step, result, verdict, toUndo, locked, taken, notices, disk, world>>
    BY <1>9 DEF Get
  <2> QED BY <2>1, <2>2, <2>3 DEF TypeOK
<1>10. ASSUME Begin PROVE TypeOK'
  BY <1>10 DEF Begin, TypeOK, Points
<1>11. ASSUME Preflight PROVE TypeOK'
  <2>1. current \in Tasks /\ task[current] \in Records /\ "FAILED" \in Statuses
    BY <1>11 DEF Preflight, WorkerInv, Executing, TypeOK, Statuses, Closed
  <2>2. task' = task \/ task' = [task EXCEPT ![current] = [task[current] EXCEPT !.status = "FAILED"]]
    BY <1>11 DEF Preflight, TypeOK
  <2>3. [task[current] EXCEPT !.status = "FAILED"] \in Records
    BY <2>1, StatusRecord
  <2>4. task' \in [Tasks -> Records]
    BY <2>1, <2>2, <2>3 DEF TypeOK
  <2> QED BY <1>11, <2>4 DEF Preflight, TypeOK, Points
<1>12. ASSUME StartRunning PROVE TypeOK'
  <2>1. current \in Tasks /\ task[current] \in Records /\ "RUNNING" \in Statuses
    BY <1>12 DEF StartRunning, WorkerInv, Executing, TypeOK, Statuses
  <2>2. task' \in [Tasks -> Records] /\ journal' \in [Tasks -> Records] /\ failures' \in 0..MaxFailures
    BY <1>12, <2>1, StatusRecord, UpdateType DEF StartRunning
  <2>3. 1 \in 0..MaxSteps
    BY <1>12, ConstantFacts DEF StartRunning, WorkerInv, Executing
  <2> QED BY <1>12, <2>2, <2>3 DEF StartRunning, TypeOK, Points
<1>13. ASSUME StepBegin PROVE TypeOK'
  <2>1. current \in Tasks /\ task[current] \in Records
    BY <1>13 DEF StepBegin, WorkerInv, Executing, TypeOK
  <2>2. task' \in [Tasks -> Records] /\ journal' \in [Tasks -> Records] /\ failures' \in 0..MaxFailures
    BY <1>13, <2>1, UpdateType DEF StepBegin, TypeOK
  <2>3. task[current].results \in SUBSET (1..MaxSteps)
    BY <2>1 DEF Records
  <2> QED BY <1>13, <2>2, <2>3 DEF StepBegin, StartUndo, TypeOK, Points
<1>14. ASSUME Call PROVE TypeOK'
  <2>1. task[current] \in Records
    BY <1>14 DEF Call, WorkerInv, Executing, TypeOK
  <2>2. task[current].results \in SUBSET (1..MaxSteps)
    BY <2>1 DEF Records
  <2> QED BY <1>14, <2>2 DEF Call, StartUndo, TypeOK, Points
<1>15. ASSUME Handler PROVE TypeOK'
  <2>1. current \in Tasks /\ step \in 1..MaxSteps
    BY <1>15, ConstantFacts DEF Handler, WorkerInv, Executing, Stepping, TypeOK
  <2>2. result' \in Results
    BY <1>15 DEF Handler, Outcomes, Results
  <2>3. changed' \in [Tasks -> SUBSET (1..MaxSteps)]
    BY <1>15, <2>1 DEF Handler, TypeOK
  <2>4. ran' \in [Tasks -> Seq(1..MaxSteps)]
    BY <1>15, <2>1 DEF Handler, TypeOK
  <2> QED BY <1>15, <2>2, <2>3, <2>4 DEF Handler, TypeOK, Points
<1>16. ASSUME Return PROVE TypeOK'
  <2>1. /\ current \in Tasks /\ task[current] \in Records
        /\ step \in 1..Len(task[current].steps) /\ Len(task[current].steps) \in 1..MaxSteps
    BY <1>16, ConstantFacts DEF Return, WorkerInv, Executing, Stepping, TypeOK
  <2>2. PICK r \in Delivered : Record(r) \/ AskUser(r) \/ GiveUp(r)
    BY <1>16 DEF Return
  <2>3. UNCHANGED <<queue, Outside, current, locked, taken, notices, world>> /\ result' = "none"
    BY <1>16 DEF Return
  <2>4. /\ task' \in [Tasks -> Records] /\ journal' \in [Tasks -> Records]
        /\ failures' \in 0..MaxFailures
        /\ pc' \in Points /\ step' \in 0..MaxSteps /\ toUndo' \in SUBSET (1..MaxSteps)
        /\ verdict' \in {"NONE", "FAILED", "CANCELLED", "TIMED_OUT"}
    <3>1. CASE Record(r)
      <4> DEFINE new == [task[current] EXCEPT
                           !.done = step,
                           !.results = IF Compensable(r) THEN @ \cup {step} ELSE @]
      <4>1. new \in Records
        <5>1. step \in 0..MaxSteps /\ step \in 1..MaxSteps
          BY <2>1, ConstantFacts
        <5>2. task[current].results \cup {step} \in SUBSET (1..MaxSteps)
          BY <2>1, <5>1 DEF Records
        <5> QED BY <2>1, <5>1, <5>2 DEF Records
      <4>2. Update(current, new)
        BY <3>1 DEF Record
      <4> HIDE DEF new
      <4>3. /\ task' \in [Tasks -> Records] /\ journal' \in [Tasks -> Records]
            /\ failures' \in 0..MaxFailures
        BY <2>1, <4>1, <4>2, UpdateType
      <4>4. pc' \in Points /\ step' \in 0..MaxSteps
        BY <2>1, <3>1, ConstantFacts DEF Record, Points
      <4> QED BY <3>1, <4>3, <4>4 DEF Record, TypeOK
    <3>2. CASE AskUser(r)
      <4>1. task' = [task EXCEPT ![current] = [task[current] EXCEPT !.status = "WAITING"]]
        BY <3>2 DEF AskUser, TypeOK
      <4>2. [task[current] EXCEPT !.status = "WAITING"] \in Records
        BY <2>1, StatusRecord DEF Statuses
      <4>3. task' \in [Tasks -> Records]
        BY <2>1, <4>1, <4>2 DEF TypeOK
      <4> QED BY <3>2, <4>3 DEF AskUser, TypeOK, Points
    <3>3. CASE GiveUp(r)
      <4>1. task[current].results \in SUBSET (1..MaxSteps)
        BY <2>1 DEF Records
      <4> QED BY <3>3, <4>1 DEF GiveUp, StartUndo, TypeOK, Points
    <3> QED BY <2>2, <3>1, <3>2, <3>3
  <2> QED BY <2>3, <2>4 DEF TypeOK, Results
<1>17. ASSUME Complete PROVE TypeOK'
  <2>1. current \in Tasks /\ task[current] \in Records /\ "COMPLETED" \in Statuses
    BY <1>17 DEF Complete, WorkerInv, Executing, TypeOK, Statuses, Closed
  <2>2. task' \in [Tasks -> Records]
    BY <1>17, <2>1, StatusRecord DEF Complete, TypeOK
  <2> QED BY <1>17, <2>2 DEF Complete, TypeOK, Points
<1>18. ASSUME Compensate PROVE TypeOK'
  <2>1. current \in Tasks
    BY <1>18 DEF Compensate, WorkerInv, Executing
  <2>2. undone' \in [Tasks -> Seq(1..MaxSteps)] /\ toUndo' \in SUBSET (1..MaxSteps)
    BY <1>18, <2>1 DEF Compensate, TypeOK
  <2>3. changed' \in [Tasks -> SUBSET (1..MaxSteps)]
    BY <1>18, <2>1, ZenonT(40) DEF Compensate, TypeOK
  <2> QED BY <1>18, <2>2, <2>3 DEF Compensate, TypeOK
<1>19. ASSUME Close PROVE TypeOK'
  <2>1. current \in Tasks /\ task[current] \in Records /\ verdict \in Statuses
    BY <1>19 DEF Close, WorkerInv, Executing, TypeOK, Statuses, Closed
  <2>2. task' \in [Tasks -> Records]
    BY <1>19, <2>1, StatusRecord DEF Close, TypeOK
  <2> QED BY <1>19, <2>2 DEF Close, TypeOK, Points
<1>20. ASSUME FinishSave \/ FinishSnapshot PROVE TypeOK'
  <2>1. task[current] \in Records
    BY <1>20 DEF FinishSave, FinishSnapshot, WorkerInv, Executing, TypeOK
  <2> QED BY <1>20, <2>1, SnapshotRecord DEF FinishSave, FinishSnapshot, TypeOK, Points
<1>21. ASSUME FinishWrite PROVE TypeOK'
  <2>1. current \in Tasks /\ taken \in Records
    BY <1>21 DEF FinishWrite, WorkerInv, Executing, TypeOK
  <2> QED BY <1>21, <2>1, SaveType DEF FinishWrite, TypeOK, Points
<1>22. ASSUME FinishNotify PROVE TypeOK'
  <2>1. current \in Tasks /\ taken.status \in Statuses
    BY <1>22 DEF FinishNotify, WorkerInv, Executing
  <2>2. notices' \in [Tasks -> Seq(Statuses)]
    BY <1>22, <2>1 DEF FinishNotify, TypeOK
  <2>3. 0 \in 0..MaxSteps
    BY ConstantFacts
  <2> QED BY <1>22, <2>2, <2>3, UnsavedRecord DEF FinishNotify, TypeOK, Points
<1>23. ASSUME FinishListeners PROVE TypeOK'
  <2>1. 0 \in 0..MaxSteps
    BY ConstantFacts
  <2> QED BY <1>23, <2>1 DEF FinishListeners, TypeOK, Points
<1>24. CASE UNCHANGED vars
  BY <1>24 DEF vars, TypeOK
<1> QED
  BY <1>1, <1>2, <1>3, <1>4, <1>5, <1>6, <1>7, <1>8, <1>9, <1>10, <1>11, <1>12, <1>13, <1>14,
     <1>15, <1>16, <1>17, <1>18, <1>19, <1>20, <1>21, <1>22, <1>23, <1>24
  DEF Next, Worker, Users, Application

-----------------------------------------------------------------------------
\* The queue may get the sentinel while the records keep what matters to it.
LEMMA QueueFrame ==
  ASSUME TypeOK, QueueInv,
         queue' = queue \/ queue' = Append(queue, Sentinel),
         \A u \in Tasks : /\ task'[u].steps = task[u].steps
                          /\ task'[u].results = task[u].results
                          /\ task[u].status \in Statuses => task'[u].status \in Statuses,
         UNCHANGED <<nextId, pc, current, ran, undone>>
  PROVE  QueueInv'
<1>1. queue \in Seq(Tasks \cup {Sentinel}) /\ Len(queue) \in Nat
  BY DEF TypeOK
<1>2. \A i \in 1..Len(queue') : queue'[i] # Sentinel =>
        i \in 1..Len(queue) /\ queue'[i] = queue[i] /\ queue[i] \in Tasks
  BY <1>1
<1>3. Executing' <=> Executing
  BY DEF Executing
<1> SUFFICES ASSUME NEW i \in 1..Len(queue'), queue'[i] # Sentinel
             PROVE  /\ queue'[i] < nextId'
                    /\ ran'[queue'[i]] = <<>> /\ undone'[queue'[i]] = <<>>
                    /\ task'[queue'[i]].steps \in Plans /\ task'[queue'[i]].results = {}
                    /\ task'[queue'[i]].status \in Statuses
                    /\ Executing' => queue'[i] # current'
                    /\ \A j \in 1..Len(queue') : queue'[j] = queue'[i] => i = j
  BY DEF QueueInv
<1> DEFINE u == queue[i]
<1>4. i \in 1..Len(queue) /\ queue'[i] = u /\ u \in Tasks /\ u # Sentinel
  BY <1>2
<1>5. /\ u < nextId /\ ran[u] = <<>> /\ undone[u] = <<>>
      /\ task[u].steps \in Plans /\ task[u].results = {}
      /\ task[u].status \in Statuses
      /\ Executing => u # current
      /\ \A j \in 1..Len(queue) : queue[j] = u => i = j
  BY <1>4 DEF QueueInv
<1> HIDE DEF u
<1>6. \A j \in 1..Len(queue') : queue'[j] = u => i = j
  BY <1>2, <1>4, <1>5
<1> QED BY <1>3, <1>4, <1>5, <1>6

-----------------------------------------------------------------------------
\* Cancelling, closing and marking change the record of one task and never
\* lower its flag; stop may add the sentinel to the queue.
Marks(t, r) ==
  /\ task' = [task EXCEPT ![t] = r]
  /\ r.steps = task[t].steps /\ r.results = task[t].results /\ r.status \in Statuses
  /\ r.status = "QUEUED" => task[t].status = "QUEUED"
  /\ task[t].cancel => r.cancel
  /\ \/ promised' = promised
     \/ task[t].status = "QUEUED" /\ r.cancel /\ promised' = promised \cup {t}
  /\ queue' = queue \/ queue' = Append(queue, Sentinel)
  /\ UNCHANGED <<nextId, submitting, worker, ran, undone>>

LEMMA MarkStep ==
  ASSUME IInv, NEW t \in Tasks, NEW r, Marks(t, r)
  PROVE  WorkerInv' /\ QueueInv' /\ PromiseInv' /\ (submitting' => nextId' <= MaxTasks)
<1> USE DEF worker, Marks
<1>1. /\ task'[t] = r /\ \A u \in Tasks \ {t} : task'[u] = task[u]
      /\ task \in [Tasks -> Records] /\ queue \in Seq(Tasks \cup {Sentinel})
  BY DEF IInv, TypeOK
<1>2. \A u \in Tasks : /\ task'[u].steps = task[u].steps
                       /\ task'[u].results = task[u].results
                       /\ task'[u].status = "QUEUED" => task[u].status = "QUEUED"
                       /\ task[u].status \in Statuses => task'[u].status \in Statuses
                       /\ task[u].cancel => task'[u].cancel
  BY <1>1
<1>3. WorkerInv'
  BY <1>1, <1>2 DEF IInv, WorkerInv, Executing, Deciding, Stepping
<1>4. /\ Len(queue) \in Nat
      /\ \A i \in 1..Len(queue) : queue[i] \in Tasks \cup {Sentinel}
      /\ \A i \in 1..Len(queue') : queue'[i] # Sentinel => i \in 1..Len(queue) /\ queue'[i] = queue[i]
  BY <1>1
<1>5. QueueInv'
  <2>1. TypeOK /\ QueueInv /\ UNCHANGED <<nextId, pc, current, ran, undone>>
    BY DEF IInv
  <2> QED BY <1>2, <2>1, QueueFrame
<1>6. PromiseInv'
  <2>1. \A u \in Tasks : task'[u].status = "QUEUED" => ran'[u] = <<>>
    BY <1>2 DEF IInv, PromiseInv
  <2>2. Sentinel \notin Tasks /\ promised' \in SUBSET Tasks
    BY ConstantFacts DEF IInv, TypeOK
  <2>3. ASSUME NEW u \in promised
        PROVE  /\ ran'[u] = <<>>
               /\ Executing' /\ current' = u =>
                    task'[u].cancel /\ pc' \notin {"call", "handler", "return", "complete"}
               /\ \A i \in 1..Len(queue') : queue'[i] = u => task'[u].cancel
    <3>1. u \in Tasks /\ u # Sentinel
      BY <2>2 DEF IInv, TypeOK
    <3> QED BY <1>2, <1>4, <3>1 DEF IInv, PromiseInv, Executing
  <2>4. ASSUME task[t].status = "QUEUED", r.cancel
        PROVE  /\ ran'[t] = <<>>
               /\ Executing' /\ current' = t =>
                    task'[t].cancel /\ pc' \notin {"call", "handler", "return", "complete"}
               /\ \A i \in 1..Len(queue') : queue'[i] = t => task'[t].cancel
    <3>1. Executing /\ current = t => Deciding
      BY <2>4 DEF IInv, WorkerInv
    <3> QED BY <1>1, <2>4, <3>1 DEF IInv, PromiseInv, Executing, Deciding
  <2> QED BY <2>1, <2>3, <2>4 DEF PromiseInv
<1>7. submitting' => nextId' <= MaxTasks
  BY DEF IInv
<1> QED BY <1>3, <1>5, <1>6, <1>7

\* A step of the worker on its current task: nothing else has to be looked at
\* than that task.
LEMMA WorkerFrame ==
  ASSUME IInv, Executing, Executing' => current' = current,
         UNCHANGED <<queue, nextId, submitting, promised>>,
         \A u \in Tasks \ {current} : /\ task'[u] = task[u]
                                      /\ ran'[u] = ran[u] /\ undone'[u] = undone[u],
         task'[current].status = "QUEUED" => ran'[current] = <<>>,
         current \in promised => /\ ran'[current] = <<>>
                                 /\ Executing' => /\ task'[current].cancel
                                                  /\ pc' \notin {"call", "handler", "return", "complete"}
  PROVE  QueueInv' /\ PromiseInv' /\ (submitting' => nextId' <= MaxTasks)
<1>1. /\ \A i \in 1..Len(queue) : queue[i] \in Tasks \cup {Sentinel} /\ Len(queue) \in Nat
      /\ promised \in SUBSET Tasks /\ current \in Tasks
  BY DEF IInv, TypeOK, WorkerInv
<1>2. QueueInv'
  BY <1>1 DEF IInv, QueueInv
<1>3. PromiseInv'
  <2>1. \A u \in Tasks : task'[u].status = "QUEUED" => ran'[u] = <<>>
    BY DEF IInv, PromiseInv
  <2>2. current \notin {queue[i] : i \in 1..Len(queue)}
    BY <1>1, ConstantFacts DEF IInv, QueueInv
  <2>3. \A u \in promised : ran'[u] = <<>>
    BY <1>1 DEF IInv, PromiseInv
  <2>4. \A u \in promised : \A i \in 1..Len(queue) : queue[i] = u => task'[u].cancel
    BY <1>1, <2>2 DEF IInv, PromiseInv
  <2> QED BY <2>1, <2>3, <2>4 DEF PromiseInv
<1>4. submitting' => nextId' <= MaxTasks
  BY DEF IInv
<1> QED BY <1>2, <1>3, <1>4

\* Calls from outside the worker keep the rest of the invariant.
LEMMA OutsideStep ==
  ASSUME IInv, Start \/ Users \/ StopBegin \/ (\E t \in Tasks : StopRecord(t)) \/ Restart
  PROVE  WorkerInv' /\ QueueInv' /\ PromiseInv' /\ (submitting' => nextId' <= MaxTasks)
<1> USE DEF memory, control, worker, world, disk
<1>1. CASE Start \/ SubmitStart
  <2>1. /\ UNCHANGED <<task, nextId, queue, current, step, verdict, toUndo, taken,
                       ran, undone, promised>>
        /\ pc' = pc \/ (pc = "off" /\ pc' = "poll")
    <3>1. CASE Start
      BY <3>1 DEF Start, StartWorker
    <3>2. CASE SubmitStart
      <4>1. /\ UNCHANGED <<task, nextId, queue, current, step, verdict, toUndo, taken>>
            /\ UNCHANGED <<ran, undone, promised>> /\ StartWorker
        BY <3>2 DEF SubmitStart
      <4> QED BY <4>1 DEF StartWorker
    <3> QED BY <1>1, <3>1, <3>2
  <2>2. WorkerInv'
    BY <2>1 DEF IInv, WorkerInv, Executing, Deciding, Stepping
  <2>3. QueueInv'
    BY <2>1 DEF IInv, QueueInv, Executing
  <2>4. PromiseInv'
    BY <2>1 DEF IInv, PromiseInv, Executing
  <2>5. submitting' => nextId' <= MaxTasks
    BY <1>1, <2>1 DEF Start, SubmitStart, IInv
  <2> QED BY <2>2, <2>3, <2>4, <2>5
<1>2. ASSUME NEW p \in Plans, SubmitInsert(p)
      PROVE  WorkerInv' /\ QueueInv' /\ PromiseInv' /\ (submitting' => nextId' <= MaxTasks)
  <2>1. UNCHANGED worker /\ submitting
    BY <1>2 DEF SubmitInsert
  <2>2. CASE UNCHANGED <<memory, disk, notices, world>>
    <3>1. WorkerInv'
      BY <2>1, <2>2 DEF IInv, WorkerInv, Executing, Deciding, Stepping
    <3>2. QueueInv'
      BY <2>1, <2>2 DEF IInv, QueueInv, Executing
    <3>3. PromiseInv'
      BY <2>1, <2>2 DEF IInv, PromiseInv, Executing
    <3>4. nextId' <= MaxTasks
      BY <2>1, <2>2 DEF IInv
    <3> QED BY <3>1, <3>2, <3>3, <3>4
  <2>3. CASE ~UNCHANGED <<memory, disk, notices, world>>
    <3> DEFINE t == nextId
               r == NewRecord(p)
    <3>0. ~submitting'
      BY <1>2, <2>3 DEF SubmitInsert
    <3>1. /\ Update(t, r) /\ nextId' = t + 1 /\ queue' = Append(queue, t)
          /\ ran' = [ran EXCEPT ![t] = <<>>] /\ undone' = [undone EXCEPT ![t] = <<>>]
          /\ promised' = promised \ {t}
      BY <1>2, <2>3 DEF SubmitInsert
    <3>2. t \in Tasks /\ t \in Nat /\ t # Sentinel
      BY <2>1, ConstantFacts DEF IInv, TypeOK, Tasks, Sentinel
    <3>3. /\ task' = [task EXCEPT ![t] = r] /\ task \in [Tasks -> Records]
          /\ r.status = "QUEUED" /\ r.steps = p /\ r.results = {}
      BY <3>1, QueuedRecord DEF Update, IInv, TypeOK
    <3>4. /\ task'[t].status = "QUEUED" /\ task'[t].steps = p /\ task'[t].results = {}
          /\ ran'[t] = <<>> /\ undone'[t] = <<>>
      <4>1. ran \in [Tasks -> Seq(1..MaxSteps)] /\ undone \in [Tasks -> Seq(1..MaxSteps)]
        BY DEF IInv, TypeOK
      <4> QED BY <3>1, <3>2, <3>3, <4>1
    <3> HIDE DEF r
    <3>5. \A u \in Tasks \ {t} : task'[u] = task[u] /\ ran'[u] = ran[u] /\ undone'[u] = undone[u]
      BY <3>1, <3>2, <3>3 DEF IInv, TypeOK
    <3> HIDE DEF t
    <3>6. /\ queue \in Seq(Tasks \cup {Sentinel}) /\ Len(queue) \in Nat
          /\ \A i \in 1..Len(queue) : queue[i] \in Tasks \cup {Sentinel}
      BY DEF IInv, TypeOK
    <3>7. /\ \A i \in 1..Len(queue) : queue[i] # Sentinel =>
               queue[i] \in Tasks /\ queue[i] # t /\ queue[i] < nextId'
          /\ Executing => current \in Tasks /\ current # t /\ current < nextId'
      <4>1. nextId' = t + 1 /\ nextId = t
        BY <3>1 DEF t
      <4>2. \A u \in Tasks : u \in Nat
        BY ConstantFacts DEF Tasks
      <4>3. \A i \in 1..Len(queue) : queue[i] # Sentinel => queue[i] \in Tasks /\ queue[i] < nextId
        BY <3>6 DEF IInv, QueueInv
      <4>4. Executing => current \in Tasks /\ current < nextId
        BY DEF IInv, WorkerInv
      <4>5. t \in Nat /\ \A u \in Nat : u < nextId => u # t /\ u < nextId'
        BY <3>2, <4>1
      <4> QED BY <4>2, <4>3, <4>4, <4>5
    <3>8. WorkerInv'
      BY <2>1, <3>5, <3>7 DEF IInv, WorkerInv, Executing, Deciding, Stepping
    <3>9. /\ Len(queue') = Len(queue) + 1 /\ queue'[Len(queue) + 1] = t
          /\ \A i \in 1..Len(queue) : queue'[i] = queue[i]
      BY <3>1, <3>6
    <3>10. QueueInv'
      <4> SUFFICES ASSUME NEW i \in 1..Len(queue'), queue'[i] # Sentinel
                   PROVE  /\ queue'[i] < nextId'
                          /\ ran'[queue'[i]] = <<>> /\ undone'[queue'[i]] = <<>>
                          /\ task'[queue'[i]].steps \in Plans /\ task'[queue'[i]].results = {}
                          /\ task'[queue'[i]].status \in Statuses
                          /\ Executing' => queue'[i] # current'
                          /\ \A j \in 1..Len(queue') : queue'[j] = queue'[i] => i = j
        BY DEF QueueInv
      <4>1. CASE i = Len(queue) + 1
        <5>1. queue'[i] = t /\ t < nextId'
          BY <3>1, <3>2, <3>9, <4>1 DEF t
        <5>2. \A j \in 1..Len(queue') : queue'[j] = t => i = j
          BY <3>2, <3>6, <3>7, <3>9, <4>1
        <5> QED BY <1>2, <2>1, <3>4, <3>7, <5>1, <5>2 DEF Statuses, Executing
      <4>2. CASE i \in 1..Len(queue)
        <5>1. queue'[i] = queue[i] /\ queue[i] \in Tasks \ {t} /\ queue[i] < nextId'
          BY <3>7, <3>9, <4>2
        <5>2. \A j \in 1..Len(queue') : queue'[j] = queue[i] => i = j
          BY <3>6, <3>9, <4>2, <5>1 DEF IInv, QueueInv
        <5> QED BY <2>1, <3>5, <4>2, <5>1, <5>2, SMTT(30) DEF IInv, QueueInv, Executing
      <4> QED BY <3>6, <3>9, <4>1, <4>2
    <3>11. PromiseInv'
      <4>1. \A u \in Tasks : task'[u].status = "QUEUED" => ran'[u] = <<>>
        BY <3>4, <3>5 DEF IInv, PromiseInv
      <4>2. ASSUME NEW u \in promised \ {t}
            PROVE  /\ ran'[u] = <<>>
                   /\ Executing' /\ current' = u =>
                        task'[u].cancel /\ pc' \notin {"call", "handler", "return", "complete"}
                   /\ \A i \in 1..Len(queue') : queue'[i] = u => task'[u].cancel
        <5>1. u \in Tasks \ {t}
          BY DEF IInv, TypeOK
        <5>2. \A i \in 1..Len(queue') : queue'[i] = u => i \in 1..Len(queue) /\ queue[i] = u
          BY <3>6, <3>9, <5>1
        <5> QED BY <2>1, <3>5, <5>1, <5>2 DEF IInv, PromiseInv, Executing
      <4> QED BY <3>1, <4>1, <4>2 DEF PromiseInv
    <3> QED BY <3>0, <3>8, <3>10, <3>11
  <2> QED BY <2>2, <2>3
<1>3. ASSUME NEW t \in Tasks, Cancel(t)
      PROVE  WorkerInv' /\ QueueInv' /\ PromiseInv' /\ (submitting' => nextId' <= MaxTasks)
  <2>1. task[t] \in Records /\ UNCHANGED <<queue, nextId, submitting, worker, ran, undone>>
    BY <1>3 DEF Cancel, IInv, TypeOK
  <2>2. CASE CancelNow(t)
    <3> DEFINE r == [task[t] EXCEPT !.status = "CANCELLED", !.cancel = TRUE]
    <3>1. /\ task' = [task EXCEPT ![t] = r]
          /\ \/ promised' = promised
             \/ task[t].status = "QUEUED" /\ promised' = promised \cup {t}
      BY <2>2 DEF CancelNow, Update
    <3>2. /\ r.steps = task[t].steps /\ r.results = task[t].results /\ r.cancel
          /\ r.status \in Statuses /\ r.status # "QUEUED"
      BY <2>1 DEF Records, Statuses, Closed
    <3> HIDE DEF r
    <3>3. Marks(t, r)
      BY <2>1, <3>1, <3>2 DEF Marks
    <3> QED BY <3>3, MarkStep
  <2>3. CASE CancelLater(t)
    <3> DEFINE r == [task[t] EXCEPT !.cancel = TRUE]
    <3>1. task' = [task EXCEPT ![t] = r] /\ promised' = promised
      BY <2>3 DEF CancelLater, Update
    <3>2. CASE task[t].status = "NONE"
      \* A number that is tracked has a record; here only the flag rises.
      <4>1. r.steps = task[t].steps /\ r.results = task[t].results /\ r.cancel /\ r.status = "NONE"
        BY <2>1, <3>2 DEF Records
      <4> HIDE DEF r
      <4>2. /\ task'[t] = r /\ \A u \in Tasks \ {t} : task'[u] = task[u]
            /\ queue \in Seq(Tasks \cup {Sentinel})
        BY <3>1 DEF IInv, TypeOK
      <4>3. ~(Executing /\ current = t) /\ \A i \in 1..Len(queue) : queue[i] # t
        BY <3>2, ConstantFacts DEF IInv, WorkerInv, QueueInv, Statuses, Closed
      <4>4. WorkerInv'
        BY <2>1, <4>2, <4>3 DEF IInv, WorkerInv, Executing, Deciding, Stepping
      <4>5. \A i \in 1..Len(queue) : queue[i] # Sentinel => queue[i] \in Tasks \ {t}
        BY <4>2, <4>3
      <4>6. QueueInv'
        BY <2>1, <4>2, <4>5, ZenonT(40) DEF IInv, QueueInv, Executing
      <4>7. promised \in SUBSET Tasks /\ \A u \in Tasks : task'[u].status = "QUEUED" => task[u].status = "QUEUED"
        BY <4>1, <4>2 DEF IInv, TypeOK
      <4>8. PromiseInv'
        BY <2>1, <3>1, <4>2, <4>3, <4>7 DEF IInv, PromiseInv, Executing
      <4> QED BY <2>1, <4>4, <4>6, <4>8 DEF IInv
    <3>3. CASE task[t].status # "NONE"
      <4>1. /\ r.steps = task[t].steps /\ r.results = task[t].results /\ r.cancel
            /\ r.status \in Statuses /\ r.status = task[t].status
        BY <2>1, <3>3 DEF Records
      <4> HIDE DEF r
      <4>2. Marks(t, r)
        BY <2>1, <3>1, <4>1 DEF Marks
      <4> QED BY <4>2, MarkStep
    <3> QED BY <3>2, <3>3
  <2> QED BY <1>3, <2>2, <2>3 DEF Cancel
<1>4. ASSUME NEW t \in Tasks, NEW s \in {"RESOLVED", "CANCELLED"}, CloseWaiting(t, s)
      PROVE  WorkerInv' /\ QueueInv' /\ PromiseInv' /\ (submitting' => nextId' <= MaxTasks)
  <2> DEFINE r == [task[t] EXCEPT !.status = s]
  <2>1. /\ task[t] \in Records /\ UNCHANGED <<queue, nextId, submitting, worker, ran, undone>>
        /\ task' = [task EXCEPT ![t] = r] /\ promised' = promised
    BY <1>4 DEF CloseWaiting, Update, IInv, TypeOK
  <2>2. /\ r.steps = task[t].steps /\ r.results = task[t].results /\ r.cancel = task[t].cancel
        /\ r.status \in Statuses /\ r.status # "QUEUED"
    BY <2>1 DEF Records, Statuses, Closed
  <2> HIDE DEF r
  <2>3. Marks(t, r)
    BY <2>1, <2>2 DEF Marks
  <2> QED BY <2>3, MarkStep
<1>5. CASE StopBegin
  <2>1. /\ UNCHANGED <<task, nextId, submitting, worker, ran, undone, promised>>
        /\ queue' = queue \/ queue' = Append(queue, Sentinel)
        /\ queue \in Seq(Tasks \cup {Sentinel})
    BY <1>5 DEF StopBegin, IInv, TypeOK
  <2>2. WorkerInv'
    BY <2>1 DEF IInv, WorkerInv, Executing, Deciding, Stepping
  <2>3. /\ Len(queue) \in Nat
        /\ \A i \in 1..Len(queue') : queue'[i] # Sentinel => i \in 1..Len(queue) /\ queue'[i] = queue[i]
    BY <2>1
  <2>4. QueueInv'
    <3>1. /\ TypeOK /\ QueueInv /\ UNCHANGED <<nextId, pc, current, ran, undone>>
          /\ \A u \in Tasks : task'[u] = task[u]
      BY <2>1 DEF IInv
    <3> QED BY <2>1, <3>1, QueueFrame
  <2>5. Sentinel \notin promised
    BY ConstantFacts DEF IInv, TypeOK
  <2>6. PromiseInv'
    BY <2>1, <2>3, <2>5 DEF IInv, PromiseInv, Executing
  <2> QED BY <2>1, <2>2, <2>4, <2>6 DEF IInv
<1>6. ASSUME NEW t \in Tasks, StopRecord(t)
      PROVE  WorkerInv' /\ QueueInv' /\ PromiseInv' /\ (submitting' => nextId' <= MaxTasks)
  <2> DEFINE r == IF task[t].status \in {"QUEUED", "RUNNING"}
                  THEN [task[t] EXCEPT !.cancel = TRUE] ELSE task[t]
  <2>1. /\ task[t] \in Records /\ UNCHANGED <<nextId, submitting, worker, ran, undone, promised>>
        /\ queue' = queue \/ queue' = Append(queue, Sentinel)
        /\ task' = [task EXCEPT ![t] = r]
    BY <1>6 DEF StopRecord, Update, IInv, TypeOK
  <2>2. /\ r.steps = task[t].steps /\ r.results = task[t].results /\ r.status = task[t].status
        /\ task[t].cancel => r.cancel
    BY <2>1 DEF Records
  <2>3. CASE task[t].status = "NONE"
    <3>1. task' = task
      BY <2>1, <2>3 DEF IInv, TypeOK
    <3>2. queue \in Seq(Tasks \cup {Sentinel})
      BY DEF IInv, TypeOK
    <3>3. WorkerInv'
      BY <2>1, <3>1 DEF IInv, WorkerInv, Executing, Deciding, Stepping
    <3>4. /\ Len(queue) \in Nat
          /\ \A i \in 1..Len(queue') : queue'[i] # Sentinel => i \in 1..Len(queue) /\ queue'[i] = queue[i]
      BY <2>1, <3>2
    <3>5. QueueInv'
      <4>1. /\ TypeOK /\ QueueInv /\ UNCHANGED <<nextId, pc, current, ran, undone>>
            /\ \A u \in Tasks : task'[u] = task[u]
        BY <2>1, <3>1 DEF IInv
      <4> QED BY <2>1, <4>1, QueueFrame
    <3>6. Sentinel \notin promised
      BY ConstantFacts DEF IInv, TypeOK
    <3>7. PromiseInv'
      BY <2>1, <3>1, <3>4, <3>6 DEF IInv, PromiseInv, Executing
    <3> QED BY <2>1, <3>3, <3>5, <3>7 DEF IInv
  <2>4. CASE task[t].status # "NONE"
    <3>1. r.status \in Statuses
      BY <2>1, <2>2, <2>4 DEF Records
    <3> HIDE DEF r
    <3>2. Marks(t, r)
      BY <2>1, <2>2, <3>1 DEF Marks
    <3> QED BY <3>2, MarkStep
  <2> QED BY <2>3, <2>4
<1>7. CASE Restart
  <2>1. /\ queue' = <<>> /\ pc' = "off" /\ ~submitting' /\ UNCHANGED world
    BY <1>7 DEF Restart, FreshQueue
  <2>2. WorkerInv' /\ QueueInv'
    BY <2>1 DEF WorkerInv, QueueInv, Executing, Deciding, Stepping
  <2>3. \A u \in Tasks : task'[u].status # "QUEUED"
    <3>1. CASE LoadNothing
      BY <3>1 DEF LoadNothing, Unsaved
    <3>2. ASSUME NEW ids, Load(ids), NEW u \in Tasks
          PROVE  task'[u].status # "QUEUED"
      <4>1. task'[u] = IF u \in ids THEN Recovered(journal[u]) ELSE Unsaved
        BY <3>2 DEF Load
      <4>2. journal[u] \in Records
        BY DEF IInv, TypeOK
      <4>3. Unsaved.status # "QUEUED"
        BY DEF Unsaved
      <4> QED BY <4>1, <4>2, <4>3, RecoveredRecord
    <3>3. LoadNothing \/ Load(Newest({t \in Tasks : journal[t] # Unsaved}))
      BY <1>7 DEF Restart
    <3> QED BY <3>1, <3>2, <3>3
  <2>4. PromiseInv'
    BY <2>1, <2>3 DEF IInv, PromiseInv, Executing
  <2> QED BY <2>1, <2>2, <2>4
<1> QED BY <1>1, <1>2, <1>3, <1>4, <1>5, <1>6, <1>7 DEF Users

-----------------------------------------------------------------------------
\* The worker between two tasks.
LEMMA FetchStep ==
  ASSUME IInv, Poll \/ Get \/ FinishListeners
  PROVE  WorkerInv' /\ QueueInv' /\ PromiseInv' /\ (submitting' => nextId' <= MaxTasks)
<1> USE DEF memory, control, worker, world, disk, Outside, Goto
<1>1. ~Executing /\ UNCHANGED <<task, nextId, submitting, ran, undone, promised>>
  BY DEF Poll, Get, FinishListeners, Executing
<1>2. CASE UNCHANGED queue /\ pc' \in {"off", "poll", "get", "listen"}
  <2>1. WorkerInv'
    BY <1>2 DEF WorkerInv, Executing, Deciding, Stepping
  <2>2. QueueInv'
    BY <1>1, <1>2 DEF IInv, QueueInv, Executing
  <2>3. PromiseInv'
    BY <1>1, <1>2 DEF IInv, PromiseInv, Executing
  <2> QED BY <1>1, <2>1, <2>2, <2>3 DEF IInv
<1>3. ASSUME pc = "get", queue # <<>>, queue' = Tail(queue),
             IF Head(queue) = Sentinel THEN pc' = "off"
                                       ELSE pc' = "begin" /\ current' = Head(queue)
      PROVE  WorkerInv' /\ QueueInv' /\ PromiseInv' /\ (submitting' => nextId' <= MaxTasks)
  <2>1. /\ queue \in Seq(Tasks \cup {Sentinel}) /\ Len(queue) \in Nat
    BY DEF IInv, TypeOK
  <2>2. /\ Len(queue) >= 1 /\ Head(queue) = queue[1] /\ Len(queue') = Len(queue) - 1
        /\ \A i \in 1..Len(queue') : i + 1 \in 1..Len(queue) /\ queue'[i] = queue[i + 1]
    BY <1>3, <2>1
  <2>3. Executing' => /\ queue[1] # Sentinel /\ queue[1] \in Tasks
                      /\ current' = queue[1] /\ pc' = "begin"
    BY <1>3, <2>1, <2>2 DEF Executing
  <2>4. Executing' =>
          /\ queue[1] < nextId /\ ran[queue[1]] = <<>> /\ undone[queue[1]] = <<>>
          /\ task[queue[1]].steps \in Plans /\ task[queue[1]].results = {}
          /\ task[queue[1]].status \in Statuses
          /\ \A j \in 1..Len(queue) : queue[j] = queue[1] => 1 = j
    BY <2>2, <2>3 DEF IInv, QueueInv
  <2>5. WorkerInv'
    BY <1>1, <1>3, <2>3, <2>4 DEF WorkerInv, Executing, Deciding, Stepping
  <2>6. QueueInv'
    <3> SUFFICES ASSUME NEW i \in 1..Len(queue'), queue'[i] # Sentinel
                 PROVE  /\ queue'[i] < nextId'
                        /\ ran'[queue'[i]] = <<>> /\ undone'[queue'[i]] = <<>>
                        /\ task'[queue'[i]].steps \in Plans /\ task'[queue'[i]].results = {}
                        /\ task'[queue'[i]].status \in Statuses
                        /\ Executing' => queue'[i] # current'
                        /\ \A j \in 1..Len(queue') : queue'[j] = queue'[i] => i = j
      BY DEF QueueInv
    <3> DEFINE k == i + 1
    <3>1. /\ k \in 1..Len(queue) /\ queue'[i] = queue[k] /\ queue[k] # Sentinel /\ k # 1
      BY <2>2
    <3>2. /\ queue[k] < nextId /\ ran[queue[k]] = <<>> /\ undone[queue[k]] = <<>>
          /\ task[queue[k]].steps \in Plans /\ task[queue[k]].results = {}
          /\ task[queue[k]].status \in Statuses
          /\ \A j \in 1..Len(queue) : queue[j] = queue[k] => k = j
      BY <3>1 DEF IInv, QueueInv
    <3>3. Executing' => queue[k] # current'
      BY <2>2, <2>3, <3>1, <3>2
    <3>4. ASSUME NEW j \in 1..Len(queue'), queue'[j] = queue[k] PROVE i = j
      <4>1. j + 1 \in 1..Len(queue) /\ queue[j + 1] = queue[k]
        BY <2>2, <3>4
      <4>2. k = j + 1
        BY <3>2, <4>1
      <4> QED BY <2>1, <2>2, <4>2
    <3> QED BY <1>1, <3>1, <3>2, <3>3, <3>4
  <2>7. PromiseInv'
    <3>1. \A u \in Tasks : task'[u].status = "QUEUED" => ran'[u] = <<>>
      BY <1>1 DEF IInv, PromiseInv
    <3>2. ASSUME NEW u \in promised
          PROVE  /\ ran'[u] = <<>>
                 /\ Executing' /\ current' = u =>
                      task'[u].cancel /\ pc' \notin {"call", "handler", "return", "complete"}
                 /\ \A i \in 1..Len(queue') : queue'[i] = u => task'[u].cancel
      <4>1. \A i \in 1..Len(queue) : queue[i] = u => task[u].cancel
        BY DEF IInv, PromiseInv
      <4> QED BY <1>1, <2>2, <2>3, <4>1 DEF IInv, PromiseInv
    <3> QED BY <1>1, <3>1, <3>2 DEF PromiseInv
  <2> QED BY <1>1, <2>5, <2>6, <2>7 DEF IInv
<1>4. CASE Poll \/ FinishListeners
  BY <1>2, <1>4 DEF Poll, FinishListeners
<1>5. CASE Get
  BY <1>2, <1>3, <1>5 DEF Get
<1> QED BY <1>4, <1>5

-----------------------------------------------------------------------------
\* The worker on a task.
LEMMA ExecutionStep ==
  ASSUME IInv, TypeOK', Worker, ~Poll, ~Get, ~FinishListeners
  PROVE  WorkerInv' /\ QueueInv' /\ PromiseInv' /\ (submitting' => nextId' <= MaxTasks)
<1> USE DEF memory, control, worker, world, disk, Outside, Goto
<1>1. /\ TypeOK /\ WorkerInv /\ current \in Tasks \cup {Sentinel} /\ Sentinel \notin Tasks
      /\ task \in [Tasks -> Records] /\ task' \in [Tasks -> Records]
      /\ ran \in [Tasks -> Seq(1..MaxSteps)] /\ undone \in [Tasks -> Seq(1..MaxSteps)]
  BY ConstantFacts DEF IInv, TypeOK
<1>2. current \in promised => /\ ran[current] = <<>>
                              /\ Executing => task[current].cancel /\ pc \notin {"call", "handler", "return", "complete"}
  BY DEF IInv, PromiseInv
<1>3. CASE Begin
  <2>1. /\ Executing /\ UNCHANGED <<task, queue, nextId, submitting, promised, ran, undone>>
        /\ \/ pc' = "poll"
           \/ pc' = "preflight" /\ current' = current /\ ~task[current].cancel
    BY <1>3 DEF Begin, Executing
  <2>2. WorkerInv'
    BY <1>1, <1>3, <2>1 DEF Begin, WorkerInv, Executing, Deciding, Stepping
  <2>3. task'[current].status = "QUEUED" => ran'[current] = <<>>
    BY <1>1, <1>3, <2>1 DEF Begin, WorkerInv, Deciding
  <2> QED BY <1>2, <2>1, <2>2, <2>3, WorkerFrame DEF Executing
<1>4. CASE Preflight
  <2>1. /\ Executing /\ Executing' /\ pc = "preflight" /\ pc' \in {"start", "save"}
        /\ UNCHANGED <<queue, nextId, submitting, promised, ran, undone, current, step, toUndo>>
    BY <1>4 DEF Preflight, Executing
  <2>2. \/ task' = task /\ pc' = "start"
        \/ pc' = "save" /\ task' = [task EXCEPT ![current] = [task[current] EXCEPT !.status = "FAILED"]]
    BY <1>1, <1>4 DEF Preflight
  <2>3. /\ \A u \in Tasks \ {current} : task'[u] = task[u]
        /\ task'[current].steps = task[current].steps
        /\ task'[current].results = task[current].results
        /\ task'[current].cancel = task[current].cancel
        /\ \/ task'[current].status = task[current].status /\ pc' = "start"
           \/ task'[current].status = "FAILED"
    BY <1>1, <2>1, <2>2 DEF WorkerInv, Records
  <2>4. WorkerInv'
    BY <1>1, <2>1, <2>3 DEF WorkerInv, Executing, Deciding, Stepping, Statuses, Closed
  <2>5. ran'[current] = <<>>
    BY <1>1, <2>1 DEF WorkerInv, Deciding
  <2> QED BY <1>2, <2>1, <2>3, <2>4, <2>5, WorkerFrame
<1>5. CASE StartRunning
  <2>1. /\ Executing /\ Executing' /\ pc = "start" /\ pc' = "step" /\ step' = 1
        /\ UNCHANGED <<queue, nextId, submitting, promised, ran, undone, current, toUndo>>
        /\ task' = [task EXCEPT ![current] = [task[current] EXCEPT !.status = "RUNNING"]]
    BY <1>1, <1>5 DEF StartRunning, Update, Executing
  <2>2. /\ \A u \in Tasks \ {current} : task'[u] = task[u]
        /\ task'[current].steps = task[current].steps
        /\ task'[current].results = task[current].results
        /\ task'[current].cancel = task[current].cancel
        /\ task'[current].status = "RUNNING"
    BY <1>1, <2>1 DEF WorkerInv, Records
  <2>3. /\ ran'[current] = <<>> /\ undone'[current] = <<>> /\ task[current].results = {}
        /\ Len(task[current].steps) \in Nat /\ 1 <= Len(task[current].steps)
    BY <1>1, <2>1, ConstantFacts DEF WorkerInv, Deciding, Executing
  <2>4. WorkerInv'
    BY <1>1, <2>1, <2>2, <2>3 DEF WorkerInv, Executing, Deciding, Stepping, Statuses
  <2> QED BY <1>2, <2>1, <2>2, <2>3, <2>4, WorkerFrame
<1>6. CASE StepBegin
  <2>1. /\ Executing /\ Executing' /\ pc = "step" /\ pc' \in {"undo", "call"}
        /\ UNCHANGED <<task, queue, nextId, submitting, promised, ran, undone, current, step>>
        /\ pc' = "undo" => verdict' = "CANCELLED" /\ toUndo' = task[current].results
        /\ pc' = "call" => ~task[current].cancel
    BY <1>1, <1>6 DEF StepBegin, StartUndo, Update, Executing
  <2>2. WorkerInv'
    <3>1. step \in Nat /\ Len(ran[current]) = step - 1 /\ undone[current] = <<>>
      BY <1>1, <2>1, ConstantFacts DEF WorkerInv, Stepping, TypeOK
    <3> QED BY <1>1, <2>1, <3>1 DEF WorkerInv, Executing, Deciding, Stepping
  <2>3. task'[current].status # "QUEUED"
    BY <1>1, <2>1 DEF WorkerInv, Deciding
  <2> QED BY <1>2, <2>1, <2>2, <2>3, WorkerFrame
<1>7. CASE Call
  <2>1. /\ Executing /\ Executing' /\ pc = "call" /\ pc' \in {"undo", "handler"}
        /\ UNCHANGED <<task, queue, nextId, submitting, promised, ran, undone, current, step>>
        /\ pc' = "undo" => verdict' # "NONE" /\ toUndo' = task[current].results
    BY <1>1, <1>7 DEF Call, StartUndo, Executing
  <2>2. WorkerInv'
    <3>1. step \in Nat /\ Len(ran[current]) = step - 1 /\ undone[current] = <<>>
      BY <1>1, <2>1, ConstantFacts DEF WorkerInv, Stepping, TypeOK
    <3> QED BY <1>1, <2>1, <3>1 DEF WorkerInv, Executing, Deciding, Stepping
  <2>3. task'[current].status # "QUEUED"
    BY <1>1, <2>1 DEF WorkerInv, Deciding
  <2> QED BY <1>2, <2>1, <2>2, <2>3, WorkerFrame
<1>8. CASE Handler
  <2>1. /\ Executing /\ Executing' /\ pc = "handler" /\ pc' = "return"
        /\ UNCHANGED <<task, queue, nextId, submitting, promised, undone, current, step>>
        /\ ran' = [ran EXCEPT ![current] = Append(ran[current], step)]
    BY <1>1, <1>8 DEF Handler, Executing
  <2>2. /\ current \in Tasks /\ step \in Nat /\ Len(ran[current]) = step - 1
        /\ ran[current] \in Seq(1..MaxSteps)
    BY <1>1, <2>1, ConstantFacts DEF WorkerInv, Executing, Stepping, TypeOK
  <2>3. /\ ran'[current] = Append(ran[current], step) /\ Len(ran'[current]) = step
        /\ \A u \in Tasks \ {current} : ran'[u] = ran[u]
    BY <1>1, <2>1, <2>2
  <2>4. WorkerInv'
    BY <1>1, <2>1, <2>3 DEF WorkerInv, Executing, Deciding, Stepping
  <2>5. task'[current].status # "QUEUED" /\ current \notin promised
    BY <1>1, <1>2, <2>1 DEF WorkerInv, Deciding
  <2> QED BY <2>1, <2>3, <2>4, <2>5, WorkerFrame
<1>9. CASE Return
  <2>1. /\ Executing /\ pc = "return"
        /\ UNCHANGED <<queue, nextId, submitting, promised, ran, undone, current>>
    BY <1>9 DEF Return, Executing
  <2>2. /\ current \in Tasks /\ step \in Nat /\ step >= 1 /\ Len(ran[current]) = step
        /\ undone[current] = <<>> /\ task[current] \in Records
        /\ task[current].results \subseteq 1..(step - 1)
        /\ step <= Len(task[current].steps) /\ Len(task[current].steps) \in Nat
        /\ task[current].status # "QUEUED"
    <3>1. /\ current \in Tasks /\ task[current] \in Records /\ step \in Nat
          /\ task[current].steps \in Plans
      BY <1>1, <2>1, ConstantFacts DEF WorkerInv, Executing, TypeOK
    <3>2. Len(task[current].steps) \in Nat
      BY <3>1, ConstantFacts
    <3>3. /\ step \in 1..Len(task[current].steps) /\ Len(ran[current]) = step
          /\ undone[current] = <<>> /\ task[current].results \subseteq 1..(step - 1)
          /\ task[current].status # "QUEUED"
      BY <1>1, <2>1 DEF WorkerInv, Executing, Deciding, Stepping
    <3>4. step >= 1 /\ step <= Len(task[current].steps)
      BY <3>1, <3>2, <3>3
    <3> QED BY <3>1, <3>2, <3>3, <3>4
  <2>3. PICK r \in Delivered : Record(r) \/ AskUser(r) \/ GiveUp(r)
    BY <1>9 DEF Return
  <2>4. CASE Record(r)
    <3> DEFINE new == [task[current] EXCEPT
                         !.done = step,
                         !.results = IF Compensable(r) THEN @ \cup {step} ELSE @]
    <3>1. task' = [task EXCEPT ![current] = new]
      BY <2>4 DEF Record, Update
    <3>2. /\ new.steps = task[current].steps /\ new.status = task[current].status
          /\ new.cancel = task[current].cancel /\ new.results \subseteq 1..step
      BY <2>2 DEF Records
    <3> HIDE DEF new
    <3>3. task'[current] = new /\ \A u \in Tasks \ {current} : task'[u] = task[u]
      BY <1>1, <2>2, <3>1
    <3>4. \/ pc' = "step" /\ step' = step + 1 /\ step < Len(task[current].steps)
          \/ pc' = "complete"
      BY <2>4 DEF Record
    <3>5. WorkerInv'
      BY <1>1, <2>1, <2>2, <3>2, <3>3, <3>4 DEF WorkerInv, Executing, Deciding, Stepping
    <3>6. current \notin promised
      BY <1>2, <2>1
    <3> QED BY <2>1, <2>2, <3>2, <3>3, <3>5, <3>6, WorkerFrame
  <2>5. CASE AskUser(r)
    <3>1. /\ task' = [task EXCEPT ![current] = [task[current] EXCEPT !.status = "WAITING"]]
          /\ pc' = "save"
      BY <1>1, <2>5 DEF AskUser
    <3>2. /\ task'[current].steps = task[current].steps /\ task'[current].status = "WAITING"
          /\ \A u \in Tasks \ {current} : task'[u] = task[u]
      BY <1>1, <2>2, <3>1 DEF Records
    <3>3. WorkerInv'
      BY <1>1, <2>1, <2>2, <3>1, <3>2 DEF WorkerInv, Executing, Deciding, Stepping, Statuses
    <3>4. current \notin promised
      BY <1>2, <2>1
    <3> QED BY <2>1, <3>2, <3>3, <3>4, WorkerFrame
  <2>6. CASE GiveUp(r)
    <3>1. /\ task' = task /\ pc' = "undo" /\ verdict' # "NONE" /\ toUndo' = task[current].results
      BY <2>6 DEF GiveUp, StartUndo
    <3>2. WorkerInv'
      BY <1>1, <2>1, <2>2, <3>1 DEF WorkerInv, Executing, Deciding, Stepping
    <3>3. current \notin promised
      BY <1>2, <2>1
    <3> QED BY <2>1, <2>2, <3>1, <3>2, <3>3, WorkerFrame
  <2> QED BY <2>3, <2>4, <2>5, <2>6
<1>10. CASE Complete
  <2>1. /\ Executing /\ Executing' /\ pc = "complete" /\ pc' = "save"
        /\ UNCHANGED <<queue, nextId, submitting, promised, ran, undone, current>>
        /\ task' = [task EXCEPT ![current] = [task[current] EXCEPT !.status = "COMPLETED"]]
    BY <1>1, <1>10 DEF Complete, Executing
  <2>2. /\ task'[current].steps = task[current].steps /\ task'[current].status = "COMPLETED"
        /\ \A u \in Tasks \ {current} : task'[u] = task[u]
    BY <1>1, <2>1 DEF WorkerInv, Records
  <2>3. WorkerInv'
    BY <1>1, <2>1, <2>2 DEF WorkerInv, Executing, Deciding, Stepping, Statuses, Closed
  <2> QED BY <1>2, <2>1, <2>2, <2>3, WorkerFrame
<1>11. CASE Compensate
  <2>1. PICK k \in toUndo : /\ LastOf(toUndo, k) /\ toUndo' = toUndo \ {k}
                            /\ undone' = [undone EXCEPT ![current] = Append(@, k)]
    BY <1>11 DEF Compensate
  <2>2. /\ Executing /\ Executing' /\ pc = "undo"
        /\ UNCHANGED <<task, queue, nextId, submitting, promised, ran, current, pc, verdict>>
    BY <1>11 DEF Compensate, Executing
  <2>3. /\ current \in Tasks /\ undone[current] \in Seq(1..MaxSteps)
        /\ toUndo \subseteq 1..Len(ran[current]) /\ k \in Nat
        /\ \A i \in 1..Len(undone[current]), j \in toUndo : j < undone[current][i]
    BY <1>1, <2>2 DEF WorkerInv, Executing
  <2>4. /\ undone'[current] = Append(undone[current], k)
        /\ \A u \in Tasks \ {current} : undone'[u] = undone[u]
    BY <1>1, <2>1, <2>3
  <2>5. \A j \in toUndo' : j \in Nat /\ j < k
    BY <2>1, <2>3 DEF LastOf
  <2>6. \A i \in 1..Len(undone'[current]), j \in toUndo' : j < undone'[current][i]
    BY <2>1, <2>3, <2>4, <2>5
  <2>7. WorkerInv'
    BY <1>1, <2>1, <2>2, <2>3, <2>6 DEF WorkerInv, Executing, Deciding, Stepping
  <2>8. task'[current].status # "QUEUED"
    BY <1>1, <2>2 DEF WorkerInv, Deciding
  <2> QED BY <1>2, <2>2, <2>4, <2>7, <2>8, WorkerFrame
<1>12. CASE Close
  <2>1. /\ Executing /\ Executing' /\ pc = "undo" /\ pc' = "save"
        /\ UNCHANGED <<queue, nextId, submitting, promised, ran, undone, current>>
        /\ task' = [task EXCEPT ![current] = [task[current] EXCEPT !.status = verdict]]
    BY <1>1, <1>12 DEF Close, Executing
  <2>2. /\ task'[current].steps = task[current].steps /\ task'[current].status = verdict
        /\ task'[current].cancel = task[current].cancel
        /\ \A u \in Tasks \ {current} : task'[u] = task[u]
    BY <1>1, <2>1 DEF WorkerInv, Records
  <2>3. verdict \in Statuses /\ verdict # "QUEUED"
    BY <1>1, <2>1 DEF TypeOK, WorkerInv, Statuses, Closed
  <2>4. WorkerInv'
    BY <1>1, <2>1, <2>2, <2>3 DEF WorkerInv, Executing, Deciding, Stepping
  <2> QED BY <1>2, <2>1, <2>2, <2>3, <2>4, WorkerFrame
<1>13. CASE FinishSave \/ FinishWrite \/ FinishSnapshot
  <2>1. /\ Executing /\ Executing' /\ pc \in {"save", "write", "snapshot"}
        /\ pc' \in {"write", "snapshot", "notify"}
        /\ UNCHANGED <<task, queue, nextId, submitting, promised, ran, undone, current>>
        /\ pc' = "notify" => taken' = Snapshot(task[current])
    BY <1>13 DEF FinishSave, FinishWrite, FinishSnapshot, Executing
  <2>2. /\ task'[current].status # "QUEUED" /\ task[current].status \in Statuses
        /\ task[current] \in Records
    BY <1>1, <2>1 DEF WorkerInv, Deciding, Executing
  <2>3. WorkerInv'
    BY <1>1, <2>1, <2>2, SnapshotRecord DEF WorkerInv, Executing, Deciding, Stepping
  <2> QED BY <1>2, <2>1, <2>2, <2>3, WorkerFrame
<1>14. CASE FinishNotify
  <2>1. /\ Executing /\ ~Executing' /\ pc = "notify" /\ pc' = "listen"
        /\ UNCHANGED <<task, queue, nextId, submitting, promised, ran, undone>>
    BY <1>14 DEF FinishNotify, Executing
  <2>2. WorkerInv'
    BY <2>1 DEF WorkerInv, Executing, Deciding, Stepping
  <2>3. task'[current].status # "QUEUED"
    BY <1>1, <2>1 DEF WorkerInv, Deciding
  <2> QED BY <1>2, <2>1, <2>2, <2>3, WorkerFrame
<1> QED
  BY <1>3, <1>4, <1>5, <1>6, <1>7, <1>8, <1>9, <1>10, <1>11, <1>12, <1>13, <1>14 DEF Worker

LEMMA NextKeepsIInv == IInv /\ [Next]_vars => IInv'
<1> SUFFICES ASSUME IInv, [Next]_vars PROVE IInv'
  OBVIOUS
<1>1. TypeOK'
  BY TypeStep
<1>2. CASE Start \/ Users \/ StopBegin \/ (\E t \in Tasks : StopRecord(t)) \/ Restart
  BY <1>1, <1>2, OutsideStep DEF IInv
<1>3. CASE Poll \/ Get \/ FinishListeners
  BY <1>1, <1>3, FetchStep DEF IInv
<1>4. CASE Worker /\ ~Poll /\ ~Get /\ ~FinishListeners
  BY <1>1, <1>4, ExecutionStep DEF IInv
<1>5. CASE UNCHANGED vars
  BY <1>5, SMTT(30) DEF IInv, TypeOK, WorkerInv, QueueInv, PromiseInv, Executing, Deciding, Stepping,
              vars, memory, control, worker, world, disk
<1> QED BY <1>2, <1>3, <1>4, <1>5 DEF Next, Application

LEMMA SpecIInv == Spec => []IInv
BY InitIInv, NextKeepsIInv, PTL DEF Spec

-----------------------------------------------------------------------------
\* Every state of the manager is well typed.
THEOREM TypeCorrect == Spec => []TypeOK
<1>1. IInv => TypeOK
  BY DEF IInv
<1> QED BY <1>1, SpecIInv, PTL

\* Whoever was told that no step ran is never proved wrong, however the cancel
\* interleaves with the worker, a stop or a restart.
THEOREM PromiseKept == Spec => []CancelKeepsPromise
<1>1. IInv => CancelKeepsPromise
  BY DEF IInv, PromiseInv, CancelKeepsPromise
<1> QED BY <1>1, SpecIInv, PTL

-----------------------------------------------------------------------------
\* The saga is implemented: the worker's handler and compensator are its
\* steps, a submission under a used number its renewal, all else a stutter.
LEMMA StepImplements ==
  ASSUME IInv, IInv', [Next]_vars
  PROVE  [Saga!SagaNext]_(Saga!sagaVars)
<1> USE DEF memory, control, worker, world, disk, Outside, Goto
<1>1. CASE Handler
  <2>1. /\ current \in Tasks /\ ran[current] \in Seq(1..MaxSteps) /\ undone[current] = <<>>
        /\ step \in 1..Len(task[current].steps) /\ Len(ran[current]) = step - 1
        /\ task[current].steps \in Plans
    BY <1>1 DEF Handler, IInv, WorkerInv, TypeOK, Executing, Stepping
  <2>2. /\ ran' = [ran EXCEPT ![current] = Append(@, step)] /\ UNCHANGED undone
    BY <1>1 DEF Handler
  <2>3. /\ Len(task[current].steps) \in Nat /\ Len(task[current].steps) <= MaxSteps
        /\ MaxSteps \in Nat
    BY <2>1, ConstantFacts
  <2>4. step = Len(ran[current]) + 1 /\ Len(ran[current]) < MaxSteps
    BY <2>1, <2>3
  <2>5. Saga!RunNext(current)
    BY <2>1, <2>2, <2>4 DEF Saga!RunNext
  <2> QED BY <2>1, <2>5 DEF Saga!SagaNext
<1>2. CASE Compensate
  <2>1. PICK k \in toUndo : undone' = [undone EXCEPT ![current] = Append(@, k)]
    BY <1>2 DEF Compensate
  <2>2. /\ current \in Tasks /\ toUndo \subseteq 1..Len(ran[current]) /\ toUndo \subseteq 1..MaxSteps
        /\ \A i \in 1..Len(undone[current]), j \in toUndo : j < undone[current][i]
        /\ UNCHANGED ran
    BY <1>2 DEF Compensate, IInv, WorkerInv, TypeOK, Executing
  <2>3. ran[current] \in Seq(1..MaxSteps) /\ Len(ran[current]) \in Nat
    BY <2>2, SMTT(30) DEF IInv, TypeOK
  <2>4. k <= Len(ran[current]) /\ k \in 1..MaxSteps
    BY <2>2, <2>3
  <2>5. Saga!Undo(current, k)
    BY <2>1, <2>2, <2>4 DEF Saga!Undo
  <2> QED BY <2>2, <2>4, <2>5 DEF Saga!SagaNext
<1>3. ASSUME NEW p \in Plans, SubmitInsert(p)
      PROVE  [Saga!SagaNext]_(Saga!sagaVars)
  <2>1. CASE UNCHANGED world
    BY <2>1 DEF Saga!sagaVars
  <2>2. CASE ~UNCHANGED world
    <3>1. /\ ran' = [ran EXCEPT ![nextId] = <<>>] /\ undone' = [undone EXCEPT ![nextId] = <<>>]
          /\ submitting
      BY <1>3, <2>2 DEF SubmitInsert
    <3>2. nextId \in Tasks
      BY <3>1, ConstantFacts DEF IInv, TypeOK, Tasks
    <3>3. Saga!Renew(nextId)
      BY <3>1 DEF Saga!Renew
    <3> QED BY <3>2, <3>3 DEF Saga!SagaNext
  <2> QED BY <2>1, <2>2
<1>4. CASE \/ Start \/ SubmitStart \/ StopBegin \/ Restart
           \/ \E t \in Tasks : Cancel(t) \/ StopRecord(t)
           \/ \E t \in Tasks, s \in {"RESOLVED", "CANCELLED"} : CloseWaiting(t, s)
  <2>1. UNCHANGED <<ran, undone>>
    BY <1>4 DEF Start, SubmitStart, StopBegin, Restart, Cancel, StopRecord, CloseWaiting
  <2> QED BY <2>1 DEF Saga!sagaVars
<1>5. CASE \/ Poll \/ Get \/ FinishListeners \/ Begin \/ Preflight \/ StartRunning \/ StepBegin \/ Call \/ Return
           \/ Complete \/ Close \/ FinishSave \/ FinishWrite \/ FinishSnapshot \/ FinishNotify
  <2>1. UNCHANGED <<ran, undone>>
    BY <1>5 DEF Poll, Get, FinishListeners, Begin, Preflight, StartRunning, StepBegin, Call, Return,
                Complete, Close, FinishSave, FinishWrite, FinishSnapshot, FinishNotify
  <2> QED BY <2>1 DEF Saga!sagaVars
<1>6. CASE UNCHANGED vars
  BY <1>6 DEF vars, Saga!sagaVars
<1> QED BY <1>1, <1>2, <1>3, <1>4, <1>5, <1>6 DEF Next, Worker, Users, Application

\* Whatever is cancelled, stopped, lost or restarted, every task runs its steps
\* in order and once, runs none after an undo, and undoes in reverse.
THEOREM SagaImplemented == Spec => Implements
<1>1. Init => Saga!SagaInit
  BY DEF Init, Saga!SagaInit
<1>2. IInv /\ IInv' /\ [Next]_vars => [Saga!SagaNext]_(Saga!sagaVars)
  BY StepImplements
<1> QED BY <1>1, <1>2, SpecIInv, PTL DEF Spec, Implements, Saga!SagaSpec

(***************************************************************************)
(* How a task ends: the records, the changes, the journal and the          *)
(* announcements of AgentTaskManager, from the invariant above.            *)
(***************************************************************************)
Held(t) == Executing /\ current = t
Queued(t) == \E i \in 1..Len(queue) : queue[i] = t
Awaited(t) == Queued(t) \/ (Deciding /\ current = t)
Underway == pc \in {"step", "call", "handler", "return", "complete", "undo"}
Finishing == pc \in {"save", "write", "snapshot", "notify"}
Ends == {"COMPLETED", "FAILED", "TIMED_OUT"}

\* A task that has not started is queued or cancelled with its flag raised; from
\* there to its end it is running; and none that was recovered comes up again.
Life(t) ==
  /\ t \in tracked => task[t].status \in Statuses
  /\ t >= nextId => task[t] = Unsaved /\ t \notin tracked
  /\ Awaited(t) => /\ task[t].status \in {"QUEUED", "CANCELLED"}
                   /\ task[t].status = "CANCELLED" => task[t].cancel
  /\ Awaited(t) \/ Held(t) => ~task[t].recovered
  /\ Underway /\ current = t => task[t].status = "RUNNING"
  /\ Finishing /\ current = t => task[t].status \notin {"QUEUED", "RUNNING"}
  /\ task[t].status \in {"QUEUED", "RUNNING", "WAITING"} /\ ~task[t].cancel => t \in tracked

LifeInv == \A t \in Tasks : Life(t)

\* Where the change of a step is accounted for: among the results that are to
\* be undone, among the undos still to come or done, or in flight.
ChangeInv ==
  /\ \A t \in Tasks : Awaited(t) => changed[t] = {} /\ task[t].done = 0
  /\ Stepping =>
       /\ task[current].done = step - 1
       /\ \A k \in changed[current] :
            \/ k < step /\ (task[current].steps[k] = "reversible" => k \in task[current].results)
            \/ k = step /\ pc = "return" /\ result = "changed"
  /\ pc = "undo" => \A k \in changed[current] : task[current].steps[k] = "reversible" =>
       k \in toUndo \/ k \in Undone(current) \/ k = task[current].done + 1

\* Every row is that of a record, and the last one of a task is not open work.
RowInv ==
  /\ \A t \in Tasks : journal[t].status = "NONE" => journal[t] = Unsaved
  /\ pc = "write" => taken.status \in Statuses \ {"QUEUED", "RUNNING"}

\* As long as no call of the journal failed, the rows follow the records.
Row(t) ==
  /\ t < nextId <=> journal[t].status # "NONE"
  /\ task[t].status # "NONE" => journal[t].done = task[t].done
  /\ ran[t] # <<>> => /\ t < nextId /\ journal[t].status # "QUEUED"
                      /\ journal[t].done \in {Len(ran[t]) - 1, Len(ran[t])}
  /\ task[t].status \in Ends =>
       \/ journal[t].status = task[t].status
       \/ current = t /\ pc \in {"save", "write"}

RowRuns == Underway => journal[current].status = "RUNNING"
RowEnds ==
  pc = "write" => /\ taken.done = task[current].done
                  /\ task[current].status \in Ends => taken.status = task[current].status

JournalInv == failures = 0 => (\A t \in Tasks : Row(t)) /\ RowRuns /\ RowEnds

\* An outcome that was announced is the last word on a task that is over, in
\* memory and, as long as no call of the journal failed, on disk.
LastWord(t) ==
  \A i \in 1..Len(notices[t]) : notices[t][i] \in Ends =>
    /\ i = Len(notices[t])
    /\ ~Queued(t) /\ ~Held(t)
    /\ task[t].status \in Ends \cup {"NONE"}
    /\ failures = 0 => journal[t].status \in Ends

Told == pc = "notify" /\ taken.status \in Ends => task[current].status = taken.status

NoticeInv == failures = 0 \/ restarts = 0 => Told /\ \A t \in Tasks : LastWord(t)

OInv == LifeInv /\ RowInv /\ ChangeInv /\ JournalInv /\ NoticeInv

-----------------------------------------------------------------------------
\* What the steps do, in the words of the invariants.

LEMMA HeldFacts ==
  ASSUME IInv, Executing
  PROVE  /\ current \in Tasks /\ current < nextId /\ current # Sentinel
         /\ ~Queued(current) /\ task[current] \in Records
         /\ task[current].status \in Statuses
         /\ pc \in Points /\ ~(pc \in {"off", "poll", "get", "listen"})
<1>1. current \in Tasks /\ current < nextId /\ task[current].status \in Statuses
  BY DEF IInv, WorkerInv
<1>2. current # Sentinel
  BY <1>1, ConstantFacts
<1>3. ~Queued(current)
  BY <1>2 DEF IInv, QueueInv, Queued
<1> QED BY <1>1, <1>2, <1>3 DEF IInv, TypeOK, Executing

LEMMA QueueFacts ==
  ASSUME IInv
  PROVE  /\ queue \in Seq(Tasks \cup {Sentinel}) /\ Len(queue) \in Nat
         /\ \A t \in Tasks : Queued(t) => /\ t < nextId /\ ran[t] = <<>> /\ ~Held(t)
                                          /\ task[t].status \in Statuses
<1>1. queue \in Seq(Tasks \cup {Sentinel}) /\ Len(queue) \in Nat
  BY DEF IInv, TypeOK
<1>2. \A t \in Tasks : t # Sentinel
  BY ConstantFacts
<1> QED BY <1>1, <1>2 DEF IInv, QueueInv, Queued, Held

\* A step that concerns no task: a loop test, a start, a stop without a record.
Quiet ==
  /\ UNCHANGED <<task, tracked, nextId, notices, journal, failures, restarts, ran, changed, undone>>
  /\ \/ pc' = pc /\ UNCHANGED <<current, step, result, toUndo, taken>>
     \/ ~Executing /\ ~Executing'
  /\ \A t \in Tasks : Queued(t)' => Queued(t)

LEMMA QueueKept ==
  ASSUME IInv, queue' = queue \/ queue' = Append(queue, Sentinel)
  PROVE  \A t \in Tasks : Queued(t)' => Queued(t)
<1> SUFFICES ASSUME NEW t \in Tasks, Queued(t)' PROVE Queued(t)
  OBVIOUS
<1>1. PICK i \in 1..Len(queue') : queue'[i] = t
  BY DEF Queued
<1>2. t # Sentinel
  BY ConstantFacts
<1> QED BY <1>1, <1>2, QueueFacts DEF Queued

LEMMA QuietSteps ==
  ASSUME IInv,
         \/ Start \/ SubmitStart \/ StopBegin \/ Poll \/ FinishListeners \/ UNCHANGED vars
         \/ (\E t \in Tasks : StopRecord(t)) /\ UNCHANGED <<task, disk>>
         \/ (\E p \in Plans : SubmitInsert(p)) /\ UNCHANGED <<memory, disk, notices, world>>
         \/ Get /\ pc' # "begin"
  PROVE  Quiet
<1> USE DEF memory, control, worker, world, disk, Outside, Goto
<1>1. CASE Start \/ SubmitStart
  BY <1>1, QueueKept DEF Start, SubmitStart, StartWorker, Quiet, Executing
<1>2. CASE StopBegin
  BY <1>2, QueueKept DEF StopBegin, Quiet
<1>3. CASE Poll \/ FinishListeners
  BY <1>3, QueueKept DEF Poll, FinishListeners, Quiet, Executing
<1>4. CASE UNCHANGED vars
  BY <1>4, QueueKept DEF vars, Quiet
<1>5. ASSUME NEW t \in Tasks, StopRecord(t), UNCHANGED <<task, disk>> PROVE Quiet
  BY <1>5, QueueKept DEF StopRecord, Quiet
<1>6. ASSUME NEW p \in Plans, SubmitInsert(p), UNCHANGED <<memory, disk, notices, world>>
      PROVE  Quiet
  BY <1>6, QueueKept DEF SubmitInsert, Quiet
<1>7. CASE Get /\ pc' # "begin"
  <2>1. \A t \in Tasks : Queued(t)' => Queued(t)
    BY <1>7, QueueFacts DEF Get, Queued
  <2> QED BY <1>7, <2>1 DEF Get, Quiet, Executing
<1> QED BY <1>1, <1>2, <1>3, <1>4, <1>5, <1>6, <1>7

\* The worker takes a task from the queue.
Fetch ==
  /\ ~Executing /\ pc' = "begin" /\ current' \in Tasks \cup {Sentinel}
  /\ Queued(current') /\ \A t \in Tasks : Queued(t)' => Queued(t)
  /\ UNCHANGED <<task, tracked, nextId, notices, journal, failures, restarts, ran, changed,
                 undone, step, result, toUndo, taken>>

LEMMA FetchIs == ASSUME IInv, Get, pc' = "begin" PROVE Fetch /\ current' \in Tasks
<1> USE DEF memory, control, worker, world, disk, Outside, Goto
<1>1. queue # <<>> /\ queue' = Tail(queue) /\ current' = Head(queue) /\ Head(queue) # Sentinel
  BY DEF Get
<1>2. Head(queue) = queue[1] /\ 1 \in 1..Len(queue) /\ queue[1] \in Tasks \cup {Sentinel}
  BY <1>1, QueueFacts
<1>3. Queued(current')
  BY <1>1, <1>2 DEF Queued
<1>4. \A t \in Tasks : Queued(t)' => Queued(t)
  BY <1>1, QueueFacts DEF Queued
<1> QED BY <1>1, <1>2, <1>3, <1>4 DEF Get, Fetch, Executing

\* The user or stop changes the status or the flag of one task.
Marked(t, r) ==
  /\ task' = [task EXCEPT ![t] = r]
  /\ Save(t, r)
  /\ r.done = task[t].done /\ r.steps = task[t].steps /\ r.results = task[t].results
  /\ r.recovered = task[t].recovered /\ r.status \in Statuses
  /\ \/ /\ task[t].status \in {"QUEUED", "WAITING"} /\ r.status = "CANCELLED" /\ r.cancel
        /\ notices' = [notices EXCEPT ![t] = Append(@, r.status)]
     \/ /\ task[t].status \in {"QUEUED", "RUNNING"} /\ r.status = task[t].status /\ r.cancel
        /\ UNCHANGED notices
     \/ /\ task[t].status = "WAITING" /\ r.status \in {"RESOLVED", "CANCELLED"}
        /\ notices' = [notices EXCEPT ![t] = Append(@, r.status)]
  /\ \A u \in Tasks : Queued(u)' => Queued(u)
  /\ UNCHANGED <<tracked, nextId, worker, restarts, ran, changed, undone>>

LEMMA MarkIs ==
  ASSUME IInv, LifeInv, NEW t \in Tasks,
         \/ Cancel(t) \/ (\E s \in {"RESOLVED", "CANCELLED"} : CloseWaiting(t, s))
         \/ StopRecord(t) /\ ~UNCHANGED <<task, disk>>
  PROVE  \E r \in Records : Marked(t, r)
<1> USE DEF memory, control, worker, world, disk
<1>0. task \in [Tasks -> Records] /\ task[t] \in Records
  BY DEF IInv, TypeOK
<1>1. ASSUME Cancel(t), CancelNow(t) PROVE \E r \in Records : Marked(t, r)
  <2> DEFINE r == [task[t] EXCEPT !.status = "CANCELLED", !.cancel = TRUE]
  <2>1. /\ r \in Records /\ r.done = task[t].done /\ r.steps = task[t].steps
        /\ r.results = task[t].results /\ r.recovered = task[t].recovered
        /\ r.status = "CANCELLED" /\ r.cancel
    BY <1>0 DEF Records, Statuses, Closed
  <2>2. task' = [task EXCEPT ![t] = r] /\ Save(t, r)
    BY <1>1 DEF CancelNow, Update
  <2> HIDE DEF r
  <2>3. Marked(t, r)
    BY <1>1, <2>1, <2>2, QueueKept DEF Cancel, CancelNow, Marked, Statuses, Closed
  <2> QED BY <2>1, <2>3
<1>2. ASSUME \/ Cancel(t) /\ CancelLater(t)
             \/ StopRecord(t) /\ ~UNCHANGED <<task, disk>>
      PROVE \E r \in Records : Marked(t, r)
  <2> DEFINE r == [task[t] EXCEPT !.cancel = TRUE]
  <2>1. task[t].status \in {"QUEUED", "RUNNING"}
    BY <1>0, <1>2 DEF Cancel, CancelLater, StopRecord, LifeInv, Life, Statuses
  <2>2. /\ r \in Records /\ r.done = task[t].done /\ r.steps = task[t].steps
        /\ r.results = task[t].results /\ r.recovered = task[t].recovered
        /\ r.status = task[t].status /\ r.cancel
    BY <1>0 DEF Records
  <2>3. task' = [task EXCEPT ![t] = r] /\ Save(t, r) /\ UNCHANGED notices
    BY <1>2 DEF Cancel, CancelLater, StopRecord, Update
  <2>4. queue' = queue \/ queue' = Append(queue, Sentinel)
    BY <1>2 DEF Cancel, StopRecord
  <2>5. UNCHANGED <<tracked, nextId, worker, restarts, ran, changed, undone>>
    BY <1>2 DEF Cancel, StopRecord
  <2> HIDE DEF r
  <2>6. Marked(t, r)
    BY <2>1, <2>2, <2>3, <2>4, <2>5, QueueKept DEF Marked, Statuses
  <2> QED BY <2>2, <2>6
<1>3. ASSUME NEW s \in {"RESOLVED", "CANCELLED"}, CloseWaiting(t, s)
      PROVE \E r \in Records : Marked(t, r)
  <2> DEFINE r == [task[t] EXCEPT !.status = s]
  <2>1. /\ r \in Records /\ r.done = task[t].done /\ r.steps = task[t].steps
        /\ r.results = task[t].results /\ r.recovered = task[t].recovered
        /\ r.status = s
    BY <1>0 DEF Records, Statuses, Closed
  <2>2. task' = [task EXCEPT ![t] = r] /\ Save(t, r)
    BY <1>3 DEF CloseWaiting, Update
  <2> HIDE DEF r
  <2>3. Marked(t, r)
    BY <1>3, <2>1, <2>2, QueueKept DEF CloseWaiting, Marked, Statuses, Closed
  <2> QED BY <2>1, <2>3
<1> QED BY <1>1, <1>2, <1>3 DEF Cancel

\* submit gives the next number to a fresh record and trims closed ones.
Inserted(t, r) ==
  /\ task' = [task EXCEPT ![t] = r] /\ Save(t, r)
  /\ r.status = "QUEUED" /\ ~r.cancel /\ ~r.recovered /\ r.done = 0
  /\ tracked' \subseteq tracked \cup {t}
  /\ \A u \in tracked \cup {t} : task'[u].status \notin Closed => u \in tracked'
  /\ t = nextId /\ nextId' = nextId + 1
  /\ \A u \in Tasks : Queued(u)' => Queued(u) \/ u = t
  /\ notices' = [notices EXCEPT ![t] = <<>>] /\ ran' = [ran EXCEPT ![t] = <<>>]
  /\ changed' = [changed EXCEPT ![t] = {}] /\ undone' = [undone EXCEPT ![t] = <<>>]
  /\ UNCHANGED <<worker, restarts>>

LEMMA InsertIs ==
  ASSUME IInv, NEW p \in Plans, SubmitInsert(p), ~UNCHANGED <<memory, disk, notices, world>>
  PROVE  nextId \in Tasks /\ \E r \in Records : Inserted(nextId, r)
<1> DEFINE t == nextId
           r == NewRecord(p)
<1>1. nextId \in Tasks
  BY ConstantFacts DEF IInv, TypeOK, Tasks, SubmitInsert
<1>2. /\ Update(t, r) /\ tracked' = Trimmed(tracked \cup {t}, task')
      /\ nextId' = nextId + 1 /\ queue' = Append(queue, t)
      /\ notices' = [notices EXCEPT ![t] = <<>>] /\ ran' = [ran EXCEPT ![t] = <<>>]
      /\ changed' = [changed EXCEPT ![t] = {}] /\ undone' = [undone EXCEPT ![t] = <<>>]
      /\ UNCHANGED <<worker, restarts>>
  BY DEF SubmitInsert
<1>3. r \in Records /\ r.status = "QUEUED" /\ ~r.cancel /\ ~r.recovered /\ r.done = 0
  BY QueuedRecord DEF NewRecord
<1>4. \A u \in Tasks : Queued(u)' => Queued(u) \/ u = t
  BY <1>2, QueueFacts DEF Queued
<1>5. /\ tracked' \subseteq tracked \cup {t}
      /\ \A u \in tracked \cup {t} : task'[u].status \notin Closed => u \in tracked'
  BY <1>2 DEF Trimmed
<1> HIDE DEF r
<1>6. Inserted(t, r)
  BY <1>2, <1>3, <1>4, <1>5 DEF Inserted, Update
<1> QED BY <1>1, <1>3, <1>6

-----------------------------------------------------------------------------
\* The life of a record.

LEMMA InitOInv == Init => OInv
<1> SUFFICES ASSUME Init PROVE OInv
  OBVIOUS
<1>1. ~Executing /\ pc = "off" /\ \A t \in Tasks : ~Queued(t)
  BY DEF Init, Idle, Executing, Queued
<1>2. LifeInv
  <2>1. \A t \in Tasks : task[t] = Unsaved /\ t \notin tracked /\ Unsaved.status = "NONE"
    BY DEF Init, Unsaved
  <2> QED BY <1>1, <2>1 DEF LifeInv, Life, Awaited, Deciding, Held, Underway, Finishing
<1>6. RowInv
  BY <1>1 DEF Init, RowInv
<1>3. ChangeInv
  BY <1>1 DEF Init, ChangeInv, Awaited, Deciding, Stepping
<1>4. JournalInv
  <2>1. \A t \in Tasks : /\ task[t] = Unsaved /\ journal[t] = Unsaved /\ Unsaved.status = "NONE"
                         /\ ran[t] = <<>> /\ ~(t < nextId)
    BY DEF Init, Unsaved, Tasks
  <2> QED BY <1>1, <2>1 DEF JournalInv, Row, RowRuns, RowEnds, Underway, Ends
<1>5. NoticeInv
  BY <1>1 DEF Init, NoticeInv, Told, LastWord
<1> QED BY <1>2, <1>3, <1>4, <1>5, <1>6 DEF OInv

\* A step of the worker on the task it holds.
LEMMA LifeFrame ==
  ASSUME IInv, LifeInv, Executing, Executing' => current' = current,
         UNCHANGED <<queue, tracked, nextId>>,
         \A u \in Tasks \ {current} : task'[u] = task[u],
         NEW r, r = task'[current], r.status \in Statuses,
         r.cancel = task[current].cancel, r.recovered = task[current].recovered,
         Deciding' => Deciding /\ r.status = task[current].status,
         Underway' => r.status = "RUNNING",
         Finishing' => r.status \notin {"QUEUED", "RUNNING"},
         r.status \in {"QUEUED", "RUNNING", "WAITING"} =>
           task[current].status \in {"QUEUED", "RUNNING", "WAITING"} \/ task[current].cancel
  PROVE  LifeInv'
<1>1. /\ current \in Tasks /\ current < nextId /\ ~Queued(current)
      /\ \A t \in Tasks : Queued(t)' <=> Queued(t)
  BY HeldFacts DEF Queued
<1>2. Deciding' \/ Underway' \/ Finishing' => Executing' /\ current' = current
  BY DEF Deciding, Underway, Finishing, Executing
<1> SUFFICES ASSUME NEW t \in Tasks PROVE Life(t)'
  BY DEF LifeInv
<1>3. CASE t # current
  BY <1>1, <1>2, <1>3 DEF LifeInv, Life, Awaited, Held
<1>4. CASE t = current
  <2>1. ~Queued(t)' /\ Held(t) /\ ~(t >= nextId)
    <3>1. t \in Nat /\ nextId \in Nat
      BY ConstantFacts DEF IInv, TypeOK, Tasks
    <3> QED BY <1>1, <1>4, <3>1 DEF Held
  <2>2. Awaited(t)' => Awaited(t)
    BY <1>1, <1>4 DEF Awaited
  <2>3. Life(t) /\ task'[t] = r
    BY <1>4 DEF LifeInv
  <2>4. Awaited(t)' => Deciding'
    BY <2>1 DEF Awaited
  <2>5. r.status \in {"QUEUED", "RUNNING", "WAITING"} /\ ~r.cancel => t \in tracked
    BY <1>4, <2>3 DEF Life
  <2>6. Awaited(t)' \/ Held(t)' => ~r.recovered
    BY <1>4, <2>1, <2>3 DEF Life
  <2>7. Awaited(t)' => r.status \in {"QUEUED", "CANCELLED"} /\ (r.status = "CANCELLED" => r.cancel)
    BY <1>4, <2>2, <2>3, <2>4 DEF Life
  <2> QED BY <1>4, <2>1, <2>3, <2>5, <2>6, <2>7 DEF Life
<1> QED BY <1>3, <1>4

LEMMA LifeStep ==
  ASSUME IInv, LifeInv, RowInv, [Next]_vars
  PROVE  LifeInv'
<1>0. task \in [Tasks -> Records] /\ journal \in [Tasks -> Records]
  BY DEF IInv, TypeOK
<1>1. ASSUME Quiet PROVE LifeInv'
  <2>1. \A t \in Tasks : /\ (Awaited(t)' => Awaited(t)) /\ (Held(t)' => Held(t))
                         /\ Underway' /\ current' = t => Underway /\ current = t
                         /\ Finishing' /\ current' = t => Finishing /\ current = t
    BY <1>1 DEF Quiet, Awaited, Held, Executing, Deciding, Underway, Finishing
  <2> QED BY <1>1, <2>1 DEF Quiet, LifeInv, Life
<1>2. ASSUME Fetch, current' \in Tasks PROVE LifeInv'
  <2>1. \A t \in Tasks : Awaited(t)' \/ Held(t)' => Awaited(t)
    BY <1>2 DEF Fetch, Awaited, Held, Deciding, Executing
  <2>2. ~Underway' /\ ~Finishing'
    BY <1>2 DEF Fetch, Underway, Finishing
  <2> QED BY <1>2, <2>1, <2>2 DEF Fetch, LifeInv, Life
<1>3. ASSUME NEW t \in Tasks, NEW r \in Records, Marked(t, r) PROVE LifeInv'
  <2>1. task'[t] = r /\ \A u \in Tasks \ {t} : task'[u] = task[u]
    BY <1>0, <1>3 DEF Marked
  <2>2. \A u \in Tasks : /\ (Awaited(u)' => Awaited(u)) /\ (Held(u)' <=> Held(u))
    BY <1>3 DEF Marked, Awaited, Held, Executing, Deciding, worker
  <2>3. UNCHANGED <<pc, current, tracked, nextId>>
    BY <1>3 DEF Marked, worker
  <2>4. /\ r.status \in Statuses /\ r.recovered = task[t].recovered
        /\ task[t].status \in {"QUEUED", "RUNNING", "WAITING"}
        /\ \/ r.status = "CANCELLED" /\ r.cancel
           \/ r.status \in {"CANCELLED", "RESOLVED"} /\ task[t].status = "WAITING"
           \/ r.status = task[t].status /\ r.cancel /\ r.status \in {"QUEUED", "RUNNING"}
        /\ r.status \notin {"CANCELLED", "RESOLVED"} \/ task[t].status # "RUNNING"
    BY <1>3 DEF Marked
  <2>5. ~(t >= nextId)
    BY <2>4 DEF LifeInv, Life, Unsaved
  <2>6. Life(t)
    BY DEF LifeInv
  <2>7. \A u \in Tasks \ {t} : Life(u)'
    BY <2>1, <2>2, <2>3 DEF LifeInv, Life, Underway, Finishing
  <2>8. Awaited(t)' => r.status \in {"QUEUED", "CANCELLED"} /\ (r.status = "CANCELLED" => r.cancel)
    BY <2>2, <2>4, <2>6 DEF Life
  <2>9. /\ Underway /\ current = t => r.status = "RUNNING"
        /\ Finishing /\ current = t => r.status \notin {"QUEUED", "RUNNING"}
    BY <2>4, <2>6 DEF Life
  <2>10. r.status \in {"QUEUED", "RUNNING", "WAITING"} /\ ~r.cancel => t \in tracked
    BY <2>4
  <2>11. Life(t)'
    BY <2>1, <2>2, <2>3, <2>4, <2>5, <2>6, <2>8, <2>9, <2>10 DEF Life, Underway, Finishing
  <2> QED BY <2>7, <2>11 DEF LifeInv
<1>4. ASSUME nextId \in Tasks, NEW r \in Records, Inserted(nextId, r) PROVE LifeInv'
  <2> DEFINE t == nextId
  <2>1. task'[t] = r /\ \A u \in Tasks \ {t} : task'[u] = task[u]
    BY <1>0, <1>4 DEF Inserted
  <2>2. ~Queued(t) /\ ~Held(t) /\ ~((Underway \/ Finishing \/ Deciding) /\ current = t)
    <3>1. t \in Nat /\ ~(t < nextId)
      BY <1>4, ConstantFacts DEF Tasks
    <3>2. ~Queued(t)
      BY <3>1, <1>4, QueueFacts
    <3>3. ~(Executing /\ current = t)
      BY <3>1, HeldFacts
    <3> QED BY <3>2, <3>3 DEF Held, Executing, Underway, Finishing, Deciding
  <2>3. \A u \in Tasks : /\ (Awaited(u)' => Awaited(u) \/ u = t) /\ (Held(u)' <=> Held(u))
    BY <1>4 DEF Inserted, Awaited, Held, Executing, Deciding, worker
  <2>4. UNCHANGED <<pc, current>>
    BY <1>4 DEF Inserted, worker
  <2>5. /\ r.status = "QUEUED" /\ ~r.cancel /\ ~r.recovered /\ t \in tracked'
        /\ tracked' \subseteq tracked \cup {t}
        /\ \A u \in tracked : task'[u].status \notin Closed => u \in tracked'
    BY <1>4, <2>1 DEF Inserted, Closed
  <2>6. \A u \in Tasks : u >= nextId' => u >= nextId /\ u # t
    BY <1>4, ConstantFacts DEF Inserted, Tasks
  <2>7. "QUEUED" \in Statuses /\ {"QUEUED", "RUNNING", "WAITING"} \cap Closed = {}
    BY DEF Statuses, Closed
  <2>8. ASSUME NEW u \in Tasks, u = t PROVE Life(u)'
    BY <2>1, <2>2, <2>3, <2>4, <2>5, <2>6, <2>7, <2>8 DEF Life, Underway, Finishing
  <2>9. ASSUME NEW u \in Tasks, u # t PROVE Life(u)'
    <3> HIDE DEF t
    <3>1. task'[u] = task[u] /\ (Awaited(u)' => Awaited(u)) /\ (Held(u)' <=> Held(u))
      BY <2>1, <2>3, <2>9
    <3> QED BY <2>4, <2>5, <2>6, <2>7, <2>9, <3>1 DEF LifeInv, Life, Underway, Finishing
  <2> QED BY <2>8, <2>9 DEF LifeInv
<1>5. ASSUME Restart PROVE LifeInv'
  <2>1. ~Executing' /\ \A t \in Tasks : ~Queued(t)'
    BY <1>5 DEF Restart, Executing, Queued, FreshQueue
  <2>2. ~Underway' /\ ~Finishing' /\ ~Deciding'
    BY <1>5 DEF Restart, Underway, Finishing, Deciding
  <2>3. ASSUME NEW t \in Tasks
        PROVE  /\ t \in tracked' => task'[t].status \in Statuses
               /\ t \notin tracked' => task'[t] = Unsaved
               /\ t >= nextId' => t \notin tracked'
    <3>1. CASE LoadNothing
      BY <3>1 DEF LoadNothing
    <3>2. CASE Load(Newest({u \in Tasks : journal[u] # Unsaved}))
      <4> DEFINE ids == Newest({u \in Tasks : journal[u] # Unsaved})
      <4>1. ids \subseteq Tasks /\ \A u \in ids : journal[u] # Unsaved
        BY DEF Newest
      <4>2. /\ task' = [u \in Tasks |-> IF u \in ids THEN Recovered(journal[u]) ELSE Unsaved]
            /\ tracked' = ids
            /\ nextId' \in 1..(MaxTasks + 1) /\ \A u \in ids : u < nextId'
        BY <3>2 DEF Load
      <4> HIDE DEF ids
      <4>3. t \in ids => t < nextId' /\ t \in Nat /\ nextId' \in Nat
        BY <4>1, <4>2, ConstantFacts DEF Tasks
      <4>4. t \in ids => Recovered(journal[t]).status \in Statuses
        <5>1. journal[t] \in Records
          BY <1>0
        <5>2. journal[t].status = "NONE" => journal[t] = Unsaved
          BY DEF RowInv
        <5> QED BY <4>1, <5>1, <5>2 DEF Records, Recovered, Statuses, Closed
      <4> QED BY <4>2, <4>3, <4>4
    <3> QED BY <1>5, <3>1, <3>2 DEF Restart
  <2>4. Unsaved.status = "NONE"
    BY DEF Unsaved
  <2> QED BY <2>1, <2>2, <2>3, <2>4 DEF LifeInv, Life, Awaited, Held
<1>6. ASSUME Worker, ~Poll, ~Get, ~FinishListeners PROVE LifeInv'
  <2> USE DEF memory, control, worker, world, disk, Outside, Goto
  <2>1. /\ Executing /\ current \in Tasks /\ task[current] \in Records
        /\ task[current].status \in Statuses /\ Life(current)
        /\ UNCHANGED <<queue, tracked, nextId>>
    <3>1. Executing /\ UNCHANGED <<queue, tracked, nextId>>
      BY <1>6 DEF Worker, Executing, Begin, Preflight, StartRunning, StepBegin, Call, Handler,
           Return, Complete, Compensate, Close, FinishSave, FinishWrite, FinishSnapshot, FinishNotify
    <3> QED BY <3>1, HeldFacts DEF LifeInv
  <2> DEFINE c == current
  <2>2. CASE Begin \/ Call \/ Handler \/ Compensate \/ FinishSave \/ FinishWrite
              \/ FinishSnapshot \/ FinishNotify
    <3>1. task' = task /\ (Executing' => current' = current)
      BY <2>2 DEF Begin, Call, Handler, Compensate, FinishSave, FinishWrite, FinishSnapshot,
                  FinishNotify, Executing
    <3>2. /\ Deciding' => Deciding
          /\ Underway' => Underway
          /\ Finishing' => Finishing
      BY <2>2 DEF Begin, Call, StartUndo, Handler, Compensate, FinishSave, FinishWrite,
                  FinishSnapshot, FinishNotify, Deciding, Underway, Finishing
    <3> QED BY <2>1, <3>1, <3>2, LifeFrame DEF Life
  <2>3. CASE Preflight
    <3>1. Deciding /\ pc' \in {"start", "save"} /\ current' = current
      BY <2>3 DEF Preflight, Deciding
    <3>2. CASE pc' = "start" /\ task' = task
      BY <2>1, <3>1, <3>2, LifeFrame DEF Deciding, Underway, Finishing
    <3>3. CASE pc' = "save" /\ task' = [task EXCEPT ![current].status = "FAILED"]
      <4>1. /\ task'[c].status = "FAILED" /\ task'[c].cancel = task[c].cancel
            /\ task'[c].recovered = task[c].recovered
            /\ \A u \in Tasks \ {c} : task'[u] = task[u]
        BY <1>0, <2>1, <3>3 DEF Records
      <4> QED BY <2>1, <3>1, <3>3, <4>1, LifeFrame
              DEF Deciding, Underway, Finishing, Statuses, Closed
    <3> QED BY <2>3, <3>2, <3>3 DEF Preflight
  <2>4. CASE StartRunning
    <3>1. /\ task'[c].status = "RUNNING" /\ task'[c].cancel = task[c].cancel
          /\ task'[c].recovered = task[c].recovered
          /\ \A u \in Tasks \ {c} : task'[u] = task[u]
      BY <1>0, <2>1, <2>4 DEF StartRunning, Update, Records
    <3>2. pc' = "step" /\ current' = current /\ Deciding
      BY <2>4 DEF StartRunning, Deciding
    <3>3. task[c].status = "QUEUED" \/ task[c].cancel
      BY <2>1, <3>2 DEF Life, Awaited
    <3> QED BY <2>1, <3>1, <3>2, <3>3, LifeFrame DEF Deciding, Underway, Finishing, Statuses
  <2>5. CASE StepBegin
    <3>1. task' = task
      BY <1>0, <2>1, <2>5 DEF StepBegin, Update
    <3>2. Underway /\ pc' \in {"undo", "call"} /\ current' = current
      BY <2>5 DEF StepBegin, StartUndo, Underway
    <3> QED BY <2>1, <3>1, <3>2, LifeFrame DEF Deciding, Underway, Finishing, Life
  <2>6. CASE Return
    <3>1. Underway /\ task[c].status = "RUNNING" /\ current' = current
      BY <2>1, <2>6 DEF Return, Underway, Life
    <3>2. PICK r \in Delivered : Record(r) \/ AskUser(r) \/ GiveUp(r)
      BY <2>6 DEF Return
    <3>3. CASE Record(r)
      <4>1. /\ task'[c].status = task[c].status /\ task'[c].cancel = task[c].cancel
            /\ task'[c].recovered = task[c].recovered
            /\ \A u \in Tasks \ {c} : task'[u] = task[u]
        BY <1>0, <2>1, <3>3 DEF Record, Update, Records
      <4>2. pc' \in {"step", "complete"}
        BY <3>3 DEF Record
      <4> QED BY <2>1, <3>1, <4>1, <4>2, LifeFrame DEF Deciding, Underway, Finishing, Statuses
    <3>4. CASE AskUser(r)
      <4>1. /\ task'[c].status = "WAITING" /\ task'[c].cancel = task[c].cancel
            /\ task'[c].recovered = task[c].recovered
            /\ \A u \in Tasks \ {c} : task'[u] = task[u]
        BY <1>0, <2>1, <3>4 DEF AskUser, Records
      <4>2. pc' = "save"
        BY <3>4 DEF AskUser
      <4> QED BY <2>1, <3>1, <4>1, <4>2, LifeFrame DEF Deciding, Underway, Finishing, Statuses
    <3>5. CASE GiveUp(r)
      <4>1. task' = task /\ pc' = "undo"
        BY <3>5 DEF GiveUp, StartUndo
      <4> QED BY <2>1, <3>1, <4>1, LifeFrame DEF Deciding, Underway, Finishing
    <3> QED BY <3>2, <3>3, <3>4, <3>5
  <2>7. CASE Complete \/ Close
    <3>1. /\ task'[c].status \in {"COMPLETED", "FAILED", "CANCELLED", "TIMED_OUT"}
          /\ task'[c].cancel = task[c].cancel /\ task'[c].recovered = task[c].recovered
          /\ \A u \in Tasks \ {c} : task'[u] = task[u]
      <4>1. PICK s \in {"COMPLETED", "FAILED", "CANCELLED", "TIMED_OUT"} :
              task' = [task EXCEPT ![current].status = s]
        BY <2>7 DEF Complete, Close, IInv, TypeOK, WorkerInv
      <4> QED BY <1>0, <2>1, <4>1 DEF Records
    <3>2. pc' = "save" /\ current' = current
      BY <2>7 DEF Complete, Close
    <3> QED BY <2>1, <3>1, <3>2, LifeFrame DEF Deciding, Underway, Finishing, Statuses, Closed
  <2> QED BY <1>6, <2>2, <2>3, <2>4, <2>5, <2>6, <2>7 DEF Worker
<1> QED
  BY <1>1, <1>2, <1>3, <1>4, <1>5, <1>6, QuietSteps, FetchIs, MarkIs, InsertIs
  DEF Next, Worker, Users, Application

-----------------------------------------------------------------------------
\* The changes of a task.

\* A step of the worker touches the changes and the record of its task only.
LEMMA ChangeFrame ==
  ASSUME IInv, ChangeInv, Executing, Executing' => current' = current, UNCHANGED queue,
         \A u \in Tasks \ {current} : changed'[u] = changed[u] /\ task'[u] = task[u],
         Deciding' => /\ Deciding /\ changed'[current] = changed[current]
                      /\ task'[current].done = task[current].done,
         Stepping' =>
           /\ task'[current].done = step' - 1
           /\ \A k \in changed'[current] :
                \/ k < step' /\ (task'[current].steps[k] = "reversible" => k \in task'[current].results)
                \/ k = step' /\ pc' = "return" /\ result' = "changed",
         pc' = "undo" => \A k \in changed'[current] : task'[current].steps[k] = "reversible" =>
           k \in toUndo' \/ k \in Undone(current)' \/ k = task'[current].done + 1
  PROVE  ChangeInv'
<1>1. current \in Tasks /\ ~Queued(current) /\ \A t \in Tasks : Queued(t)' <=> Queued(t)
  BY HeldFacts DEF Queued
<1>2. Deciding' \/ Stepping' \/ pc' = "undo" => current' = current
  BY DEF Deciding, Stepping, Executing
<1>3. ASSUME NEW t \in Tasks, Awaited(t)' PROVE changed'[t] = {} /\ task'[t].done = 0
  <2>1. CASE t = current
    BY <1>1, <1>2, <1>3, <2>1 DEF Awaited, ChangeInv
  <2>2. CASE t # current
    BY <1>1, <1>2, <1>3, <2>2 DEF Awaited, ChangeInv
  <2> QED BY <2>1, <2>2
<1> QED BY <1>2, <1>3 DEF ChangeInv

LEMMA ChangeStep ==
  ASSUME IInv, LifeInv, ChangeInv, [Next]_vars
  PROVE  ChangeInv'
<1>0. /\ task \in [Tasks -> Records] /\ changed \in [Tasks -> SUBSET (1..MaxSteps)]
      /\ undone \in [Tasks -> Seq(1..MaxSteps)]
  BY DEF IInv, TypeOK
<1>1. ASSUME Quiet PROVE ChangeInv'
  <2>1. \A t \in Tasks : Awaited(t)' => Awaited(t)
    BY <1>1 DEF Quiet, Awaited, Executing, Deciding
  <2>2. CASE pc' = pc /\ UNCHANGED <<current, step, result, toUndo, taken>>
    BY <1>1, <2>1, <2>2 DEF Quiet, ChangeInv, Stepping, Undone
  <2>3. CASE ~Executing'
    BY <1>1, <2>1, <2>3 DEF Quiet, ChangeInv, Executing, Stepping
  <2> QED BY <1>1, <2>2, <2>3 DEF Quiet
<1>2. ASSUME Fetch, current' \in Tasks PROVE ChangeInv'
  <2>1. \A t \in Tasks : Awaited(t)' => Awaited(t)
    BY <1>2 DEF Fetch, Awaited
  <2> QED BY <1>2, <2>1 DEF Fetch, ChangeInv, Stepping
<1>3. ASSUME NEW t \in Tasks, NEW r \in Records, Marked(t, r) PROVE ChangeInv'
  <2>1. \A u \in Tasks : /\ task'[u].done = task[u].done /\ task'[u].steps = task[u].steps
                         /\ task'[u].results = task[u].results
    BY <1>0, <1>3 DEF Marked
  <2>2. /\ \A u \in Tasks : Awaited(u)' => Awaited(u)
        /\ UNCHANGED <<pc, current, step, result, toUndo, changed, undone>>
    BY <1>3 DEF Marked, Awaited, Deciding, worker
  <2>3. Executing => current \in Tasks
    BY HeldFacts
  <2>4. Stepping \/ pc = "undo" => Executing
    BY DEF Stepping, Executing
  <2> QED BY <2>1, <2>2, <2>3, <2>4 DEF ChangeInv, Stepping, Undone
<1>4. ASSUME nextId \in Tasks, NEW r \in Records, Inserted(nextId, r) PROVE ChangeInv'
  <2> DEFINE t == nextId
  <2>1. /\ \A u \in Tasks \ {t} : task'[u] = task[u] /\ changed'[u] = changed[u] /\ undone'[u] = undone[u]
        /\ changed'[t] = {} /\ task'[t].done = 0
        /\ UNCHANGED <<pc, current, step, result, toUndo>>
    BY <1>0, <1>4 DEF Inserted, worker
  <2>2. Executing => current \in Tasks \ {t}
    <3>1. t \in Nat /\ ~(t < nextId)
      BY <1>4, ConstantFacts DEF Tasks
    <3> QED BY <3>1, HeldFacts
  <2>3. Stepping \/ pc = "undo" \/ Deciding => Executing
    BY DEF Stepping, Deciding, Executing
  <2>4. \A u \in Tasks \ {t} : Awaited(u)' => Awaited(u)
    BY <1>4, <2>1 DEF Inserted, Awaited, Deciding
  <2> HIDE DEF t
  <2> QED BY <2>1, <2>2, <2>3, <2>4 DEF ChangeInv, Stepping, Undone
<1>5. ASSUME Restart PROVE ChangeInv'
  BY <1>5 DEF Restart, ChangeInv, Awaited, Queued, FreshQueue, Deciding, Stepping
<1>6. ASSUME Worker, ~Poll, ~Get, ~FinishListeners PROVE ChangeInv'
  <2> USE DEF memory, control, worker, world, disk, Outside, Goto
  <2> DEFINE c == current
  <2>1. Executing /\ c \in Tasks /\ task[c] \in Records /\ UNCHANGED queue /\ Life(c)
    <3>1. Executing /\ UNCHANGED queue
      BY <1>6 DEF Worker, Executing, Begin, Preflight, StartRunning, StepBegin, Call, Handler,
           Return, Complete, Compensate, Close, FinishSave, FinishWrite, FinishSnapshot, FinishNotify
    <3> QED BY <3>1, HeldFacts DEF LifeInv
  <2>2. CASE Begin \/ FinishSave \/ FinishWrite \/ FinishSnapshot \/ FinishNotify
    <3>1. /\ UNCHANGED <<task, changed>> /\ (Executing' => current' = current)
          /\ ~Stepping' /\ pc' # "undo" /\ (Deciding' => Deciding)
      BY <2>2 DEF Begin, FinishSave, FinishWrite, FinishSnapshot, FinishNotify,
                  Executing, Deciding, Stepping
    <3> QED BY <2>1, <3>1, ChangeFrame
  <2>3. CASE Preflight \/ Complete \/ Close
    <3>1. /\ \A u \in Tasks \ {c} : task'[u] = task[u]
          /\ task'[c].done = task[c].done
      <4>1. PICK v \in Statuses \cup {"NONE"} :
              task' = task \/ task' = [task EXCEPT ![current].status = v]
        BY <2>3 DEF Preflight, Complete, Close, IInv, TypeOK, Statuses, Closed
      <4> QED BY <1>0, <2>1, <4>1 DEF Records
    <3>2. /\ UNCHANGED <<changed, current>> /\ ~Stepping' /\ pc' # "undo" /\ (Deciding' => Deciding)
      BY <2>3 DEF Preflight, Complete, Close, Deciding, Stepping
    <3> QED BY <2>1, <3>1, <3>2, ChangeFrame
  <2>4. CASE StartRunning
    <3>1. task'[c].done = task[c].done /\ \A u \in Tasks \ {c} : task'[u] = task[u]
      BY <1>0, <2>1, <2>4 DEF StartRunning, Update, Records
    <3>2. Awaited(c)
      BY <2>4 DEF StartRunning, Awaited, Deciding
    <3>3. changed[c] = {} /\ task[c].done = 0
      BY <2>1, <3>2 DEF ChangeInv
    <3>4. pc' = "step" /\ step' = 1 /\ UNCHANGED <<changed, current>> /\ ~Deciding'
      BY <2>4 DEF StartRunning, Deciding
    <3> QED BY <2>1, <3>1, <3>3, <3>4, ChangeFrame
  <2>5. CASE StepBegin \/ Call
    <3>1. task' = task
      BY <1>0, <2>1, <2>5 DEF StepBegin, Call, Update
    <3>2. /\ Stepping /\ pc # "return" /\ UNCHANGED <<changed, current, step, result>>
          /\ pc' \in {"undo", "call", "handler"} /\ (pc' = "undo" => toUndo' = task[c].results)
      BY <2>5 DEF StepBegin, Call, StartUndo, Stepping
    <3> QED BY <2>1, <3>1, <3>2, ChangeFrame DEF ChangeInv, Stepping, Deciding
  <2>6. CASE Handler
    <3>1. /\ Stepping /\ pc = "handler" /\ pc' = "return" /\ UNCHANGED <<task, current, step>>
          /\ changed' = IF result' = "changed" THEN [changed EXCEPT ![c] = @ \cup {step}] ELSE changed
      BY <2>6 DEF Handler, Stepping
    <3>2. /\ \A u \in Tasks \ {c} : changed'[u] = changed[u]
          /\ \A k \in changed'[c] : k \in changed[c] \/ (k = step /\ result' = "changed")
      BY <1>0, <2>1, <3>1
    <3> QED BY <2>1, <3>1, <3>2, ChangeFrame DEF ChangeInv, Stepping, Deciding
  <2>7. CASE Return
    <3>1. Stepping /\ pc = "return" /\ UNCHANGED <<changed, current>>
      BY <2>7 DEF Return, Stepping
    <3>2. PICK r \in Delivered : Record(r) \/ AskUser(r) \/ GiveUp(r)
      BY <2>7 DEF Return
    <3>3. CASE Record(r)
      <4>1. r = result /\ r \in {"changed", "clean"}
        BY <3>2, <3>3 DEF Record, Delivered
      <4>2. /\ task'[c].done = step /\ task'[c].steps = task[c].steps
            /\ task'[c].results = IF Compensable(r) THEN task[c].results \cup {step} ELSE task[c].results
            /\ \A u \in Tasks \ {c} : task'[u] = task[u]
        BY <1>0, <2>1, <3>3 DEF Record, Update, Records
      <4>3. (pc' = "step" /\ step' = step + 1) \/ pc' = "complete"
        BY <3>3 DEF Record
      <4>4. step \in Nat
        BY ConstantFacts DEF IInv, TypeOK
      <4>5. \A k \in changed[c] :
              k < step + 1 /\ (task'[c].steps[k] = "reversible" => k \in task'[c].results)
        <5> SUFFICES ASSUME NEW k \in changed[c]
                     PROVE  k < step + 1 /\ (task'[c].steps[k] = "reversible" => k \in task'[c].results)
          OBVIOUS
        <5>1. k \in Nat
          BY <1>0, <2>1, ConstantFacts
        <5>2. CASE k < step /\ (task[c].steps[k] = "reversible" => k \in task[c].results)
          BY <4>2, <4>4, <5>1, <5>2
        <5>3. CASE k = step /\ result = "changed"
          BY <4>1, <4>2, <4>4, <5>3 DEF Compensable
        <5> QED BY <3>1, <5>2, <5>3 DEF ChangeInv
      <4> QED BY <2>1, <3>1, <4>2, <4>3, <4>4, <4>5, ChangeFrame DEF Deciding, Stepping
    <3>4. CASE AskUser(r)
      <4>1. pc' = "save" /\ \A u \in Tasks \ {c} : task'[u] = task[u]
        BY <1>0, <3>4 DEF AskUser
      <4> QED BY <2>1, <3>1, <4>1, ChangeFrame DEF Deciding, Stepping
    <3>5. CASE GiveUp(r)
      <4>1. pc' = "undo" /\ toUndo' = task[c].results /\ task' = task
        BY <3>5 DEF GiveUp, StartUndo
      <4>2. task[c].done = step - 1 /\ step \in Nat
        BY <3>1, ConstantFacts DEF ChangeInv, IInv, TypeOK
      <4>3. \A k \in changed[c] : task[c].steps[k] = "reversible" =>
              k \in toUndo' \/ k = task[c].done + 1
        BY <3>1, <4>1, <4>2 DEF ChangeInv
      <4> QED BY <2>1, <3>1, <4>1, <4>3, ChangeFrame DEF Deciding, Stepping
    <3> QED BY <3>2, <3>3, <3>4, <3>5
  <2>8. CASE Compensate
    <3>1. PICK k \in toUndo : /\ toUndo' = toUndo \ {k}
                              /\ undone' = [undone EXCEPT ![c] = Append(@, k)]
                              /\ \/ changed' = [changed EXCEPT ![c] = @ \ {k}]
                                 \/ UNCHANGED changed
      BY <2>8 DEF Compensate
    <3>2. pc = "undo" /\ UNCHANGED <<pc, current, task>>
      BY <2>8 DEF Compensate
    <3>3. /\ changed'[c] \subseteq changed[c]
          /\ \A u \in Tasks \ {c} : changed'[u] = changed[u]
      BY <1>0, <2>1, <3>1
    <3>4. Undone(c) \cup {k} \subseteq Undone(c)'
      <4>1. undone[c] \in Seq(1..MaxSteps) /\ k \in 1..MaxSteps /\ undone'[c] = Append(undone[c], k)
        BY <1>0, <2>1, <3>1 DEF IInv, TypeOK
      <4>2. /\ Len(undone'[c]) = Len(undone[c]) + 1 /\ undone'[c][Len(undone[c]) + 1] = k
            /\ \A i \in 1..Len(undone[c]) : undone'[c][i] = undone[c][i]
            /\ Len(undone[c]) \in Nat
        BY <4>1
      <4> QED BY <3>2, <4>2 DEF Undone
    <3> QED BY <2>1, <3>1, <3>2, <3>3, <3>4, ChangeFrame DEF ChangeInv, Deciding, Stepping
  <2> QED BY <1>6, <2>2, <2>3, <2>4, <2>5, <2>6, <2>7, <2>8 DEF Worker
<1> QED
  BY <1>1, <1>2, <1>3, <1>4, <1>5, <1>6, QuietSteps, FetchIs, MarkIs, InsertIs
  DEF Next, Worker, Users, Application

-----------------------------------------------------------------------------
\* The rows.

\* What a call of the journal leaves in the row of its task.
LEMMA SaveFacts ==
  ASSUME IInv, NEW t \in Tasks, NEW r \in Records, Save(t, r)
  PROVE  /\ \A u \in Tasks \ {t} : journal'[u] = journal[u]
         /\ \/ /\ failures' = failures
               /\ journal'[t].status = r.status /\ journal'[t].done = r.done
            \/ failures' = failures + 1 /\ journal' = journal
<1>1. Snapshot(r).status = r.status /\ Snapshot(r).done = r.done
  BY DEF Snapshot, Records
<1>2. journal \in [Tasks -> Records]
  BY DEF IInv, TypeOK
<1> QED BY <1>1, <1>2 DEF Save, Lost

\* The record of a task after a step has given its result back.
Recorded(x, r) ==
  /\ task' = [task EXCEPT ![current] = x] /\ Save(current, x)
  /\ x.done = step /\ x.status = task[current].status /\ x.steps = task[current].steps

LEMMA RecordIs ==
  ASSUME IInv, Return, NEW r, Record(r)
  PROVE  \E x \in Records : Recorded(x, r)
<1> DEFINE kept == IF Compensable(r) THEN task[current].results \cup {step}
                                     ELSE task[current].results
           x == [task[current] EXCEPT !.done = step, !.results = kept]
<1>1. pc = "return" /\ step \in 1..Len(task[current].steps) /\ task[current].steps \in Plans
  BY DEF Return, IInv, WorkerInv, Executing, Stepping
<1>2. step \in 1..MaxSteps /\ step \in 0..MaxSteps
  BY <1>1, ConstantFacts DEF IInv, TypeOK
<1>3. current \in Tasks /\ task[current] \in Records
  BY <1>1, HeldFacts DEF Executing
<1>4. kept \in SUBSET (1..MaxSteps)
  BY <1>2, <1>3 DEF Records
<1>5. task' = [task EXCEPT ![current] = x] /\ Save(current, x)
  BY <1>3 DEF Record, Update, Compensable
<1> HIDE DEF kept
<1>6. /\ x \in Records /\ x.done = step /\ x.status = task[current].status
      /\ x.steps = task[current].steps
  BY <1>2, <1>3, <1>4 DEF Records
<1> HIDE DEF x
<1>7. Recorded(x, r)
  BY <1>5, <1>6 DEF Recorded
<1> QED BY <1>6, <1>7

\* A process that lost no row has written all it recovered, and none was lost before.
LEMMA LoadLosesNothing ==
  ASSUME IInv, NEW ids, ids \subseteq Tasks, Load(ids), failures' = 0
  PROVE  /\ failures = 0
         /\ journal' = [t \in Tasks |-> IF t \in ids THEN Recovered(journal[t]) ELSE journal[t]]
<1>1. PICK lost \in SUBSET ids :
        /\ failures' = failures + Cardinality(lost)
        /\ journal' = [t \in Tasks |-> IF t \in ids \ lost THEN Recovered(journal[t]) ELSE journal[t]]
  BY DEF Load
<1>2. IsFiniteSet(lost)
  <2>1. IsFiniteSet(1..MaxTasks)
    BY ConstantFacts, FS_Interval
  <2> QED BY <2>1, FS_Subset DEF Tasks
<1>3. failures \in Nat /\ Cardinality(lost) \in Nat
  BY <1>2, FS_CardinalityType, ConstantFacts DEF IInv, TypeOK
<1>4. failures = 0 /\ Cardinality(lost) = 0
  BY <1>1, <1>3
<1>5. lost = {}
  BY <1>2, <1>4, FS_EmptySet
<1> QED BY <1>1, <1>4, <1>5

\* The worker touches no record and no row but those of the task it holds.
LEMMA WorkerKeeps ==
  ASSUME IInv, RowInv, Worker, ~Poll, ~Get, ~FinishListeners
  PROVE  /\ \A u \in Tasks \ {current} : task'[u] = task[u] /\ journal'[u] = journal[u]
         /\ failures' = 0 => failures = 0
<1> USE DEF memory, control, worker, world, disk, Outside, Goto
<1>0. /\ task \in [Tasks -> Records] /\ journal \in [Tasks -> Records]
      /\ failures \in Nat /\ taken \in Records
  BY ConstantFacts DEF IInv, TypeOK
<1>1. Executing
  BY DEF Worker, Executing, Begin, Preflight, StartRunning, StepBegin, Call, Handler,
         Return, Complete, Compensate, Close, FinishSave, FinishWrite, FinishSnapshot, FinishNotify
<1> PICK c \in Tasks : c = current
  BY <1>1, HeldFacts
<1>2. ASSUME NEW r \in Records, Save(c, r), UNCHANGED task \/ task' = [task EXCEPT ![c] = r]
      PROVE  /\ \A u \in Tasks \ {c} : task'[u] = task[u] /\ journal'[u] = journal[u]
             /\ failures' = 0 => failures = 0
  BY <1>0, <1>2, SaveFacts
<1>3. ASSUME UNCHANGED disk, NEW v, UNCHANGED task \/ task' = [task EXCEPT ![c].status = v]
      PROVE  /\ \A u \in Tasks \ {c} : task'[u] = task[u] /\ journal'[u] = journal[u]
             /\ failures' = 0 => failures = 0
  BY <1>0, <1>3
<1>4. CASE Begin \/ Preflight \/ Call \/ Handler \/ Complete \/ Compensate \/ Close
            \/ FinishSave \/ FinishSnapshot \/ FinishNotify
  BY <1>3, <1>4 DEF Begin, Preflight, Call, StartUndo, Handler, Complete, Compensate, Close,
                    FinishSave, FinishSnapshot, FinishNotify
<1>5. CASE StartRunning
  BY <1>0, <1>2, <1>5, StatusRecord DEF StartRunning, Update, Statuses
<1>6. CASE StepBegin
  BY <1>0, <1>2, <1>3, <1>6 DEF StepBegin, StartUndo, Update
<1>7. CASE Return
  <2>1. PICK r \in Delivered : Record(r) \/ AskUser(r) \/ GiveUp(r)
    BY <1>7 DEF Return
  <2>2. CASE Record(r)
    BY <1>2, <1>7, <2>2, RecordIs DEF Recorded
  <2>3. CASE AskUser(r) \/ GiveUp(r)
    BY <1>3, <2>3 DEF AskUser, GiveUp, StartUndo
  <2> QED BY <2>1, <2>2, <2>3
<1>8. CASE FinishWrite
  BY <1>0, <1>2, <1>8 DEF FinishWrite
<1> QED BY <1>4, <1>5, <1>6, <1>7, <1>8 DEF Worker

\* Which row a step may write, and from what.
LEMMA RowStep ==
  ASSUME IInv, LifeInv, RowInv, [Next]_vars
  PROVE  RowInv'
<1> USE DEF memory, control, worker, world, disk, Outside, Goto
<1>0. /\ task \in [Tasks -> Records] /\ journal \in [Tasks -> Records]
      /\ \A t \in Tasks : task[t] \in Records /\ journal[t] \in Records
  BY DEF IInv, TypeOK
<1>1. ASSUME NEW t \in Tasks, NEW r \in Records, Save(t, r), r.status \in Statuses
      PROVE  \A u \in Tasks : journal'[u].status = "NONE" => journal'[u] = Unsaved
  BY <1>1, SaveFacts DEF RowInv, Statuses, Closed
<1>2. ASSUME journal' = journal
      PROVE  \A u \in Tasks : journal'[u].status = "NONE" => journal'[u] = Unsaved
  BY <1>2 DEF RowInv
<1>3. CASE Quiet
  BY <1>2, <1>3 DEF Quiet, RowInv, Executing
<1>4. CASE Fetch
  BY <1>2, <1>4 DEF Fetch, RowInv
<1>5. ASSUME NEW t \in Tasks, NEW r \in Records, Marked(t, r) PROVE RowInv'
  BY <1>1, <1>5 DEF Marked, RowInv
<1>6. ASSUME nextId \in Tasks, NEW r \in Records, Inserted(nextId, r) PROVE RowInv'
  BY <1>1, <1>6 DEF Inserted, RowInv, Statuses
<1>7. ASSUME Restart PROVE RowInv'
  <2>1. pc' = "off"
    BY <1>7 DEF Restart
  <2>2. CASE LoadNothing
    BY <1>2, <2>1, <2>2 DEF LoadNothing, RowInv
  <2>3. ASSUME NEW ids, Load(ids) PROVE RowInv'
    <3>1. PICK lost \in SUBSET ids :
            journal' = [t \in Tasks |-> IF t \in ids \ lost THEN Recovered(journal[t]) ELSE journal[t]]
      BY <2>3 DEF Load
    <3>2. \A t \in Tasks : Recovered(journal[t]).status = "NONE" => Recovered(journal[t]) = journal[t]
      BY <1>0 DEF Recovered, Records
    <3> QED BY <2>1, <3>1, <3>2 DEF RowInv
  <2> QED BY <1>7, <2>2, <2>3 DEF Restart
<1>8. ASSUME Worker, ~Poll, ~Get, ~FinishListeners PROVE RowInv'
  <2>1. Executing /\ current \in Tasks /\ task[current].status \in Statuses /\ Life(current)
    <3>1. Executing
      BY <1>8 DEF Worker, Executing, Begin, Preflight, StartRunning, StepBegin, Call, Handler,
           Return, Complete, Compensate, Close, FinishSave, FinishWrite, FinishSnapshot, FinishNotify
    <3> QED BY <3>1, HeldFacts DEF LifeInv
  <2>2. CASE Begin \/ Preflight \/ Call \/ Handler \/ Complete \/ Compensate \/ Close
              \/ FinishSnapshot \/ FinishNotify
    BY <1>2, <2>2 DEF Begin, Preflight, Call, StartUndo, Handler, Complete, Compensate, Close,
                      FinishSnapshot, FinishNotify, RowInv
  <2>3. CASE StartRunning
    <3>1. [task[current] EXCEPT !.status = "RUNNING"] \in Records
      BY <1>0, <2>1, StatusRecord DEF Statuses
    <3>2. [task[current] EXCEPT !.status = "RUNNING"].status \in Statuses
      BY <1>0, <2>1 DEF Records, Statuses
    <3>3. Save(current, [task[current] EXCEPT !.status = "RUNNING"]) /\ pc' = "step"
      BY <2>3 DEF StartRunning, Update
    <3> QED BY <1>1, <2>1, <3>1, <3>2, <3>3 DEF RowInv
  <2>4. CASE StepBegin
    BY <1>0, <1>1, <1>2, <2>1, <2>4 DEF StepBegin, StartUndo, Update, RowInv
  <2>5. CASE Return
    <3>1. PICK r \in Delivered : Record(r) \/ AskUser(r) \/ GiveUp(r)
      BY <2>5 DEF Return
    <3>2. CASE Record(r)
      <4>1. PICK x \in Records : Recorded(x, r)
        BY <2>5, <3>2, RecordIs
      <4> QED BY <1>1, <2>1, <3>2, <4>1 DEF Record, Recorded, RowInv
    <3>3. CASE AskUser(r) \/ GiveUp(r)
      BY <1>2, <3>3 DEF AskUser, GiveUp, StartUndo, RowInv
    <3> QED BY <3>1, <3>2, <3>3
  <2>6. CASE FinishSave
    <3>1. Finishing /\ taken' = Snapshot(task[current]) /\ journal' = journal
      BY <2>6 DEF FinishSave, Finishing
    <3>2. taken'.status = task[current].status
      BY <1>0, <2>1, <3>1, SnapshotRecord
    <3> QED BY <1>2, <2>1, <3>1, <3>2 DEF Life, RowInv
  <2>7. CASE FinishWrite
    <3>1. taken \in Records /\ taken.status \in Statuses /\ Save(current, taken) /\ pc' = "snapshot"
      BY <2>7 DEF FinishWrite, RowInv, IInv, TypeOK
    <3> QED BY <1>1, <2>1, <3>1 DEF RowInv
  <2> QED BY <1>8, <2>2, <2>3, <2>4, <2>5, <2>6, <2>7 DEF Worker
<1> QED
  BY <1>3, <1>4, <1>5, <1>6, <1>7, <1>8, QuietSteps, FetchIs, MarkIs, InsertIs
  DEF Next, Worker, Users, Application

\* A step of the worker on its task, and what is left to show of its row.
LEMMA RowFrame ==
  ASSUME IInv, JournalInv, Executing, NEW c \in Tasks, c = current,
         Executing' => current' = c, UNCHANGED nextId,
         \A u \in Tasks \ {c} : /\ task'[u] = task[u] /\ journal'[u] = journal[u]
                                /\ ran'[u] = ran[u],
         failures' = 0 =>
           /\ failures = 0
           /\ Row(c)'
           /\ Underway' => journal'[c].status = "RUNNING"
           /\ pc' = "write" => /\ taken'.done = task'[c].done
                               /\ task'[c].status \in Ends => taken'.status = task'[c].status
  PROVE  JournalInv'
<1> SUFFICES ASSUME failures' = 0 PROVE JournalInv'
  BY DEF JournalInv
<1>1. failures = 0 /\ Row(c)' /\ \A u \in Tasks : Row(u)
  BY DEF JournalInv
<1>2. ASSUME NEW u \in Tasks \ {c} PROVE Row(u)'
  BY <1>1, <1>2 DEF Row
<1>3. Underway' \/ pc' = "write" => current' = c
  BY DEF Underway, Executing
<1>4. RowRuns' /\ RowEnds'
  BY <1>3 DEF RowRuns, RowEnds
<1> QED BY <1>1, <1>2, <1>4 DEF JournalInv

LEMMA JournalStep ==
  ASSUME IInv, LifeInv, RowInv, ChangeInv, JournalInv, [Next]_vars
  PROVE  JournalInv'
<1>0. /\ task \in [Tasks -> Records] /\ journal \in [Tasks -> Records]
      /\ ran \in [Tasks -> Seq(1..MaxSteps)] /\ failures \in Nat
      /\ \A t \in Tasks : task[t] \in Records /\ journal[t] \in Records /\ Life(t)
  BY ConstantFacts DEF IInv, TypeOK, LifeInv
<1>1. ASSUME Quiet PROVE JournalInv'
  <2>1. CASE pc' = pc /\ UNCHANGED <<current, step, result, toUndo, taken>>
    BY <1>1, <2>1 DEF Quiet, JournalInv, Row, RowRuns, RowEnds, Underway
  <2>2. CASE ~Executing /\ ~Executing'
    BY <1>1, <2>2 DEF Quiet, JournalInv, Row, RowRuns, RowEnds, Underway, Executing
  <2> QED BY <1>1, <2>1, <2>2 DEF Quiet
<1>2. ASSUME Fetch PROVE JournalInv'
  BY <1>2 DEF Fetch, JournalInv, Row, RowRuns, RowEnds, Underway, Executing
<1>3. ASSUME NEW t \in Tasks, NEW r \in Records, Marked(t, r) PROVE JournalInv'
  <2> SUFFICES ASSUME failures' = 0 PROVE JournalInv'
    BY DEF JournalInv
  <2>1. /\ task'[t] = r /\ \A u \in Tasks \ {t} : task'[u] = task[u]
        /\ failures = 0 /\ journal'[t].status = r.status /\ journal'[t].done = r.done
        /\ \A u \in Tasks \ {t} : journal'[u] = journal[u]
        /\ UNCHANGED <<pc, current, taken, ran, nextId>>
    BY <1>0, <1>3, SaveFacts DEF Marked, worker
  <2>2. \A u \in Tasks : Row(u)
    BY <2>1 DEF JournalInv
  <2>3. /\ r.done = task[t].done /\ r.status \notin Ends \cup {"NONE"}
        /\ task[t].status # "NONE" /\ (r.status = "QUEUED" => task[t].status = "QUEUED")
        /\ task[t].status = "RUNNING" => r.status = "RUNNING"
    BY <1>3 DEF Marked, Ends
  <2>4. t < nextId
    <3>1. t \in Nat /\ nextId \in Nat
      BY ConstantFacts DEF IInv, TypeOK, Tasks
    <3>2. ~(t >= nextId)
      BY <1>0, <2>3 DEF Life, Unsaved
    <3> QED BY <3>1, <3>2
  <2>5. r.status = "QUEUED" => ran[t] = <<>>
    BY <2>3 DEF IInv, PromiseInv
  <2>6. Row(t)'
    BY <2>1, <2>2, <2>3, <2>4, <2>5 DEF Row
  <2>7. \A u \in Tasks \ {t} : Row(u)'
    BY <2>1, <2>2 DEF Row
  <2>8. Executing => current \in Tasks
    BY HeldFacts
  <2>9. RowRuns'
    BY <1>0, <2>1, <2>3, <2>8 DEF Underway, Executing, Life, JournalInv, RowRuns
  <2>10. RowEnds'
    BY <2>1, <2>3, <2>8 DEF Executing, JournalInv, RowEnds
  <2>11. \A u \in Tasks : Row(u)'
    BY <2>6, <2>7
  <2> QED BY <2>9, <2>10, <2>11 DEF JournalInv
<1>4. ASSUME nextId \in Tasks, NEW r \in Records, Inserted(nextId, r) PROVE JournalInv'
  <2> SUFFICES ASSUME failures' = 0 PROVE JournalInv'
    BY DEF JournalInv
  <2> PICK t \in Tasks : t = nextId
    BY <1>4
  <2>1. /\ task'[t] = r /\ \A u \in Tasks \ {t} : task'[u] = task[u]
        /\ failures = 0 /\ journal'[t].status = r.status /\ journal'[t].done = r.done
        /\ \A u \in Tasks \ {t} : journal'[u] = journal[u]
        /\ UNCHANGED <<pc, current, taken>> /\ nextId' = t + 1
        /\ ran'[t] = <<>> /\ \A u \in Tasks \ {t} : ran'[u] = ran[u]
        /\ r.status = "QUEUED"
    BY <1>0, <1>4, SaveFacts DEF Inserted, worker
  <2>2. \A u \in Tasks : Row(u)
    BY <2>1 DEF JournalInv
  <2>3. \A u \in Tasks : u \in Nat /\ (u < nextId' <=> u < nextId \/ u = t)
    BY <2>1, ConstantFacts DEF Tasks
  <2>4. Row(t)'
    BY <2>1, <2>3 DEF Row, Ends
  <2>5. \A u \in Tasks \ {t} : Row(u)'
    BY <2>1, <2>2, <2>3 DEF Row
  <2>6. Executing => current \in Tasks \ {t}
    BY <2>3, HeldFacts
  <2>7. RowRuns'
    BY <2>1, <2>6 DEF Underway, Executing, JournalInv, RowRuns
  <2>8. RowEnds'
    BY <2>1, <2>6 DEF Executing, JournalInv, RowEnds
  <2>9. \A u \in Tasks : Row(u)'
    BY <2>4, <2>5
  <2> QED BY <2>7, <2>8, <2>9 DEF JournalInv
<1>5. ASSUME Restart PROVE JournalInv'
  <2> SUFFICES ASSUME failures' = 0 PROVE JournalInv'
    BY DEF JournalInv
  <2> DEFINE saved == {t \in Tasks : journal[t] # Unsaved}
             ids == Newest(saved)
  <2>1. Load(ids) /\ pc' = "off" /\ UNCHANGED ran
    BY <1>0, <1>5 DEF Restart, Lost, world
  <2>6. ids \subseteq saved /\ ids \subseteq Tasks
    BY DEF Newest
  <2>2. journal' = [t \in Tasks |-> IF t \in ids THEN Recovered(journal[t]) ELSE journal[t]]
    BY <2>1, <2>6, LoadLosesNothing
  <2>3. failures = 0
    BY <2>1, <2>6, LoadLosesNothing
  <2>4. \A t \in Tasks : Row(t)
    BY <2>3 DEF JournalInv
  <2>5. \A t \in Tasks : t \in saved <=> t < nextId
    BY <2>4 DEF Row, RowInv, Unsaved
  <2>7. nextId' = nextId
    <3>1. /\ nextId \in 1..(MaxTasks + 1) /\ nextId' \in 1..(MaxTasks + 1)
          /\ \A t \in ids : t < nextId'
          /\ nextId' = 1 \/ nextId' - 1 \in ids
      BY <2>1 DEF Load, IInv, TypeOK
    <3>2. nextId # 1 => nextId - 1 \in ids
      <4> SUFFICES ASSUME nextId # 1 PROVE nextId - 1 \in ids
        OBVIOUS
      <4>1. nextId - 1 \in Tasks /\ nextId - 1 < nextId
        BY <3>1, ConstantFacts DEF Tasks
      <4>2. \A u \in saved : ~(u > nextId - 1)
        BY <2>5, <3>1, ConstantFacts DEF Tasks
      <4>3. {u \in saved : u > nextId - 1} = {}
        BY <4>2
      <4>4. Cardinality({u \in saved : u > nextId - 1}) < Retained
        BY <4>3, FS_EmptySet, ManagerAssumption DEF ManagerAssumption
      <4>5. nextId - 1 \in saved
        BY <2>5, <4>1
      <4> HIDE DEF saved
      <4> QED BY <4>4, <4>5 DEF Newest
    <3>3. \A t \in ids : t < nextId
      BY <2>5, <2>6
    <3> QED BY <3>1, <3>2, <3>3, ConstantFacts
  <2>8. ASSUME NEW t \in Tasks PROVE Row(t)'
    <3>1. /\ t \in ids => task'[t] = Recovered(journal[t]) /\ journal'[t] = Recovered(journal[t])
          /\ t \notin ids => task'[t] = Unsaved /\ journal'[t] = journal[t]
      BY <2>1, <2>2, <2>3 DEF Load
    <3>2. /\ Recovered(journal[t]).done = journal[t].done
          /\ Recovered(journal[t]).status = "NONE" <=> journal[t].status = "NONE"
          /\ Recovered(journal[t]).status # "QUEUED"
      BY <1>0 DEF Recovered, Records
    <3>3. Unsaved.status = "NONE"
      BY DEF Unsaved
    <3> HIDE DEF ids
    <3> QED BY <2>1, <2>4, <2>7, <3>1, <3>2, <3>3 DEF Row, Ends
  <2>9. RowRuns' /\ RowEnds'
    BY <2>1 DEF RowRuns, RowEnds, Underway
  <2> QED BY <2>8, <2>9 DEF JournalInv
<1>6. ASSUME Worker, ~Poll, ~Get, ~FinishListeners PROVE JournalInv'
  <2> USE DEF memory, control, worker, world, disk, Outside, Goto
  <2>1. Executing /\ UNCHANGED nextId
    BY <1>6 DEF Worker, Executing, Begin, Preflight, StartRunning, StepBegin, Call, Handler,
         Return, Complete, Compensate, Close, FinishSave, FinishWrite, FinishSnapshot, FinishNotify
  <2> PICK c \in Tasks : c = current
    BY <2>1, HeldFacts
  <2>2. /\ task[c] \in Records /\ task[c].status \in Statuses /\ task[c].status # "NONE"
        /\ c < nextId /\ Life(c) /\ (failures = 0 => Row(c) /\ RowRuns /\ RowEnds)
    BY <1>0, <2>1, HeldFacts DEF JournalInv, Statuses, Closed
  <2>3. ASSUME UNCHANGED <<task, journal, failures, ran>>, Executing' => current' = c,
               Underway' => Underway, pc' # "write", pc \notin {"save", "write"}
        PROVE  JournalInv'
    BY <2>1, <2>2, <2>3, RowFrame DEF Row, RowRuns
  <2>4. CASE Begin \/ Call \/ Compensate \/ FinishSnapshot \/ FinishNotify
    BY <2>3, <2>4 DEF Begin, Call, StartUndo, Compensate, FinishSnapshot, FinishNotify,
                      Executing, Underway
  <2>5. ASSUME UNCHANGED <<journal, failures, ran, current>>, pc' = "save",
               NEW v, task' = [task EXCEPT ![current].status = v], v # "NONE"
        PROVE  JournalInv'
    <3>1. /\ task'[c].status = v /\ task'[c].done = task[c].done
          /\ \A u \in Tasks \ {c} : task'[u] = task[u]
      BY <1>0, <2>2, <2>5 DEF Records
    <3> QED BY <2>1, <2>2, <2>5, <3>1, RowFrame DEF Row, Underway
  <2>6. CASE Preflight \/ Complete \/ Close
    <3>1. CASE pc' = "start"
      BY <2>3, <2>6, <3>1 DEF Preflight, Complete, Close, Underway
    <3>2. CASE pc' # "start"
      <4>1. PICK v \in Statuses : task' = [task EXCEPT ![current].status = v]
        BY <2>6, <3>2 DEF Preflight, Complete, Close, IInv, TypeOK, WorkerInv, Statuses, Closed
      <4> QED BY <2>5, <2>6, <3>2, <4>1 DEF Preflight, Complete, Close, Statuses, Closed
    <3> QED BY <3>1, <3>2
  <2>7. CASE StartRunning
    <3> DEFINE r == [task[current] EXCEPT !.status = "RUNNING"]
    <3>1. r \in Records /\ r.status = "RUNNING" /\ r.done = task[c].done
      BY <2>2 DEF Records, Statuses
    <3>2. task' = [task EXCEPT ![c] = r] /\ Save(c, r)
      BY <2>7 DEF StartRunning, Update
    <3> HIDE DEF r
    <3>3. ran[c] = <<>> /\ pc' = "step" /\ UNCHANGED <<ran, current>>
      BY <2>7 DEF StartRunning, IInv, WorkerInv, Deciding
    <3>4. /\ task'[c] = r /\ \A u \in Tasks \ {c} : task'[u] = task[u] /\ journal'[u] = journal[u]
          /\ failures' = 0 => /\ failures = 0 /\ journal'[c].status = "RUNNING"
                              /\ journal'[c].done = r.done
      BY <1>0, <3>1, <3>2, SaveFacts
    <3> QED BY <2>1, <2>2, <3>1, <3>3, <3>4, RowFrame DEF Row, Ends
  <2>8. CASE StepBegin
    <3>1. CASE pc' = "undo"
      BY <2>3, <2>8, <3>1 DEF StepBegin, StartUndo, Underway
    <3>2. CASE pc' # "undo"
      <4>1. /\ task' = [task EXCEPT ![c] = task[c]] /\ Save(c, task[c])
            /\ pc = "step" /\ pc' = "call" /\ UNCHANGED <<ran, current>>
        BY <2>8, <3>2 DEF StepBegin, StartUndo, Update
      <4>2. /\ task' = task /\ \A u \in Tasks \ {c} : journal'[u] = journal[u]
            /\ failures' = 0 => /\ failures = 0 /\ journal'[c].status = task[c].status
                                /\ journal'[c].done = task[c].done
        BY <1>0, <2>2, <4>1, SaveFacts
      <4>3. task[c].status = "RUNNING"
        BY <2>2, <4>1 DEF Life, Underway
      <4> QED BY <2>1, <2>2, <4>1, <4>2, <4>3, RowFrame DEF Row, Ends
    <3> QED BY <3>1, <3>2
  <2>9. CASE Handler
    <3>1. /\ pc = "handler" /\ pc' = "return" /\ UNCHANGED <<task, journal, failures, current>>
          /\ ran' = [ran EXCEPT ![c] = Append(@, step)]
      BY <2>9 DEF Handler
    <3>2. Len(ran[c]) = step - 1 /\ step \in 1..MaxSteps /\ task[c].done = step - 1
      BY <3>1, ConstantFacts DEF IInv, TypeOK, WorkerInv, Stepping, ChangeInv
    <3>3. /\ \A u \in Tasks \ {c} : ran'[u] = ran[u]
          /\ Len(ran'[c]) = step
      BY <1>0, <3>1, <3>2
    <3>4. failures = 0 => journal[c].status = "RUNNING" /\ journal[c].done = step - 1
      BY <2>2, <3>1, <3>2 DEF Row, RowRuns, Underway
    <3> QED BY <2>1, <2>2, <3>1, <3>2, <3>3, <3>4, RowFrame DEF Row
  <2>10. CASE Return
    <3>1. PICK r \in Delivered : Record(r) \/ AskUser(r) \/ GiveUp(r)
      BY <2>10 DEF Return
    <3>2. pc = "return" /\ UNCHANGED <<ran, current>>
      BY <2>10 DEF Return
    <3>3. CASE Record(r)
      <4>1. PICK x \in Records : Recorded(x, r)
        BY <2>10, <3>3, RecordIs
      <4>2. /\ task' = [task EXCEPT ![c] = x] /\ Save(c, x) /\ x.done = step
            /\ x.status = task[c].status /\ task[c].status = "RUNNING"
        BY <2>2, <3>2, <4>1 DEF Recorded, Life, Underway
      <4>3. /\ task'[c] = x
            /\ \A u \in Tasks \ {c} : task'[u] = task[u] /\ journal'[u] = journal[u]
            /\ failures' = 0 => /\ failures = 0 /\ journal'[c].status = "RUNNING"
                                /\ journal'[c].done = step
        BY <1>0, <4>1, <4>2, SaveFacts
      <4>4. Len(ran[c]) = step /\ pc' \in {"step", "complete"}
        BY <3>2, <3>3 DEF Record, IInv, WorkerInv, Stepping
      <4> QED BY <2>1, <2>2, <3>2, <4>2, <4>3, <4>4, RowFrame DEF Row, Ends
    <3>4. CASE AskUser(r)
      BY <2>5, <3>2, <3>4 DEF AskUser
    <3>5. CASE GiveUp(r)
      BY <2>3, <2>10, <3>2, <3>5 DEF GiveUp, StartUndo, Underway
    <3> QED BY <3>1, <3>3, <3>4, <3>5
  <2>11. CASE FinishSave
    <3>1. /\ pc = "save" /\ pc' = "write" /\ taken' = Snapshot(task[c])
          /\ UNCHANGED <<task, journal, failures, ran, current>>
      BY <2>11 DEF FinishSave
    <3>2. taken'.status = task[c].status /\ taken'.done = task[c].done
      BY <2>2, <3>1 DEF Snapshot, Records
    <3> QED BY <2>1, <2>2, <3>1, <3>2, RowFrame DEF Row, Underway
  <2>12. CASE FinishWrite
    <3>1. /\ pc = "write" /\ pc' = "snapshot" /\ taken \in Records /\ Save(c, taken)
          /\ UNCHANGED <<task, ran, current>>
      BY <2>12 DEF FinishWrite, IInv, TypeOK
    <3>2. taken.status \in Statuses \ {"QUEUED", "RUNNING"} /\ "NONE" \notin Statuses
      BY <3>1 DEF RowInv, Statuses, Closed
    <3>3. /\ \A u \in Tasks \ {c} : journal'[u] = journal[u]
          /\ failures' = 0 => /\ failures = 0 /\ journal'[c].status = taken.status
                              /\ journal'[c].done = taken.done
      BY <1>0, <3>1, SaveFacts
    <3>4. failures = 0 => /\ taken.done = task[c].done /\ journal[c].done = task[c].done
                          /\ task[c].status \in Ends => taken.status = task[c].status
      BY <2>2, <3>1 DEF Row, RowEnds
    <3> QED BY <2>1, <2>2, <3>1, <3>2, <3>3, <3>4, RowFrame DEF Row, Underway
  <2> QED BY <1>6, <2>4, <2>6, <2>7, <2>8, <2>9, <2>10, <2>11, <2>12 DEF Worker
<1> QED
  BY <1>1, <1>2, <1>3, <1>4, <1>5, <1>6, QuietSteps, FetchIs, MarkIs, InsertIs
  DEF Next, Worker, Users, Application

-----------------------------------------------------------------------------
\* The announcements.

\* A step of the worker, and what is left to show of what was said of its task.
LEMMA NoticeFrame ==
  ASSUME IInv, NoticeInv, Executing, NEW c \in Tasks, c = current,
         Executing' => current' = c, UNCHANGED <<queue, restarts>>,
         \A u \in Tasks \ {c} : /\ task'[u] = task[u] /\ journal'[u] = journal[u]
                                /\ notices'[u] = notices[u],
         failures' = 0 => failures = 0,
         failures' = 0 \/ restarts' = 0 =>
           /\ LastWord(c)'
           /\ pc' = "notify" /\ taken'.status \in Ends => task'[c].status = taken'.status
  PROVE  NoticeInv'
<1> SUFFICES ASSUME failures' = 0 \/ restarts' = 0 PROVE NoticeInv'
  BY DEF NoticeInv
<1>1. LastWord(c)' /\ \A u \in Tasks : LastWord(u)
  BY DEF NoticeInv
<1>2. ASSUME NEW u \in Tasks \ {c} PROVE LastWord(u)'
  BY <1>1, <1>2 DEF LastWord, Queued, Held
<1>3. Told'
  BY DEF Told, Executing
<1> QED BY <1>1, <1>2, <1>3 DEF NoticeInv

LEMMA NoticeStep ==
  ASSUME IInv, LifeInv, RowInv, JournalInv, NoticeInv, [Next]_vars
  PROVE  NoticeInv'
<1>0. /\ task \in [Tasks -> Records] /\ journal \in [Tasks -> Records]
      /\ notices \in [Tasks -> Seq(Statuses)] /\ failures \in Nat /\ restarts \in Nat
      /\ \A t \in Tasks : task[t] \in Records /\ journal[t] \in Records /\ Life(t)
  BY ConstantFacts DEF IInv, TypeOK, LifeInv
<1>1. ASSUME Quiet PROVE NoticeInv'
  <2>1. \A t \in Tasks : Held(t)' => Held(t)
    BY <1>1 DEF Quiet, Held, Executing
  <2>2. Told => Told'
    BY <1>1 DEF Quiet, Told, Executing
  <2> QED BY <1>1, <2>1, <2>2 DEF Quiet, NoticeInv, LastWord
<1>2. ASSUME Fetch, current' \in Tasks PROVE NoticeInv'
  <2>1. \A t \in Tasks : Held(t)' => Queued(t)
    BY <1>2 DEF Fetch, Held
  <2> QED BY <1>2, <2>1 DEF Fetch, NoticeInv, LastWord, Told
<1>3. ASSUME NEW t \in Tasks, NEW r \in Records, Marked(t, r) PROVE NoticeInv'
  <2> SUFFICES ASSUME failures' = 0 \/ restarts' = 0 PROVE NoticeInv'
    BY DEF NoticeInv
  <2>1. /\ task'[t] = r /\ \A u \in Tasks \ {t} : task'[u] = task[u] /\ journal'[u] = journal[u]
        /\ failures' = 0 => failures = 0
        /\ UNCHANGED <<pc, current, taken, restarts>>
        /\ task[t].status \in {"QUEUED", "RUNNING", "WAITING"}
    BY <1>0, <1>3, SaveFacts DEF Marked, worker
  <2>2. /\ \A u \in Tasks \ {t} : notices'[u] = notices[u]
        /\ \/ notices'[t] = notices[t]
           \/ notices'[t] = Append(notices[t], r.status) /\ r.status \notin Ends
    BY <1>0, <1>3 DEF Marked, Ends
  <2>3. Told /\ \A u \in Tasks : LastWord(u)
    BY <2>1 DEF NoticeInv
  <2>4. \A i \in 1..Len(notices[t]) : notices[t][i] \notin Ends
    BY <2>1, <2>3 DEF LastWord, Ends
  <2>5. LastWord(t)'
    <3>1. notices[t] \in Seq(Statuses) /\ r.status \in Statuses
      BY <1>0, <1>3 DEF Marked
    <3>2. \A i \in 1..Len(notices'[t]) : notices'[t][i] \notin Ends
      BY <2>2, <2>4, <3>1
    <3> QED BY <3>2 DEF LastWord
  <2>6. \A u \in Tasks \ {t} : LastWord(u)'
    BY <1>3, <2>1, <2>2, <2>3 DEF LastWord, Held, Executing, Marked
  <2>7. Told'
    <3>1. pc = "notify" => current \in Tasks
      BY HeldFacts DEF Executing
    <3> QED BY <2>1, <2>3, <3>1 DEF Told, Ends
  <2> QED BY <2>5, <2>6, <2>7 DEF NoticeInv
<1>4. ASSUME nextId \in Tasks, NEW r \in Records, Inserted(nextId, r) PROVE NoticeInv'
  <2> SUFFICES ASSUME failures' = 0 \/ restarts' = 0 PROVE NoticeInv'
    BY DEF NoticeInv
  <2> PICK t \in Tasks : t = nextId
    BY <1>4
  <2>1. /\ \A u \in Tasks \ {t} : /\ task'[u] = task[u] /\ journal'[u] = journal[u]
                                  /\ notices'[u] = notices[u] /\ (Queued(u)' => Queued(u))
        /\ failures' = 0 => failures = 0
        /\ UNCHANGED <<pc, current, taken, restarts>>
        /\ notices'[t] = <<>>
    BY <1>0, <1>4, SaveFacts DEF Inserted, worker
  <2>2. Told /\ \A u \in Tasks : LastWord(u)
    BY <2>1 DEF NoticeInv
  <2>3. LastWord(t)'
    BY <2>1 DEF LastWord
  <2>4. \A u \in Tasks \ {t} : LastWord(u)'
    BY <2>1, <2>2 DEF LastWord, Held, Executing
  <2>5. Executing => current \in Tasks \ {t}
    <3>1. t \in Nat /\ ~(t < nextId)
      BY ConstantFacts DEF Tasks
    <3> QED BY <3>1, HeldFacts
  <2>6. Told'
    BY <2>1, <2>2, <2>5 DEF Told, Executing
  <2> QED BY <2>3, <2>4, <2>6 DEF NoticeInv
<1>5. ASSUME Restart PROVE NoticeInv'
  <2> SUFFICES ASSUME failures' = 0 PROVE NoticeInv'
    BY <1>0, <1>5 DEF Restart, NoticeInv
  <2> DEFINE ids == Newest({t \in Tasks : journal[t] # Unsaved})
  <2>1. Load(ids) /\ ids \subseteq Tasks /\ UNCHANGED notices
    BY <1>0, <1>5 DEF Restart, Lost, Newest
  <2>2. pc' = "off" /\ ~Executing' /\ \A t \in Tasks : ~Queued(t)'
    BY <1>5 DEF Restart, Executing, Queued, FreshQueue
  <2> HIDE DEF ids
  <2>3. /\ failures = 0
        /\ journal' = [t \in Tasks |-> IF t \in ids THEN Recovered(journal[t]) ELSE journal[t]]
        /\ task' = [t \in Tasks |-> IF t \in ids THEN Recovered(journal[t]) ELSE Unsaved]
    BY <2>1, LoadLosesNothing DEF Load
  <2>4. \A t \in Tasks : LastWord(t)
    BY <2>3 DEF NoticeInv
  <2>5. ASSUME NEW t \in Tasks PROVE LastWord(t)'
    <3>1. journal[t].status \in Ends => Recovered(journal[t]) = journal[t]
      BY DEF Ends, Recovered
    <3>2. Unsaved.status = "NONE"
      BY DEF Unsaved
    <3> QED BY <2>1, <2>2, <2>3, <2>4, <3>1, <3>2 DEF LastWord, Held
  <2> QED BY <2>2, <2>5 DEF NoticeInv, Told
<1>6. ASSUME Worker, ~Poll, ~Get, ~FinishListeners PROVE NoticeInv'
  <2> USE DEF memory, control, worker, world, disk, Outside, Goto
  <2>1. Executing /\ UNCHANGED <<queue, restarts>>
    BY <1>6 DEF Worker, Executing, Begin, Preflight, StartRunning, StepBegin, Call, Handler,
         Return, Complete, Compensate, Close, FinishSave, FinishWrite, FinishSnapshot, FinishNotify
  <2> PICK c \in Tasks : c = current
    BY <2>1, HeldFacts
  <2>2. /\ task[c] \in Records /\ task[c].status \in Statuses /\ ~Queued(c) /\ Held(c)
        /\ notices[c] \in Seq(Statuses)
    BY <1>0, <2>1, HeldFacts DEF Held
  <2>3. failures = 0 \/ restarts = 0 =>
          Told /\ \A i \in 1..Len(notices[c]) : notices[c][i] \notin Ends
    BY <2>2 DEF NoticeInv, LastWord
  <2>4. CASE FinishNotify
    <3>1. /\ pc = "notify" /\ ~Executing' /\ ~Queued(c)'
          /\ UNCHANGED <<task, journal, failures>>
          /\ notices' = [notices EXCEPT ![c] = Append(@, taken.status)]
      BY <2>2, <2>4 DEF FinishNotify, Executing, Queued
    <3>2. taken.status \in Statuses
      BY <3>1 DEF IInv, WorkerInv
    <3>3. /\ Len(notices'[c]) = Len(notices[c]) + 1 /\ notices'[c][Len(notices[c]) + 1] = taken.status
          /\ \A i \in 1..Len(notices[c]) : notices'[c][i] = notices[c][i]
          /\ Len(notices[c]) \in Nat
      BY <1>0, <2>2, <3>1, <3>2
    <3>4. ASSUME failures = 0 \/ restarts = 0 PROVE LastWord(c)'
      <4>1. taken.status \in Ends => task[c].status = taken.status
        BY <2>3, <3>1, <3>4 DEF Told
      <4>2. failures = 0 /\ task[c].status \in Ends => journal[c].status \in Ends
        BY <3>1 DEF JournalInv, Row
      <4>3. \A i \in 1..Len(notices'[c]) : notices'[c][i] \in Ends =>
              i = Len(notices'[c]) /\ taken.status \in Ends
        BY <2>3, <3>3, <3>4
      <4> QED BY <3>1, <4>1, <4>2, <4>3 DEF LastWord, Held
    <3>5. \A u \in Tasks \ {c} : notices'[u] = notices[u]
      BY <1>0, <3>1
    <3> QED BY <2>1, <3>1, <3>4, <3>5, NoticeFrame DEF Executing
  <2>5. CASE ~FinishNotify
    <3>1. /\ UNCHANGED notices /\ (Executing' => current' = c)
          /\ pc' = "notify" => FinishSnapshot
      BY <1>6, <2>5 DEF Worker, Executing, Begin, Preflight, StartRunning, StepBegin, StartUndo,
           Call, Handler, Return, Record, AskUser, GiveUp, Complete, Compensate, Close,
           FinishSave, FinishWrite, FinishSnapshot
    <3>2. /\ \A u \in Tasks \ {c} : task'[u] = task[u] /\ journal'[u] = journal[u]
          /\ failures' = 0 => failures = 0
      BY <1>6, <2>1, WorkerKeeps
    <3>3. failures' = 0 \/ restarts' = 0 => LastWord(c)'
      BY <2>1, <2>3, <3>1, <3>2 DEF LastWord
    <3>4. pc' = "notify" => taken'.status = task'[c].status
      BY <2>2, <3>1 DEF FinishSnapshot, Snapshot, Records
    <3> QED BY <2>1, <3>1, <3>2, <3>3, <3>4, NoticeFrame
  <2> QED BY <2>4, <2>5
<1> QED
  BY <1>1, <1>2, <1>3, <1>4, <1>5, <1>6, QuietSteps, FetchIs, MarkIs, InsertIs
  DEF Next, Worker, Users, Application

-----------------------------------------------------------------------------
LEMMA StepOInv == ASSUME IInv, OInv, [Next]_vars PROVE OInv'
BY LifeStep, RowStep, ChangeStep, JournalStep, NoticeStep DEF OInv

LEMMA SpecOInv == Spec => [](IInv /\ OInv)
<1>1. Init => IInv /\ OInv
  BY InitIInv, InitOInv
<1>2. IInv /\ OInv /\ [Next]_vars => (IInv /\ OInv)'
  BY NextKeepsIInv, StepOInv
<1> QED BY <1>1, <1>2, PTL DEF Spec

\* _trim_locked never takes an open task out of reach: whatever is queued,
\* running or waiting and not being cancelled is found by its number.
THEOREM OpenIsTracked == Spec => []OpenTaskIsTracked
<1>1. IInv /\ OInv => OpenTaskIsTracked
  BY ConstantFacts DEF OpenTaskIsTracked, OInv, LifeInv, Life, IInv, TypeOK, Tasks
<1> QED BY <1>1, SpecOInv, PTL

\* The row a restart reads is never more than the step in flight behind what
\* the handlers have done to the world, as long as no save failed.
THEOREM JournalKeepsUp == Spec => []JournalAhead
<1>1. IInv /\ OInv => JournalAhead
  BY DEF JournalAhead, OInv, JournalInv, Row
<1> QED BY <1>1, SpecOInv, PTL

\* Once the worker has let go of a task that came to an end, its row says so.
THEOREM OutcomeIsJournalled == Spec => []OutcomeJournalled
<1>1. IInv /\ OInv => OutcomeJournalled
  BY DEF OutcomeJournalled, OInv, JournalInv, Row, Ends, Busy
<1> QED BY <1>1, SpecOInv, PTL

\* The user hears one outcome of a task that ran to an end, and nothing of it
\* afterwards, across restarts too while no save failed.
THEOREM OneLastWord == Spec => []OutcomeAnnouncedOnce
<1>1. IInv /\ OInv => OutcomeAnnouncedOnce
  BY DEF OutcomeAnnouncedOnce, OInv, NoticeInv, LastWord, Ends
<1> QED BY <1>1, SpecOInv, PTL

\* What each step is, for the action properties.
LEMMA StepIs ==
  ASSUME IInv, OInv, [Next]_vars
  PROVE  \/ Quiet \/ Fetch \/ Restart
         \/ \E t \in Tasks, r \in Records : Marked(t, r)
         \/ nextId \in Tasks /\ \E r \in Records : Inserted(nextId, r)
         \/ Worker /\ ~Poll /\ ~Get /\ ~FinishListeners
BY QuietSteps, FetchIs, MarkIs, InsertIs DEF Next, Worker, Users, Application, OInv

\* How a step of the worker moves the status of its task.
LEMMA WorkerMoves ==
  ASSUME IInv, OInv, Worker, ~Poll, ~Get, ~FinishListeners
  PROVE  /\ Executing /\ current \in Tasks
         /\ \A u \in Tasks \ {current} : task'[u] = task[u] /\ ran'[u] = ran[u]
         /\ \/ task'[current].status = task[current].status
            \/ /\ pc \in {"preflight", "start"} /\ ran[current] = <<>>
               /\ task[current].status \in {"QUEUED", "CANCELLED"}
            \/ task[current].status = "RUNNING" /\ task'[current].status \in {"WAITING", "COMPLETED"}
            \/ task[current].status = "RUNNING" /\ pc = "undo" /\ toUndo = {}
<1> USE DEF memory, control, worker, world, disk, Outside, Goto
<1>0. /\ task \in [Tasks -> Records] /\ ran \in [Tasks -> Seq(1..MaxSteps)]
  BY DEF IInv, TypeOK
<1>1. Executing
  BY DEF Worker, Executing, Begin, Preflight, StartRunning, StepBegin, Call, Handler,
         Return, Complete, Compensate, Close, FinishSave, FinishWrite, FinishSnapshot, FinishNotify
<1> PICK c \in Tasks : c = current
  BY <1>1, HeldFacts
<1>2. \A u \in Tasks \ {c} : task'[u] = task[u]
  BY WorkerKeeps DEF OInv
<1>3. \A u \in Tasks \ {c} : ran'[u] = ran[u]
  BY <1>0 DEF Worker, Begin, Preflight, StartRunning, StepBegin, Call, Handler,
         Return, Complete, Compensate, Close, FinishSave, FinishWrite, FinishSnapshot, FinishNotify
<1>4. Life(c) /\ task[c] \in Records
  BY <1>0 DEF OInv, LifeInv
<1>5. CASE Preflight \/ StartRunning
  <2>1. Awaited(c) /\ Deciding /\ pc \in {"preflight", "start"}
    BY <1>5 DEF Preflight, StartRunning, Awaited, Deciding
  <2> QED BY <1>1, <1>2, <1>3, <1>4, <2>1 DEF Life, IInv, WorkerInv
<1>6. CASE Complete
  BY <1>0, <1>1, <1>2, <1>3, <1>4, <1>6 DEF Complete, Life, Underway, Records
<1>7. CASE Close
  BY <1>1, <1>2, <1>3, <1>4, <1>7 DEF Close, Life, Underway
<1>8. CASE Return
  <2>1. task[c].status = "RUNNING"
    BY <1>4, <1>8 DEF Return, Life, Underway
  <2>2. PICK r \in Delivered : Record(r) \/ AskUser(r) \/ GiveUp(r)
    BY <1>8 DEF Return
  <2>3. task'[c].status \in {"RUNNING", "WAITING"}
    BY <1>0, <1>4, <2>1, <2>2, ZenonT(40) DEF Record, Update, AskUser, GiveUp, StartUndo, Records
  <2> QED BY <1>1, <1>2, <1>3, <2>1, <2>3
<1>9. CASE Begin \/ StepBegin \/ Call \/ Handler \/ Compensate \/ FinishSave \/ FinishWrite
            \/ FinishSnapshot \/ FinishNotify
  <2>1. task' = task
    BY <1>0, <1>9 DEF Begin, StepBegin, Update, Call, Handler, Compensate, FinishSave, FinishWrite,
                      FinishSnapshot, FinishNotify, StartUndo
  <2> QED BY <1>1, <1>2, <1>3, <2>1
<1> QED BY <1>5, <1>6, <1>7, <1>8, <1>9 DEF Worker

\* What a restart marked failed is never executed again.
THEOREM RecoveredNeverRuns == Spec => NeverResumed
<1>1. ASSUME IInv, OInv, [Next]_vars
      PROVE  [\A t \in Tasks : task[t].recovered => ran'[t] = ran[t]]_vars
  <2> SUFFICES ASSUME NEW t \in Tasks, task[t].recovered PROVE ran'[t] = ran[t]
    OBVIOUS
  <2>0. LifeInv /\ ran \in [Tasks -> Seq(1..MaxSteps)]
    BY <1>1 DEF OInv, IInv, TypeOK
  <2>1. CASE Quiet \/ Fetch
    BY <2>1 DEF Quiet, Fetch
  <2>2. CASE Restart
    BY <2>2 DEF Restart, world
  <2>3. CASE \E u \in Tasks, r \in Records : Marked(u, r)
    BY <2>3 DEF Marked
  <2>4. ASSUME nextId \in Tasks, NEW r \in Records, Inserted(nextId, r) PROVE ran'[t] = ran[t]
    <3>1. task[nextId] = Unsaved
      <4>1. nextId \in Tasks /\ nextId >= nextId
        BY <2>4, ConstantFacts DEF Tasks
      <4>2. \A u \in Tasks : u >= nextId => task[u] = Unsaved
        BY <2>0 DEF LifeInv, Life
      <4> QED BY <4>1, <4>2
    <3>2. t # nextId
      BY <3>1 DEF Unsaved
    <3> QED BY <2>0, <2>4, <3>2 DEF Inserted
  <2>5. CASE Worker /\ ~Poll /\ ~Get /\ ~FinishListeners
    <3>1. t # current
      BY <1>1, <2>0, <2>5, WorkerMoves DEF Held, LifeInv, Life
    <3> QED BY <1>1, <2>5, <3>1, WorkerMoves
  <2> QED BY <1>1, <2>1, <2>2, <2>3, <2>4, <2>5, StepIs
<1> QED BY <1>1, SpecOInv, PTL DEF Spec, NeverResumed

\* Within one run of the program a closed task stays closed, but for a task
\* cancelled between being taken and being started, of which no step has run.
THEOREM ClosedStaysClosed == Spec => ClosedIsFinal
<1>1. ASSUME IInv, OInv, [Next]_vars, NEW t \in Tasks, restarts' = restarts,
             task[t].status \in Closed, task'[t].status # task[t].status
      PROVE  /\ task[t].status = "CANCELLED" /\ ran[t] = <<>>
             /\ pc \in {"preflight", "start"} /\ current = t
  <2>0. task \in [Tasks -> Records] /\ restarts \in Nat /\ LifeInv /\ ChangeInv
    BY <1>1, ConstantFacts DEF IInv, TypeOK, OInv
  <2>1. ~Quiet /\ ~Fetch /\ ~Restart
    BY <1>1, <2>0 DEF Quiet, Fetch, Restart
  <2>2. ~\E u \in Tasks, r \in Records : Marked(u, r)
    BY <1>1, <2>0 DEF Marked, Closed
  <2>3. ASSUME nextId \in Tasks, NEW r \in Records, Inserted(nextId, r) PROVE FALSE
    <3>1. task[nextId] = Unsaved
      BY <2>0, <2>3, ConstantFacts DEF LifeInv, Life, Tasks
    <3>2. t # nextId
      BY <1>1, <3>1 DEF Unsaved, Closed
    <3> QED BY <1>1, <2>0, <2>3, <3>2 DEF Inserted
  <2>4. Worker /\ ~Poll /\ ~Get /\ ~FinishListeners
    BY <1>1, <2>1, <2>2, <2>3, StepIs
  <2> QED BY <1>1, <2>4, WorkerMoves DEF Closed
<1>2. IInv /\ OInv /\ [Next]_vars =>
        [\A t \in Tasks :
           /\ restarts' = restarts
           /\ task[t].status \in Closed
           /\ task'[t].status # task[t].status
           => /\ task[t].status = "CANCELLED" /\ ran[t] = <<>>
              /\ pc \in {"preflight", "start"} /\ current = t]_vars
  BY <1>1
<1> QED BY <1>2, SpecOInv, PTL DEF Spec, ClosedIsFinal

\* A running task that is closed by a failure, a deadline, a cancellation or
\* stop has had its compensators called for every change recorded for undoing.
THEOREM ChangesAreUndone == Spec => RolledBack
<1>1. ASSUME IInv, OInv, [Next]_vars, NEW t \in Tasks, restarts' = restarts,
             task[t].status = "RUNNING", task'[t].status \in {"FAILED", "CANCELLED", "TIMED_OUT"},
             NEW k \in changed[t], task[t].steps[k] = "reversible"
      PROVE  k \in Undone(t) \/ k = task[t].done + 1
  <2>0. task \in [Tasks -> Records] /\ restarts \in Nat /\ LifeInv /\ ChangeInv
    BY <1>1, ConstantFacts DEF IInv, TypeOK, OInv
  <2>1. ~Quiet /\ ~Fetch /\ ~Restart
    BY <1>1, <2>0 DEF Quiet, Fetch, Restart
  <2>2. ~\E u \in Tasks, r \in Records : Marked(u, r)
    BY <1>1, <2>0 DEF Marked
  <2>3. ASSUME nextId \in Tasks, NEW r \in Records, Inserted(nextId, r) PROVE FALSE
    BY <1>1, <2>0, <2>3 DEF Inserted
  <2>4. Worker /\ ~Poll /\ ~Get /\ ~FinishListeners
    BY <1>1, <2>1, <2>2, <2>3, StepIs
  <2>5. t = current /\ pc = "undo" /\ toUndo = {}
    BY <1>1, <2>4, WorkerMoves
  <2> QED BY <1>1, <2>0, <2>5 DEF ChangeInv
<1>2. IInv /\ OInv /\ [Next]_vars =>
        [\A t \in Tasks :
           /\ task[t].status = "RUNNING"
           /\ task'[t].status \in {"FAILED", "CANCELLED", "TIMED_OUT"}
           /\ restarts' = restarts
           => \A k \in changed[t] :
                task[t].steps[k] = "reversible" => k \in Undone(t) \/ k = task[t].done + 1]_vars
  BY <1>1
<1> QED BY <1>2, SpecOInv, PTL DEF Spec, RolledBack
=============================================================================
