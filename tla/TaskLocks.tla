------------------------------ MODULE TaskLocks ------------------------------
(***************************************************************************)
(* The order in which ron/agent/task_manager.py nests its locks: one       *)
(* manager lock and one lock per record.  Both are re-entrant, so only the *)
(* first acquisition and the last release of a lock by a thread appear.    *)
(* A call is the list of those acquisitions and releases.                  *)
(***************************************************************************)
EXTENDS Integers, Sequences

CONSTANTS Threads,     \* threads that call the manager, and its worker
          RecordCount, \* tracked records, numbered in the order of _tasks
          Calls,       \* Calls[th]: the names of the methods th may call
          Nobody

Manager == 0
RecordsLocks == 1..RecordCount
Locks == {Manager} \cup RecordsLocks

VARIABLES owner,  \* the thread that holds each lock
          todo    \* what is left of the call each thread is in

vars == <<owner, todo>>

Acquire(l) == [take |-> TRUE, lock |-> l]
Yield(l) == [take |-> FALSE, lock |-> l]
Brief(l) == <<Acquire(l), Yield(l)>>

\* Reading or marking every record of a snapshot of _tasks, one at a time.
UpTo[r \in 0..RecordCount] == IF r = 0 THEN <<>> ELSE UpTo[r - 1] \o Brief(r)
EachRecord == UpTo[RecordCount]

\* submit: _trim_locked reads each record's status under the manager's lock;
\* nobody else knows the lock of the record that is being submitted.
Submit == Brief(Manager) \o <<Acquire(Manager)>> \o EachRecord \o <<Yield(Manager)>>

\* cancel: found under the manager's lock, closed and announced under the
\* record's, which reads the list of listeners under the manager's again.
Cancel(r) == Brief(Manager) \o <<Acquire(r)>> \o Brief(Manager) \o <<Yield(r)>>

\* close_waiting announces after it has let go of the record.
CloseWaiting(r) == Brief(Manager) \o Brief(r) \o Brief(r) \o Brief(Manager)

\* stop and snapshots walk a copy of _tasks.
Walk == Brief(Manager) \o EachRecord

\* A step of the worker that ends normally, and _cancel_running.
StepDone(r) == Brief(r) \o Brief(Manager)
CancelRunning(r) == <<Acquire(r)>> \o Brief(Manager) \o <<Yield(r)>>

Script(name, r) ==
  CASE name = "submit" -> Submit
    [] name = "cancel" -> Cancel(r)
    [] name = "close_waiting" -> CloseWaiting(r)
    [] name = "walk" -> Walk
    [] name = "step_done" -> StepDone(r)
    [] name = "cancel_running" -> CancelRunning(r)

Init ==
  /\ owner = [l \in Locks |-> Nobody]
  /\ todo = [th \in Threads |-> <<>>]

Call(th) ==
  /\ todo[th] = <<>>
  /\ \E name \in Calls[th], r \in RecordsLocks :
       todo' = [todo EXCEPT ![th] = Script(name, r)]
  /\ UNCHANGED owner

Take(th) ==
  /\ todo[th] # <<>> /\ Head(todo[th]).take
  /\ owner[Head(todo[th]).lock] = Nobody
  /\ owner' = [owner EXCEPT ![Head(todo[th]).lock] = th]
  /\ todo' = [todo EXCEPT ![th] = Tail(@)]

Give(th) ==
  /\ todo[th] # <<>> /\ ~Head(todo[th]).take
  /\ owner' = [owner EXCEPT ![Head(todo[th]).lock] = Nobody]
  /\ todo' = [todo EXCEPT ![th] = Tail(@)]

Next == \E th \in Threads : Call(th) \/ Take(th) \/ Give(th)

Spec == Init /\ [][Next]_vars

-----------------------------------------------------------------------------
\* The lock a thread waits for, and whom it thereby waits for.
Wants(th) == IF todo[th] # <<>> /\ Head(todo[th]).take THEN {Head(todo[th]).lock} ELSE {}
WaitsFor(th) == {owner[l] : l \in Wants(th)} \ {Nobody}

\* No two threads wait for each other: "An agent task does not lock the
\* interface. The user can ask questions, request status, cancel the task, or
\* submit another prompt while work continues."  (docs/AI_ARCHITECTURE.md)
NobodyWaitsInACircle ==
  \A a, b \in Threads : ~(a \in WaitsFor(b) /\ b \in WaitsFor(a))
==============================================================================
