-------------------------- MODULE AgentTaskManager --------------------------
(***************************************************************************)
(* ron/agent/task_manager.py with the execution path of registry.py and    *)
(* the upsert of journal.py: one worker thread runs queued plans step by   *)
(* step while the terminal and the voice threads submit, cancel and close  *)
(* tasks, the application stops, and the process dies and comes back.      *)
(* A critical section of a record's lock is one action, except where the   *)
(* worker holds that lock through compensators and _finish (locked).  The  *)
(* manager's own lock guards single sections only, but submit's trim takes *)
(* every record's lock inside it, and cancel and _cancel_running take it   *)
(* inside a record's: when these meet, both threads wait for ever (stuck), *)
(* and so does whoever needs either lock next.  TaskLocks shows how.       *)
(***************************************************************************)
EXTENDS Integers, Sequences, FiniteSets

CONSTANTS MaxTasks,        \* bound on task numbers
          MaxSteps,        \* longest plan
          Plans,           \* the plans users submit: sequences of step kinds
          QueueLimit,      \* maximum_tasks
          Retained,        \* retained_tasks
          MaxFailures,     \* bound on calls of save and load_recent that raise
          MaxStops,        \* bound on calls of stop
          MaxRestarts      \* bound on process restarts

\* A step without compensator, one with, and one that may ask the user back.
Kinds == {"plain", "reversible", "ambiguous"}

ASSUME ManagerAssumption ==
  /\ MaxTasks \in Nat /\ MaxSteps \in Nat /\ QueueLimit \in Nat
  /\ Retained \in Nat \ {0}
  /\ MaxFailures \in Nat /\ MaxStops \in Nat /\ MaxRestarts \in Nat
  /\ \A p \in Plans : p \in Seq(Kinds) /\ 1 <= Len(p) /\ Len(p) <= MaxSteps

Tasks == 1..MaxTasks
Sentinel == 0

VARIABLES
  task,        \* the records: status, steps, done (completed_steps), cancel
               \* (cancel_requested and its event), recovered, results
  tracked,     \* keys of _tasks
  nextId,      \* _next_id
  queue,       \* _queue, task numbers and the sentinel None
  stopping,    \* _stop
  stopTodo,    \* records that a running stop has still to mark
  stops,       \* calls of stop so far
  submitting,  \* submit is between its start and its critical section
  stuck,       \* the record whose holder waits for the manager's lock, which
               \* submit holds while it waits for that record; else Sentinel
  pc,          \* where the worker thread is; "off" when there is none
  current,     \* the record the worker executes
  step,        \* index in the loop over record.steps
  result,      \* what the handler of that step gave back
  verdict,     \* the status the worker is going to close the record with
  toUndo,      \* completed steps whose compensator has still to run
  locked,      \* the worker holds the record's lock
  taken,       \* a snapshot taken in _finish
  notices,     \* statuses put in _notifications and told to the listeners
  journal,     \* rows of agent_tasks, or Unsaved
  failures,    \* journal calls that raised so far
  restarts,
  ran, changed, undone,  \* the world: handlers run, effects made, compensators run
  promised     \* tasks cancelled with "Cancelled before the first step ran."

memory == <<task, tracked, nextId, queue>>
control == <<stopping, stopTodo, stops, submitting, stuck>>
worker == <<pc, current, step, result, verdict, toUndo, locked, taken>>
world == <<ran, changed, undone, promised>>
disk == <<journal, failures>>
vars == <<memory, control, worker, notices, disk, restarts, world>>

Saga == INSTANCE Saga

\* CLOSED_TASK_STATES; a waiting task is still open.
Closed == {"COMPLETED", "FAILED", "CANCELLED", "RESOLVED", "TIMED_OUT"}
Statuses == Closed \cup {"QUEUED", "RUNNING", "WAITING"}
Unsaved == [status |-> "NONE", steps |-> <<>>, done |-> 0, cancel |-> FALSE,
            recovered |-> FALSE, results |-> {}]

NewRecord(p) == [status |-> "QUEUED", steps |-> p, done |-> 0, cancel |-> FALSE,
                 recovered |-> FALSE, results |-> {}]

\* What record.snapshot() and the row keep: completed_results stay in memory.
Snapshot(r) == [r EXCEPT !.results = {}]

Records == [status : Statuses \cup {"NONE"}, steps : Plans \cup {<<>>}, done : 0..MaxSteps,
            cancel : BOOLEAN, recovered : BOOLEAN, results : SUBSET (1..MaxSteps)]

Points == {"off", "poll", "get", "begin", "preflight", "start", "step", "call", "handler",
           "return", "complete", "undo", "save", "write", "snapshot", "notify", "listen"}

Results == {"none", "changed", "clean", "asks", "failed", "cancelled", "timed_out"}

TypeOK ==
  /\ task \in [Tasks -> Records]
  /\ tracked \in SUBSET Tasks
  /\ nextId \in 1..(MaxTasks + 1)
  /\ queue \in Seq(Tasks \cup {Sentinel}) /\ Len(queue) <= QueueLimit
  /\ stopping \in BOOLEAN
  /\ stopTodo \in SUBSET Tasks
  /\ stops \in 0..MaxStops
  /\ submitting \in BOOLEAN
  /\ stuck \in Tasks \cup {Sentinel}
  /\ pc \in Points
  /\ current \in Tasks \cup {Sentinel}
  /\ step \in 0..MaxSteps
  /\ result \in Results
  /\ verdict \in {"NONE", "FAILED", "CANCELLED", "TIMED_OUT"}
  /\ toUndo \in SUBSET (1..MaxSteps)
  /\ locked \in BOOLEAN
  /\ taken \in Records
  /\ notices \in [Tasks -> Seq(Statuses)]
  /\ journal \in [Tasks -> Records] /\ failures \in 0..MaxFailures
  /\ restarts \in 0..MaxRestarts
  /\ ran \in [Tasks -> Seq(1..MaxSteps)]
  /\ changed \in [Tasks -> SUBSET (1..MaxSteps)]
  /\ undone \in [Tasks -> Seq(1..MaxSteps)]
  /\ promised \in SUBSET Tasks

Idle ==
  /\ pc = "off" /\ current = Sentinel /\ step = 0 /\ result = "none" /\ verdict = "NONE"
  /\ toUndo = {} /\ locked = FALSE /\ taken = Unsaved

Init ==
  /\ task = [t \in Tasks |-> Unsaved]
  /\ tracked = {} /\ nextId = 1 /\ queue = <<>>
  /\ stopping = FALSE /\ stopTodo = {} /\ stops = 0 /\ submitting = FALSE
  /\ stuck = Sentinel
  /\ Idle
  /\ notices = [t \in Tasks |-> <<>>]
  /\ journal = [t \in Tasks |-> Unsaved] /\ failures = 0
  /\ restarts = 0
  /\ ran = [t \in Tasks |-> <<>>]
  /\ changed = [t \in Tasks |-> {}]
  /\ undone = [t \in Tasks |-> <<>>]
  /\ promised = {}

-----------------------------------------------------------------------------
\* Shared pieces.

\* Whether a thread gets the manager's lock, another thread a record's, and
\* the worker that of its own record.
ManagerFree == stuck = Sentinel
Free(t) == ~(locked /\ current = t) /\ stuck # t
OwnFree == locked \/ stuck # current

\* queue.Queue(maximum_tasks).full().
Full == Len(queue) >= QueueLimit

\* A call of the journal raises.
Lost == failures < MaxFailures /\ failures' = failures + 1

\* Fault: a row is written only when the status changes.
SaveTransition(t, r) ==
  UNCHANGED failures /\ journal' = IF journal[t].status = r.status THEN journal ELSE [journal EXCEPT ![t] = Snapshot(r)]

\* _save: the exception of a failing journal is logged and swallowed.
Save(t, r) ==
  \/ journal' = [journal EXCEPT ![t] = Snapshot(r)] /\ UNCHANGED failures
  \/ Lost /\ UNCHANGED journal

\* Assign r to the record of t and save it.
Update(t, r) ==
  /\ task' = [task EXCEPT ![t] = r]
  /\ Save(t, r)

\* start: a living worker is left alone, whatever _stop says.
StartWorker ==
  IF pc = "off" THEN pc' = "poll" /\ stopping' = FALSE
                ELSE UNCHANGED <<pc, stopping>>

\* Fault: compensators run in the order of the steps.
FirstOf(S, k) == k \in S /\ \A j \in S : j >= k

\* reversed(completed_results): the last completed step is undone first.
LastOf(S, k) == k \in S /\ \A j \in S : j <= k

-----------------------------------------------------------------------------
\* Calls from the terminal and voice threads and from the application.

Start ==
  /\ ManagerFree
  /\ pc = "off"
  /\ StartWorker
  /\ UNCHANGED <<memory, stopTodo, stops, submitting, stuck, current, step, result, verdict, toUndo,
                 locked, taken, notices, disk, restarts, world>>

\* submit, up to its critical section (one conversation turn runs at a time).
SubmitStart ==
  /\ ManagerFree
  /\ ~submitting
  /\ nextId <= MaxTasks
  /\ submitting' = TRUE
  /\ StartWorker
  /\ UNCHANGED <<memory, stopTodo, stops, stuck, current, step, result, verdict, toUndo,
                 locked, taken, notices, disk, restarts, world>>

\* Fault: the oldest tasks are dropped, open or not.
TrimmedByAge(ids, records) == {t \in ids : Cardinality({u \in ids : u > t}) < Retained}

\* _trim_locked keeps the newest Retained closed tasks.
Trimmed(ids, records) ==
  LET closed == {t \in ids : records[t].status \in Closed}
  IN  {t \in ids : t \in closed => Cardinality({u \in closed : u > t}) < Retained}

\* The trim of a submit waits for this record's lock.
TrimWaitsFor(t) == submitting /\ ~Full /\ t \in tracked

\* The critical section of submit; its trim reads every tracked record.  When it
\* waits for a record that is kept by a thread on its way to the manager's lock,
\* neither goes on: the new record has a number, but all who could look for it
\* wait too.
SubmitInsert(p) ==
  /\ ManagerFree
  /\ submitting
  /\ \/ /\ Full
        /\ submitting' = FALSE
        /\ UNCHANGED <<stuck, memory, disk, notices, world>>
     \/ /\ locked /\ TrimWaitsFor(current)
        /\ stuck' = current
        /\ UNCHANGED <<submitting, memory, disk, notices, world>>
     \/ /\ ~Full
        /\ ~(locked /\ current \in tracked)
        /\ submitting' = FALSE
        /\ UNCHANGED stuck
        /\ LET t == nextId
           IN  /\ Update(t, NewRecord(p))
               /\ tracked' = Trimmed(tracked \cup {t}, task')
               /\ nextId' = nextId + 1
               /\ queue' = Append(queue, t)
               /\ notices' = [notices EXCEPT ![t] = <<>>]
               /\ ran' = [ran EXCEPT ![t] = <<>>]
               /\ changed' = [changed EXCEPT ![t] = {}]
               /\ undone' = [undone EXCEPT ![t] = <<>>]
               /\ promised' = promised \ {t}
  /\ UNCHANGED <<stopping, stopTodo, stops, worker, restarts>>

\* Fault: only the status changes, the flag and the event stay down.
CancelQuietly(t) ==
  /\ task[t].status \in {"QUEUED", "WAITING"}
  /\ Update(t, [task[t] EXCEPT !.status = "CANCELLED"])
  /\ notices' = [notices EXCEPT ![t] = Append(@, "CANCELLED")]
  /\ promised' = IF task[t].status = "QUEUED" THEN promised \cup {t} ELSE promised

\* cancel of a queued or waiting task closes it and announces it at once.
CancelNow(t) ==
  /\ task[t].status \in {"QUEUED", "WAITING"}
  /\ Update(t, [task[t] EXCEPT !.status = "CANCELLED", !.cancel = TRUE])
  /\ notices' = [notices EXCEPT ![t] = Append(@, "CANCELLED")]
  /\ promised' = IF task[t].status = "QUEUED" THEN promised \cup {t} ELSE promised

\* cancel of a running task only raises its flag and event.
CancelLater(t) ==
  /\ task[t].status \notin Closed \cup {"QUEUED", "WAITING"}
  /\ Update(t, [task[t] EXCEPT !.cancel = TRUE])
  /\ UNCHANGED <<notices, promised>>

\* Both announce it under the record's lock, for which they take the manager's:
\* a submit may have got there first.
Cancel(t) ==
  /\ ManagerFree
  /\ t \in tracked
  /\ Free(t)
  /\ CancelNow(t) \/ CancelLater(t)
  /\ UNCHANGED stuck \/ (TrimWaitsFor(t) /\ stuck' = t)
  /\ UNCHANGED <<tracked, nextId, queue, stopping, stopTodo, stops, submitting, worker,
                 restarts, ran, changed, undone>>

\* Fault: the status is not looked at again under the lock.
CloseAny(t, s) ==
  /\ ManagerFree
  /\ t \in tracked
  /\ Free(t)
  /\ s # task[t].status
  /\ Update(t, [task[t] EXCEPT !.status = s])
  /\ notices' = [notices EXCEPT ![t] = Append(@, s)]
  /\ UNCHANGED <<tracked, nextId, queue, control, worker, restarts, world>>

\* close_waiting: the user answered or declined the question of a task.
CloseWaiting(t, s) ==
  /\ ManagerFree
  /\ t \in tracked
  /\ Free(t)
  /\ task[t].status = "WAITING"
  /\ Update(t, [task[t] EXCEPT !.status = s])
  /\ notices' = [notices EXCEPT ![t] = Append(@, s)]
  /\ UNCHANGED <<tracked, nextId, queue, control, worker, restarts, world>>

\* stop sets the event and takes the list of records, if it gets the lock ...
StopBegin ==
  /\ stops < MaxStops
  /\ stopTodo = {}
  /\ stops' = stops + 1
  /\ stopping' = TRUE
  /\ stopTodo' = IF ManagerFree THEN tracked ELSE {}
  /\ queue' = IF ManagerFree /\ tracked = {} /\ ~Full THEN Append(queue, Sentinel) ELSE queue
  /\ UNCHANGED <<task, tracked, nextId, submitting, stuck, worker, notices, disk, restarts, world>>

\* ... marks them one by one under their locks, then queues the sentinel.
StopRecord(t) ==
  /\ t \in stopTodo /\ \A u \in stopTodo : t <= u
  /\ Free(t)
  /\ stopTodo' = stopTodo \ {t}
  /\ IF task[t].status \in {"QUEUED", "RUNNING"}
     THEN Update(t, [task[t] EXCEPT !.cancel = TRUE])
     ELSE UNCHANGED <<task, disk>>
  /\ queue' = IF stopTodo' = {} /\ ~Full THEN Append(queue, Sentinel) ELSE queue
  /\ UNCHANGED <<tracked, nextId, stopping, stops, submitting, stuck, worker, notices, restarts,
                 world>>

-----------------------------------------------------------------------------
\* The worker thread.

\* What a worker step leaves alone unless it says otherwise.
Outside == <<tracked, nextId, control, restarts>>

Goto(p) == pc' = p

\* Fault: the loop never looks at the stop event.
PollForever ==
  /\ pc = "poll"
  /\ Goto("get")
  /\ UNCHANGED <<memory, control, current, step, result, verdict, toUndo, locked, taken,
                 notices, disk, restarts, world>>

\* The loop test of _run.
Poll ==
  /\ pc = "poll"
  /\ Goto(IF stopping THEN "off" ELSE "get")
  /\ UNCHANGED <<memory, control, current, step, result, verdict, toUndo, locked, taken,
                 notices, disk, restarts, world>>

\* get with a timeout: back to the loop test when the queue stays empty.
Get ==
  /\ pc = "get"
  /\ \/ /\ queue = <<>>
        /\ Goto("poll")
        /\ UNCHANGED <<queue, current>>
     \/ /\ queue # <<>>
        /\ queue' = Tail(queue)
        /\ IF Head(queue) = Sentinel
           THEN Goto("off") /\ UNCHANGED current
           ELSE Goto("begin") /\ current' = Head(queue)
  /\ UNCHANGED <<task, Outside, step, result, verdict, toUndo, locked, taken,
                 notices, disk, world>>

\* Fault: a task cancelled in the queue ends the thread instead of the task.
BeginQuits ==
  /\ pc = "begin"
  /\ OwnFree
  /\ IF task[current].status = "CANCELLED" \/ task[current].cancel
     THEN Goto("off") /\ current' = Sentinel
     ELSE Goto("preflight") /\ UNCHANGED current
  /\ UNCHANGED <<memory, Outside, step, result, verdict, toUndo, locked, taken,
                 notices, disk, world>>

\* _execute: a task cancelled in the queue is dropped.
Begin ==
  /\ pc = "begin"
  /\ OwnFree
  /\ IF task[current].status = "CANCELLED" \/ task[current].cancel
     THEN Goto("poll") /\ current' = Sentinel
     ELSE Goto("preflight") /\ UNCHANGED current
  /\ UNCHANGED <<memory, Outside, step, result, verdict, toUndo, locked, taken,
                 notices, disk, world>>

\* The final preflight of all steps, without the lock.  A failure closes the
\* record whatever its status has become meanwhile.
Preflight ==
  /\ pc = "preflight"
  /\ \/ Goto("start") /\ UNCHANGED task
     \/ OwnFree /\ Goto("save") /\ task' = [task EXCEPT ![current].status = "FAILED"]
  /\ UNCHANGED <<queue, Outside, current, step, result, verdict, toUndo, locked, taken,
                 notices, disk, world>>

StartRunning ==
  /\ pc = "start"
  /\ OwnFree
  /\ Update(current, [task[current] EXCEPT !.status = "RUNNING"])
  /\ Goto("step")
  /\ step' = 1
  /\ UNCHANGED <<queue, Outside, current, result, verdict, toUndo, locked, taken, notices, world>>

\* _compensate_completed begins: nothing of an untouched result is undone.
StartUndo(v) ==
  /\ Goto("undo")
  /\ verdict' = v
  /\ toUndo' = task[current].results

\* The head of the loop over the steps, after the progress made so far has been
\* announced, which takes the manager's lock.  _cancel_running keeps the lock of
\* the record until the task is announced.
StepBegin ==
  /\ pc = "step"
  /\ ManagerFree
  /\ \/ /\ task[current].cancel \/ stopping
        /\ StartUndo("CANCELLED")
        /\ locked' = TRUE
        /\ UNCHANGED <<task, disk>>
     \/ /\ ~(task[current].cancel \/ stopping)
        /\ Goto("call")
        /\ Update(current, task[current])
        /\ UNCHANGED <<verdict, toUndo, locked>>
  /\ UNCHANGED <<queue, Outside, current, step, result, taken, notices, world>>

\* The step is announced; registry.execute up to the checkpoint before the handler.
Call ==
  /\ pc = "call"
  /\ ManagerFree
  /\ \/ StartUndo("FAILED")
     \/ task[current].cancel /\ StartUndo("CANCELLED")
     \/ ~task[current].cancel /\ Goto("handler") /\ UNCHANGED <<verdict, toUndo>>
  /\ UNCHANGED <<memory, Outside, current, step, result, locked, taken, notices, disk, world>>

\* Handlers poll the event and the deadline themselves before they act.
Outcomes(kind) ==
  {"changed", "clean", "failed", "timed_out"}
    \cup (IF kind = "ambiguous" THEN {"asks"} ELSE {})
    \cup (IF task[current].cancel THEN {"cancelled"} ELSE {})

Handler ==
  /\ pc = "handler"
  /\ \E r \in Outcomes(task[current].steps[step]) :
       /\ result' = r
       /\ changed' = IF r = "changed" THEN [changed EXCEPT ![current] = @ \cup {step}] ELSE changed
  /\ ran' = [ran EXCEPT ![current] = Append(@, step)]
  /\ Goto("return")
  /\ UNCHANGED <<memory, Outside, current, step, verdict, toUndo, locked, taken,
                 notices, disk, undone, promised>>

\* The checkpoint after the handler and the bound on its output: a finished
\* result may still be discarded.
Delivered ==
  IF result \in {"cancelled", "timed_out"} THEN {result}
  ELSE IF result = "failed" THEN {"failed", "timed_out"} \cup
                                 (IF task[current].cancel THEN {"cancelled"} ELSE {})
  ELSE IF task[current].cancel THEN {"cancelled"}
  ELSE {result, "timed_out", "failed"}

\* Fault: the result of the first step is forgotten.
CompensableLater(r) == r = "changed" /\ task[current].steps[step] = "reversible" /\ step > 1

\* A compensator runs for a step that has one, unless data says unchanged.
Compensable(r) == r = "changed" /\ task[current].steps[step] = "reversible"

Record(r) ==
  /\ r \in {"changed", "clean"}
  /\ OwnFree
  /\ Update(current, [task[current] EXCEPT
       !.done = step,
       !.results = IF Compensable(r) THEN @ \cup {step} ELSE @])
  /\ IF step < Len(task[current].steps) THEN Goto("step") /\ step' = step + 1
                                        ELSE Goto("complete") /\ UNCHANGED step
  /\ UNCHANGED <<verdict, toUndo>>

AskUser(r) ==
  /\ r = "asks"
  /\ OwnFree
  /\ task' = [task EXCEPT ![current].status = "WAITING"]
  /\ Goto("save")
  /\ UNCHANGED <<step, verdict, toUndo, disk>>

GiveUp(r) ==
  /\ \/ r = "cancelled" /\ StartUndo("CANCELLED")
     \/ r = "timed_out" /\ StartUndo("TIMED_OUT")
     \/ r = "failed" /\ StartUndo("FAILED")
  /\ UNCHANGED <<task, step, disk>>

Return ==
  /\ pc = "return"
  /\ \E r \in Delivered : Record(r) \/ AskUser(r) \/ GiveUp(r)
  /\ result' = "none"
  /\ UNCHANGED <<queue, Outside, current, locked, taken, notices, world>>

\* Fault: the outcome is announced without being saved.
CompleteUnsaved ==
  /\ pc = "complete"
  /\ ManagerFree
  /\ task' = [task EXCEPT ![current].status = "COMPLETED"]
  /\ Goto("snapshot")
  /\ UNCHANGED <<queue, Outside, current, step, result, verdict, toUndo, locked, taken,
                 notices, disk, world>>

Complete ==
  /\ pc = "complete"
  /\ ManagerFree
  /\ task' = [task EXCEPT ![current].status = "COMPLETED"]
  /\ Goto("save")
  /\ UNCHANGED <<queue, Outside, current, step, result, verdict, toUndo, locked, taken,
                 notices, disk, world>>

\* One compensator; its own failure is only reported.
Compensate ==
  /\ pc = "undo"
  /\ \E k \in toUndo :
       /\ LastOf(toUndo, k)
       /\ toUndo' = toUndo \ {k}
       /\ undone' = [undone EXCEPT ![current] = Append(@, k)]
       /\ \/ changed' = [changed EXCEPT ![current] = @ \ {k}]
          \/ UNCHANGED changed
  /\ UNCHANGED <<memory, Outside, pc, current, step, result, verdict, locked, taken,
                 notices, disk, ran, promised>>

Close ==
  /\ pc = "undo"
  /\ toUndo = {}
  /\ OwnFree
  /\ task' = [task EXCEPT ![current].status = verdict]
  /\ Goto("save")
  /\ UNCHANGED <<queue, Outside, current, step, result, verdict, toUndo, locked, taken,
                 notices, disk, world>>

\* _finish on the worker: a snapshot and its row ...
FinishSave ==
  /\ pc = "save"
  /\ OwnFree
  /\ taken' = Snapshot(task[current])
  /\ Goto("write")
  /\ UNCHANGED <<memory, Outside, current, step, result, verdict, toUndo, locked,
                 notices, disk, world>>

FinishWrite ==
  /\ pc = "write"
  /\ Save(current, taken)
  /\ Goto("snapshot")
  /\ UNCHANGED <<memory, Outside, current, step, result, verdict, toUndo, locked, taken,
                 notices, world>>

\* ... then a second snapshot for the notification ...
FinishSnapshot ==
  /\ pc = "snapshot"
  /\ OwnFree
  /\ taken' = Snapshot(task[current])
  /\ Goto("notify")
  /\ UNCHANGED <<memory, Outside, current, step, result, verdict, toUndo, locked,
                 notices, disk, world>>

FinishNotify ==
  /\ pc = "notify"
  /\ notices' = [notices EXCEPT ![current] = Append(@, taken.status)]
  /\ Goto("listen")
  /\ taken' = Unsaved
  /\ UNCHANGED <<memory, Outside, current, step, result, verdict, toUndo, locked, disk, world>>

\* ... and the listeners, whose list the manager's lock protects.
FinishListeners ==
  /\ pc = "listen"
  /\ ManagerFree
  /\ Goto("poll")
  /\ current' = Sentinel /\ step' = 0 /\ verdict' = "NONE" /\ locked' = FALSE
  /\ UNCHANGED <<memory, Outside, result, toUndo, taken, notices, disk, world>>

-----------------------------------------------------------------------------
\* The process ends, at any point, and a new one runs _recover.

Newest(ids) == {t \in ids : Cardinality({u \in ids : u > t}) < Retained}

Recovered(r) ==
  IF r.status \in {"QUEUED", "RUNNING"}
  THEN [r EXCEPT !.status = "FAILED", !.cancel = FALSE, !.recovered = TRUE]
  ELSE r

Load(ids) ==
  /\ task' = [t \in Tasks |-> IF t \in ids THEN Recovered(journal[t]) ELSE Unsaved]
  /\ tracked' = ids
  /\ \E n \in 1..(MaxTasks + 1) :
       /\ \A t \in ids : t < n
       /\ n = 1 \/ n - 1 \in ids
       /\ nextId' = n
  /\ \E lost \in SUBSET ids :
       /\ failures' = failures + Cardinality(lost) /\ failures' <= MaxFailures
       /\ journal' = [t \in Tasks |-> IF t \in ids \ lost THEN Recovered(journal[t]) ELSE journal[t]]

\* load_recent raised: numbering starts again over the rows that exist.
LoadNothing ==
  /\ task' = [t \in Tasks |-> Unsaved]
  /\ tracked' = {} /\ nextId' = 1
  /\ UNCHANGED journal

\* Fault: work found queued or running is queued again.
RequeuedOne ==
  LET open == {t \in Tasks : journal[t].status \in {"QUEUED", "RUNNING"}}
  IN  IF open = {} THEN <<>> ELSE <<CHOOSE t \in open : TRUE>>

\* The queue is made empty; recovered work is not put back.
FreshQueue == <<>>

Restart ==
  /\ restarts < MaxRestarts
  /\ restarts' = restarts + 1
  /\ \/ Load(Newest({t \in Tasks : journal[t] # Unsaved}))
     \/ Lost /\ LoadNothing
  /\ queue' = FreshQueue
  /\ stopping' = FALSE /\ stopTodo' = {} /\ submitting' = FALSE
  /\ stuck' = Sentinel
  /\ pc' = "off" /\ current' = Sentinel /\ step' = 0 /\ result' = "none" /\ verdict' = "NONE"
  /\ toUndo' = {} /\ locked' = FALSE /\ taken' = Unsaved
  /\ UNCHANGED <<stops, notices, world>>

-----------------------------------------------------------------------------
Worker ==
  \/ Poll \/ Get \/ Begin \/ Preflight \/ StartRunning \/ StepBegin \/ Call \/ Handler
  \/ Return \/ Complete \/ Compensate \/ Close
  \/ FinishSave \/ FinishWrite \/ FinishSnapshot \/ FinishNotify \/ FinishListeners

Users ==
  \/ SubmitStart
  \/ \E p \in Plans : SubmitInsert(p)
  \/ \E t \in Tasks : Cancel(t)
  \/ \E t \in Tasks, s \in {"RESOLVED", "CANCELLED"} : CloseWaiting(t, s)

Application ==
  \/ Start
  \/ StopBegin
  \/ \E t \in Tasks : StopRecord(t)

Next == Worker \/ Users \/ Application \/ Restart

Spec == Init /\ [][Next]_vars

\* Handlers are bounded by deadlines, so the worker thread keeps running while
\* it gets the locks it needs: every section under a lock is bounded, but for
\* those of stuck, which disable it.  Stop walks its list to the end with the
\* same exception.  Users and crashes owe nothing.
FairSpec == Spec /\ WF_vars(Worker) /\ WF_vars(\E t \in Tasks : StopRecord(t))

-----------------------------------------------------------------------------
Busy(t) == pc \notin {"off", "poll", "get", "listen"} /\ current = t
Undone(t) == {undone[t][i] : i \in 1..Len(undone[t])}

\* The worker and its users implement the saga: every handler runs at most
\* once and in order, whatever is cancelled, stopped or restarted, no handler
\* runs after a compensator, and compensators run in reverse order.
Implements == Saga!SagaSpec

\* When a running task is closed by a failure, a deadline, a cancellation or
\* stop, its compensators have run: the only change left for which a compensator
\* exists is that of the step in flight, whose result the checkpoint or the
\* output bound of registry.execute discarded.  (A new process compensates
\* nothing: what was running is marked failed.)
RolledBack ==
  [][\A t \in Tasks :
       /\ task[t].status = "RUNNING"
       /\ task'[t].status \in {"FAILED", "CANCELLED", "TIMED_OUT"}
       /\ restarts' = restarts
       => \A k \in changed[t] :
            task[t].steps[k] = "reversible" => k \in Undone(t) \/ k = task[t].done + 1]_vars

\* "Cancelled before the first step ran." is never said of a task whose step
\* ran or is going to run, even if the worker already holds the task.
CancelKeepsPromise == \A t \in promised : ran[t] = <<>>

\* "Queued or running work found after a restart is marked failed and never
\* resumed automatically, preventing duplicate external actions."
NeverResumed == [][\A t \in Tasks : task[t].recovered => ran'[t] = ran[t]]_vars

\* The row of a task is never more than the step in flight behind the world:
\* before a first handler runs the task is journalled as running, and each
\* later one finds its predecessors recorded.
JournalAhead ==
  failures = 0 => \A t \in Tasks : ran[t] # <<>> =>
    /\ journal[t].status \notin {"NONE", "QUEUED"}
    /\ journal[t].done \in {Len(ran[t]) - 1, Len(ran[t])}

\* An outcome the worker decided is on disk once the worker has let go of the
\* task, so a restart does not report it as unfinished.
OutcomeJournalled ==
  failures = 0 => \A t \in Tasks :
    task[t].status \in {"COMPLETED", "FAILED", "TIMED_OUT"} /\ ~Busy(t)
      => journal[t].status = task[t].status

\* Within one run of the program a closed task stays closed; only a task that
\* was cancelled while the worker was between taking it and starting it is
\* opened once more, and then no step of it has run.
ClosedIsFinal ==
  [][\A t \in Tasks :
       /\ restarts' = restarts
       /\ task[t].status \in Closed
       /\ task'[t].status # task[t].status
       => /\ task[t].status = "CANCELLED" /\ ran[t] = <<>>
          /\ pc \in {"preflight", "start"} /\ current = t]_vars

\* The user is told one outcome of a task that ran to an end, and hears
\* nothing about the task afterwards, in this run of the program or, if no row
\* was lost, in a later one.
OutcomeAnnouncedOnce ==
  failures = 0 \/ restarts = 0 => \A t \in Tasks : \A i, j \in 1..Len(notices[t]) :
    notices[t][i] \in {"COMPLETED", "FAILED", "TIMED_OUT"} => j <= i

\* A task that is open and not being cancelled can be found by its number, so
\* trimming closed ones never takes it out of the user's reach.
OpenTaskIsTracked ==
  \A t \in 1..(nextId - 1) :
    task[t].status \in {"QUEUED", "RUNNING", "WAITING"} /\ ~task[t].cancel => t \in tracked

\* Every queued or running task is eventually closed or asks the user, unless
\* the program is told to stop, or a submit and the cancellation of a tracked
\* task wait for each other's lock, which nothing but a restart ends.
TaskSettles ==
  \A t \in Tasks :
    task[t].status \in {"QUEUED", "RUNNING"} ~>
      (task[t].status \notin {"QUEUED", "RUNNING"} \/ stops > 0 \/ ~ManagerFree)

\* After stop the worker thread ends, even if the full queue took no sentinel,
\* unless a later start has cleared the event or those two threads wait for
\* each other.
WorkerStops == stopping ~> (pc = "off" \/ ~stopping \/ ~ManagerFree)

-----------------------------------------------------------------------------
\* What the documentation says and the code does not do.

\* "On later failure, timeout, or cancellation, those registered compensators
\* run in reverse order" (docs/AI_ARCHITECTURE.md), said of every cancellation:
\* a cancelled task leaves no recorded change that could have been undone.
CancelledIsRolledBack ==
  \A t \in Tasks : task[t].status = "CANCELLED" => task[t].results \subseteq Undone(t)
=============================================================================
