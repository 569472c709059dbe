--------------------------- MODULE ReminderManager ---------------------------
(***************************************************************************)
(* ron/reminders.py: reminders in SQLite, and a worker thread that sleeps  *)
(* on a condition variable until the next one is due.  The condition does  *)
(* not guard the database: a caller commits its row first and notifies     *)
(* afterwards, and cancel reads the row, updates it, and then notifies,    *)
(* with other threads running in between.                                  *)
(***************************************************************************)
EXTENDS Integers

CONSTANTS MaxReminders,  \* bound on AUTOINCREMENT numbers
          Horizon,       \* bound on the clock
          Delays,        \* the durations users ask for
          WaitLimit,     \* the longest sleep, 30 seconds in the code
          MaxEnds        \* bound on what ends the worker: calls of stop, database
                         \* calls that raise, deaths of the process

Ids == 1..MaxReminders
Nobody == 0

ASSUME ReminderAssumption ==
  /\ MaxReminders \in Nat /\ Horizon \in Nat
  /\ Delays \subseteq Nat \ {0} /\ WaitLimit \in Nat \ {0}
  /\ MaxEnds \in Nat

VARIABLES
  status, due,   \* the rows
  creating,      \* rows of a create that has not notified yet
  cancelling,    \* where the cancel of a reminder is: what it will answer, or
                 \* "update" between the row it read as pending and its UPDATE
  answer,        \* what the last cancel that returned has answered
  pc,            \* where the worker thread is; "off" when there is none
  changed,       \* _change_version moved since the worker observed it
  picked,        \* the reminder of this turn of the loop
  wakeAt,        \* when the wait of the worker times out
  woken,         \* the worker was notified in its wait
  stopping,      \* _stop
  heard,         \* how often a reminder was announced
  now,
  ends

rows == <<status, due>>
callers == <<creating, cancelling, answer>>
sleep == <<wakeAt, woken>>
vars == <<rows, callers, pc, changed, picked, sleep, stopping, heard, now, ends>>

Init ==
  /\ status = [i \in Ids |-> "none"] /\ due = [i \in Ids |-> 0]
  /\ creating = {} /\ cancelling = [i \in Ids |-> "no"]
  /\ answer = [i \in Ids |-> "none"]
  /\ pc = "off" /\ changed = FALSE /\ picked = Nobody /\ wakeAt = 0 /\ woken = FALSE
  /\ stopping = FALSE
  /\ heard = [i \in Ids |-> 0]
  /\ now = 0
  /\ ends = 0

-----------------------------------------------------------------------------
\* Calls from the terminal, the voice thread and the task worker.

Wakes == woken' = (woken \/ pc = "asleep")

Notify == changed' = TRUE /\ Wakes

CreateRow(d) ==
  /\ \E i \in Ids :
       /\ status[i] = "none" /\ \A j \in 1..(i - 1) : status[j] # "none"
       /\ status' = [status EXCEPT ![i] = "pending"]
       /\ due' = [due EXCEPT ![i] = now + d]
       /\ creating' = creating \cup {i}
  /\ UNCHANGED <<cancelling, answer, pc, changed, picked, sleep, stopping, heard, now, ends>>

CreateNotify(i) ==
  /\ i \in creating
  /\ creating' = creating \ {i}
  /\ Notify
  /\ UNCHANGED <<rows, cancelling, answer, pc, picked, wakeAt, stopping, heard, now, ends>>

\* cancel of a number without a row returns at once and is left out.  Bound: a
\* user who was answered does not ask to cancel that reminder again.
CancelRead(i) ==
  /\ cancelling[i] = "no" /\ answer[i] = "none"
  /\ status[i] # "none"
  /\ cancelling' = [cancelling EXCEPT ![i] =
       IF status[i] = "pending" THEN "update" ELSE status[i]]
  /\ UNCHANGED <<rows, creating, answer, pc, changed, picked, sleep, stopping, heard, now, ends>>

\* The UPDATE does not look at the status again.
CancelUpdate(i) ==
  /\ cancelling[i] = "update"
  /\ status' = [status EXCEPT ![i] = "cancelled"]
  /\ cancelling' = [cancelling EXCEPT ![i] = "cancelled"]
  /\ UNCHANGED <<due, creating, answer, pc, changed, picked, sleep, stopping, heard, now, ends>>

CancelReturn(i) ==
  /\ cancelling[i] \in {"fired", "cancelled"}
  /\ answer' = [answer EXCEPT ![i] = cancelling[i]]
  /\ cancelling' = [cancelling EXCEPT ![i] = "no"]
  /\ Notify
  /\ UNCHANGED <<rows, creating, pc, picked, wakeAt, stopping, heard, now, ends>>

\* start leaves a living worker alone, whatever _stop says.
Start ==
  /\ pc = "off"
  /\ pc' = "loop"
  /\ stopping' = FALSE
  /\ UNCHANGED <<rows, callers, changed, picked, sleep, heard, now, ends>>

Stop ==
  /\ ends < MaxEnds
  /\ ends' = ends + 1
  /\ stopping' = TRUE
  /\ Wakes
  /\ UNCHANGED <<rows, callers, pc, changed, picked, wakeAt, heard, now>>

-----------------------------------------------------------------------------
\* The worker thread.

Loop ==
  /\ pc = "loop"
  /\ IF stopping THEN pc' = "off" ELSE pc' = "pick"
  /\ changed' = FALSE
  /\ UNCHANGED <<rows, callers, picked, sleep, stopping, heard, now, ends>>

Pending == {i \in Ids : status[i] = "pending"}
Earliest(i) == i \in Pending /\ \A j \in Pending : due[i] <= due[j]

\* min(delay, 30.0).
Nap(i) == IF due[i] - now < WaitLimit THEN due[i] - now ELSE WaitLimit

\* _next_pending, and how long to sleep if it is not due yet.
Pick ==
  /\ pc = "pick"
  /\ \/ /\ Pending = {}
        /\ wakeAt' = now + WaitLimit
        /\ pc' = "doze"
        /\ UNCHANGED picked
     \/ \E i \in Ids :
          /\ Earliest(i)
          /\ IF due[i] > now
             THEN wakeAt' = now + Nap(i) /\ pc' = "doze" /\ UNCHANGED picked
             ELSE picked' = i /\ pc' = "fire" /\ UNCHANGED wakeAt
  /\ UNCHANGED <<rows, callers, changed, woken, stopping, heard, now, ends>>

\* Fault: the version is not compared before the wait.
DozeBlindly ==
  /\ pc = "doze"
  /\ IF stopping THEN pc' = "loop" ELSE pc' = "asleep"
  /\ UNCHANGED <<rows, callers, changed, picked, sleep, stopping, heard, now, ends>>

Doze ==
  /\ pc = "doze"
  /\ IF changed \/ stopping THEN pc' = "loop" ELSE pc' = "asleep"
  /\ UNCHANGED <<rows, callers, changed, picked, sleep, stopping, heard, now, ends>>

\* Fault: the wait has no timeout.
TimeoutNever == woken

Timeout == woken \/ wakeAt <= now

Wake ==
  /\ pc = "asleep"
  /\ Timeout
  /\ pc' = "loop"
  /\ woken' = FALSE /\ wakeAt' = 0
  /\ UNCHANGED <<rows, callers, changed, picked, stopping, heard, now, ends>>

\* Fault: the row is updated whatever its status has become.
FireAnyway ==
  /\ pc = "fire"
  /\ status' = [status EXCEPT ![picked] = "fired"]
  /\ pc' = "put"
  /\ UNCHANGED <<due, callers, changed, picked, sleep, stopping, heard, now, ends>>

\* Fault: the reminder is announced without being marked.
FireUnmarked ==
  /\ pc = "fire"
  /\ pc' = "put"
  /\ UNCHANGED <<rows, callers, changed, picked, sleep, stopping, heard, now, ends>>

\* UPDATE ... WHERE status='pending'; a row cancelled meanwhile is passed over.
Fire ==
  /\ pc = "fire"
  /\ IF status[picked] = "pending"
     THEN status' = [status EXCEPT ![picked] = "fired"] /\ pc' = "put" /\ UNCHANGED picked
     ELSE pc' = "loop" /\ picked' = Nobody /\ UNCHANGED status
  /\ UNCHANGED <<due, callers, changed, sleep, stopping, heard, now, ends>>

\* The notification and the listeners, which cannot hurt the worker.
Put ==
  /\ pc = "put"
  /\ heard' = [heard EXCEPT ![picked] = @ + 1]
  /\ pc' = "loop" /\ picked' = Nobody
  /\ UNCHANGED <<rows, callers, changed, sleep, stopping, now, ends>>

\* A database call that raises ends the thread: _run catches nothing.
Die ==
  /\ pc \in {"pick", "fire"}
  /\ ends < MaxEnds
  /\ ends' = ends + 1
  /\ pc' = "off" /\ picked' = Nobody
  /\ UNCHANGED <<rows, callers, changed, sleep, stopping, heard, now>>

-----------------------------------------------------------------------------
\* Time passes while the worker sleeps: a turn of its loop takes no time.
Tick ==
  /\ now < Horizon
  /\ pc = "off" \/ (pc = "asleep" /\ ~Timeout)
  /\ now' = now + 1
  /\ UNCHANGED <<rows, callers, pc, changed, picked, sleep, stopping, heard, ends>>

\* The process dies and a new one is made; the rows stay.
Crash ==
  /\ ends < MaxEnds
  /\ ends' = ends + 1
  /\ creating' = {} /\ cancelling' = [i \in Ids |-> "no"]
  /\ pc' = "off" /\ changed' = FALSE /\ picked' = Nobody /\ wakeAt' = 0 /\ woken' = FALSE
  /\ stopping' = FALSE
  /\ UNCHANGED <<rows, answer, heard, now>>

Worker == Loop \/ Pick \/ Doze \/ Wake \/ Fire \/ Put \/ Die

Callers ==
  \/ \E d \in Delays : CreateRow(d)
  \/ \E i \in Ids : CreateNotify(i) \/ CancelRead(i) \/ CancelUpdate(i) \/ CancelReturn(i)

Next == Worker \/ Callers \/ Start \/ Stop \/ Tick \/ Crash

Spec == Init /\ [][Next]_vars

\* The thread is scheduled and the clock runs on; users and stop owe nothing,
\* and not even a create has to come to its notify.
FairSpec == Spec /\ WF_vars(Worker) /\ WF_vars(Tick)

-----------------------------------------------------------------------------
\* No second passes over a reminder that is due, while the worker lives, unless
\* it was inserted by a create that has not notified yet.
OnTime ==
  [][now' # now => \A i \in Ids :
       status[i] = "pending" /\ due[i] <= now => pc = "off" \/ i \in creating]_vars

\* A reminder is announced at most once, whatever is stopped, restarted or
\* killed, and never while its row says that it is still to come.
AnnouncedOnce ==
  \A i \in Ids : heard[i] <= 1 /\ (heard[i] = 1 => status[i] # "pending")

\* A cancelled row is final: the worker that picked the reminder before the
\* cancel neither fires it nor takes it up again.
CancelledStays ==
  [][\A i \in Ids : status[i] = "cancelled" => status'[i] = "cancelled"]_vars

\* Every pending reminder that comes due is announced, also one inserted while
\* the worker went to sleep by a create that never notifies, unless it is
\* cancelled or the worker ends; one as late as WaitLimit is still in sight.
DueIsAnnounced ==
  \A i \in Ids :
    status[i] = "pending" /\ due[i] + WaitLimit <= Horizon ~>
      (heard[i] = 1 \/ status[i] = "cancelled" \/ pc = "off")

-----------------------------------------------------------------------------
\* What the tests say and the code does not do in every interleaving.

\* "do not fire": a reminder whose cancel has answered "cancelled" is not
\* announced, before or after.
CancelledIsSilent == \A i \in Ids : answer[i] = "cancelled" => heard[i] = 0
=============================================================================
