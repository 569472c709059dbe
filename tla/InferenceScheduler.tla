------------------------- MODULE InferenceScheduler -------------------------
(***************************************************************************)
(* ron/ai/scheduler.py: one condition variable, one heap of tickets and    *)
(* one active flag serialise every model request.  A thread that cannot    *)
(* enter sleeps in Condition.wait; the thread that leaves calls notify_all *)
(* and every sleeper checks the gate again.  Each action below is one      *)
(* critical section of run.                                                *)
(***************************************************************************)
EXTENDS Integers, FiniteSets

CONSTANTS Clients,      \* threads that call run
          Terminal,     \* those that Ctrl+C may interrupt (the main thread)
          Priorities,   \* InferencePriority values in use
          MaxRequests,  \* bound on calls of run
          NoTicket

ASSUME SchedulerAssumption ==
  /\ Terminal \subseteq Clients
  /\ Priorities \subseteq Nat
  /\ MaxRequests \in Nat
  /\ NoTicket \notin [prio : Priorities, seq : 0..MaxRequests, client : Clients]

VARIABLES waiting,    \* _waiting, the heap as a set of tickets
          sequence,   \* _sequence, the next tie-breaker
          active,     \* _active
          lastError,  \* _last_error is not None
          succeeded,  \* _last_success_at is not None
          pc,         \* where each thread is inside run
          interrupted, \* threads that Ctrl+C took out of run
          holder,     \* the ticket whose operation is running
          enteredAt   \* value of sequence when the holder entered

vars == <<waiting, sequence, active, lastError, succeeded, pc,
          interrupted, holder, enteredAt>>

Gate == INSTANCE PriorityGate WITH Numbers <- 0..MaxRequests

Tickets == Gate!Tickets

\* A thread is outside run, asleep in wait, notified but not yet holding the
\* condition's lock, running its operation, or past it and about to release.
Places == {"outside", "asleep", "notified", "running", "settling"}

TypeOK ==
  /\ waiting \in SUBSET Tickets
  /\ sequence \in Nat
  /\ active \in BOOLEAN
  /\ lastError \in BOOLEAN
  /\ succeeded \in BOOLEAN
  /\ pc \in [Clients -> Places]
  /\ interrupted \in SUBSET Terminal
  /\ holder \in Tickets \cup {NoTicket}
  /\ enteredAt \in Nat

Init ==
  /\ waiting = {}
  /\ sequence = 0
  /\ active = FALSE
  /\ lastError = FALSE
  /\ succeeded = FALSE
  /\ pc = [c \in Clients |-> "outside"]
  /\ interrupted = {}
  /\ holder = NoTicket
  /\ enteredAt = 0

-----------------------------------------------------------------------------
\* Fault: only the head of the heap is tested.
MayEnterBusy(t) == Gate!Most(t, waiting)

\* Fault: only the flag is tested.
MayEnterAny(t) == ~active

\* The loop test of run: the gate is free and the ticket heads the heap.
MayEnter(t) == ~active /\ Gate!Most(t, waiting)

Enter(t) ==
  /\ waiting' = waiting \ {t}
  /\ active' = TRUE
  /\ holder' = t
  /\ pc' = [pc EXCEPT ![t.client] = "running"]

\* run: push a ticket, then enter or go to sleep without releasing the lock.
Request(c, p) ==
  /\ pc[c] = "outside"
  /\ c \notin interrupted
  /\ sequence < MaxRequests
  /\ sequence' = sequence + 1
  /\ LET t == [prio |-> p, seq |-> sequence, client |-> c]
     IN  \/ /\ MayEnter(t)
            /\ Enter(t)
            /\ enteredAt' = sequence + 1
         \/ /\ ~MayEnter(t)
            /\ waiting' = waiting \cup {t}
            /\ pc' = [pc EXCEPT ![c] = "asleep"]
            /\ UNCHANGED <<active, holder, enteredAt>>
  /\ UNCHANGED <<lastError, succeeded, interrupted>>

\* A notified thread gets the lock back and evaluates the loop test again.
Wake(t) ==
  /\ pc[t.client] = "notified"
  /\ \/ /\ MayEnter(t)
        /\ Enter(t)
        /\ enteredAt' = sequence
     \/ /\ ~MayEnter(t)
        /\ pc' = [pc EXCEPT ![t.client] = "asleep"]
        /\ UNCHANGED <<waiting, active, holder, enteredAt>>
  /\ UNCHANGED <<sequence, lastError, succeeded, interrupted>>

\* The operation returned: record the success in a critical section of its own.
Succeed(c) ==
  /\ pc[c] = "running"
  /\ pc' = [pc EXCEPT ![c] = "settling"]
  /\ succeeded' = TRUE
  /\ lastError' = FALSE
  /\ UNCHANGED <<waiting, sequence, active, interrupted, holder, enteredAt>>

\* Fault: an exception leaves run without passing the finally clause.
FailStuck(c) ==
  /\ pc[c] = "running"
  /\ pc' = [pc EXCEPT ![c] = "outside"]
  /\ lastError' = TRUE
  /\ UNCHANGED <<waiting, sequence, active, succeeded, interrupted, holder, enteredAt>>

\* The operation raised an Exception.
Fail(c) ==
  /\ pc[c] = "running"
  /\ pc' = [pc EXCEPT ![c] = "settling"]
  /\ lastError' = TRUE
  /\ UNCHANGED <<waiting, sequence, active, succeeded, interrupted, holder, enteredAt>>

\* Fault: notify wakes one sleeper, whichever it is.
ReleaseOne(c) ==
  /\ pc[c] = "settling"
  /\ active' = FALSE
  /\ holder' = NoTicket
  /\ \E d \in Clients :
       /\ pc[d] = "asleep" \/ (d = c /\ \A e \in Clients : pc[e] # "asleep")
       /\ pc' = [pc EXCEPT ![c] = "outside", ![d] = IF d = c THEN "outside" ELSE "notified"]
  /\ UNCHANGED <<waiting, sequence, lastError, succeeded, interrupted, enteredAt>>

\* The finally clause: clear the flag and notify_all.
Release(c) ==
  /\ pc[c] = "settling"
  /\ active' = FALSE
  /\ holder' = NoTicket
  /\ pc' = [d \in Clients |-> IF d = c THEN "outside"
                              ELSE IF pc[d] = "asleep" THEN "notified"
                              ELSE pc[d]]
  /\ UNCHANGED <<waiting, sequence, lastError, succeeded, interrupted, enteredAt>>

\* Ctrl+C raises KeyboardInterrupt in the main thread.  Inside wait it leaves
\* run with its ticket still in the heap; inside the operation only the finally
\* clause sees it.  The handler also requests shutdown, so no call follows.
Interrupt(c) ==
  /\ c \in Terminal \ interrupted
  /\ interrupted' = interrupted \cup {c}
  /\ \/ /\ pc[c] \in {"asleep", "notified"}
        /\ pc' = [pc EXCEPT ![c] = "outside"]
     \/ /\ pc[c] = "running"
        /\ pc' = [pc EXCEPT ![c] = "settling"]
  /\ UNCHANGED <<waiting, sequence, active, lastError, succeeded, holder, enteredAt>>

Next ==
  \/ \E c \in Clients, p \in Priorities : Request(c, p)
  \/ \E t \in waiting : Wake(t)
  \/ \E c \in Clients : Succeed(c) \/ Fail(c) \/ Release(c) \/ Interrupt(c)

Spec == Init /\ [][Next]_vars

\* Every thread is scheduled and every operation ends (its client bounds the
\* request with a timeout).  No fairness on new requests or on Ctrl+C.
Fairness ==
  \A c \in Clients : /\ WF_vars(\E t \in waiting : t.client = c /\ Wake(t))
                     /\ WF_vars(Succeed(c) \/ Fail(c))
                     /\ WF_vars(Release(c))

FairSpec == Spec /\ Fairness

-----------------------------------------------------------------------------
Inside(c) == pc[c] \in {"asleep", "notified"}
Working(c) == pc[c] \in {"running", "settling"}

\* Tickets whose thread left wait through KeyboardInterrupt.
Abandoned == {t \in waiting : ~Inside(t.client)}

\* At most one operation runs, and the active flag is raised exactly while
\* one does ("one priority-aware gate for Ron's routed model requests").
OneOperation ==
  /\ \A c, d \in Clients : Working(c) /\ Working(d) => c = d
  /\ active <=> \E c \in Clients : Working(c)
  /\ \A c \in Clients : Working(c) => holder # NoTicket /\ holder.client = c

\* Whoever holds the gate was the most urgent of all those waiting at the
\* moment it entered: a ticket that beats the holder was pushed later.
HolderWasMostUrgent ==
  holder # NoTicket =>
    \A t \in waiting : t.seq < enteredAt => Gate!Beats(holder, t)

\* No lost wake-up: while the gate is free, the thread that owns the head of
\* the heap is awake, so the gate is not left free with everyone asleep.
NoLostWakeup ==
  ~active /\ Abandoned = {} =>
    \A t \in waiting : Gate!Most(t, waiting) => pc[t.client] = "notified"

\* Every thread that waits gets the gate, unless Ctrl+C left a dead ticket.
WaiterIsServed ==
  \A c \in Clients : Inside(c) ~> (Working(c) \/ Abandoned # {})

\* The threads and the condition variable implement the abstract gate.
Implements == Gate!GateSpec
=============================================================================
