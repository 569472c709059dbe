----------------------- MODULE InferenceSchedulerProofs -----------------------
(***************************************************************************)
(* Theorems about InferenceScheduler for every set of threads, every set   *)
(* of priorities and any number of requests.                               *)
(***************************************************************************)
EXTENDS InferenceScheduler, TLAPS

\* Every ticket in the heap is younger than the counter, tickets differ in
\* their sequence number and in their owner, and a ticket's owner is inside
\* wait unless Ctrl+C took it out.
TicketsInv ==
  /\ \A t \in waiting : t.seq < sequence
  /\ \A t, u \in waiting : t.seq = u.seq => t = u
  /\ \A t, u \in waiting : t.client = u.client => t = u
  /\ \A t \in waiting : Inside(t.client) \/ t.client \in interrupted
  /\ \A c \in Clients : Inside(c) => c \notin interrupted /\ \E t \in waiting : t.client = c

HolderInv ==
  /\ holder = NoTicket <=> ~active
  /\ holder # NoTicket => holder.seq < enteredAt
  /\ enteredAt <= sequence
  /\ sequence <= MaxRequests

IInv == TypeOK /\ TicketsInv /\ HolderInv /\ OneOperation /\ HolderWasMostUrgent /\ NoLostWakeup

-----------------------------------------------------------------------------
LEMMA InitIInv == Init => IInv
<1> SUFFICES ASSUME Init PROVE IInv
  OBVIOUS
<1> USE SchedulerAssumption DEF SchedulerAssumption
<1>1. TypeOK
  BY DEF Init, TypeOK, Places
<1>2. TicketsInv /\ HolderInv /\ OneOperation /\ HolderWasMostUrgent /\ NoLostWakeup
  BY DEF Init, TicketsInv, HolderInv, OneOperation, HolderWasMostUrgent, NoLostWakeup,
         Inside, Working
<1> QED BY <1>1, <1>2 DEF IInv

\* A fresh ticket is a ticket, and only a ticket that is older can beat an
\* equally urgent one.
LEMMA FreshTicket ==
  ASSUME TypeOK, NEW c \in Clients, NEW p \in Priorities, sequence < MaxRequests
  PROVE  [prio |-> p, seq |-> sequence, client |-> c] \in Tickets
BY SchedulerAssumption DEF SchedulerAssumption, TypeOK, Tickets, Gate!Tickets

LEMMA TicketFields ==
  ASSUME NEW t \in Tickets
  PROVE  t.client \in Clients /\ t.seq \in Nat /\ t.prio \in Nat /\ t # NoTicket
<1>1. t \in [prio : Priorities, seq : 0..MaxRequests, client : Clients]
  BY DEF Tickets, Gate!Tickets
<1>2. t.prio \in Priorities /\ t.seq \in 0..MaxRequests /\ t.client \in Clients
  BY <1>1
<1>3. t # NoTicket
  BY <1>1, SchedulerAssumption DEF SchedulerAssumption
<1>4. Priorities \subseteq Nat /\ MaxRequests \in Nat
  BY SchedulerAssumption DEF SchedulerAssumption
<1>5. t.seq \in Nat
  BY <1>2, <1>4
<1>6. t.prio \in Nat
  BY <1>2, <1>4
<1> QED BY <1>2, <1>3, <1>5, <1>6

\* The heap order is total on tickets with distinct sequence numbers.
LEMMA BeatsTotal ==
  ASSUME NEW t \in Tickets, NEW u \in Tickets, t.seq # u.seq
  PROVE  Gate!Beats(t, u) <=> ~Gate!Beats(u, t)
BY TicketFields DEF Gate!Beats

-----------------------------------------------------------------------------
\* A call of run that finds the gate taken or somebody more urgent.
LEMMA RequestSleeps ==
  ASSUME IInv, NEW c \in Clients, NEW p \in Priorities, Request(c, p), pc'[c] = "asleep"
  PROVE  IInv'
<1> DEFINE t == [prio |-> p, seq |-> sequence, client |-> c]
<1>0. /\ pc[c] = "outside" /\ c \notin interrupted /\ sequence < MaxRequests
      /\ sequence' = sequence + 1
      /\ ~MayEnter(t) /\ waiting' = waiting \cup {t}
      /\ pc' = [pc EXCEPT ![c] = "asleep"]
      /\ UNCHANGED <<active, holder, enteredAt, lastError, succeeded, interrupted>>
  BY DEF Request, Enter, IInv, TypeOK
<1>1. t \in Tickets /\ t.client = c /\ t.seq = sequence
  BY <1>0, FreshTicket DEF IInv
<1> HIDE DEF t
<1>2. TypeOK'
  BY <1>0, <1>1 DEF IInv, TypeOK, Places
<1>3. \A u \in waiting : u \in Tickets /\ u.client # c /\ u.seq < t.seq /\ u.client \in Clients
  BY <1>0, <1>1, TicketFields DEF IInv, TypeOK, TicketsInv, Inside
<1>4. TicketsInv'
  <2>1. \A u \in waiting' : u.seq < sequence'
    BY <1>0, <1>1, <1>3, TicketFields DEF IInv, TypeOK, TicketsInv
  <2>2. \A u, v \in waiting' : u.seq = v.seq => u = v
    BY <1>0, <1>1, <1>3, TicketFields DEF IInv, TypeOK, TicketsInv
  <2>3. \A u, v \in waiting' : u.client = v.client => u = v
    BY <1>0, <1>1, <1>3 DEF IInv, TypeOK, TicketsInv
  <2>4. \A u \in waiting' : Inside(u.client)' \/ u.client \in interrupted'
    BY <1>0, <1>1, <1>3 DEF IInv, TypeOK, TicketsInv, Inside
  <2>5. \A d \in Clients : Inside(d)' => d \notin interrupted' /\ \E u \in waiting' : u.client = d
    BY <1>0, <1>1, <1>3 DEF IInv, TypeOK, TicketsInv, Inside
  <2> QED BY <2>1, <2>2, <2>3, <2>4, <2>5 DEF TicketsInv
<1>5. HolderInv'
  BY <1>0, SchedulerAssumption DEF SchedulerAssumption, IInv, HolderInv, TypeOK
<1>6. OneOperation'
  BY <1>0 DEF IInv, OneOperation, TypeOK, Working
<1>7. HolderWasMostUrgent'
  BY <1>0, <1>1 DEF IInv, HolderWasMostUrgent, HolderInv, TypeOK
<1>8. NoLostWakeup'
  <2> SUFFICES ASSUME ~active, Abandoned' = {}, NEW u \in waiting', Gate!Most(u, waiting')
               PROVE  pc'[u.client] = "notified"
    BY <1>0 DEF NoLostWakeup, Gate!Most, Gate!Beats
  <2>1. Abandoned = {}
    BY <1>0, <1>3 DEF Abandoned, Inside, IInv, TypeOK
  <2>2. CASE u = t
    BY <2>2, <1>0, <1>3 DEF Gate!Most, MayEnter
  <2>3. CASE u \in waiting
    <3>1. Gate!Most(u, waiting)
      BY <2>3, <1>0 DEF Gate!Most
    <3> QED BY <3>1, <2>1, <2>3, <1>0, <1>3 DEF IInv, NoLostWakeup, TypeOK
  <2> QED BY <2>2, <2>3, <1>0
<1> QED BY <1>2, <1>4, <1>5, <1>6, <1>7, <1>8 DEF IInv

\* A ticket that passes the loop test takes the gate, whether it was pushed a
\* moment ago (Request) or its thread was woken (Wake).
LEMMA EnterKeepsIInv ==
  ASSUME IInv, NEW t \in Tickets, MayEnter(t), Enter(t),
         ~Working(t.client), t.client \notin interrupted,
         \A u \in waiting : u.client = t.client => u = t,
         sequence' \in Nat, sequence <= sequence', sequence' <= MaxRequests,
         t.seq < sequence', enteredAt' = sequence',
         UNCHANGED <<lastError, succeeded, interrupted>>
  PROVE  IInv'
<1>0. /\ ~active /\ Gate!Most(t, waiting) /\ waiting' = waiting \ {t} /\ active' = TRUE
      /\ holder' = t /\ pc' = [pc EXCEPT ![t.client] = "running"]
      /\ t.client \in Clients /\ t # NoTicket
  BY TicketFields DEF MayEnter, Enter
<1>1. \A u \in waiting : u \in Tickets /\ u.client \in Clients /\ u.seq \in Nat
  BY TicketFields DEF IInv, TypeOK
<1>2. TypeOK'
  BY <1>0 DEF IInv, TypeOK, Places
<1>3. \A d \in Clients : d # t.client => pc'[d] = pc[d]
  BY <1>0 DEF IInv, TypeOK
<1>4. pc'[t.client] = "running"
  BY <1>0 DEF IInv, TypeOK
<1>5. TicketsInv'
  <2>1. \A u \in waiting' : u.seq < sequence'
    BY <1>0, <1>1 DEF IInv, TypeOK, TicketsInv
  <2>2. /\ \A u, v \in waiting' : u.seq = v.seq => u = v
        /\ \A u, v \in waiting' : u.client = v.client => u = v
    BY <1>0 DEF IInv, TicketsInv
  <2>3. \A u \in waiting' : Inside(u.client)' \/ u.client \in interrupted'
    BY <1>0, <1>1, <1>3 DEF IInv, TicketsInv, Inside
  <2>4. \A d \in Clients : Inside(d)' => d \notin interrupted' /\ \E u \in waiting' : u.client = d
    BY <1>0, <1>3, <1>4 DEF IInv, TicketsInv, Inside
  <2> QED BY <2>1, <2>2, <2>3, <2>4 DEF TicketsInv
<1>6. HolderInv'
  BY <1>0 DEF HolderInv
<1>7. OneOperation'
  BY <1>0, <1>3, <1>4 DEF IInv, OneOperation, Working
<1>8. HolderWasMostUrgent'
  BY <1>0 DEF HolderWasMostUrgent, Gate!Most, Gate!Beats
<1>9. NoLostWakeup'
  BY <1>0 DEF NoLostWakeup
<1> QED BY <1>2, <1>5, <1>6, <1>7, <1>8, <1>9 DEF IInv

LEMMA RequestKeepsIInv ==
  ASSUME IInv, NEW c \in Clients, NEW p \in Priorities, Request(c, p)
  PROVE  IInv'
<1> DEFINE t == [prio |-> p, seq |-> sequence, client |-> c]
<1>1. CASE MayEnter(t)
  <2>1. /\ pc[c] = "outside" /\ c \notin interrupted /\ sequence < MaxRequests
        /\ sequence' = sequence + 1 /\ Enter(t) /\ enteredAt' = sequence + 1
        /\ UNCHANGED <<lastError, succeeded, interrupted>>
    BY <1>1 DEF Request
  <2>2. t \in Tickets /\ t.client = c /\ t.seq = sequence
    BY <2>1, FreshTicket DEF IInv
  <2> HIDE DEF t
  <2>3. ~Working(t.client) /\ \A u \in waiting : u.client # t.client
    BY <2>1, <2>2 DEF Working, IInv, TicketsInv, Inside
  <2>4. /\ sequence' \in Nat /\ sequence <= sequence' /\ sequence' <= MaxRequests
        /\ t.seq < sequence' /\ enteredAt' = sequence'
    BY <2>1, <2>2, SchedulerAssumption DEF SchedulerAssumption, IInv, TypeOK
  <2> QED BY <1>1, <2>1, <2>2, <2>3, <2>4, EnterKeepsIInv
<1>2. CASE ~MayEnter(t)
  <2>1. pc'[c] = "asleep"
    BY <1>2 DEF Request, IInv, TypeOK
  <2> QED BY <2>1, RequestSleeps
<1> QED BY <1>1, <1>2

LEMMA WakeKeepsIInv ==
  ASSUME IInv, NEW t \in waiting, Wake(t)
  PROVE  IInv'
<1>0. t \in Tickets /\ t.client \in Clients /\ pc[t.client] = "notified"
  BY TicketFields DEF Wake, IInv, TypeOK
<1>1. CASE MayEnter(t)
  <2>1. /\ Enter(t) /\ enteredAt' = sequence /\ sequence' = sequence
        /\ UNCHANGED <<lastError, succeeded, interrupted>>
    BY <1>1 DEF Wake
  <2>2. /\ ~Working(t.client) /\ t.client \notin interrupted
        /\ \A u \in waiting : u.client = t.client => u = t
    BY <1>0 DEF Working, IInv, TicketsInv, Inside
  <2>3. sequence \in Nat /\ sequence <= MaxRequests /\ t.seq < sequence
    BY DEF IInv, TypeOK, HolderInv, TicketsInv
  <2>4. sequence' \in Nat /\ sequence <= sequence' /\ sequence' <= MaxRequests
    BY <2>1, <2>3
  <2> QED BY <1>0, <1>1, <2>1, <2>2, <2>3, <2>4, EnterKeepsIInv
<1>2. CASE ~MayEnter(t)
  <2>1. /\ pc' = [pc EXCEPT ![t.client] = "asleep"]
        /\ UNCHANGED <<waiting, active, holder, enteredAt, sequence, lastError, succeeded, interrupted>>
    BY <1>2 DEF Wake
  <2>2. \A d \in Clients : (Inside(d)' <=> Inside(d)) /\ (Working(d)' <=> Working(d))
    BY <1>0, <2>1 DEF Inside, Working, IInv, TypeOK
  <2>3. TypeOK'
    BY <1>0, <2>1 DEF IInv, TypeOK, Places
  <2>4. \A u \in waiting : u.client \in Clients
    BY TicketFields DEF IInv, TypeOK
  <2>5. TicketsInv'
    BY <2>1, <2>2, <2>4 DEF IInv, TicketsInv
  <2>6. HolderInv' /\ HolderWasMostUrgent'
    BY <2>1 DEF IInv, HolderInv, HolderWasMostUrgent, Gate!Beats
  <2>7. OneOperation'
    BY <2>1, <2>2 DEF IInv, OneOperation
  <2>8. NoLostWakeup'
    <3> SUFFICES ASSUME ~active, Abandoned' = {}, NEW u \in waiting, Gate!Most(u, waiting)
                 PROVE  pc'[u.client] = "notified"
      BY <2>1 DEF NoLostWakeup, Gate!Most, Gate!Beats
    <3>1. Abandoned = {}
      BY <2>1, <2>2, <2>4 DEF Abandoned
    <3>2. pc[u.client] = "notified" /\ u # t
      BY <3>1, <1>2 DEF IInv, NoLostWakeup, MayEnter
    <3>3. u.client # t.client
      BY <3>2 DEF IInv, TicketsInv
    <3> QED BY <3>2, <3>3, <2>1, <2>4 DEF IInv, TypeOK
  <2> QED BY <2>3, <2>5, <2>6, <2>7, <2>8 DEF IInv
<1> QED BY <1>1, <1>2

\* The operation ends, by result, exception or Ctrl+C: nobody enters or
\* leaves the heap and the gate stays taken.
LEMMA SettleKeepsIInv ==
  ASSUME IInv, NEW c \in Clients, pc[c] = "running",
         pc' = [pc EXCEPT ![c] = "settling"],
         lastError' \in BOOLEAN, succeeded' \in BOOLEAN,
         interrupted' = interrupted \/ (interrupted' = interrupted \cup {c} /\ c \in Terminal),
         UNCHANGED <<waiting, sequence, active, holder, enteredAt>>
  PROVE  IInv'
<1>1. \A d \in Clients : (Inside(d)' <=> Inside(d)) /\ (Working(d)' <=> Working(d))
  BY DEF Inside, Working, IInv, TypeOK
<1>2. TypeOK'
  BY DEF IInv, TypeOK, Places
<1>3. \A u \in waiting : u.client \in Clients
  BY TicketFields DEF IInv, TypeOK
<1>4. ~Inside(c)
  BY DEF Inside
<1>5. TicketsInv'
  BY <1>1, <1>3, <1>4 DEF IInv, TicketsInv
<1>6. HolderInv' /\ HolderWasMostUrgent'
  BY DEF IInv, HolderInv, HolderWasMostUrgent, Gate!Beats
<1>7. OneOperation'
  BY <1>1 DEF IInv, OneOperation
<1>8. active'
  BY DEF IInv, OneOperation, Working
<1> QED BY <1>2, <1>5, <1>6, <1>7, <1>8 DEF IInv, NoLostWakeup

\* The finally clause wakes every sleeper, so the new head cannot be asleep.
LEMMA ReleaseKeepsIInv ==
  ASSUME IInv, NEW c \in Clients, Release(c)
  PROVE  IInv'
<1>0. /\ pc[c] = "settling" /\ active' = FALSE /\ holder' = NoTicket
      /\ UNCHANGED <<waiting, sequence, lastError, succeeded, interrupted, enteredAt>>
      /\ \A d \in Clients : pc'[d] = IF d = c THEN "outside"
                                     ELSE IF pc[d] = "asleep" THEN "notified" ELSE pc[d]
  BY DEF Release
<1>1. TypeOK'
  BY DEF IInv, TypeOK, Places, Release
<1>2. \A d \in Clients : (Inside(d)' <=> Inside(d)) /\ ~Working(d)'
  BY <1>0 DEF Inside, Working, IInv, OneOperation
<1>3. \A u \in waiting : u.client \in Clients
  BY TicketFields DEF IInv, TypeOK
<1>4. TicketsInv'
  BY <1>0, <1>2, <1>3 DEF IInv, TicketsInv
<1>5. HolderInv' /\ HolderWasMostUrgent'
  BY <1>0 DEF IInv, HolderInv, HolderWasMostUrgent
<1>6. OneOperation'
  BY <1>0, <1>2 DEF OneOperation
<1>7. NoLostWakeup'
  BY <1>0, <1>2, <1>3 DEF NoLostWakeup, Abandoned, Inside
<1> QED BY <1>1, <1>4, <1>5, <1>6, <1>7 DEF IInv

LEMMA InterruptKeepsIInv ==
  ASSUME IInv, NEW c \in Clients, Interrupt(c)
  PROVE  IInv'
<1>0. c \in Terminal /\ interrupted' = interrupted \cup {c}
      /\ UNCHANGED <<waiting, sequence, active, lastError, succeeded, holder, enteredAt>>
  BY DEF Interrupt
<1>1. CASE Inside(c) /\ pc' = [pc EXCEPT ![c] = "outside"]
  <2>1. \A d \in Clients : d # c => pc'[d] = pc[d]
    BY <1>1 DEF IInv, TypeOK
  <2>2. ~Inside(c)' /\ \A d \in Clients : Working(d)' <=> Working(d)
    BY <1>1 DEF Inside, Working, IInv, TypeOK
  <2>3. TypeOK'
    BY <1>0, <1>1 DEF IInv, TypeOK, Places
  <2>4. \A u \in waiting : u.client \in Clients
    BY TicketFields DEF IInv, TypeOK
  <2>5. TicketsInv'
    BY <1>0, <2>1, <2>2, <2>4 DEF IInv, TicketsInv, Inside
  <2>6. HolderInv' /\ HolderWasMostUrgent'
    BY <1>0 DEF IInv, HolderInv, HolderWasMostUrgent, Gate!Beats
  <2>7. OneOperation'
    BY <1>0, <2>2 DEF IInv, OneOperation
  <2>8. Abandoned' # {}
    BY <1>0, <1>1, <2>2 DEF IInv, TicketsInv, Abandoned
  <2> QED BY <2>3, <2>5, <2>6, <2>7, <2>8 DEF IInv, NoLostWakeup
<1>2. CASE pc[c] = "running" /\ pc' = [pc EXCEPT ![c] = "settling"]
  BY <1>0, <1>2, SettleKeepsIInv DEF IInv, TypeOK
<1> QED BY <1>1, <1>2 DEF Interrupt, Inside

\* The inductive step.
LEMMA NextKeepsIInv == IInv /\ [Next]_vars => IInv'
<1> SUFFICES ASSUME IInv, [Next]_vars PROVE IInv'
  OBVIOUS
<1>1. ASSUME NEW c \in Clients, NEW p \in Priorities, Request(c, p) PROVE IInv'
  BY <1>1, RequestKeepsIInv
<1>2. ASSUME NEW t \in waiting, Wake(t) PROVE IInv'
  BY <1>2, WakeKeepsIInv
<1>3. ASSUME NEW c \in Clients, Succeed(c) \/ Fail(c) PROVE IInv'
  <2>1. /\ pc[c] = "running" /\ pc' = [pc EXCEPT ![c] = "settling"]
        /\ lastError' \in BOOLEAN /\ succeeded' \in BOOLEAN
        /\ UNCHANGED <<waiting, sequence, active, interrupted, holder, enteredAt>>
    BY <1>3 DEF Succeed, Fail, IInv, TypeOK
  <2> QED BY <2>1, SettleKeepsIInv
<1>4. ASSUME NEW c \in Clients, Release(c) PROVE IInv'
  BY <1>4, ReleaseKeepsIInv
<1>5. ASSUME NEW c \in Clients, Interrupt(c) PROVE IInv'
  BY <1>5, InterruptKeepsIInv
<1>6. CASE UNCHANGED vars
  BY <1>6 DEF vars, IInv, TypeOK, TicketsInv, HolderInv, OneOperation, HolderWasMostUrgent,
              NoLostWakeup, Abandoned, Inside, Working, Gate!Most, Gate!Beats
<1> QED BY <1>1, <1>2, <1>3, <1>4, <1>5, <1>6 DEF Next

LEMMA SpecIInv == Spec => []IInv
BY InitIInv, NextKeepsIInv, PTL DEF Spec

-----------------------------------------------------------------------------
\* The gate state always has its declared shape.
THEOREM TypeCorrect == Spec => []TypeOK
<1>1. IInv => TypeOK
  BY DEF IInv
<1> QED BY <1>1, SpecIInv, PTL

\* At most one routed model request runs at any time, however many threads
\* call run and however they are interrupted.
THEOREM MutualExclusion == Spec => []OneOperation
<1>1. IInv => OneOperation
  BY DEF IInv
<1> QED BY <1>1, SpecIInv, PTL

\* The running request beat every request that was waiting when it entered.
THEOREM PriorityRespected == Spec => []HolderWasMostUrgent
<1>1. IInv => HolderWasMostUrgent
  BY DEF IInv
<1> QED BY <1>1, SpecIInv, PTL

\* While the gate is free and Ctrl+C left no dead ticket, the head of the heap
\* has been notified: no wake-up is lost.
THEOREM WakeupsKept == Spec => []NoLostWakeup
<1>1. IInv => NoLostWakeup
  BY DEF IInv
<1> QED BY <1>1, SpecIInv, PTL

-----------------------------------------------------------------------------
\* One step of the threads is one step of the abstract gate, or none.
LEMMA StepImplements == IInv /\ [Next]_vars => [Gate!GateNext]_(Gate!gateVars)
<1> SUFFICES ASSUME IInv, [Next]_vars, waiting' # waiting \/ holder' # holder
             PROVE  Gate!GateNext
  BY DEF Gate!gateVars
<1>1. ASSUME NEW c \in Clients, NEW p \in Priorities, Request(c, p) PROVE Gate!GateNext
  <2> DEFINE t == [prio |-> p, seq |-> sequence, client |-> c]
  <2>1. t \in Gate!Tickets /\ t.seq = sequence /\ \A u \in waiting : u.seq < t.seq
    BY <1>1, FreshTicket DEF Request, IInv, TicketsInv, Tickets
  <2>2. CASE MayEnter(t)
    <3>1. holder = NoTicket /\ Gate!Most(t, waiting) /\ holder' = t /\ waiting' = waiting \ {t}
      BY <1>1, <2>2 DEF Request, MayEnter, Enter, IInv, HolderInv
    <3> HIDE DEF t
    <3>2. t \notin waiting
      BY <2>1 DEF IInv, TicketsInv, TypeOK
    <3>3. Gate!AskAndEnter(t)
      BY <2>1, <3>1, <3>2 DEF Gate!AskAndEnter
    <3> QED BY <2>1, <3>3 DEF Gate!GateNext
  <2>3. CASE ~MayEnter(t)
    <3>1. waiting' = waiting \cup {t} /\ holder' = holder
      BY <1>1, <2>3 DEF Request
    <3> HIDE DEF t
    <3> QED BY <2>1, <3>1 DEF Gate!GateNext, Gate!Ask
  <2> QED BY <2>2, <2>3
<1>2. ASSUME NEW t \in waiting, Wake(t) PROVE Gate!GateNext
  <2>1. /\ MayEnter(t) /\ Enter(t) /\ t \in Gate!Tickets
    BY <1>2 DEF Wake, IInv, TypeOK, Tickets
  <2>2. Gate!Grant(t)
    BY <2>1 DEF MayEnter, Enter, IInv, HolderInv, Gate!Grant
  <2> QED BY <2>1, <2>2 DEF Gate!GateNext
<1>3. ASSUME NEW c \in Clients, Release(c) PROVE Gate!GateNext
  BY <1>3 DEF Release, IInv, OneOperation, Working, Gate!GateNext, Gate!Yield
<1>4. ASSUME NEW c \in Clients, Succeed(c) \/ Fail(c) \/ Interrupt(c) PROVE FALSE
  BY <1>4 DEF Succeed, Fail, Interrupt
<1> QED BY <1>1, <1>2, <1>3, <1>4 DEF Next, vars

\* Threads, condition variable and heap together implement the priority gate
\* that callers of InferenceScheduler.run are promised.
THEOREM GateImplemented == Spec => Implements
<1>1. Init => Gate!GateInit
  BY DEF Init, Gate!GateInit
<1> QED BY <1>1, StepImplements, SpecIInv, PTL DEF Spec, Implements, Gate!GateSpec

=============================================================================
