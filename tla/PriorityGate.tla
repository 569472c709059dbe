---------------------------- MODULE PriorityGate ----------------------------
(***************************************************************************)
(* What callers of ron/ai/scheduler.py are promised, without condition     *)
(* variables or threads: a gate with one holder, granted to the most       *)
(* urgent ticket, and among equally urgent ones to the oldest.             *)
(***************************************************************************)
EXTENDS Integers

CONSTANTS Clients, Priorities, Numbers, NoTicket

\* A ticket is what the heap orders: (priority, sequence, owner).
Tickets == [prio : Priorities, seq : Numbers, client : Clients]

\* Heap order of the tuples pushed by run: smaller priority, then older.
Beats(t, u) ==
  \/ t.prio < u.prio
  \/ t.prio = u.prio /\ t.seq < u.seq

Most(t, S) == \A u \in S \ {t} : Beats(t, u)

VARIABLES waiting, holder

gateVars == <<waiting, holder>>

GateInit ==
  /\ waiting = {}
  /\ holder = NoTicket

Ask(t) ==
  /\ \A u \in waiting : u.seq < t.seq
  /\ waiting' = waiting \cup {t}
  /\ UNCHANGED holder

\* A caller that finds the gate free and nobody more urgent enters at once.
AskAndEnter(t) ==
  /\ holder = NoTicket
  /\ \A u \in waiting : u.seq < t.seq
  /\ Most(t, waiting)
  /\ holder' = t
  /\ UNCHANGED waiting

Grant(t) ==
  /\ holder = NoTicket
  /\ t \in waiting
  /\ Most(t, waiting)
  /\ holder' = t
  /\ waiting' = waiting \ {t}

Yield ==
  /\ holder # NoTicket
  /\ holder' = NoTicket
  /\ UNCHANGED waiting

GateNext ==
  \/ \E t \in Tickets : Ask(t) \/ AskAndEnter(t) \/ Grant(t)
  \/ Yield

GateSpec == GateInit /\ [][GateNext]_gateVars
=============================================================================
