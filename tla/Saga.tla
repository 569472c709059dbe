-------------------------------- MODULE Saga --------------------------------
(***************************************************************************)
(* What a background task of ron/agent may do to the outside world: run    *)
(* its steps in order, each at most once, and after the first undo run no  *)
(* further step and undo in reverse order.                                 *)
(***************************************************************************)
EXTENDS Integers, Sequences

CONSTANTS Tasks, MaxSteps

VARIABLES ran,     \* steps of each task whose handler ran, oldest first
          undone   \* steps whose compensator ran, oldest first

sagaVars == <<ran, undone>>

SagaInit ==
  /\ ran = [t \in Tasks |-> <<>>]
  /\ undone = [t \in Tasks |-> <<>>]

RunNext(t) ==
  /\ undone[t] = <<>>
  /\ Len(ran[t]) < MaxSteps
  /\ ran' = [ran EXCEPT ![t] = Append(@, Len(@) + 1)]
  /\ UNCHANGED undone

Undo(t, k) ==
  /\ k <= Len(ran[t])
  /\ \A i \in 1..Len(undone[t]) : k < undone[t][i]
  /\ undone' = [undone EXCEPT ![t] = Append(@, k)]
  /\ UNCHANGED ran

\* A task that left no trace on disk gives its number to a later one.
Renew(t) ==
  /\ ran' = [ran EXCEPT ![t] = <<>>]
  /\ undone' = [undone EXCEPT ![t] = <<>>]

SagaNext ==
  \E t \in Tasks :
    \/ RunNext(t)
    \/ \E k \in 1..MaxSteps : Undo(t, k)
    \/ Renew(t)

SagaSpec == SagaInit /\ [][SagaNext]_sagaVars
=============================================================================
