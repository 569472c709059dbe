---------------------------- MODULE MC_TaskLocks ----------------------------
(* The terminal and voice threads call the manager while its worker runs.   *)
EXTENDS TaskLocks

CONSTANTS terminal, voice, executor

AllCalls == [th \in Threads |->
  IF th = executor THEN {"step_done", "cancel_running"}
  ELSE {"submit", "cancel", "close_waiting", "walk"}]
=============================================================================
