------------------------ MODULE MC_InferenceScheduler ------------------------
(* Three threads (terminal, voice, speech) and three of the six priorities. *)
EXTENDS InferenceScheduler

MCPriorities == {1, 2, 4}
==============================================================================
