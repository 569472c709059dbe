--------------------------- MODULE MC_VoiceService ---------------------------
(* Requests that interrupt each other.                                     *)
EXTENDS VoiceService

=============================================================================
