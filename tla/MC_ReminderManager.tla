------------------------- MODULE MC_ReminderManager -------------------------
(* Reminders that come due before and after the longest sleep.             *)
EXTENDS ReminderManager

ShortAndLong == {1, 3}
=============================================================================
