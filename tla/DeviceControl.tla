---------------------------- MODULE DeviceControl ----------------------------
(***************************************************************************)
(* The reversible tools for volume and brightness (agent/tools/volume.py,    *)
(* brightness.py) in one background task.  A call asks the Windows helper    *)
(* for the present state, asks it for the change, and keeps the former       *)
(* state in its result; when a later step fails, the task manager gives      *)
(* the results back in reverse order and each tool restores what it found.   *)
(* A helper call can be refused, or act and then fail to answer in time.     *)
(***************************************************************************)
EXTENDS Integers, Sequences

CONSTANTS MaxLevel,      \* 100 percent
          Levels,        \* levels a prompt names
          Deltas,        \* relative changes a prompt names
          MaxSteps,      \* bound: device steps of the task
          MaxTouches     \* bound: the user turns a knob himself

ASSUME DeviceAssumption ==
    /\ MaxLevel \in Nat /\ Levels \subseteq 0..MaxLevel /\ Deltas \subseteq Int
    /\ MaxSteps \in Nat /\ MaxTouches \in Nat

Volume == "volume"
Brightness == "brightness"
Plain(tool, action) == [tool |-> tool, action |-> action, amount |-> 0]
DeviceCalls ==
    {[tool |-> t, action |-> "set", amount |-> l] : t \in {Volume, Brightness}, l \in Levels}
    \cup {[tool |-> t, action |-> "adjust", amount |-> d] :
            t \in {Volume, Brightness}, d \in Deltas}
    \cup {Plain(Volume, a) : a \in {"get", "mute", "unmute", "toggle"}}
    \cup {Plain(Brightness, "get")}

VARIABLES
    hardware,      \* volume, brightness, muted
    step,          \* the call in progress: the call, where it is, the state it found
    results,       \* completed_results of the task
    taskAt,        \* running, rollback, done, failed
    rollbackOK,    \* no compensation reported a failure
    atStart,       \* history: the hardware when the task began
    unanswered,    \* history: a helper call acted although its caller saw a failure
    touches

deviceVars == <<hardware, step, results, taskAt, rollbackOK, atStart, unanswered, touches>>

Hardware == [volume : 0..MaxLevel, brightness : 0..MaxLevel, muted : BOOLEAN]
NoStep == [at |-> "none", call |-> Plain(Volume, "get"),
           found |-> [level |-> 0, muted |-> FALSE]]

DeviceTypeOK ==
    /\ hardware \in Hardware /\ atStart \in Hardware
    /\ step.at \in {"none", "get", "change", "mute"}
    /\ step.call \in DeviceCalls
    /\ Len(results) <= MaxSteps
    /\ taskAt \in {"running", "rollback", "done", "failed"}
    /\ rollbackOK \in BOOLEAN /\ unanswered \in BOOLEAN
    /\ touches \in 0..MaxTouches

DeviceInit ==
    /\ hardware \in {h \in Hardware : h.volume \in Levels /\ h.brightness \in Levels}
    /\ step = NoStep
    /\ results = <<>>
    /\ taskAt = "running"
    /\ rollbackOK = TRUE
    /\ atStart = hardware
    /\ unanswered = FALSE
    /\ touches = 0

Clamp(level) == IF level < 0 THEN 0 ELSE IF level > MaxLevel THEN MaxLevel ELSE level

StateOf(tool) == [level |-> hardware[tool], muted |-> tool = Volume /\ hardware.muted]
SetLevel(tool, level) == hardware' = [hardware EXCEPT ![tool] = level]
SetMuted(muted) == hardware' = [hardware EXCEPT !.muted = muted]

(* What the helper does for a call that found the device as given.           *)
Change(call, found) ==
    CASE call.action = "set"    -> SetLevel(call.tool, call.amount)
      [] call.action = "adjust" -> SetLevel(call.tool, Clamp(found.level + call.amount))
      [] call.action = "mute"   -> SetMuted(TRUE)
      [] call.action = "unmute" -> SetMuted(FALSE)
      [] call.action = "toggle" -> SetMuted(~hardware.muted)
      [] OTHER                  -> UNCHANGED hardware

(***************************************************************************)
(* The handlers.                                                             *)
(***************************************************************************)
BeginCall(call) ==
    /\ taskAt = "running" /\ step.at = "none" /\ Len(results) < MaxSteps
    /\ step' = [NoStep EXCEPT !.call = call,
                              !.at = IF call.action = "get" THEN "change" ELSE "get"]
    /\ UNCHANGED <<hardware, results, taskAt, rollbackOK, atStart, unanswered, touches>>

ReadPrevious ==
    /\ step.at = "get" /\ taskAt = "running"
    /\ step' = [step EXCEPT !.at = "change", !.found = StateOf(step.call.tool)]
    /\ UNCHANGED <<hardware, results, taskAt, rollbackOK, atStart, unanswered, touches>>

ChangeDevice ==
    /\ step.at = "change" /\ taskAt = "running"
    /\ Change(step.call, step.found)
    /\ results' = Append(results, [tool |-> step.call.tool, found |-> step.found,
                                   changed |-> step.call.action # "get"])
    /\ step' = NoStep
    /\ UNCHANGED <<taskAt, rollbackOK, atStart, unanswered, touches>>

(* Refused, timed out or unreadable: the step fails, and the task with it.   *)
CallFails ==
    /\ step.at \in {"get", "change"} /\ taskAt = "running"
    /\ \/ UNCHANGED <<hardware, unanswered>>
       \/ /\ step.at = "change" /\ step.call.action # "get"
          /\ Change(step.call, step.found)
          /\ unanswered' = TRUE
    /\ step' = NoStep
    /\ taskAt' = "rollback"
    /\ UNCHANGED <<results, rollbackOK, atStart, touches>>

(* A step of another tool fails, or every step is done.                      *)
TaskEnds ==
    /\ taskAt = "running" /\ step.at = "none"
    /\ taskAt' \in {"done", "rollback"}
    /\ UNCHANGED <<hardware, step, results, rollbackOK, atStart, unanswered, touches>>

(***************************************************************************)
(* The compensators, newest result first: the level, then for the volume     *)
(* the mute switch.                                                          *)
(***************************************************************************)
Newest == results[Len(results)]
DropNewest == results' = SubSeq(results, 1, Len(results) - 1) /\ step' = NoStep

(* Fault: a rollback that forgets the mute switch.                          *)
RestoreLevelOnly ==
    /\ taskAt = "rollback" /\ results # <<>> /\ step.at = "none"
    /\ IF Newest.changed THEN SetLevel(Newest.tool, Newest.found.level) ELSE UNCHANGED hardware
    /\ DropNewest
    /\ UNCHANGED <<taskAt, rollbackOK, atStart, unanswered, touches>>

RestoreLevel ==
    /\ taskAt = "rollback" /\ results # <<>> /\ step.at = "none"
    /\ IF Newest.changed THEN SetLevel(Newest.tool, Newest.found.level) ELSE UNCHANGED hardware
    /\ IF Newest.changed /\ Newest.tool = Volume
       THEN step' = [step EXCEPT !.at = "mute"] /\ UNCHANGED results
       ELSE DropNewest
    /\ UNCHANGED <<taskAt, rollbackOK, atStart, unanswered, touches>>

RestoreMute ==
    /\ taskAt = "rollback" /\ step.at = "mute"
    /\ SetMuted(Newest.found.muted)
    /\ DropNewest
    /\ UNCHANGED <<taskAt, rollbackOK, atStart, unanswered, touches>>

RestoreFails ==
    /\ taskAt = "rollback" /\ results # <<>> /\ Newest.changed
    /\ rollbackOK' = FALSE
    /\ DropNewest
    /\ UNCHANGED <<hardware, taskAt, atStart, unanswered, touches>>

RollbackEnds ==
    /\ taskAt = "rollback" /\ results = <<>>
    /\ taskAt' = "failed"
    /\ UNCHANGED <<hardware, step, results, rollbackOK, atStart, unanswered, touches>>

UserTouches ==
    /\ touches < MaxTouches
    /\ touches' = touches + 1
    /\ hardware' \in {[hardware EXCEPT !.volume = l] : l \in Levels}
                     \cup {[hardware EXCEPT !.muted = ~@]}
    /\ UNCHANGED <<step, results, taskAt, rollbackOK, atStart, unanswered>>

DeviceNext ==
    \/ \E call \in DeviceCalls : BeginCall(call)
    \/ ReadPrevious \/ ChangeDevice \/ CallFails \/ TaskEnds
    \/ RestoreLevel \/ RestoreMute \/ RestoreFails \/ RollbackEnds
    \/ UserTouches

DeviceSpec == DeviceInit /\ [][DeviceNext]_deviceVars

(***************************************************************************)
(* A task that failed and reports its steps rolled back ("volume restored    *)
(* to", volume.py restore_volume) has left level, brightness and mute as     *)
(* they were before its first step, for every mixture of absolute,           *)
(* relative and toggling steps, unless somebody else changed them or a       *)
(* helper acted without an answer.                                           *)
(***************************************************************************)
RestoredAsBefore ==
    taskAt = "failed" /\ rollbackOK /\ ~unanswered /\ touches = 0 => hardware = atStart
=============================================================================
