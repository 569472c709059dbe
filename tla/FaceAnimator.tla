---------------------------- MODULE FaceAnimator ----------------------------
(***************************************************************************)
(* The tablet's FaceAnimator.java: one thread, a handler with delayed        *)
(* callbacks, and animations that run beside each other on the same eyes     *)
(* and mouth.  What is kept is what an expression does to the callbacks      *)
(* and to the animations that are running: the pose, the blink, the mouth.   *)
(* The looks of an expression, its variants, drift, tongue and              *)
(* decorations are left out, and so are delays: a posted callback may run    *)
(* at any time.                                                              *)
(***************************************************************************)
EXTENDS Integers

CONSTANT FaceExpressions   \* a subset of the eight of Protocol.java

ASSUME FaceAssumption == {"idle", "speaking", "sleeping"} \subseteq FaceExpressions

VARIABLES
  look,         \* the expression of the face
  eyes,         \* open, closed or between
  pose,         \* what the running pose animation does to the eyes
  blinking,     \* blinkAnimator runs
  mouth,        \* what speechAnimator does: moving, or going to rest
  callbacks,    \* what is posted to the handler
  speaking, receivingLevels, pendingAcknowledgement

animatorVars == <<look, eyes, pose, blinking, mouth, callbacks, speaking, receivingLevels,
                  pendingAcknowledgement>>

Callbacks == {"blink", "acknowledge", "micro", "accent", "syllable", "watchdog", "safeIdle",
              "safeSleep"}

AnimatorTypeOK ==
  /\ look \in FaceExpressions /\ eyes \in {"open", "between", "closed"}
  /\ pose \in {"none", "plain", "opening", "closing"}
  /\ mouth \in {"moving", "rest"} /\ callbacks \subseteq Callbacks
  /\ blinking \in BOOLEAN /\ speaking \in BOOLEAN /\ receivingLevels \in BOOLEAN
  /\ pendingAcknowledgement \in BOOLEAN

AnimatorInit ==
  /\ look = "idle" /\ eyes = "open" /\ pose = "none" /\ mouth = "rest"
  /\ blinking = FALSE /\ speaking = FALSE /\ receivingLevels = FALSE
  /\ pendingAcknowledgement = FALSE
  /\ callbacks = {"blink", "micro"}

\* Fault: falling asleep leaves a running blink alone.
ShowFromBlinking(expression, kept) ==
  LET asleep == expression = "sleeping"
      speech == IF expression = "speaking" THEN {} ELSE {"syllable", "watchdog"}
  IN /\ look' = expression
     /\ pose' = CASE asleep -> "closing"
                  [] ~asleep /\ look = "sleeping" -> "opening"
                  [] OTHER -> "plain"
     /\ mouth' = IF expression = "speaking" THEN mouth ELSE "rest"
     /\ callbacks' = (kept \ (speech \cup {"acknowledge"} \cup (IF asleep THEN {"blink"} ELSE {})))
                       \cup {"micro"} \cup (IF asleep THEN {} ELSE {"blink"})
                       \cup (IF expression = "listening" THEN {"acknowledge"} ELSE {})
                       \cup (IF expression = "happy" THEN {"accent"} ELSE {})
     /\ UNCHANGED <<blinking, pendingAcknowledgement>>

\* setExpression, once the callbacks in "kept" are left of the posted ones.
\* The eyes stay where the animation it cancels left them.
ShowFrom(expression, kept) ==
  LET asleep == expression = "sleeping"
      speech == IF expression = "speaking" THEN {} ELSE {"syllable", "watchdog"}
  IN /\ look' = expression
     /\ pose' = CASE asleep -> "closing"
                  [] ~asleep /\ look = "sleeping" -> "opening"
                  [] OTHER -> "plain"
     /\ blinking' = (blinking /\ ~asleep)
     /\ pendingAcknowledgement' = (pendingAcknowledgement /\ ~asleep)
     /\ mouth' = IF expression = "speaking" THEN mouth ELSE "rest"
     /\ callbacks' = (kept \ (speech \cup {"acknowledge"} \cup (IF asleep THEN {"blink"} ELSE {})))
                       \cup {"micro"} \cup (IF asleep THEN {} ELSE {"blink"})
                       \cup (IF expression = "listening" THEN {"acknowledge"} ELSE {})
                       \cup (IF expression = "happy" THEN {"accent"} ELSE {})

Show(expression) == ShowFrom(expression, callbacks)

SetExpression ==
  /\ \E expression \in FaceExpressions : Show(expression)
  /\ UNCHANGED <<eyes, speaking, receivingLevels>>

-----------------------------------------------------------------------------
\* Animations of the eyes.

PoseMoves ==
  /\ pose \in {"opening", "closing"} /\ eyes' = "between"
  /\ UNCHANGED <<look, pose, blinking, mouth, callbacks, speaking, receivingLevels,
                 pendingAcknowledgement>>

PoseEnds ==
  /\ pose # "none" /\ pose' = "none"
  /\ eyes' = CASE pose = "closing" -> "closed" [] pose = "opening" -> "open" [] OTHER -> eyes
  /\ UNCHANGED <<look, blinking, mouth, callbacks, speaking, receivingLevels,
                 pendingAcknowledgement>>

\* blink: not while asleep; a blink that runs keeps an acknowledgement for its end.
Blink(acknowledgement, posted) ==
  IF look = "sleeping" THEN callbacks' = posted /\ UNCHANGED <<blinking, pendingAcknowledgement>>
  ELSE IF blinking
       THEN /\ pendingAcknowledgement' = (pendingAcknowledgement \/ acknowledgement)
            /\ callbacks' = posted /\ UNCHANGED blinking
       ELSE /\ blinking' = TRUE /\ callbacks' = posted \ {"blink"}
            /\ UNCHANGED pendingAcknowledgement

\* An open mouth that speaks postpones the blink.
BlinkNaturally ==
  /\ "blink" \in callbacks
  /\ \/ Blink(FALSE, callbacks \ {"blink"})
     \/ /\ look = "speaking" /\ mouth = "moving"
        /\ UNCHANGED <<blinking, pendingAcknowledgement, callbacks>>
  /\ UNCHANGED <<look, eyes, pose, mouth, speaking, receivingLevels>>

AcknowledgementBlink ==
  /\ "acknowledge" \in callbacks
  /\ IF look = "listening" THEN Blink(TRUE, callbacks \ {"acknowledge"})
     ELSE /\ callbacks' = callbacks \ {"acknowledge"}
          /\ UNCHANGED <<blinking, pendingAcknowledgement>>
  /\ UNCHANGED <<look, eyes, pose, mouth, speaking, receivingLevels>>

MicroExpression ==
  /\ "micro" \in callbacks /\ look # "speaking"
  /\ \/ Blink(FALSE, callbacks)
     \/ UNCHANGED <<blinking, pendingAcknowledgement, callbacks>>
  /\ UNCHANGED <<look, eyes, pose, mouth, speaking, receivingLevels>>

\* The accent of an expression that has been left does nothing; that of a
\* happy face may blink.
EntryAccent ==
  /\ "accent" \in callbacks
  /\ \/ look = "happy" /\ Blink(FALSE, callbacks \ {"accent"})
     \/ callbacks' = callbacks \ {"accent"} /\ UNCHANGED <<blinking, pendingAcknowledgement>>
  /\ UNCHANGED <<look, eyes, pose, mouth, speaking, receivingLevels>>

BlinkMoves ==
  /\ blinking /\ eyes' = "between"
  /\ UNCHANGED <<look, pose, blinking, mouth, callbacks, speaking, receivingLevels,
                 pendingAcknowledgement>>

BlinkEnds ==
  /\ blinking /\ blinking' = FALSE /\ eyes' = "open"
  /\ pendingAcknowledgement' = FALSE
  /\ callbacks' = CASE pendingAcknowledgement /\ look = "listening" -> callbacks \cup {"acknowledge"}
                    [] look = "sleeping" -> callbacks \ {"blink"}
                    [] OTHER -> callbacks \cup {"blink"}
  /\ UNCHANGED <<look, pose, mouth, speaking, receivingLevels>>

-----------------------------------------------------------------------------
\* The mouth.

OnSpeechStarted ==
  /\ speaking' = TRUE /\ receivingLevels' = FALSE
  /\ ShowFrom("speaking", callbacks \cup {"syllable", "watchdog"})
  /\ UNCHANGED eyes

\* A level starts the speech that was not announced.
OnSpeechLevel ==
  /\ speaking' = TRUE /\ receivingLevels' = TRUE /\ mouth' = "moving"
  /\ IF speaking
     THEN /\ callbacks' = (callbacks \ {"syllable"}) \cup {"watchdog"}
          /\ UNCHANGED <<look, pose, blinking, pendingAcknowledgement>>
     ELSE /\ look' = "speaking"
          /\ pose' = IF look = "sleeping" THEN "opening" ELSE "plain"
          /\ callbacks' = (callbacks \ {"acknowledge", "syllable"}) \cup {"blink", "micro", "watchdog"}
          /\ UNCHANGED <<blinking, pendingAcknowledgement>>
  /\ UNCHANGED eyes

StopSpeechMotion ==
  /\ mouth' = "rest" /\ callbacks' = callbacks \ {"syllable", "watchdog"}
  /\ UNCHANGED <<look, pose, blinking, pendingAcknowledgement>>

OnSpeechEnded ==
  /\ speaking' = FALSE /\ receivingLevels' = FALSE
  /\ IF look = "speaking" THEN Show("idle") ELSE StopSpeechMotion
  /\ UNCHANGED eyes

\* Levels that stay away for a quarter of a second are replaced by syllables.
CheckSpeechSamples ==
  /\ "watchdog" \in callbacks
  /\ IF ~speaking THEN callbacks' = callbacks \ {"watchdog"} /\ UNCHANGED receivingLevels
     ELSE \/ receivingLevels /\ UNCHANGED <<callbacks, receivingLevels>>
          \/ receivingLevels' = FALSE /\ callbacks' = callbacks \cup {"syllable"}
  /\ UNCHANGED <<look, eyes, pose, blinking, mouth, speaking, pendingAcknowledgement>>

SimulatedSyllable ==
  /\ "syllable" \in callbacks
  /\ IF ~speaking \/ receivingLevels
     THEN callbacks' = callbacks \ {"syllable"} /\ UNCHANGED mouth
     ELSE mouth' = "moving" /\ UNCHANGED callbacks
  /\ UNCHANGED <<look, eyes, pose, blinking, speaking, receivingLevels, pendingAcknowledgement>>

-----------------------------------------------------------------------------
\* The link and the user.

OnConnected ==
  /\ callbacks' = callbacks \ {"safeIdle", "safeSleep"}
  /\ UNCHANGED <<look, eyes, pose, blinking, mouth, speaking, receivingLevels,
                 pendingAcknowledgement>>

\* A tablet that protects itself falls asleep at once.
OnDisconnected ==
  /\ speaking' = FALSE /\ receivingLevels' = FALSE
  /\ \/ ShowFrom("sleeping", callbacks \ {"safeIdle", "safeSleep"})
     \/ /\ mouth' = "rest"
        /\ callbacks' = (callbacks \ {"syllable", "watchdog"}) \cup {"safeIdle", "safeSleep"}
        /\ UNCHANGED <<look, pose, blinking, pendingAcknowledgement>>
  /\ UNCHANGED eyes

SafeState ==
  /\ \/ "safeIdle" \in callbacks /\ ShowFrom("idle", callbacks \ {"safeIdle"})
     \/ "safeSleep" \in callbacks /\ ShowFrom("sleeping", callbacks \ {"safeSleep"})
  /\ UNCHANGED <<eyes, speaking, receivingLevels>>

OnFaceTapped ==
  /\ look = "sleeping" /\ Show("idle")
  /\ UNCHANGED <<eyes, speaking, receivingLevels>>

AnimatorNext ==
  \/ SetExpression \/ PoseMoves \/ PoseEnds \/ BlinkNaturally \/ AcknowledgementBlink
  \/ MicroExpression \/ EntryAccent \/ BlinkMoves \/ BlinkEnds \/ OnSpeechStarted \/ OnSpeechLevel
  \/ OnSpeechEnded \/ CheckSpeechSamples \/ SimulatedSyllable \/ OnConnected
  \/ OnDisconnected \/ SafeState \/ OnFaceTapped

AnimatorSpec == AnimatorInit /\ [][AnimatorNext]_animatorVars

\* A face that sleeps keeps its eyes closed once the pose is reached; one that
\* is awake always has a blink running or posted, which opens eyes that an
\* interrupted awakening left half closed; a face that does not speak moves
\* no mouth and has nothing posted that would.
FaceComesToRest ==
  /\ look = "sleeping" /\ pose = "none" => eyes = "closed" /\ ~blinking
  /\ look # "sleeping" => blinking \/ "blink" \in callbacks \/ "acknowledge" \in callbacks
  /\ ~speaking => mouth = "rest" /\ callbacks \cap {"syllable", "watchdog"} = {}
=============================================================================
