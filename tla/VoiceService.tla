---------------------------- MODULE VoiceService ----------------------------
(***************************************************************************)
(* ron/voice/service.py with the voice handlers of ron/app.py and the        *)
(* cancellation of a turn in ron/assistant.py.  One thread listens: it       *)
(* finds the wake phrase, recognises what was said and either dispatches     *)
(* it to a response thread of its own or, while a reply is being made or     *)
(* spoken, keeps it for the response thread to take over and interrupts      *)
(* the turn in progress.  The interruption runs after the lock is left, so   *)
(* turns can end and begin before it arrives.                                *)
(* Time is abstracted: a window that is open may be found expired at any     *)
(* turn of the loop.                                                         *)
(***************************************************************************)
EXTENDS Integers

CONSTANTS MaxRequests,  \* bound on what the user asks
          MaxFailures   \* bound on microphone failures

ASSUME VoiceAssumption == MaxRequests \in Nat /\ MaxFailures \in Nat

Requests == 1..MaxRequests
Nobody == 0

VARIABLES
  ear,            \* the listening thread: where it is, the request in hand, whether
                  \* the wake phrase preceded it, what came of it
  wakePending, awaiting, cooling, chatOpen,   \* locals of _listen: its windows
  detecting,      \* VAD and wake word detector hold audio of an unfinished utterance
  place,          \* where a request is
  responseActive, readying, completion,       \* what makes a turn active
  pendingPrompt, followup, ignoring, resetDetectors, allowsFollowup,
  spoken,         \* requests whose speech is over or silenced
  currentTurn,    \* _current_cancel of the assistant: whose turn can be cancelled
  currentSpeech,  \* the session that speech.cancel_current reaches
  cancelled,      \* requests whose cancel event is set
  chatting,       \* continuous chat
  stopping,
  failures

windows == <<wakePending, awaiting, cooling, chatOpen, detecting>>
flags == <<responseActive, readying, completion>>
shared == <<pendingPrompt, followup, ignoring, resetDetectors, allowsFollowup>>
glue == <<spoken, currentTurn, currentSpeech, cancelled>>
voiceVars == <<ear, windows, place, flags, shared, glue, chatting, stopping, failures>>

Outcomes == {"handled", "continuous", "waiting", "clarification", "unclear", "rejected",
             "dispatched", "queued", "none"}

VoiceTypeOK ==
  /\ ear \in [at : {"off", "start", "top", "read", "segment", "recognise", "command", "offer",
                    "silence", "cancel", "outcome"},
              request : Requests \cup {Nobody}, wake : BOOLEAN,
              switching : BOOLEAN, outcome : Outcomes]
  /\ <<wakePending, awaiting, cooling, chatOpen, detecting>>
       \in BOOLEAN \X BOOLEAN \X BOOLEAN \X BOOLEAN \X BOOLEAN
  /\ place \in [Requests -> {"unheard", "heard", "dropped", "pending", "replaced", "handling",
                             "thinking", "leaving", "returning", "speaking", "settling",
                             "picking", "inviting", "done"}]
  /\ responseActive \in BOOLEAN /\ readying \in BOOLEAN
  /\ completion \in Requests \cup {Nobody} /\ pendingPrompt \in Requests \cup {Nobody}
  /\ followup \in BOOLEAN /\ ignoring \in BOOLEAN /\ resetDetectors \in BOOLEAN
  /\ allowsFollowup \in BOOLEAN
  /\ spoken \subseteq Requests /\ cancelled \subseteq Requests
  /\ currentTurn \in Requests \cup {Nobody} /\ currentSpeech \in Requests \cup {Nobody}
  /\ chatting \in BOOLEAN /\ stopping \in BOOLEAN /\ failures \in 0..MaxFailures

Deaf == [at |-> "off", request |-> Nobody, wake |-> FALSE, switching |-> FALSE,
         outcome |-> "none"]

VoiceInit ==
  /\ ear = Deaf
  /\ wakePending = FALSE /\ awaiting = FALSE /\ cooling = FALSE /\ chatOpen = FALSE
  /\ detecting = FALSE
  /\ place = [r \in Requests |-> "unheard"]
  /\ responseActive = FALSE /\ readying = FALSE /\ completion = Nobody
  /\ pendingPrompt = Nobody /\ followup = FALSE /\ ignoring = FALSE
  /\ resetDetectors = FALSE /\ allowsFollowup = FALSE
  /\ spoken = {} /\ currentTurn = Nobody /\ currentSpeech = Nobody /\ cancelled = {}
  /\ chatting = FALSE /\ stopping = FALSE /\ failures = 0

Ear(at) == ear' = [ear EXCEPT !.at = at]
Move(r, from, to) == place[r] = from /\ place' = [place EXCEPT ![r] = to]

\* Fault: no completion event yet counts as one that is not set.
TurnOrNoneYet == responseActive \/ readying \/ completion \notin spoken

TurnIsActive == \/ responseActive \/ readying
                \/ completion # Nobody /\ completion \notin spoken

-----------------------------------------------------------------------------
\* The life of the listening thread.

StartListening ==
  /\ ear.at = "off" /\ failures < MaxFailures
  /\ failures' = failures + 1
  /\ ear' = [Deaf EXCEPT !.at = "start"]
  /\ stopping' = FALSE
  /\ UNCHANGED <<windows, place, flags, shared, glue, chatting>>

(* _run_once loads the models, opens the microphone and starts with fresh    *)
(* windows.                                                                  *)
OpenMicrophone ==
  /\ ear.at = "start"
  /\ IF stopping THEN ear' = Deaf ELSE ear' = [Deaf EXCEPT !.at = "top"]
  /\ wakePending' = FALSE /\ awaiting' = FALSE /\ cooling' = FALSE /\ chatOpen' = FALSE
  /\ detecting' = FALSE
  /\ UNCHANGED <<place, flags, shared, glue, chatting, stopping, failures>>

MicrophoneFails ==
  /\ ear.at = "read" /\ failures < MaxFailures
  /\ failures' = failures + 1
  /\ Ear("start")
  /\ UNCHANGED <<windows, place, flags, shared, glue, chatting, stopping>>

StopVoice ==
  /\ ear.at # "off" /\ ~stopping
  /\ stopping' = TRUE
  /\ UNCHANGED <<ear, windows, place, flags, shared, glue, chatting, failures>>

(* The top of the loop: detectors are reset after a turn, an invitation to   *)
(* go on is taken over, and windows may have expired.                        *)
LoopTop ==
  /\ ear.at = "top"
  /\ IF stopping
       THEN /\ ear' = Deaf
            /\ UNCHANGED <<windows, shared, chatting>>
       ELSE /\ Ear("read")
            /\ detecting' = (detecting /\ ~resetDetectors)
            /\ resetDetectors' = FALSE
            /\ followup' = FALSE
            /\ \/ awaiting' = (awaiting \/ followup) /\ UNCHANGED wakePending
               \/ /\ awaiting \/ followup                      \* it has expired
                  /\ awaiting' = FALSE /\ wakePending' = FALSE
            /\ \/ chatOpen' = chatting /\ UNCHANGED chatting
               \/ /\ chatting /\ chatOpen                      \* the chat timed out
                  /\ chatOpen' = FALSE /\ chatting' = FALSE
            /\ cooling' \in {FALSE, cooling}
            /\ ignoring' \in {FALSE, ignoring}
            /\ UNCHANGED <<pendingPrompt, allowsFollowup>>
  /\ UNCHANGED <<place, flags, glue, stopping, failures>>

(* A block of audio: nothing, the wake phrase, or the end of an utterance,   *)
(* and the detectors keep what is unfinished.                                *)
ReadAudio ==
  /\ ear.at = "read"
  /\ \/ /\ Ear("top")
        /\ UNCHANGED <<wakePending, awaiting, detecting>>
     \/ /\ ~ignoring /\ ~detecting
        /\ detecting' = TRUE /\ Ear("top")
        /\ UNCHANGED <<wakePending, awaiting>>
     \/ /\ ~ignoring /\ ~cooling /\ ~wakePending
        /\ wakePending' = TRUE /\ awaiting' = FALSE
        /\ detecting' = TRUE /\ Ear("top")
     \/ /\ ~ignoring /\ detecting
        /\ detecting' = FALSE /\ Ear("segment")
        /\ UNCHANGED <<wakePending, awaiting>>
  /\ UNCHANGED <<cooling, chatOpen, place, flags, shared, glue, chatting, stopping, failures>>

(* Without the wake phrase an utterance counts only in an open window, and   *)
(* never while a turn is active.                                             *)
Segment ==
  /\ ear.at = "segment"
  /\ LET heard == wakePending \/ (~TurnIsActive /\ (awaiting \/ chatOpen))
     IN IF heard
          THEN ear' = [ear EXCEPT !.at = "recognise", !.wake = wakePending]
          ELSE Ear("top")
  /\ wakePending' = FALSE
  /\ UNCHANGED <<awaiting, cooling, chatOpen, detecting, place, flags, shared, glue,
                 chatting, stopping, failures>>

-----------------------------------------------------------------------------
\* _process_segment

Conclude(outcome) == ear' = [ear EXCEPT !.at = "outcome", !.outcome = outcome]

(* Nothing Ron can act on: no wake phrase, low confidence, or a question.    *)
Misheard == Conclude("rejected") \/ Conclude("unclear") \/ Conclude("clarification")

(* The wake phrase alone is acknowledged; in an active turn only noticed.    *)
WakeOnly == Conclude(IF TurnIsActive THEN "handled" ELSE "waiting")

(* The better of the quick and the accurate transcript is a request.         *)
Understood(r) ==
  /\ place[r] = "unheard" /\ \A q \in 1..(r - 1) : place[q] # "unheard"
  /\ place' = [place EXCEPT ![r] = "heard"]
  /\ ear' = [ear EXCEPT !.at = "command", !.request = r]

Recognise ==
  /\ ear.at = "recognise"
  /\ allowsFollowup' = FALSE
  /\ \/ (Misheard \/ WakeOnly) /\ UNCHANGED place
     \/ \E r \in Requests : Understood(r)
  /\ UNCHANGED <<windows, flags, pendingPrompt, followup, ignoring, resetDetectors, glue,
                 chatting, stopping, failures>>

Dispatch(r) ==
  /\ place' = [place EXCEPT ![r] = "handling"]
  /\ responseActive' = TRUE

Command ==
  /\ ear.at = "command"
  /\ \/ /\ ~TurnIsActive
        /\ Dispatch(ear.request) /\ Conclude("dispatched")
     \/ /\ TurnIsActive /\ ear.wake          \* "stop" and its like
        /\ Move(ear.request, "heard", "dropped")
        /\ Ear("silence")
        /\ UNCHANGED responseActive
     \/ /\ TurnIsActive /\ ear.wake
        /\ Ear("offer")
        /\ UNCHANGED <<place, responseActive>>
     \/ /\ TurnIsActive /\ ~ear.wake
        /\ Move(ear.request, "heard", "dropped")
        /\ Conclude("handled")
        /\ UNCHANGED responseActive
  /\ UNCHANGED <<windows, readying, completion, shared, glue, chatting, stopping, failures>>

(* Under the lock: is there still a turn that will take the request over?    *)
Offer ==
  /\ ear.at = "offer"
  /\ IF TurnIsActive
       THEN /\ pendingPrompt' = ear.request
            /\ place' = [[r \in Requests |-> IF place[r] = "pending" THEN "replaced" ELSE place[r]]
                           EXCEPT ![ear.request] = "pending"]
            /\ ear' = [ear EXCEPT !.at = "silence", !.switching = TRUE]
            /\ UNCHANGED responseActive
       ELSE /\ Dispatch(ear.request) /\ Conclude("dispatched")
            /\ UNCHANGED pendingPrompt
  /\ UNCHANGED <<windows, readying, completion, followup, ignoring, resetDetectors,
                 allowsFollowup, glue, chatting, stopping, failures>>

(* _handle_voice_interruption: first the speech, then the turn.              *)
SilenceSpeech ==
  /\ ear.at = "silence"
  /\ spoken' = spoken \cup ({currentSpeech} \ {Nobody})
  /\ currentSpeech' = Nobody
  /\ Ear("cancel")
  /\ UNCHANGED <<windows, place, flags, shared, currentTurn, cancelled, chatting, stopping,
                 failures>>

CancelTurn ==
  /\ ear.at = "cancel"
  /\ cancelled' = cancelled \cup ({currentTurn} \ {Nobody})
  /\ Conclude(IF ear.switching THEN "queued" ELSE "handled")
  /\ UNCHANGED <<windows, place, flags, shared, spoken, currentTurn, currentSpeech, chatting,
                 stopping, failures>>

(* What the outcome does to the windows of the loop.                         *)
Outcome ==
  /\ ear.at = "outcome"
  /\ LET o == ear.outcome
     IN /\ awaiting' = \/ o \in {"waiting", "clarification", "unclear"}
                       \/ o = "handled" /\ allowsFollowup
        /\ cooling' = CASE o \in {"dispatched", "queued"} -> FALSE
                        [] o = "rejected" -> TRUE
                        [] o = "handled" -> ~allowsFollowup
                        [] OTHER -> cooling
        /\ chatOpen' = (chatOpen \/ o = "continuous")
  /\ ear' = [Deaf EXCEPT !.at = "top"]
  /\ UNCHANGED <<wakePending, detecting, place, flags, shared, glue, chatting, stopping,
                 failures>>

-----------------------------------------------------------------------------
\* A response thread: _complete_prompt and the prompt handler of the application.

(* The speech session is opened, then the assistant makes this the turn      *)
(* that an interruption cancels.                                             *)
OpenSpeech(r) ==
  /\ place[r] = "handling" /\ currentSpeech # r /\ r \notin spoken
  /\ spoken' = spoken \cup ({currentSpeech} \ {Nobody})
  /\ currentSpeech' = r
  /\ UNCHANGED <<ear, windows, place, flags, shared, currentTurn, cancelled, chatting,
                 stopping, failures>>

BeginTurn(r) ==
  /\ currentSpeech = r \/ r \in spoken
  /\ Move(r, "handling", "thinking")
  /\ currentTurn' = r
  /\ UNCHANGED <<ear, windows, flags, shared, spoken, currentSpeech, cancelled, chatting,
                 stopping, failures>>

(* The last check of the cancel event; a cancelled turn says nothing more.   *)
EndThinking(r) ==
  /\ Move(r, "thinking", "leaving")
  /\ IF r \in cancelled
       THEN /\ spoken' = spoken \cup {r}
            /\ UNCHANGED chatting
       ELSE /\ chatting' \in BOOLEAN       \* "start a chat", "end chat"
            /\ UNCHANGED spoken
  /\ UNCHANGED <<ear, windows, flags, shared, currentTurn, currentSpeech, cancelled, stopping,
                 failures>>

LeaveTurn(r) ==
  /\ Move(r, "leaving", "returning")
  /\ currentTurn' = IF currentTurn = r THEN Nobody ELSE currentTurn
  /\ UNCHANGED <<ear, windows, flags, shared, spoken, currentSpeech, cancelled, chatting,
                 stopping, failures>>

ReturnReply(r) ==
  /\ Move(r, "returning", "speaking")
  /\ readying' = TRUE /\ completion' = r /\ responseActive' = FALSE
  /\ allowsFollowup' \in (IF r \in cancelled THEN {FALSE} ELSE BOOLEAN)
  /\ UNCHANGED <<ear, windows, pendingPrompt, followup, ignoring, resetDetectors, glue,
                 chatting, stopping, failures>>

SpeechEnds(r) ==
  /\ place[r] \in {"returning", "speaking"} /\ r \notin spoken
  /\ spoken' = spoken \cup {r}
  /\ currentSpeech' = IF currentSpeech = r THEN Nobody ELSE currentSpeech
  /\ UNCHANGED <<ear, windows, place, flags, shared, currentTurn, cancelled, chatting,
                 stopping, failures>>

AwaitSpeech(r) ==
  /\ r \in spoken \/ stopping
  /\ Move(r, "speaking", "settling")
  /\ UNCHANGED <<ear, windows, flags, shared, glue, chatting, stopping, failures>>

Settle(r) ==
  /\ Move(r, "settling", "picking")
  /\ completion' = Nobody
  /\ ignoring' = TRUE /\ resetDetectors' = TRUE
  /\ UNCHANGED <<ear, windows, responseActive, readying, pendingPrompt, followup,
                 allowsFollowup, glue, chatting, stopping, failures>>

(* Under the lock: the request that waits begins before this turn is over.   *)
PickPending(r) ==
  /\ place[r] = "picking"
  /\ pendingPrompt' = Nobody
  /\ readying' = FALSE
  /\ IF pendingPrompt # Nobody /\ ~stopping
       THEN /\ allowsFollowup' = FALSE
            /\ responseActive' = TRUE
            /\ place' = [place EXCEPT ![r] = "done", ![pendingPrompt] = "handling"]
       ELSE /\ place' = [q \in Requests |-> CASE q = r -> "inviting"
                                             [] q = pendingPrompt -> "dropped"
                                             [] OTHER -> place[q]]
            /\ UNCHANGED <<allowsFollowup, responseActive>>
  /\ UNCHANGED <<ear, windows, completion, followup, ignoring, resetDetectors, glue, chatting,
                 stopping, failures>>

(* A reply that allows it invites the user to go on without a wake phrase.   *)
Invite(r) ==
  /\ Move(r, "inviting", "done")
  /\ followup' \in (IF r \in cancelled \/ chatting THEN {followup} ELSE {TRUE, followup})
  /\ UNCHANGED <<ear, windows, flags, pendingPrompt, ignoring, resetDetectors, allowsFollowup,
                 glue, chatting, stopping, failures>>

CompletePrompt(r) ==
  \/ OpenSpeech(r) \/ BeginTurn(r) \/ EndThinking(r) \/ LeaveTurn(r) \/ ReturnReply(r)
  \/ SpeechEnds(r) \/ AwaitSpeech(r) \/ Settle(r) \/ PickPending(r) \/ Invite(r)

VoiceNext ==
  \/ StartListening \/ OpenMicrophone \/ MicrophoneFails \/ StopVoice
  \/ LoopTop \/ ReadAudio \/ Segment \/ Recognise \/ Command \/ Offer
  \/ SilenceSpeech \/ CancelTurn \/ Outcome
  \/ \E r \in Requests : CompletePrompt(r)

VoiceSpec == VoiceInit /\ [][VoiceNext]_voiceVars

-----------------------------------------------------------------------------
InTurn(r) == place[r] \in {"handling", "thinking", "leaving", "returning", "speaking",
                           "settling", "picking"}

(* The listening thread and the ending turn can both start the next turn:    *)
(* two requests are never worked on at once, and a request that waits has a  *)
(* turn that will take it over, it is not left behind by one that has just   *)
(* ended.                                                                    *)
RequestsTakeTurns ==
  /\ \A q, r \in Requests : InTurn(q) /\ InTurn(r) => q = r
  /\ pendingPrompt # Nobody => \E r \in Requests : InTurn(r)

(* "Got it -- switching to that request": the interruption that a new        *)
(* request causes stops an older turn, not the turn of the request itself.   *)
SwitchKeepsTheRequest ==
  [][\A r \in Requests : CancelTurn /\ ear.switching /\ r \in cancelled' \ cancelled
                            => r # ear.request]_voiceVars
=============================================================================
