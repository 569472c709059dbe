---------------------------- MODULE SpeechOutput ----------------------------
(***************************************************************************)
(* ron/voice/speech.py: a streaming session takes sentences from the model   *)
(* thread through a bounded queue, and a thread of its own synthesises the   *)
(* next one while the current one plays.  One lock lets one voice speak at   *)
(* a time; short phrases (wake acknowledgements, thinking cues) ask for it   *)
(* from other threads, and an interruption has to reach whoever speaks.      *)
(***************************************************************************)
EXTENDS Integers, Sequences

CONSTANTS MaxSessions, MaxCues,  \* bounds on replies and short phrases
          MaxInterruptions,      \* bound on calls of cancel_current, by stop or not
          ChunkBudget,           \* sentences of each reply: the limit of a cloud turn,
                                 \* or what the character limit leaves
          CloudReplies,          \* replies that a cloud voice speaks
          QueueSize              \* 12 in the code

Sessions == 1..MaxSessions
Cues == (MaxSessions + 1)..(MaxSessions + MaxCues)
Voices == Sessions \cup Cues
Silence == 0
EndOfStream == 0       \* the None that ends a stream

VARIABLES
  feeder,        \* the model thread in a session: what it does under the session lock
  emitted,       \* sentences given to the queue so far
  chunks,        \* the queue
  closed, cancel,
  player,        \* where the thread of a session, or the caller of speak, is
  inHand,        \* the sentence a session is synthesising or playing
  ahead,         \* what it has fetched ahead of it
  played,        \* sentences played
  failed, done,
  speechLock, activeStop, session,   \* _lock, _active_stop_event, _current_session
  canceller,     \* cancel_current: what it read, and how far it is
  silenced,      \* history: calls of cancel_current that have happened
  quiet          \* _stop

feed == <<feeder, emitted, closed>>
playing == <<player, inHand, ahead, played, failed, done>>
owners == <<speechLock, activeStop, session>>
speechVars == <<feed, chunks, cancel, playing, owners, canceller, silenced, quiet>>

ASSUME SpeechAssumption ==
  /\ MaxSessions \in Nat /\ MaxCues \in Nat /\ QueueSize \in Nat \ {0}
  /\ MaxInterruptions \in Nat
  /\ ChunkBudget \in [Sessions -> Nat]

Nothing == -1
Idle == [at |-> "idle", session |-> Silence, voice |-> Silence]

SpeechTypeOK ==
  /\ feeder \in [Sessions -> {"none", "open", "putting", "flushing", "closing", "over"}]
  /\ \A s \in Sessions : emitted[s] <= ChunkBudget[s]
  /\ \A s \in Sessions : Len(chunks[s]) <= QueueSize
  /\ closed \subseteq Sessions /\ cancel \subseteq Voices
  /\ player \in [Voices -> {"off", "first", "wait", "synthesise", "play", "next", "release",
                            "finish", "over"}]
  /\ inHand \in [Sessions -> Nat] /\ ahead \in [Sessions -> Nat \cup {Nothing}]
  /\ played \in [Sessions -> Nat]
  /\ failed \subseteq Sessions /\ done \subseteq Sessions
  /\ speechLock \in Voices \cup {Silence} /\ activeStop \in Voices \cup {Silence}
  /\ session \in Sessions \cup {Silence}
  /\ canceller \in [at : {"idle", "flag", "close", "stop"}, session : Sessions \cup {Silence},
                    voice : Voices \cup {Silence}]
  /\ silenced \in 0..MaxInterruptions /\ quiet \in BOOLEAN

SpeechInit ==
  /\ feeder = [s \in Sessions |-> "none"] /\ emitted = [s \in Sessions |-> 0]
  /\ chunks = [s \in Sessions |-> <<>>]
  /\ closed = {} /\ cancel = {}
  /\ player = [v \in Voices |-> "off"]
  /\ inHand = [s \in Sessions |-> 0] /\ ahead = [s \in Sessions |-> Nothing]
  /\ played = [s \in Sessions |-> 0]
  /\ failed = {} /\ done = {}
  /\ speechLock = Silence /\ activeStop = Silence /\ session = Silence
  /\ canceller = Idle /\ silenced = 0 /\ quiet = FALSE

Play(v, place) == player' = [player EXCEPT ![v] = place]
SessionLocked(s) == s # Silence /\ feeder[s] \in {"putting", "flushing", "closing"}

-----------------------------------------------------------------------------
\* The model thread: open_stream, feed and finish.

(* A new reply cancels the session before it.                                *)
OpenStream(s) ==
  /\ feeder[s] = "none" /\ \A q \in 1..(s - 1) : feeder[q] = "over"
  /\ feeder' = [feeder EXCEPT ![s] = "open"]
  /\ cancel' = cancel \cup ({session} \ {Silence})
  /\ closed' = closed \cup ({session} \ {Silence})
  /\ chunks' = [q \in Sessions |->
                  IF q = session /\ q \notin closed /\ Len(chunks[q]) < QueueSize
                    THEN Append(chunks[q], EndOfStream) ELSE chunks[q]]
  /\ session' = s
  /\ Play(s, "first")
  /\ UNCHANGED <<emitted, inHand, ahead, played, failed, done, speechLock, activeStop,
                 canceller, silenced, quiet>>

(* _emit: a cancelled session, or one that has used its limit up, drops it.  *)
Emit(s) ==
  /\ s \notin cancel
  /\ emitted[s] < ChunkBudget[s]
  /\ emitted' = [emitted EXCEPT ![s] = @ + 1]

(* A cloud turn keeps its last request for the end of the reply.             *)
EarlySentence(s) == s \in CloudReplies => emitted[s] < ChunkBudget[s] - 1

Feed(s) ==
  /\ feeder[s] = "open" /\ s \notin closed
  /\ EarlySentence(s) /\ Emit(s)
  /\ feeder' = [feeder EXCEPT ![s] = "putting"]
  /\ UNCHANGED <<closed, chunks, cancel, playing, owners, canceller, silenced, quiet>>

(* The reply ends; the text that is left becomes its last sentences.         *)
Finish(s) ==
  /\ feeder[s] = "open"
  /\ IF s \in closed
       THEN feeder' = [feeder EXCEPT ![s] = "over"] /\ UNCHANGED emitted
       ELSE \/ feeder' = [feeder EXCEPT ![s] = "closing"] /\ UNCHANGED emitted
            \/ feeder' = [feeder EXCEPT ![s] = "flushing"] /\ Emit(s)
  /\ UNCHANGED <<closed, chunks, cancel, playing, owners, canceller, silenced, quiet>>

(* A cancelled turn gives its session up.                                    *)
Abandon(s) ==
  /\ feeder[s] = "open"
  /\ feeder' = [feeder EXCEPT ![s] = "over"]
  /\ cancel' = cancel \cup {s} /\ closed' = closed \cup {s}
  /\ chunks' = [chunks EXCEPT ![s] = IF s \notin closed /\ Len(@) < QueueSize
                                       THEN Append(@, EndOfStream) ELSE @]
  /\ UNCHANGED <<emitted, playing, owners, canceller, silenced, quiet>>

\* Fault: a full queue drops the sentence.
PutOrDrop(s, item) ==
  chunks' = [chunks EXCEPT ![s] = IF Len(@) < QueueSize THEN Append(@, item) ELSE @]

(* _put waits for room until the session is cancelled or speech is stopped.  *)
Put(s, item) ==
  \/ Len(chunks[s]) < QueueSize /\ chunks' = [chunks EXCEPT ![s] = Append(@, item)]
  \/ Len(chunks[s]) = QueueSize /\ s \in cancel /\ UNCHANGED chunks
  \/ quiet /\ UNCHANGED chunks

PutNext(s) ==
  /\ \/ /\ feeder[s] = "putting" /\ Put(s, emitted[s])
        /\ feeder' = [feeder EXCEPT ![s] = "open"]
        /\ UNCHANGED closed
     \/ /\ feeder[s] = "flushing" /\ Put(s, emitted[s])
        /\ feeder' = [feeder EXCEPT ![s] = "closing"]
        /\ UNCHANGED closed
     \/ /\ feeder[s] = "closing" /\ Put(s, EndOfStream)
        /\ feeder' = [feeder EXCEPT ![s] = "over"]
        /\ closed' = closed \cup {s}
  /\ UNCHANGED <<emitted, cancel, playing, owners, canceller, silenced, quiet>>

-----------------------------------------------------------------------------
\* The thread of a session: _play_stream and the generators under it.

Halted(s) == s \in cancel \/ quiet

(* Every voice failed, the fallback speaks at another sample rate than the   *)
(* stream that is open, or the device failed.                                *)
Fail(s) == Play(s, "release") /\ failed' = failed \cup {s}

(* Before the first sentence the speech lock is left to short phrases.       *)
FirstText(s) ==
  /\ player[s] = "first"
  /\ \/ /\ Halted(s) /\ Play(s, "finish")
        /\ UNCHANGED <<chunks, inHand>>
     \/ /\ ~Halted(s) /\ chunks[s] # <<>>
        /\ chunks' = [chunks EXCEPT ![s] = Tail(@)]
        /\ inHand' = [inHand EXCEPT ![s] = Head(chunks[s])]
        /\ Play(s, IF Head(chunks[s]) = EndOfStream THEN "finish" ELSE "wait")
  /\ UNCHANGED <<feed, cancel, ahead, played, failed, done, owners, canceller, silenced, quiet>>

\* Fault: the stop event is published before the lock is taken.
AnnounceEarly(v) ==
  /\ player[v] = "wait"
  /\ IF activeStop # v
       THEN activeStop' = v /\ UNCHANGED <<speechLock, player>>
       ELSE /\ speechLock = Silence /\ speechLock' = v
            /\ Play(v, IF v \in Cues THEN "play" ELSE "synthesise")
            /\ UNCHANGED activeStop
  /\ UNCHANGED <<feed, chunks, cancel, inHand, ahead, played, failed, done, session,
                 canceller, silenced, quiet>>

(* A session and a caller of speak take the speech lock in the same way.     *)
TakeVoice(v) ==
  /\ player[v] = "wait" /\ speechLock = Silence
  /\ speechLock' = v /\ activeStop' = v
  /\ Play(v, IF v \in Cues THEN "play" ELSE "synthesise")
  /\ UNCHANGED <<feed, chunks, cancel, inHand, ahead, played, failed, done, session,
                 canceller, silenced, quiet>>

FirstAudio(s) ==
  /\ player[s] = "synthesise"
  /\ \/ /\ Halted(s) /\ Play(s, "release")
        /\ UNCHANGED failed
     \/ /\ ~Halted(s) /\ Play(s, "play")
        /\ UNCHANGED failed
     \/ Fail(s)
  /\ UNCHANGED <<feed, chunks, cancel, inHand, ahead, played, done, owners, canceller,
                 silenced, quiet>>

(* The helper thread takes the next sentence while this one plays.           *)
FetchAhead(s) ==
  /\ player[s] \in {"play", "next"} /\ ahead[s] = Nothing /\ chunks[s] # <<>> /\ ~Halted(s)
  /\ ahead' = [ahead EXCEPT ![s] = Head(chunks[s])]
  /\ chunks' = [chunks EXCEPT ![s] = Tail(@)]
  /\ UNCHANGED <<feed, cancel, player, inHand, played, failed, done, owners, canceller,
                 silenced, quiet>>

PlayOne(s) ==
  /\ player[s] = "play" /\ s \in Sessions
  /\ \/ /\ ~Halted(s) /\ Play(s, "next")
        /\ played' = [played EXCEPT ![s] = @ + 1]
        /\ UNCHANGED failed
     \/ /\ Halted(s) /\ Play(s, "release")
        /\ UNCHANGED <<played, failed>>
     \/ Fail(s) /\ UNCHANGED played
  /\ UNCHANGED <<feed, chunks, cancel, inHand, ahead, done, owners, canceller, silenced, quiet>>

NextAudio(s) ==
  /\ player[s] = "next"
  /\ \/ /\ Halted(s) /\ Play(s, "release")
        /\ UNCHANGED <<inHand, ahead, failed>>
     \/ /\ ahead[s] = EndOfStream /\ Play(s, "release")
        /\ UNCHANGED <<inHand, ahead, failed>>
     \/ /\ ahead[s] > EndOfStream
        /\ inHand' = [inHand EXCEPT ![s] = ahead[s]]
        /\ ahead' = [ahead EXCEPT ![s] = Nothing]
        /\ Play(s, "play")
        /\ UNCHANGED failed
     \/ /\ ahead[s] > EndOfStream /\ Fail(s)
        /\ UNCHANGED <<inHand, ahead>>
  /\ UNCHANGED <<feed, chunks, cancel, played, done, owners, canceller, silenced, quiet>>

(* Only its own stop event is forgotten.                                     *)
Release(v) ==
  /\ player[v] = "release"
  /\ speechLock' = Silence
  /\ activeStop' = IF activeStop = v THEN Silence ELSE activeStop
  /\ Play(v, IF v \in Cues THEN "over" ELSE "finish")
  /\ UNCHANGED <<feed, chunks, cancel, inHand, ahead, played, failed, done, session,
                 canceller, silenced, quiet>>

StreamFinished(s) ==
  /\ player[s] = "finish"
  /\ IF s \notin done
       THEN done' = done \cup {s} /\ UNCHANGED <<session, player>>
       ELSE /\ session' = IF session = s THEN Silence ELSE session
            /\ Play(s, "over")
            /\ UNCHANGED done
  /\ inHand' = [inHand EXCEPT ![s] = 0] /\ ahead' = [ahead EXCEPT ![s] = Nothing]
  /\ UNCHANGED <<feed, chunks, cancel, played, failed, speechLock, activeStop, canceller,
                 silenced, quiet>>

-----------------------------------------------------------------------------
\* speak, cancel_current and stop.

Speak(c) ==
  /\ player[c] = "off" /\ ~quiet
  /\ Play(c, "wait")
  /\ UNCHANGED <<feed, chunks, cancel, inHand, ahead, played, failed, done, owners, canceller,
                 silenced, quiet>>

SpeakEnds(c) ==
  /\ player[c] = "play" /\ c \in Cues
  /\ Play(c, "release")
  /\ UNCHANGED <<feed, chunks, cancel, inHand, ahead, played, failed, done, owners, canceller,
                 silenced, quiet>>

(* Both slots are read under the session lock; stop sets its flag first.     *)
CancelCurrent(stopping) ==
  /\ canceller.at = "idle" /\ silenced < MaxInterruptions
  /\ canceller' = [at |-> "flag", session |-> session, voice |-> activeStop]
  /\ silenced' = silenced + 1
  /\ quiet' = (quiet \/ stopping)
  /\ UNCHANGED <<feed, chunks, cancel, playing, owners>>

(* StreamingSpeechSession.cancel: the flag first, then the lock.             *)
FlagSession ==
  /\ canceller.at = "flag"
  /\ LET s == canceller.session
     IN IF s = Silence \/ s \in cancel
          THEN /\ canceller' = [canceller EXCEPT !.at = "stop"] /\ UNCHANGED cancel
          ELSE /\ canceller' = [canceller EXCEPT !.at = "close"] /\ cancel' = cancel \cup {s}
  /\ UNCHANGED <<feed, chunks, playing, owners, silenced, quiet>>

CloseSession ==
  /\ canceller.at = "close" /\ ~SessionLocked(canceller.session)
  /\ LET s == canceller.session
     IN IF s \in closed THEN UNCHANGED <<closed, chunks>>
        ELSE closed' = closed \cup {s} /\ Put(s, EndOfStream)
  /\ canceller' = [canceller EXCEPT !.at = "stop"]
  /\ UNCHANGED <<feeder, emitted, cancel, playing, owners, silenced, quiet>>

StopVoiceEvent ==
  /\ canceller.at = "stop"
  /\ cancel' = cancel \cup ({canceller.voice} \ {Silence})
  /\ canceller' = Idle
  /\ UNCHANGED <<feed, chunks, playing, owners, silenced, quiet>>

SpeechNext ==
  \/ \E s \in Sessions :
       \/ OpenStream(s) \/ Feed(s) \/ Finish(s) \/ Abandon(s) \/ PutNext(s)
       \/ FirstText(s) \/ FirstAudio(s) \/ FetchAhead(s) \/ PlayOne(s) \/ NextAudio(s)
       \/ StreamFinished(s)
  \/ \E v \in Voices : TakeVoice(v) \/ Release(v)
  \/ \E c \in Cues : Speak(c) \/ SpeakEnds(c)
  \/ CancelCurrent(FALSE) \/ CancelCurrent(TRUE) \/ FlagSession \/ CloseSession \/ StopVoiceEvent

SpeechSpec == SpeechInit /\ [][SpeechNext]_speechVars

-----------------------------------------------------------------------------
(* A reply that ended by itself was spoken to its last sentence, in order,   *)
(* whatever the model, the player and the other voices did meanwhile.        *)
NothingIsLeftUnsaid ==
  \A s \in Sessions :
    /\ player[s] = "play" => inHand[s] = played[s] + 1
    /\ s \in done /\ s \notin cancel \cup failed /\ ~quiet => played[s] = emitted[s]

(* An interruption reaches whoever speaks: a voice that holds the lock is    *)
(* the one whose stop event cancel_current finds, and a reply in progress    *)
(* that does not hold it yet is the current session.                         *)
InterruptionReaches ==
  /\ \A v \in Voices : player[v] \in {"synthesise", "play", "next"} => activeStop = v
  /\ \A s \in Sessions : player[s] \in {"first", "wait"} => session = s \/ s \in cancel
=============================================================================
