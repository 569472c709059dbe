----------------------------- MODULE ChatService -----------------------------
(***************************************************************************)
(* A chat turn (chat.py respond): the hybrid client streams the reply of     *)
(* the cloud and, when the cloud cannot be reached before a word was         *)
(* seen, that of the local model (ai/hybrid_client.py); the clients of       *)
(* both stop at a cancelled turn, a broken connection or a stream            *)
(* without its completion record.  The finished reply joins a bounded        *)
(* history that the reports of tasks and reminders join from their own       *)
(* threads, while the conversation mode changes its bound.                   *)
(***************************************************************************)
EXTENDS Naturals, Sequences, FiniteSets, SequencesExt

CONSTANTS ReplyLength,        \* tokens of a complete reply
          ReadyTurnLimit, ContinuousTurnLimit, CharacterLimit,
          NoteSizes,          \* sizes a report can have
          MaxPrompts,         \* bound: chat turns
          MaxNotes,           \* bound: reports of tasks and reminders
          MaxModeChanges      \* bound: mode changes and clears

ASSUME ChatAssumption ==
    /\ ReplyLength \in Nat \ {0}
    /\ ReadyTurnLimit \in Nat \ {0}
    /\ ContinuousTurnLimit \in Nat /\ ReadyTurnLimit <= ContinuousTurnLimit
    /\ CharacterLimit \in Nat /\ NoteSizes \subseteq Nat \ {0}
    /\ MaxPrompts \in Nat /\ MaxNotes \in Nat /\ MaxModeChanges \in Nat

Providers == {"cloud", "local"}
ChatTurns == 1..MaxPrompts
Note == 0                     \* the turn number of an entry that is a report

VARIABLES
    asking,          \* the chat turn in progress, or the last one
    streaming,       \* the provider whose stream is read, "none", or "over"
    received,        \* what the current provider streamed so far
    visible,         \* visible_output of the hybrid client
    replaced,        \* the cancel event of the turn is set
    seen,            \* turn -> the tokens passed to the user
    ended,           \* turn -> how it ended, "open" before
    turnsKept,       \* ConversationHistory._turns
    continuous,      \* ConversationHistory._continuous
    chatSteps        \* reports and mode changes so far

stream == <<asking, streaming, received, visible>>
historyState == <<turnsKept, continuous>>
chatVars == <<stream, replaced, seen, ended, historyState, chatSteps>>

ChatTypeOK ==
    /\ asking \in 0..MaxPrompts
    /\ streaming \in Providers \cup {"none", "over"}
    /\ received \in Seq(Providers) /\ Len(received) <= ReplyLength
    /\ visible \in BOOLEAN /\ replaced \in BOOLEAN /\ continuous \in BOOLEAN
    /\ seen \in [ChatTurns -> Seq(Providers)]
    /\ ended \in [ChatTurns -> {"open", "answered", "replaced", "failed"}]
    /\ \A i \in DOMAIN turnsKept :
         turnsKept[i].turn \in {Note} \cup ChatTurns /\ turnsKept[i].size \in Nat
    /\ chatSteps \in [notes : 0..MaxNotes, modes : 0..MaxModeChanges]

ChatInit ==
    /\ asking = 0 /\ streaming = "none" /\ received = <<>> /\ visible = FALSE
    /\ replaced = FALSE
    /\ seen = [t \in ChatTurns |-> <<>>]
    /\ ended = [t \in ChatTurns |-> "open"]
    /\ turnsKept = <<>> /\ continuous = FALSE
    /\ chatSteps = [notes |-> 0, modes |-> 0]

(***************************************************************************)
(* ConversationHistory: the newest turns within the limit of the mode, and   *)
(* of these the newest whose characters fit together.                        *)
(***************************************************************************)
TurnLimit(mode) == IF mode THEN ContinuousTurnLimit ELSE ReadyTurnLimit
Characters(turns) == FoldLeft(LAMBDA total, turn : total + turn.size, 0, turns)
Latest(turns, n) == SubSeq(turns, Len(turns) - n + 1, Len(turns))
Fits(turns, mode, n) ==
    n <= TurnLimit(mode) /\ Characters(Latest(turns, n)) <= CharacterLimit
Trimmed(turns, mode) ==
    Latest(turns, CHOOSE n \in 0..Len(turns) :
                    /\ Fits(turns, mode, n)
                    /\ \A k \in (n + 1)..Len(turns) : ~Fits(turns, mode, k))
RecordTurn(entry) == turnsKept' = Trimmed(Append(turnsKept, entry), continuous)

SetContinuous ==
    /\ chatSteps.modes < MaxModeChanges
    /\ chatSteps' = [chatSteps EXCEPT !.modes = @ + 1]
    /\ continuous' = ~continuous
    /\ turnsKept' = Trimmed(turnsKept, continuous')
    /\ UNCHANGED <<stream, replaced, seen, ended>>

ClearHistory ==
    /\ chatSteps.modes < MaxModeChanges
    /\ chatSteps' = [chatSteps EXCEPT !.modes = @ + 1]
    /\ turnsKept' = <<>>
    /\ UNCHANGED <<stream, replaced, seen, ended, continuous>>

(* The report of a finished task or of a reminder, from its own thread.      *)
RecordReport ==
    /\ chatSteps.notes < MaxNotes
    /\ chatSteps' = [chatSteps EXCEPT !.notes = @ + 1]
    /\ \E size \in NoteSizes : RecordTurn([turn |-> Note, text |-> <<>>, size |-> size])
    /\ UNCHANGED <<stream, replaced, seen, ended, continuous>>

(***************************************************************************)
(* The stream of one provider.                                               *)
(***************************************************************************)
OpenProvider(provider) == streaming' = provider /\ received' = <<>>

EndTurn(how) ==
    /\ streaming' = "none"
    /\ ended' = [ended EXCEPT ![asking] = how]
    /\ UNCHANGED <<asking, received, visible, replaced, seen, historyState, chatSteps>>

AskChat ==
    /\ streaming = "none" /\ asking < MaxPrompts
    /\ asking' = asking + 1
    /\ OpenProvider("cloud")
    /\ visible' = FALSE /\ replaced' = FALSE
    /\ UNCHANGED <<seen, ended, historyState, chatSteps>>

ReplaceTurn ==
    /\ streaming # "none"
    /\ replaced' = TRUE
    /\ UNCHANGED <<stream, seen, ended, historyState, chatSteps>>

(* receive, deliver: the token is marked visible before it is seen.          *)
ReceiveToken ==
    /\ streaming \in Providers /\ ~replaced
    /\ Len(received) < ReplyLength
    /\ received' = Append(received, streaming)
    /\ seen' = [seen EXCEPT ![asking] = Append(@, streaming)]
    /\ visible' = (visible \/ streaming = "cloud")
    /\ UNCHANGED <<asking, streaming, replaced, ended, historyState, chatSteps>>

(* The event is looked at before the request, at every line and after the    *)
(* last.  A cancelled fallback is an AIError like any other to the hybrid    *)
(* client, and ends the turn as a failure.                                   *)
StreamCancelled ==
    /\ streaming \in Providers /\ replaced
    /\ EndTurn(IF streaming = "cloud" THEN "replaced" ELSE "failed")

(* Fault: a lost connection after which the local model answers in any case. *)
AnswerAgain ==
    /\ streaming = "cloud"
    /\ OpenProvider("local")
    /\ UNCHANGED <<asking, visible, replaced, seen, ended, historyState, chatSteps>>

(* Rate limit, server error, time-out or a broken connection.                *)
ConnectionLost ==
    \/ /\ streaming = "cloud" /\ ~visible
       /\ OpenProvider("local")
       /\ UNCHANGED <<asking, visible, replaced, seen, ended, historyState, chatSteps>>
    \/ /\ streaming = "cloud" /\ visible
       /\ EndTurn("failed")
    \/ /\ streaming = "local"
       /\ EndTurn("failed")

(* A rejected key, a malformed or oversized item, an error event, a stream   *)
(* that ends without its completion record, or an empty reply.               *)
ProtocolFails ==
    /\ streaming \in Providers
    /\ EndTurn("failed")

StreamEnds ==
    /\ streaming \in Providers /\ ~replaced
    /\ Len(received) = ReplyLength
    /\ streaming' = "over"
    /\ UNCHANGED <<asking, received, visible, replaced, seen, ended, historyState, chatSteps>>

RecordReply ==
    /\ streaming = "over"
    /\ RecordTurn([turn |-> asking, text |-> received, size |-> ReplyLength])
    /\ streaming' = "none"
    /\ ended' = [ended EXCEPT ![asking] = "answered"]
    /\ UNCHANGED <<asking, received, visible, replaced, seen, continuous, chatSteps>>

ChatNext ==
    \/ SetContinuous \/ ClearHistory \/ RecordReport
    \/ AskChat \/ ReplaceTurn \/ ReceiveToken
    \/ StreamCancelled \/ ConnectionLost \/ ProtocolFails
    \/ StreamEnds \/ RecordReply

ChatSpec == ChatInit /\ [][ChatNext]_chatVars

(***************************************************************************)
(* What the model is told of the conversation is what was said: a turn in    *)
(* the history was answered, whole, by one provider, in the words the user   *)
(* saw (hybrid_client.py falls back only before visible output; chat.py      *)
(* records after the stream), in the order of the prompts, and the history   *)
(* is within the limits of the mode whatever joins it from other threads.    *)
(***************************************************************************)
HistoryIsWhatWasSaid ==
    /\ \A i \in DOMAIN turnsKept : turnsKept[i].turn # Note =>
         LET turn == turnsKept[i].turn
         IN /\ ended[turn] = "answered"
            /\ turnsKept[i].text = seen[turn]
            /\ Len(seen[turn]) = ReplyLength
            /\ \A j \in DOMAIN turnsKept : turnsKept[j].turn # Note /\ i < j =>
                 turn < turnsKept[j].turn
    /\ Len(turnsKept) <= TurnLimit(continuous)
    /\ Characters(turnsKept) <= CharacterLimit
=============================================================================
