----------------------------- MODULE TabletLink -----------------------------
(***************************************************************************)
(* The link between ron/display/tablet_client.py and the tablet              *)
(* (SignalServer.java with MainActivity.java).  Threads of Ron publish       *)
(* what the face should show: each writes the state, takes a sequence        *)
(* number and queues the message, under three different locks.  One worker   *)
(* connects, sends a snapshot of the state (read before its number is        *)
(* taken) and then the queue.  The tablet takes a message only if its        *)
(* number is above the last one of this connection.  The face can also       *)
(* change at the tablet: a tap wakes it, heat or a flat battery puts it to   *)
(* sleep, a lost link lets it fall back to idle and then to sleep.           *)
(* Heartbeats and timeouts are abstracted to LinkFails, which may happen     *)
(* whenever a connection exists; mouth movements (speech_level) are left     *)
(* out: they are unnumbered and only animate a face that speaks.             *)
(***************************************************************************)
EXTENDS Integers, Sequences

CONSTANTS Publishers,       \* threads of Ron that publish to the face
          Published,        \* what they publish
          PendingSize,      \* capacity of the queue (128 in the code)
          MaxPublications,  \* bound on publications
          MaxLinkFailures,  \* bound on lost connections and restarts
          MaxTabletEvents   \* bound on taps and on protective sleeps

Expressions == {"idle", "thinking", "sleeping", "speaking"}
Events == {"idle", "thinking", "sleeping", "speech_started", "speech_ended"}
FaceStates == [expression : Expressions, active : BOOLEAN]
Awake == [expression |-> "idle", active |-> FALSE]

\* The queue has room for a message (128 in the code).
ASSUME TabletAssumption ==
  /\ Published \subseteq Events
  /\ PendingSize \in Nat \ {0} /\ MaxPublications \in Nat
  /\ MaxLinkFailures \in Nat /\ MaxTabletEvents \in Nat

VARIABLES
  face,            \* _state: what Ron wants the tablet to show
  sequence,        \* the last number taken
  publisher,       \* where each publishing thread is
  pending,         \* the queue of numbered messages
  worker,          \* the connection worker
  wire, uplink,    \* messages to the tablet (old connections included) and back
  lastReliable,    \* the last number the tablet took on this connection
  computerConnected,
  shown,           \* the face on the tablet
  fallback,        \* delayed actions of the tablet after a lost link
  protective,      \* protective sleep of the tablet
  offlineSaid,     \* the user was told that the face is offline
  muddled,         \* history: publications overlapped (see Overlap)
  published, linkFailures, tabletEvents

ronSide == <<face, sequence, publisher, pending, worker, offlineSaid>>
tabletSide == <<lastReliable, computerConnected, shown, fallback, protective>>
bounds == <<published, linkFailures, tabletEvents>>
tabletVars == <<ronSide, wire, uplink, tabletSide, muddled, bounds>>

Numbered == [type : {"snapshot"}, number : Nat, face : FaceStates]
              \cup [type : Events, number : Nat]
Marks == {[type |-> "hello"], [type |-> "eof"]}
Resting == [at |-> "rest"]

TabletTypeOK ==
  /\ face \in FaceStates /\ shown \in FaceStates
  /\ sequence \in Nat /\ lastReliable \in Nat \cup {-1}
  /\ publisher \in [Publishers -> {Resting} \cup [at : {"wrote"}, event : Events]
                      \cup [at : {"numbered"}, message : Numbered]
                      \cup [at : {"overflow"}, face : FaceStates]]
  /\ pending \in Seq(Numbered) /\ Len(pending) <= PendingSize
  /\ worker \in [at : {"down", "handshake", "ready", "loop"}]
                  \cup [at : {"snapshot"}, face : FaceStates]
  /\ wire \in Seq(Numbered \cup Marks)
  /\ uplink \in Seq({"ready", "request_snapshot", "face_wake"})
  /\ computerConnected \in BOOLEAN /\ protective \in BOOLEAN
  /\ fallback \subseteq {"idle", "sleeping"}
  /\ offlineSaid \in BOOLEAN /\ muddled \in BOOLEAN
  /\ published \in 0..MaxPublications /\ linkFailures \in 0..MaxLinkFailures
  /\ tabletEvents \in 0..MaxTabletEvents

TabletInit ==
  /\ face = Awake /\ shown = Awake /\ sequence = 0 /\ lastReliable = -1
  /\ publisher = [p \in Publishers |-> Resting]
  /\ pending = <<>> /\ worker = [at |-> "down"] /\ wire = <<>> /\ uplink = <<>>
  /\ computerConnected = FALSE /\ fallback = {} /\ protective = FALSE
  /\ offlineSaid = FALSE /\ muddled = FALSE
  /\ published = 0 /\ linkFailures = 0 /\ tabletEvents = 0

At(p, place_) == publisher[p].at = place_
Step(p, to) == publisher' = [publisher EXCEPT ![p] = to]
PendingLocked == \E p \in Publishers : At(p, "overflow")
Publishing == \E p \in Publishers : At(p, "wrote")
Reading == worker.at = "snapshot" \/ PendingLocked
WakeOnItsWay == \E i \in DOMAIN uplink : uplink[i] = "face_wake"
InFlight == \/ wire # <<>> \/ pending # <<>> \/ Reading
            \/ \E p \in Publishers : publisher[p] # Resting

\* What a publication makes of the state.
Applied(state, event) ==
  CASE event = "speech_started" -> [expression |-> "speaking", active |-> TRUE]
    [] event = "speech_ended" -> Awake
    [] OTHER -> [state EXCEPT !.expression = event]

\* Two publications overlap when the state is written between the moment a
\* message was made of it and the moment that message is numbered, or around
\* a tap that Ron has not seen yet; or when one of them begins or ends speech
\* and the earlier is numbered but not queued, so that the later may overtake
\* it.  An expression published during speech, or an end of speech after it,
\* is drawn differently from the message and from a snapshot: the last
\* disjuncts leave those sequences out.
Overlap(event) == \/ Publishing \/ Reading \/ WakeOnItsWay
                  \/ \E p \in Publishers :
                        /\ At(p, "numbered")
                        /\ publisher[p].message.type \notin Expressions \/ event = "speech_ended"
                  \/ face.active /\ event \in Expressions
                  \/ ~face.active /\ event = "speech_ended" /\ face # Awake

-----------------------------------------------------------------------------
\* Publishing threads.

\* set_expression, speech_started, speech_ended: the state is written under its lock.
Write(p) ==
  /\ At(p, "rest") /\ published < MaxPublications
  /\ \E event \in Published :
       /\ face' = Applied(face, event)
       /\ Step(p, [at |-> "wrote", event |-> event])
       /\ muddled' = (muddled \/ Overlap(event))
  /\ published' = published + 1
  /\ UNCHANGED <<sequence, pending, worker, offlineSaid, wire, uplink, tabletSide,
                 linkFailures, tabletEvents>>

TakeNumber(p) ==
  /\ At(p, "wrote")
  /\ sequence' = sequence + 1
  /\ Step(p, [at |-> "numbered",
              message |-> [type |-> publisher[p].event, number |-> sequence + 1]])
  /\ UNCHANGED <<face, pending, worker, offlineSaid, wire, uplink, tabletSide, muddled, bounds>>

\* The pending lock is kept while a full queue is replaced by a snapshot.
Enqueue(p) ==
  /\ At(p, "numbered") /\ ~PendingLocked
  /\ \/ /\ Len(pending) < PendingSize
        /\ pending' = Append(pending, publisher[p].message)
        /\ Step(p, Resting)
     \/ /\ Len(pending) = PendingSize
        /\ pending' = <<>>
        /\ Step(p, [at |-> "overflow", face |-> face])
  /\ UNCHANGED <<face, sequence, worker, offlineSaid, wire, uplink, tabletSide, muddled, bounds>>

Snapshot(state) == [type |-> "snapshot", number |-> sequence + 1, face |-> state]

OverflowSnapshot(p) ==
  /\ At(p, "overflow")
  /\ sequence' = sequence + 1
  /\ pending' = <<Snapshot(publisher[p].face)>>
  /\ Step(p, Resting)
  /\ UNCHANGED <<face, worker, offlineSaid, wire, uplink, tabletSide, muddled, bounds>>

-----------------------------------------------------------------------------
\* The connection worker.

Worker(to) == worker' = [at |-> to]
Current == worker.at # "down"

Connect ==
  /\ worker.at = "down"
  /\ Worker("handshake")
  /\ wire' = Append(wire, [type |-> "hello"])
  /\ UNCHANGED <<face, sequence, publisher, pending, offlineSaid, uplink, tabletSide, muddled, bounds>>

HandshakeDone ==
  /\ worker.at = "handshake" /\ uplink # <<>> /\ Head(uplink) = "ready" /\ ~PendingLocked
  /\ uplink' = Tail(uplink)
  /\ pending' = <<>>
  /\ Worker("ready")
  /\ UNCHANGED <<face, sequence, publisher, offlineSaid, wire, tabletSide, muddled, bounds>>

\* The first half of _build_snapshot_message: the state, not yet the number.
ReadState ==
  /\ worker' = [at |-> "snapshot", face |-> face]
  /\ muddled' = \/ muddled /\ (Publishing \/ PendingLocked)
                \/ WakeOnItsWay
                \/ face.active # (face.expression = "speaking")

FirstSnapshot ==
  /\ worker.at = "ready" /\ ReadState
  /\ UNCHANGED <<face, sequence, publisher, pending, offlineSaid, wire, uplink, tabletSide, bounds>>

\* Sent; on a new connection the worker is READY with it.
SendSnapshot ==
  /\ worker.at = "snapshot"
  /\ sequence' = sequence + 1
  /\ wire' = Append(wire, Snapshot(worker.face))
  /\ Worker("loop") /\ offlineSaid' = FALSE
  /\ UNCHANGED <<face, publisher, pending, uplink, tabletSide, muddled, bounds>>

FlushReliable ==
  /\ worker.at = "loop" /\ pending # <<>> /\ ~PendingLocked
  /\ wire' = Append(wire, Head(pending)) /\ pending' = Tail(pending)
  /\ UNCHANGED <<face, sequence, publisher, worker, offlineSaid, uplink, tabletSide, muddled, bounds>>

RequestedSnapshot ==
  /\ worker.at = "loop" /\ uplink # <<>> /\ Head(uplink) = "request_snapshot"
  /\ uplink' = Tail(uplink)
  /\ ReadState
  /\ UNCHANGED <<face, sequence, publisher, pending, offlineSaid, wire, tabletSide, bounds>>

HandleFaceWake ==
  /\ worker.at = "loop" /\ uplink # <<>> /\ Head(uplink) = "face_wake"
  /\ uplink' = Tail(uplink)
  /\ face' = IF face.expression = "sleeping" THEN Awake ELSE face
  /\ UNCHANGED <<sequence, publisher, pending, worker, offlineSaid, wire, tabletSide, muddled, bounds>>

Breaks(stream) == {i \in DOMAIN stream : stream[i].type = "eof"}

\* The connection ends: the tablet may still read a part of what was sent.
Broken ==
  /\ \E n \in 0..Len(wire) :
       /\ \A i \in Breaks(wire) : i <= n
       /\ wire' = Append(SubSeq(wire, 1, n), [type |-> "eof"])
  /\ uplink' = <<>>

LinkFails ==
  /\ Current /\ linkFailures < MaxLinkFailures
  /\ Broken /\ Worker("down") /\ offlineSaid' = TRUE
  /\ linkFailures' = linkFailures + 1
  /\ UNCHANGED <<face, sequence, publisher, pending, tabletSide, muddled, published, tabletEvents>>

\* Ron is started again; the tablet stays as it is.
RonRestarts ==
  /\ linkFailures < MaxLinkFailures
  /\ IF Current THEN Broken ELSE UNCHANGED <<wire, uplink>>
  /\ face' = Awake /\ sequence' = 0 /\ pending' = <<>> /\ Worker("down")
  /\ publisher' = [p \in Publishers |-> Resting]
  /\ offlineSaid' = FALSE /\ muddled' = FALSE
  /\ linkFailures' = linkFailures + 1
  /\ UNCHANGED <<tabletSide, published, tabletEvents>>

-----------------------------------------------------------------------------
\* The tablet.

\* What it makes of its state for a message.
Drawn(state, message) ==
  CASE message.type = "snapshot" ->
         IF message.face.active THEN [expression |-> "speaking", active |-> TRUE]
         ELSE IF message.face.expression = "speaking" THEN Awake
         ELSE message.face
    [] message.type = "speech_started" -> [expression |-> "speaking", active |-> TRUE]
    [] message.type = "speech_ended" ->
         IF state.expression = "speaking" THEN Awake
         ELSE [expression |-> state.expression, active |-> FALSE]
    [] OTHER -> [state EXCEPT !.expression = message.type]

Protected(state) == IF protective THEN [state EXCEPT !.expression = "sleeping"] ELSE state
AcceptReliable(message) == message.number > lastReliable

Receive ==
  /\ wire # <<>> /\ Head(wire).type \notin {"hello", "eof"}
  /\ wire' = Tail(wire)
  /\ IF AcceptReliable(Head(wire))
     THEN lastReliable' = Head(wire).number /\ shown' = Protected(Drawn(shown, Head(wire)))
     ELSE UNCHANGED <<lastReliable, shown>>
  /\ UNCHANGED <<ronSide, uplink, computerConnected, fallback, protective, muddled, bounds>>

\* Fault: the number of an old connection also filters the new one.
KeepsNumbers ==
  /\ wire # <<>> /\ Head(wire).type = "hello"
  /\ wire' = Tail(wire)
  /\ computerConnected' = TRUE /\ fallback' = {}
  /\ uplink' = IF Breaks(wire) = {} THEN Append(uplink, "ready") ELSE uplink
  /\ UNCHANGED <<ronSide, lastReliable, shown, protective, muddled, bounds>>

Authenticate ==
  /\ wire # <<>> /\ Head(wire).type = "hello"
  /\ wire' = Tail(wire)
  /\ lastReliable' = -1 /\ computerConnected' = TRUE /\ fallback' = {}
  /\ uplink' = IF Breaks(wire) = {} THEN Append(uplink, "ready") ELSE uplink
  /\ UNCHANGED <<ronSide, shown, protective, muddled, bounds>>

\* A tablet whose greeting never arrived keeps its numbers and arms nothing.
ClientGone ==
  /\ wire # <<>> /\ Head(wire).type = "eof"
  /\ wire' = Tail(wire) /\ computerConnected' = FALSE
  /\ IF ~computerConnected THEN UNCHANGED <<shown, fallback>>
     ELSE IF protective
          THEN shown' = [expression |-> "sleeping", active |-> FALSE] /\ fallback' = {}
          ELSE shown' = [expression |-> shown.expression, active |-> FALSE] /\ fallback' = {"idle", "sleeping"}
  /\ UNCHANGED <<ronSide, uplink, lastReliable, protective, muddled, bounds>>

\* 0.8 seconds after the loss the face is idle, after five minutes it sleeps.
FallBack ==
  /\ \E expression \in fallback :
       /\ expression = "sleeping" => "idle" \notin fallback
       /\ shown' = [shown EXCEPT !.expression = expression]
       /\ fallback' = fallback \ {expression}
  /\ UNCHANGED <<ronSide, wire, uplink, lastReliable, computerConnected, protective, muddled, bounds>>

Reply(message) ==
  uplink' = IF computerConnected /\ Current /\ Breaks(wire) = {}
            THEN Append(uplink, message) ELSE uplink

Tap ==
  /\ tabletEvents < MaxTabletEvents /\ tabletEvents' = tabletEvents + 1
  /\ ~protective /\ shown.expression = "sleeping"
  /\ shown' = [shown EXCEPT !.expression = "idle"]
  /\ Reply("face_wake") /\ muddled' = (muddled \/ InFlight)
  /\ UNCHANGED <<ronSide, wire, lastReliable, computerConnected, fallback, protective,
                 published, linkFailures>>

OnBatteryHealth ==
  /\ tabletEvents < MaxTabletEvents \/ protective
  /\ tabletEvents' = IF protective THEN tabletEvents ELSE tabletEvents + 1
  /\ protective' = ~protective
  /\ shown' = [shown EXCEPT !.expression = IF protective THEN "idle" ELSE "sleeping"]
  /\ IF protective THEN Reply("request_snapshot") ELSE UNCHANGED uplink
  /\ UNCHANGED <<ronSide, wire, lastReliable, computerConnected, fallback, muddled,
                 published, linkFailures>>

-----------------------------------------------------------------------------
TabletNext ==
  \/ \E p \in Publishers : Write(p) \/ TakeNumber(p) \/ Enqueue(p) \/ OverflowSnapshot(p)
  \/ Connect \/ HandshakeDone \/ FirstSnapshot \/ SendSnapshot \/ FlushReliable
  \/ RequestedSnapshot \/ HandleFaceWake \/ LinkFails \/ RonRestarts
  \/ Receive \/ Authenticate \/ ClientGone \/ FallBack \/ Tap \/ OnBatteryHealth

TabletSpec == TabletInit /\ [][TabletNext]_tabletVars

\* Once everything sent on a connection has arrived, the tablet shows what Ron
\* wants it to show, however connections, restarts, taps and protective sleeps
\* followed each other, unless publications overlapped (see Overlap).
Settled == worker.at = "loop" /\ ~InFlight /\ uplink = <<>>
ResynchronisedFace == Settled /\ ~muddled /\ ~protective => shown = face

=============================================================================
