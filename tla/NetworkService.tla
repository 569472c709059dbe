--------------------------- MODULE NetworkService ---------------------------
(***************************************************************************)
(* ron/network: what Ron believes about a device of the local network (the   *)
(* tablet).  Two threads report: the tablet's link (connected, heartbeat,    *)
(* disconnected) and the network worker, which lets silent devices age and   *)
(* looks for devices by broadcast.  Each report reads the registry, writes   *)
(* it and publishes the transition in steps of its own; only a single        *)
(* registry call is under the lock.  The age of the last sign of life        *)
(* takes the three values the worker distinguishes.                          *)
(***************************************************************************)
EXTENDS Integers

CONSTANTS MaxReports, MaxTicks   \* bounds on reports of the link, and on time

ASSUME NetworkAssumption == MaxReports \in Nat /\ MaxTicks \in Nat

VARIABLES
  device,      \* the entry of the registry
  link, scan,  \* what the link's thread and the worker are doing
  linkUp,      \* the tablet is connected
  available, networkStarted,
  told,        \* the state of the last event published
  contended,   \* history: an update while the other thread was in the middle of a report
  linkReports, ticks

networkVars == <<device, link, scan, linkUp, available, networkStarted, told, contended,
                 linkReports, ticks>>

Presence == {"unknown", "online", "degraded", "offline"}
Ages == {"never", "fresh", "late", "gone"}
Entry == [state : Presence, trusted : BOOLEAN, reachable : BOOLEAN, responsive : BOOLEAN,
          age : Ages]
AtRest == [at |-> "rest"]

NetworkTypeOK ==
  /\ device \in Entry /\ told \in Presence
  /\ link \in {AtRest} \cup [at : {"registered"}] \cup [at : {"publish"}, state : Presence]
  /\ scan \in {AtRest} \cup [at : {"ageing", "found", "registered"}, copy : Entry]
                \cup [at : {"publish"}, state : Presence]
  /\ <<linkUp, available, networkStarted, contended>> \in BOOLEAN \X BOOLEAN \X BOOLEAN \X BOOLEAN
  /\ linkReports \in 0..MaxReports /\ ticks \in 0..MaxTicks

NetworkInit ==
  /\ device = [state |-> "unknown", trusted |-> FALSE, reachable |-> FALSE,
               responsive |-> FALSE, age |-> "never"]
  /\ link = AtRest /\ scan = AtRest /\ linkUp = FALSE
  /\ available = FALSE /\ networkStarted = FALSE
  /\ told = "unknown" /\ contended = FALSE
  /\ linkReports = 0 /\ ticks = 0

\* _publish_transition: what is left to say after an update to "entry".
ToPublish(entry) == IF entry.state = device.state THEN AtRest
                    ELSE [at |-> "publish", state |-> entry.state]

Update(entry, other) == device' = entry /\ contended' = (contended \/ other # AtRest)

-----------------------------------------------------------------------------
\* The thread of the tablet's link.

Report == linkReports < MaxReports /\ link = AtRest /\ linkReports' = linkReports + 1

\* note_device_connected: register, then update_presence.
NoteConnected ==
  /\ Report /\ ~linkUp /\ linkUp' = TRUE /\ available' = TRUE
  /\ Update([device EXCEPT !.trusted = TRUE], scan)
  /\ link' = [at |-> "registered"]
  /\ UNCHANGED <<scan, networkStarted, told, ticks>>

Online == [state |-> "online", trusted |-> TRUE, reachable |-> TRUE, responsive |-> TRUE,
           age |-> "fresh"]

ConnectedPresence ==
  /\ link.at = "registered"
  /\ Update(Online, scan) /\ link' = ToPublish(Online)
  /\ UNCHANGED <<scan, linkUp, available, networkStarted, told, linkReports, ticks>>

NoteHeartbeat ==
  /\ Report /\ linkUp
  /\ LET entry == [Online EXCEPT !.trusted = device.trusted]
     IN Update(entry, scan) /\ link' = ToPublish(entry)
  /\ UNCHANGED <<scan, linkUp, available, networkStarted, told, ticks>>

NoteDisconnected ==
  /\ Report /\ linkUp /\ linkUp' = FALSE
  /\ LET entry == [device EXCEPT !.state = "degraded", !.responsive = FALSE]
     IN Update(entry, scan) /\ link' = ToPublish(entry)
  /\ UNCHANGED <<scan, available, networkStarted, told, ticks>>

PublishReport ==
  /\ link.at = "publish" /\ told' = link.state /\ link' = AtRest
  /\ UNCHANGED <<device, scan, linkUp, available, networkStarted, contended, linkReports, ticks>>

-----------------------------------------------------------------------------
\* The network worker.

\* _age_devices: a copy of the registry decides what is written to it.
Aged(entry) ==
  CASE entry.age = "gone" -> [entry EXCEPT !.state = "offline", !.reachable = FALSE,
                                           !.responsive = FALSE]
    [] entry.age = "late" -> [entry EXCEPT !.state = "degraded", !.responsive = FALSE]
    [] OTHER -> entry

ReadAges ==
  /\ networkStarted /\ scan = AtRest /\ Aged(device).state # device.state
  /\ scan' = [at |-> "ageing", copy |-> device]
  /\ UNCHANGED <<device, link, linkUp, available, networkStarted, told, contended, linkReports, ticks>>

AgeDevice ==
  /\ scan.at = "ageing"
  /\ LET seen == Aged(scan.copy)
         entry == [device EXCEPT !.state = seen.state, !.reachable = seen.reachable,
                                 !.responsive = FALSE,
                                 !.age = IF seen.reachable THEN "fresh" ELSE @]
     IN Update(entry, link) /\ scan' = ToPublish(entry)
  /\ UNCHANGED <<link, linkUp, available, networkStarted, told, linkReports, ticks>>

\* A reply to the broadcast; or the broadcast fails.
Discovered ==
  /\ networkStarted /\ scan = AtRest
  /\ \/ available' = TRUE /\ scan' = [at |-> "found", copy |-> device]
     \/ available' = FALSE /\ UNCHANGED scan
  /\ UNCHANGED <<device, link, linkUp, networkStarted, told, contended, linkReports, ticks>>

RegisterFound ==
  /\ scan.at = "found"
  /\ Update([device EXCEPT !.trusted = @ \/ scan.copy.trusted], link)
  /\ scan' = [scan EXCEPT !.at = "registered"]
  /\ UNCHANGED <<link, linkUp, available, networkStarted, told, linkReports, ticks>>

\* Fault: an answer is taken for a working service.
FoundOnline(copy) == [Online EXCEPT !.trusted = copy.trusted]
\* The presence of a device that answered the broadcast.
Found(copy) == [state |-> IF copy.state = "online" THEN "online" ELSE "degraded",
                trusted |-> copy.trusted, reachable |-> TRUE,
                responsive |-> copy.responsive, age |-> "fresh"]

NoteDiscovery ==
  /\ scan.at = "registered"
  /\ Update(Found(scan.copy), link) /\ scan' = ToPublish(Found(scan.copy))
  /\ UNCHANGED <<link, linkUp, available, networkStarted, told, linkReports, ticks>>

PublishScan ==
  /\ scan.at = "publish" /\ told' = scan.state /\ scan' = AtRest
  /\ UNCHANGED <<device, link, linkUp, available, networkStarted, contended, linkReports, ticks>>

-----------------------------------------------------------------------------
\* The application and time.

StartNetwork ==
  /\ ~networkStarted /\ networkStarted' = TRUE /\ available' = TRUE
  /\ UNCHANGED <<device, link, scan, linkUp, told, contended, linkReports, ticks>>

StopNetwork ==
  /\ networkStarted /\ networkStarted' = FALSE /\ available' = FALSE
  /\ UNCHANGED <<device, link, scan, linkUp, told, contended, linkReports, ticks>>

TimePasses ==
  /\ ticks < MaxTicks /\ ticks' = ticks + 1 /\ device.age \in {"fresh", "late"}
  /\ device' = [device EXCEPT !.age = IF @ = "fresh" THEN "late" ELSE "gone"]
  /\ UNCHANGED <<link, scan, linkUp, available, networkStarted, told, contended, linkReports>>

NetworkNext ==
  \/ NoteConnected \/ ConnectedPresence \/ NoteHeartbeat \/ NoteDisconnected \/ PublishReport
  \/ ReadAges \/ AgeDevice \/ Discovered \/ RegisterFound \/ NoteDiscovery \/ PublishScan
  \/ StartNetwork \/ StopNetwork \/ TimePasses

NetworkSpec == NetworkInit /\ [][NetworkNext]_networkVars

\* Unless reports of the two threads met, a device is online only while its
\* link is up, offline only after silence, trusted as long as it is connected,
\* and the last event told everyone the state it is in.
PresenceIsTrue ==
  (link = AtRest /\ scan = AtRest /\ ~contended) =>
     /\ device.state = "online" => linkUp /\ device.responsive
     /\ device.responsive => linkUp
     /\ device.state = "offline" => device.age = "gone"
     /\ linkUp => device.trusted
     /\ told = device.state
=============================================================================
