----------------------------- MODULE Lifecycle -----------------------------
(***************************************************************************)
(* The life of the process (app.py, terminal.py) and the background archive  *)
(* of performance records (health.py), whose stop is the delicate one:       *)
(* the main thread starts the services, serves the terminal, and stops the   *)
(* services, any of which Ctrl+C may cut short; a voice turn that ends       *)
(* leaves a record, even when the voice service has been stopped meanwhile;  *)
(* the archive's worker writes the records to the storage.                   *)
(*                                                                           *)
(* A record is its number in the order in which the archive accepted it.     *)
(***************************************************************************)
EXTENDS Naturals, Sequences, FiniteSets, SequencesExt

CONSTANTS MaximumPending,  \* PerformanceArchive.maximum_pending
          MaxRecords,      \* bound: voice turns
          MaxSignals,      \* bound: SIGINT and SIGTERM
          MaxLines         \* bound: lines typed into the terminal

ASSUME LifecycleAssumption ==
    MaximumPending \in Nat \ {0} /\ MaxRecords \in Nat /\ MaxSignals \in Nat /\ MaxLines \in Nat

VARIABLES
    lifecycle,      \* where the main thread is
    position,       \* the next service of start or stop
    up,             \* services started and not stopped
    shutdown,       \* _shutdown
    prompt,         \* the terminal loop
    archiveQueue,   \* PerformanceArchive._queue
    archiveWorker,  \* its thread: state, and the record it writes
    archiveStop,    \* how far PerformanceArchive.stop is
    openTurns,      \* voice turns, or their ends, still in a thread
    accepted,       \* history: records put into the queue
    handled,        \* history: records whose write returned or failed
    displaced,      \* history: records that stop took out of the queue
    owed,           \* history: records accepted before the sentinel
    rushed,         \* history: the join of the worker timed out
    signals, turnsBegun, lines

lifecycleVars == <<lifecycle, position, up, shutdown, prompt, archiveQueue, archiveWorker,
                   archiveStop, openTurns, accepted, handled, displaced, owed, rushed,
                   signals, turnsBegun, lines>>

mainVars == <<lifecycle, position, up, shutdown, prompt>>
archiveVars == <<archiveQueue, archiveWorker, archiveStop, accepted, handled, displaced,
                 owed, rushed>>
outsideVars == <<signals, openTurns, turnsBegun, lines>>

StartOrder == <<"storage", "archive", "reminders", "agent", "network", "face", "speech", "voice">>
StopOrder  == <<"speech", "voice", "face", "network", "agent", "reminders", "archive", "storage">>

Sentinel == 0
WaitingWorker == [state |-> "waiting", record |-> Sentinel]

LifecycleTypeOK ==
    /\ lifecycle \in {"built", "starting", "running", "stopping", "stopped", "exited"}
    /\ position \in 1..(Len(StartOrder) + 1)
    /\ up \subseteq ToSet(StartOrder)
    /\ shutdown \in BOOLEAN
    /\ prompt \in {"check", "reading", "responding"}
    /\ archiveQueue \in Seq(0..MaxRecords) /\ Len(archiveQueue) <= MaximumPending
    /\ archiveWorker \in [state : {"none", "waiting", "writing", "ended"}, record : 0..MaxRecords]
    /\ archiveStop \in {"no", "told", "made_room", "joining"}
    /\ openTurns \in 0..MaxRecords /\ accepted \in 0..MaxRecords
    /\ displaced \subseteq 1..MaxRecords
    /\ owed \in 0..MaxRecords /\ rushed \in BOOLEAN

LifecycleInit ==
    /\ lifecycle = "built" /\ position = 1
    /\ up = {}
    /\ shutdown = FALSE /\ prompt = "check"
    /\ archiveQueue = <<>>
    /\ archiveWorker = [WaitingWorker EXCEPT !.state = "none"]
    /\ archiveStop = "no"
    /\ accepted = 0 /\ handled = <<>> /\ displaced = {}
    /\ owed = 0 /\ rushed = FALSE
    /\ signals = 0 /\ openTurns = 0 /\ turnsBegun = 0 /\ lines = 0

(***************************************************************************)
(* start, one service at a time.  Only the network's failure is caught;      *)
(* another one, and Ctrl+C, leaves start and with it the process, because    *)
(* run calls start outside of its try.                                       *)
(***************************************************************************)
BeginStart ==
    /\ lifecycle = "built"
    /\ lifecycle' = "starting"
    /\ UNCHANGED <<position, up, shutdown, prompt>>
    /\ UNCHANGED archiveVars /\ UNCHANGED outsideVars

StartService ==
    /\ lifecycle = "starting" /\ position <= Len(StartOrder)
    /\ LET service == StartOrder[position]
       IN /\ \/ up' = up \cup {service}
             \/ service = "network" /\ UNCHANGED up
          /\ archiveWorker' = IF service = "archive" THEN WaitingWorker ELSE archiveWorker
    /\ position' = position + 1
    /\ UNCHANGED <<lifecycle, shutdown, prompt, archiveQueue, archiveStop, accepted, handled, displaced,
                   owed, rushed>>
    /\ UNCHANGED outsideVars

StartFails ==
    /\ lifecycle = "starting" /\ position <= Len(StartOrder)
    /\ StartOrder[position] # "network"
    /\ lifecycle' = "exited"
    /\ UNCHANGED <<position, up, shutdown, prompt>>
    /\ UNCHANGED archiveVars /\ UNCHANGED outsideVars

(* The last notices, _started, and the try of run.                           *)
FinishStart ==
    /\ lifecycle = "starting" /\ position > Len(StartOrder)
    /\ lifecycle' = "running" /\ position' = 1
    /\ UNCHANGED <<up, shutdown, prompt>>
    /\ UNCHANGED archiveVars /\ UNCHANGED outsideVars

(***************************************************************************)
(* TerminalChat.run: the shutdown event is looked at before every line; the  *)
(* end of the input and /quit leave the loop.                                *)
(***************************************************************************)
LookAtShutdown ==
    /\ lifecycle = "running" /\ prompt = "check"
    /\ IF shutdown THEN lifecycle' = "stopping" /\ UNCHANGED prompt
                   ELSE prompt' = "reading" /\ UNCHANGED lifecycle
    /\ UNCHANGED <<position, up, shutdown>>
    /\ UNCHANGED archiveVars /\ UNCHANGED outsideVars

ReadLine ==
    /\ lifecycle = "running" /\ prompt = "reading"
    /\ \/ /\ lines < MaxLines
          /\ lines' = lines + 1
          /\ prompt' \in {"check", "responding"}
          /\ UNCHANGED lifecycle
       \/ lifecycle' = "stopping" /\ UNCHANGED <<prompt, lines>>
    /\ UNCHANGED <<position, up, shutdown, signals, openTurns, turnsBegun>>
    /\ UNCHANGED archiveVars

Responded ==
    /\ lifecycle = "running" /\ prompt = "responding"
    /\ prompt' = "check"
    /\ UNCHANGED <<lifecycle, position, up, shutdown>>
    /\ UNCHANGED archiveVars /\ UNCHANGED outsideVars

ShutdownEvent ==
    /\ lifecycle = "running" /\ ~shutdown
    /\ shutdown' = TRUE
    /\ UNCHANGED <<lifecycle, position, up, prompt>>
    /\ UNCHANGED archiveVars /\ UNCHANGED outsideVars

(* The handler sets the event and raises KeyboardInterrupt wherever the main *)
(* thread is.  The loop keeps it from leaving while a reply is made; start   *)
(* and stop do not, and what stop had left to do is not done.                *)
Signal ==
    /\ lifecycle \in {"built", "starting", "running", "stopping"} /\ signals < MaxSignals
    /\ signals' = signals + 1
    /\ shutdown' = TRUE
    /\ CASE lifecycle = "running" /\ prompt = "responding" ->
              prompt' = "check" /\ UNCHANGED lifecycle
         [] lifecycle = "running" /\ prompt # "responding" ->
              lifecycle' = "stopping" /\ UNCHANGED prompt
         [] OTHER -> lifecycle' = "exited" /\ UNCHANGED prompt
    /\ UNCHANGED <<position, up, openTurns, turnsBegun, lines>>
    /\ UNCHANGED archiveVars

(***************************************************************************)
(* stop, one service at a time, in StopOrder.                                *)
(***************************************************************************)
ServiceStopped ==
    /\ up' = up \ {StopOrder[position]}
    /\ IF position < Len(StopOrder)
       THEN position' = position + 1 /\ UNCHANGED lifecycle
       ELSE lifecycle' = "stopped" /\ UNCHANGED position
    /\ UNCHANGED <<shutdown, prompt>>

StopService ==
    /\ lifecycle = "stopping" /\ StopOrder[position] # "archive"
    /\ ServiceStopped
    /\ UNCHANGED archiveVars /\ UNCHANGED outsideVars

StoppingArchive == lifecycle = "stopping" /\ StopOrder[position] = "archive"

PutSentinel ==
    /\ Len(archiveQueue) < MaximumPending
    /\ archiveQueue' = Append(archiveQueue, Sentinel)
    /\ archiveStop' = "joining"
    /\ owed' = accepted

TellArchive ==
    /\ StoppingArchive /\ archiveStop = "no"
    /\ \/ PutSentinel
       \/ /\ Len(archiveQueue) = MaximumPending
          /\ archiveStop' = "told"
          /\ UNCHANGED <<archiveQueue, owed>>
    /\ UNCHANGED <<archiveWorker, accepted, handled, displaced, rushed>>
    /\ UNCHANGED mainVars /\ UNCHANGED outsideVars

(* A full queue gives up its oldest record, unless the worker has just       *)
(* emptied it.                                                               *)
MakeRoom ==
    /\ StoppingArchive /\ archiveStop = "told"
    /\ archiveStop' = "made_room"
    /\ IF archiveQueue = <<>> THEN UNCHANGED <<archiveQueue, displaced>>
       ELSE /\ displaced' = displaced \cup {Head(archiveQueue)}
            /\ archiveQueue' = Tail(archiveQueue)
    /\ UNCHANGED <<archiveWorker, accepted, handled, owed, rushed>>
    /\ UNCHANGED mainVars /\ UNCHANGED outsideVars

(* A turn may have filled the queue again: Full leaves stop, and the storage *)
(* is never told.                                                            *)
TellArchiveAgain ==
    /\ StoppingArchive /\ archiveStop = "made_room"
    /\ \/ PutSentinel /\ UNCHANGED lifecycle
       \/ /\ Len(archiveQueue) = MaximumPending
          /\ lifecycle' = "exited"
          /\ UNCHANGED <<archiveQueue, archiveStop, owed>>
    /\ UNCHANGED <<position, up, shutdown, prompt, archiveWorker, accepted, handled,
                   displaced, rushed>>
    /\ UNCHANGED outsideVars

(* join(3.0) returns when the worker has ended, or after its time.           *)
JoinArchive ==
    /\ StoppingArchive /\ archiveStop = "joining"
    /\ rushed' = (archiveWorker.state # "ended")
    /\ ServiceStopped
    /\ UNCHANGED <<archiveQueue, archiveWorker, archiveStop, accepted, handled, displaced, owed>>
    /\ UNCHANGED outsideVars

ProcessEnds ==
    /\ lifecycle = "stopped"
    /\ lifecycle' = "exited"
    /\ UNCHANGED <<position, up, shutdown, prompt>>
    /\ UNCHANGED archiveVars /\ UNCHANGED outsideVars

(***************************************************************************)
(* Voice turns: each ends with latency.finish, in its own thread or in one   *)
(* that waits for the sound, and with it PerformanceArchive.record.          *)
(***************************************************************************)
Alive == lifecycle # "exited"

TurnBegins ==
    /\ Alive /\ "voice" \in up /\ turnsBegun < MaxRecords
    /\ turnsBegun' = turnsBegun + 1
    /\ openTurns' = openTurns + 1
    /\ UNCHANGED <<signals, lines>>
    /\ UNCHANGED mainVars /\ UNCHANGED archiveVars

ArchiveRecord ==
    /\ Alive /\ openTurns > 0
    /\ openTurns' = openTurns - 1
    /\ \/ /\ Len(archiveQueue) < MaximumPending
          /\ accepted' = accepted + 1
          /\ archiveQueue' = Append(archiveQueue, accepted + 1)
       \/ /\ Len(archiveQueue) = MaximumPending
          /\ UNCHANGED <<accepted, archiveQueue>>
    /\ UNCHANGED <<archiveWorker, archiveStop, handled, displaced, owed, rushed>>
    /\ UNCHANGED <<signals, turnsBegun, lines>>
    /\ UNCHANGED mainVars

(***************************************************************************)
(* PerformanceArchive._run.                                                  *)
(***************************************************************************)
NextState(entry) ==
    IF entry = Sentinel THEN [state |-> "ended", record |-> Sentinel]
                        ELSE [state |-> "writing", record |-> entry]

Take ==
    /\ Alive /\ archiveWorker.state = "waiting" /\ archiveQueue # <<>>
    /\ archiveWorker' = NextState(Head(archiveQueue))
    /\ archiveQueue' = Tail(archiveQueue)
    /\ UNCHANGED <<archiveStop, accepted, handled, displaced, owed, rushed>>
    /\ UNCHANGED mainVars /\ UNCHANGED outsideVars

(* Fault: a worker that puts a record back when its write fails.            *)
WriteOrPutBack ==
    /\ Alive /\ archiveWorker.state = "writing"
    /\ \/ handled' = Append(handled, archiveWorker.record) /\ UNCHANGED archiveQueue
       \/ /\ Len(archiveQueue) < MaximumPending
          /\ archiveQueue' = Append(archiveQueue, archiveWorker.record)
          /\ UNCHANGED handled
    /\ archiveWorker' = WaitingWorker
    /\ UNCHANGED <<archiveStop, accepted, displaced, owed, rushed>>
    /\ UNCHANGED mainVars /\ UNCHANGED outsideVars

(* save_json returns, or its failure is logged: the worker goes on.          *)
WriteRecord ==
    /\ Alive /\ archiveWorker.state = "writing"
    /\ handled' = Append(handled, archiveWorker.record)
    /\ archiveWorker' = WaitingWorker
    /\ UNCHANGED <<archiveQueue, archiveStop, accepted, displaced, owed, rushed>>
    /\ UNCHANGED mainVars /\ UNCHANGED outsideVars

LifecycleNext ==
    \/ BeginStart \/ StartService \/ StartFails \/ FinishStart
    \/ LookAtShutdown \/ ReadLine \/ Responded \/ ShutdownEvent \/ Signal
    \/ StopService \/ TellArchive \/ MakeRoom \/ TellArchiveAgain \/ JoinArchive \/ ProcessEnds
    \/ TurnBegins \/ ArchiveRecord
    \/ Take \/ WriteRecord

LifecycleSpec == LifecycleInit /\ [][LifecycleNext]_lifecycleVars

(***************************************************************************)
(* The archive keeps what it accepted: records are written one after the     *)
(* other without a gap, but for the one that a full queue gave up for the    *)
(* sentinel; a write finds the storage started; and when stop has come to    *)
(* its end, everything accepted before the sentinel has been dealt with.     *)
(* The last two hold unless the worker did not end within the three seconds  *)
(* of the join.                                                              *)
(***************************************************************************)
InLine(i) == IF \E d \in displaced : d <= i THEN i + 1 ELSE i

RecordsAreKept ==
    /\ \A d, e \in displaced : d = e
    /\ \A i \in DOMAIN handled : handled[i] = InLine(i) /\ handled[i] <= accepted
    /\ ~rushed => /\ archiveWorker.state = "writing" => "storage" \in up
                  /\ lifecycle = "stopped" => 1..owed \subseteq ToSet(handled) \cup displaced
=============================================================================
