# A TLA+ model of Ron

Ron is a local personal assistant: a Python process with a terminal, a voice
pipeline, background agent tasks, reminders, long-term memory on an external
drive, and an Android tablet as its face. Most of its code is sequential. The
parts that go wrong in ways a test hardly reaches are those where several
threads meet, where a step is undone, where the process dies between two writes,
or where a drive disappears. These modules model those parts, TLC explores them
on small instances, and TLAPS proves the central results for every instance.

Paths are relative to the repository; `ron/x.py` is the Python package.

## 1. Inventory

### The components and their state

| Component | Code | State it keeps | Operations |
|---|---|---|---|
| Inference scheduler | `ron/ai/scheduler.py` | heap of tickets, tie-breaker, active flag, health times; one condition variable | `run`, `status` |
| Agent task manager | `ron/agent/task_manager.py` | table of task records, queue, stop event, notifications, listeners; one manager lock, one lock per record | `start`, `stop`, `submit`, `cancel`, `close_waiting`, `snapshot(s)`, worker `_run`/`_execute`, `_recover` |
| Tool registry | `ron/agent/registry.py` | tool specifications; none per call | `preflight`, `execute`, `compensate` |
| Task journal | `ron/agent/journal.py` | SQLite `agent_tasks`, one row per task | `save` (upsert), `load_recent` |
| Agent service | `ron/agent/service.py` | pending confirmation (90 s), pending clarification (120 s), plans of submitted tasks, last successful plans | `claims_interaction`, `respond`, `_capture_task_result` |
| Planner | `ron/agent/planner.py` | the newest successful actions with their age, their version, plans prepared under that version | `can_handle`, `plan_steps`, `record_success` |
| Routing | `ron/routing.py` | none; asks the planner and the classifier | `route` |
| Tools | `ron/agent/tools/*` | per tool: volume, brightness, Spotify session | handlers and compensators |
| Reminders | `ron/reminders.py` | SQLite `reminders`, version counter, stop flag, notifications | `create`, `cancel`, `list_recent`, worker `_run`, `start`, `stop` |
| Storage manager | `ron/storage/*.py` | state and root of the drive, binding file, SQLite queue of writes and deletions, fallback copies | `save_bytes`, `read_bytes`, `delete`, `refresh_once`, `sync_pending`, monitor thread |
| Memory | `ron/memory/*.py` | SQLite catalog, core settings, visual records, session | `remember`, `forget`, `recall`, context |
| Chat, assistant turn | `ron/chat.py`, `assistant.py` | bounded history, turn lock | one conversation turn at a time |
| AI clients | `ron/ai/*_client.py` | HTTP sessions, fallback state | chat with fallback from cloud to local |
| Spotify | `ron/integrations/spotify`, `ron/agent/tools/spotify.py` | the token file | authorised requests, token refresh |
| Voice | `ron/voice/service.py`, `voice/audio.py` | listening windows, the active and the pending request, frame queue, resampler, pre-roll | listen, recognise, dispatch, follow up, interrupt |
| Speech | `ron/voice/speech.py` | the current session and its queue, the speech lock, stop events | stream a reply, speak a phrase, cancel |
| Tablet bridge | `ron/display/tablet_client.py` | face state, sequence number, queue, connection | publish, connect, snapshot, flush |
| Tablet | `tablet/app/.../SignalServer.java`, `MainActivity.java`, `FaceAnimator.java` | last sequence number, expression, running animations and callbacks | receive, tap, protect, animate |
| Network | `ron/network/*.py` | the registry of devices with their presence | report, age, discover |
| Application | `ron/app.py`, `terminal.py` | the services in start order, shutdown event | start, run, stop |
| Health and latency | `ron/health.py`, `latency.py` | the archive's queue and worker | record, write, stop |

### How they interact

* A terminal prompt or a voice command becomes one turn of the assistant; the
  turn lock lets one turn run at a time. Tasks, reminders, the storage monitor,
  the tablet and Ctrl+C run beside it on threads of their own.
* Every model request, whoever makes it, passes the inference scheduler.
* The agent service plans a prompt, preflights it, and either runs one step
  itself or submits the steps to the task manager. The manager's worker calls
  the registry, writes a journal row at each transition, and tells listeners;
  the service is one of them and opens a clarification when a task asks.
* Memory writes through the storage manager: `forget` deletes the file first
  and the catalog row afterwards. The performance archive saves through it too.
* Reminders are created and cancelled by a tool (on the task worker or in a
  turn), and announced to listeners from the reminder thread.

### What is hard, and what correctness means

| Component | Hard behaviour | Correct when |
|---|---|---|
| Inference scheduler | threads asleep in `wait`, `notify_all`, Ctrl+C inside `wait` or inside an operation | one request at a time, most urgent first, no lost wake-up, no waiter forgotten |
| Task manager | cancel, close, stop and trim interleave with the worker; compensation; process death between effect and row | steps in order and at most once, undo in reverse, one outcome, promises kept, nothing resumed after a restart |
| Task manager locks | a record's lock and the manager's lock are nested in both orders | nobody waits in a circle |
| Storage manager | the drive vanishes or is exchanged between a look and a use; sync beside save and delete; crash between file, row and copy | nothing saved is lost, nothing forgotten returns, no stranger is written to, the queue drains |
| Reminders | commit and notify are two steps, the sleep is timed, cancel is read-then-write | announced once and on time, a cancelled one is not |
| Agent service | clarifications overwrite each other; deadlines; a task ends before its plan is remembered | a plan that needs a yes runs once per yes, only what succeeded is repeated |
| Planner | the router prepares a plan, the agent takes it later, actions succeed on the worker's thread in between; keys are read before a plan is made | a reference means what was newest since the agent asked, a plan is not made twice for nothing |
| Voice | the listening thread finds a turn active that is ending; the interruption arrives after the lock | one request at a time is worked on, none is left behind |
| Speech | bounded queue between the model thread and the player; three kinds of voices on one lock | a reply is spoken whole and in order, an interruption finds who speaks |
| Tablet bridge and tablet | state, number and queue under three locks; reconnects, restarts on either side; posted callbacks | when everything sent has arrived the face shows what Ron wants |
| Network | copies of a record read before, written after another report | presence agrees with the link |
| Memory | a file and a row joined by nothing; the drive comes and goes; two learners | nothing is forgotten but what the user confirmed, and that for good |
| Chat and AI clients | fallback in the middle of a stream, cancellation, reports from other threads | the history is what was said |
| Spotify | retries of commands, refresh tokens that may be used once, two callers | a call acts once, Ron stays signed in |
| Audio capture | queue overflow below a resampler with memory | one timeline |
| Device tools | relative and toggling changes undone in reverse | rolled back means as before |
| Application, archive | Ctrl+C anywhere; a stop with a full queue; late records | what the archive accepted is written, in order |

`PROJECT.json` lists every hazard with its line and the properties that would
show it going wrong; a hazard without a property says why.

## 2. Modules

| Module | Models | Kind |
|---|---|---|
| `PriorityGate` | the promise of the scheduler to its callers | abstract specification |
| `InferenceScheduler` | `InferenceScheduler.run` as critical sections of one condition | implements `PriorityGate` |
| `InferenceSchedulerProofs` | | theorems |
| `Saga` | what a task may do to the outside world | abstract specification |
| `AgentTaskManager` | the task manager, with execution and compensation of a step from the registry and the rows of the journal | implements `Saga` |
| `AgentTaskManagerProofs` | | theorems |
| `TaskLocks` | the order in which the methods of the manager take its locks | lock scripts |
| `StorageManager` | save, delete, read and the drive monitor | |
| `StorageManagerProofs` | | theorems |
| `ReminderManager` | create, cancel and the timed worker | |
| `ReminderManagerProofs` | | theorems |
| `AgentService` | a turn's decision, confirmation, clarification, repetition, results of tasks | |
| `PromptPlanning` | the router and the planner with its context and its prepared plans | |
| `AgentProofs` | `AgentService` and `PromptPlanning` | theorems |
| `VoiceService` | the listening thread, response threads, replacement and interruption | |
| `SpeechOutput` | streaming sessions, short phrases, the speech lock, `cancel_current` | |
| `TabletLink` | the bridge in Ron, the wire, the signal server and the shown face | |
| `FaceAnimator` | callbacks and animations of eyes and mouth on the tablet | |
| `NetworkService` | presence of a device, reported from two threads | |
| `MemoryService` | remember, learn, forget over archive and catalog | |
| `ChatService` | a chat turn: stream, fallback, cancellation, bounded history | |
| `SpotifyClient` | requests, retries and token refresh of two tools | |
| `AudioCapture` | microphone callback, frame queue, resampler, pre-roll | |
| `DeviceControl` | volume and brightness with their compensators | |
| `Lifecycle` | start, terminal loop, signals, stop, and the performance archive | |
| `ComponentProofs` | nine of the modules above, one part each | theorems |
| `InterfaceProofs` | the two whose states are queues of messages and of samples: `TabletLink` and `AudioCapture` | theorems |
| `MC_Components` | runs one of the thirteen modules from `AgentService` on per behaviour | |
| `CompositionProofs` | the thirteen together, as `MC_Components` runs them | theorem |
| other `MC_*` | values of the constants for TLC | |

The modules of the first half are about the state that tasks, drives and the
database share; each of them has runs of its own. The thirteen from
`AgentService` to `Lifecycle` share no state with each other: where one calls
another (the agent service submits to the task manager, memory saves through the
storage manager, the voice service interrupts a turn) the caller's module has
the callee's promise as its own actions. `MC_Components` therefore chooses a
component in its initial state, lets its actions happen and keeps the variables
of the others unchanged; its states are the disjoint union of theirs, and one
run checks the invariants of all. `CompositionProofs` proves their types of the
same specification.

### InferenceScheduler

One action is one critical section of `run`. `Request` pushes a ticket and
either enters at once or goes to sleep without letting go of the lock; `Wake` is
a notified thread that has the lock again and repeats the loop test; `Succeed`
and `Fail` are the two ways an operation ends, each with a section of its own for
the health fields; `Release` is the `finally` clause with `notify_all`.
`Interrupt` is Ctrl+C, which Python delivers to the main thread: inside `wait` it
leaves `run` with the ticket still in the heap, inside the operation it passes
only the `finally`. The heap is a set of tickets and its head the ticket that
beats all others, which is what the tuples `(priority, sequence, ...)` compare.
`holder` and `enteredAt` are history: which ticket entered, and which tickets
were there when it did.

### AgentTaskManager

The records of `_tasks` are `task`, its keys `tracked`, the SQLite table
`journal`. `pc` walks the worker through `_run`, `_execute`, `registry.execute`,
`_compensate_completed` and `_finish`; each step between two critical sections,
each call of a handler or compensator and each journal write is an action. The
worker holds a record's lock through compensation and announcement in
`_cancel_running` only (`locked`). `submit` is two actions because `start`,
validation and preflight precede its critical section. `_finish` takes a
snapshot, writes it, takes a second one, notifies under the manager's lock and
tells the listeners; these are actions of their own because a cancel fits
between them. A `submit` that trims (`TrimWaitsFor`) takes record locks under
the manager's lock, and whoever cancels a record takes the manager's under that
record's: when the two meet, `stuck` names the record, and from then on nothing
that needs one of the two locks moves (`ManagerFree`, `Free`, `OwnFree`), the
worker included, until a restart. This is the circle that `TaskLocks` explores
on its own. `Restart` is the death of the process at any point and `_recover` of
the next one; a journal call may raise (`Lost`), and the code logs and goes on.

What is abstracted: a step is its kind (without compensator, with one, able to
ask the user), an outcome is what `execute` can return for it, and the outside
world is three histories: handlers run, changes made, compensators run.
Messages, timestamps, arguments and validation are left out. Deadlines are
outcomes a handler may have at any time.

### TaskLocks

The same file once more, for its locks only. A method is the list of
acquisitions and releases it performs, with the manager's lock and one lock per
record; re-entrant acquisitions do not appear. Data and conditions are left out,
each list is a path the method can take.

### StorageManager

`files` holds the drives' contents and `plugged` says which drive is at the
mount point (`RON_STORAGE_PATH`, or the drive letter the locator found). `rows`,
`objects` and `tombs` are the two tables of `queue.sqlite` and the fallback
copies. `state` and `root` are read by clients without the queue lock, so
reading them (`SaveTarget`, `DeleteTarget`) and using them (`SaveWrite`,
`DeleteFile`) are separate actions, and so are writing a fallback copy and its
row, and each of the monitor's reads and writes: discover, identify, bind,
count, recover, and in a sync unlink, forget, read, write, row, copy. `Exchange`
pulls or swaps the drive, `Crash` ends the process (also by an error of the
first look, which `start` makes itself), `Fault` lets one call of the file
system or of SQLite raise, which ends a save or a delete where it stands. One of
these calls, `pending_stats`, is made outside every `try`: its error ends the
monitor's thread (`MonitorDies`), which then looks no more until the next start.
`swapped` is history: drives were exchanged since the monitor last looked. So is
`late`: the paths of calls that had chosen their drive before that look. An
atomic write (`atomic_write_bytes`) is one step. A file is its version;
free-space reserves are a failing call. A path gets a new version only after its
deletion, because the callers put a fresh uuid into every path.

### ReminderManager

The rows, and the worker as `Loop` (observe the version), `Pick` (query and
delay), `Doze` (compare the version, then wait), `Wake`, `Fire` (conditional
UPDATE) and `Put` (notification and listeners). `create` is a commit followed by
a notify, `cancel` a SELECT, an UPDATE and a notify: Python's `sqlite3` opens no
transaction for a SELECT, so other connections may commit in between.
`_change_version` is compared only with the worker's own copy, so `changed` says
whether the two differ. `Tick` is the clock, and time passes only while the
worker sleeps: a turn of its loop takes no time compared with a second.

### AgentService

`turn` is the place of the one turn that the assistant's lock admits; `slots`
are the pending confirmation, the pending clarification and the offer they
stand for. `Utter` is a prompt, `Claim`, `Decide` and `Respond` the branches of
`respond`; `ReadPending`, `Clear` and `Close` are separate because a task that
asks in between (`CaptureTaskResult` on the worker's thread) overwrites the
slot. `Submit` and `Remember` are separate for the same reason: the task may end
first. `AgentTick` is the clock of the two windows, `Replaced` a newer turn,
`Restart` a new process over the old journal. A plan is its kind: one that runs
at once, one that needs a yes, one that may come back with a question.

### PromptPlanning

A prompt is its shape, which is what the router's rules and the planner's
patterns tell apart (talk, a phrase the rules know as an action, a short command
that only the planner can recognise, a request for the classifier, a remark),
and its parts, of which each is a fixed step, a reference to media or to an
application, or something the patterns refuse or leave to the model. `ReadKey`
and `Look` are the read of the cache key and the look under the lock, `Build` one
part of a plan with the context purged of what is too old, `AskModel` and
`ModelAnswers` the two sides of a call to the model, `Keep` the end of
`can_handle` or `plan_steps`. `RecordSuccess` comes from the turn or from the
task worker at any moment: it appends to the context, raises the version and
drops the prepared plans. `begun` and `sure` record how many actions had
succeeded when the turn began and when the agent read its key.

Two consequences of the code are in the model and contradict no document: a plan
without steps is prepared too, so after one failure of the model the same prompt
is talk until an action succeeds or the plan is evicted; and a prepared
reference is used although its action has meanwhile become too old for the
context.

### VoiceService and SpeechOutput

`ear` walks the listening thread through `_listen`, `_process_segment`
and the handling of what was recognised; `place` does the same for the thread of
each request in `_complete_prompt` and in the handler of `app.py`. Recognition
is a choice among its outcomes, and a window that is open may be found expired
at any turn of the loop. The interruption is three steps (`SilenceSpeech`,
`CancelTurn`, `Outcome`) that run after the lock was left, which is what the
finding `voice_switch` is about.

In `SpeechOutput` a reply has a feeding thread (`OpenStream`, `Feed`, `PutNext`,
`Finish`, `Abandon`) and a playing thread that fetches one sentence ahead
(`FirstText`, `TakeVoice`, `FetchAhead`, `PlayOne`, `NextAudio`, `Release`,
`StreamFinished`); short phrases (`Speak`) take the same lock. `cancel_current`
reads the session and the stop event first and acts on them in three further
steps. A failed synthesis or playback is an outcome of each step.

### TabletLink, FaceAnimator, NetworkService

A publication is `Write`, `TakeNumber`, `Enqueue` (or `OverflowSnapshot`), since
the code takes three locks for it; the worker connects, sends a snapshot whose
state it read before it took the number, and flushes. The tablet drops a message
whose number is not above the last one of its connection, asks for a snapshot
when it no longer has to protect itself, and changes its face by itself (`Tap`,
`OnBatteryHealth`, `FallBack`). `muddled` is history: two publications
overlapped, or a message crossed a tap, which the protocol cannot order.
`Overlap` names the cases. One of them was found by a proof that did not go
through: a thread that has the number of a `speech_ended`, but has not queued it,
can be overtaken by another thread's expression; the tablet then drops the end of
speech as old, and shows the new expression as if Ron still spoke.

`FaceAnimator` keeps, of the animator, the posted callbacks and which animations
run on the eyes and the mouth. `NetworkService` splits each report into the
steps between which the other thread can act, and `contended` records that two
reports did meet.

### MemoryService, ChatService, SpotifyClient

`Learn`, `SaveMemory` and `IndexMemory` are the look for an equal summary, the
file and the row; `BeginForget`, `ChooseNumber`, `ConfirmForget`, `KeepMemory`
and `OtherPrompt` the dialogue, `DeleteFile` and `DeleteRow` the two deletions.
The archive is `StorageManager` as its caller meets it: `drive` is what is
plugged in, `storage` what the monitor believes, so that a save or a deletion
can find the drive gone under a belief that it is there. A deletion then counts
as done and takes the tombstone with it (`Strands`), memory removes the row and
says forgotten, and the file returns with the drive: `stranded` records it. A
second drive, and calls that fail after they wrote, are in `StorageManager`
only. The process may die anywhere, and `promised`, `confirmed` and `forgotten`
record what the user was told and said.

In `ChatService` a reply is the sequence of its tokens, each marked with the
provider it came from; `ConnectionLost` falls back to the local model only
before a word was visible. In `SpotifyClient` the service is the environment: it
numbers the tokens, rotates the refresh token or not, and can carry out a
command whose answer is lost. The two tools read and write the one token file in
steps of their own. A save is two of them, since `write_bytes` empties the file
before it writes: after `EmptyFile` a reader finds no sign-in (`Blank`), and the
save may fail there and leave it so; `SaveToken` writes, and mixes with another
save that is under way. `losses` is history: what ended a sign-in, an answer
lost with a new refresh token in it, a save that failed, or two that mixed.

### AudioCapture, DeviceControl, Lifecycle

A sample is its number on the microphone's clock, a resampled one the pair it
lies between and its distance from the left one, so that "one timeline" can be
stated without arithmetic on amplitudes. `DropExcess`, the loop that shortens the
pre-roll, is given by its result: the first chunk that is not dropped whole, cut
by what is still too much, and the chunks after it. `DeviceControl` runs a task of device
steps: a helper call reads the present state, the next one changes it, either
can be refused or act without an answer, and the rollback gives the results back
in reverse. `Lifecycle` walks the main thread through `start`, the terminal's
loop and `stop`, with Ctrl+C at every point, and takes `PerformanceArchive.stop`
apart (flag, sentinel, room, sentinel again, join).

## 3. Runs

Each run is bounded by the constants in its configuration; deadlock is only
looked for where the program may not stop (`MC_TaskLocks.cfg`).

| Run | Property | What it says |
|---|---|---|
| `scheduler` | `OneOperation` | at most one operation, and the flag says so exactly |
| | `NoLostWakeup` | gate free implies the owner of the head is awake |
| | `Implements` | refinement of `PriorityGate`: order of service |
| | `WaiterIsServed` | a waiting thread gets the gate, or Ctrl+C left a dead ticket |
| `tasks` | `CancelKeepsPromise` | "Cancelled before the first step ran." is true and stays true |
| | `JournalAhead` | the row is never more than the step in flight behind the world |
| | `OutcomeJournalled` | a decided outcome is on disk once the worker lets go |
| | `Implements` | refinement of `Saga`: order, at most once, reverse undo |
| | `RolledBack` | a running task that ends badly leaves no change that could be undone, except that of the step in flight |
| | `ClosedIsFinal` | a closed task stays closed, with one exception named below |
| | `OutcomeAnnouncedOnce` | one outcome of a task that ran to an end is announced, and nothing after it, in later runs of the program too if no row was lost |
| `tasks_journal` | `OpenTaskIsTracked` | trimming never hides an open task |
| | `NeverResumed` | recovered work never runs again, even if the journal lost calls |
| `tasks_live` | `TaskSettles`, `WorkerStops` | tasks end or ask, and the worker ends after stop, or two threads hold each other's lock (`stuck`) |
| `storage` | `Durable` | what save accepted is on a drive or in the queue, until delete |
| | `ReadsWhatWasSaved` | a read finds it or says offline, never an older file or deletion, unless the file is on the drive that was taken away |
| | `NoResurrection` | a forgotten file that is gone does not come back |
| | `StrangerRefused` | from the monitor's look to the next exchange no other drive changes, refused or not, but by calls that had chosen it before (`late`) |
| | `QueueDrains` | once the bound drive stays, every queued write and deletion reaches it, or the monitor has died |
| `reminders` | `OnTime` | no second passes over a due reminder while the worker lives |
| | `AnnouncedOnce` | never announced twice, also across restarts |
| | `CancelledStays` | a cancelled row is not fired |
| | `DueIsAnnounced` | every due reminder is announced, cancelled, or the worker ended |
| `components` | `OneRunPerConsent` | a plan that needs a confirmation runs at most once per yes given to that very plan in its 90 seconds |
| | `RepeatsASuccess` | "do that again" repeats a plan that succeeded |
| | `RequestsTakeTurns` | one request is worked on, and one that waits has a turn that will take it |
| | `NothingIsLeftUnsaid` | a reply that ended by itself was spoken whole and in order |
| | `InterruptionReaches` | whoever holds the speech lock, and a reply that does not hold it yet, is found by `cancel_current`; a short phrase still waiting for the lock is not |
| | `ResynchronisedFace` | with nothing on the way the tablet shows what Ron wants, after any reconnects |
| | `FaceComesToRest` | no animation of an earlier expression outlives it |
| | `PresenceIsTrue` | presence agrees with the link and with what was published |
| | `OnlyTheConfirmedIsForgotten` | a remembered memory stays until its own deletion was confirmed; a forgotten one has no row, and no file unless its deletion met a pulled drive |
| | `HistoryIsWhatWasSaid` | the history holds whole replies of one provider, in order, within the mode's limits |
| | `OnceAndStillSignedIn` | a call acts at most once; the sign-in is in the file or in a save unless a named loss ended it, and concurrent refreshes are none if the service replaces refresh tokens |
| | `OneTimeline` | resampling frame by frame equals resampling everything read; the pre-roll is its newest part |
| | `RestoredAsBefore` | a task reported as rolled back left the devices as before |
| | `RecordsAreKept` | the archive handles what it accepted in order, less the one record displaced for the sentinel, on a started storage, and stop waits for it |
| | `NewestIsMeant` | a plan about to run refers to what was newest of its kind at a moment since the agent asked for it |
| | `TypesOK` | every queue within its capacity, every place within its type |

The type invariants of the components, whose conjuncts include the limits of the
queues, are checked together as `TypesOK`, and proved together; so are those of
the scheduler, the task manager, the storage and the reminders. Every property has a fault, defined just before
the definition it replaces, that breaks it in the same configuration.

### Where code and documents disagree

| Run | Property | What it shows |
|---|---|---|
| `cancel_rollback` | `CancelledIsRolledBack` | `cancel` of a task that waits for an answer closes it without compensators; the steps it completed stay. `docs/AI_ARCHITECTURE.md` promises rollback on cancellation. |
| `task_locks` | `NobodyWaitsInACircle` | `submit` takes record locks under the manager's lock (`_trim_locked`), `cancel` and the worker take the manager's under a record's. Two threads can wait for each other forever. |
| `storage_forget` | `ForgottenIsDeleted` | a delete between the unplugging and the monitor's next look sees a missing file, counts it as deleted and leaves no tombstone; the file returns with the drive. |
| `reminders_cancel` | `CancelledIsSilent` | a reminder that fires between the SELECT and the UPDATE of `cancel` is announced and reported as cancelled. |
| `voice_switch` | `SwitchKeepsTheRequest` | the listening thread accepts a request while a turn is ending and says it switches to it; the interruption it sends afterwards cancels that very request. |

The passing properties name the other odd corners they allow, so that they are
not hidden: a task cancelled while the worker is between taking and starting it
is opened once more and then cancelled again (`ClosedIsFinal`); the change of a
step whose finished result the registry discards is not undone (`RolledBack`);
for the seconds between an exchange of drives and the monitor's next look a
write may reach the stranger, and so may, after the look, a save or delete that
had chosen its target before (`StrangerRefused`, `ReadsWhatWasSaved`); an error
of the database in `pending_stats` ends the monitor's thread, and what is queued
then waits for the next start (`QueueDrains`); the circle of `task_locks` stops
the worker and whoever calls the manager for good (`TaskSettles`,
`WorkerStops`); a reminder marked as fired when the process dies is not
announced (`DueIsAnnounced`). In the components: publications that overlap, or
cross a tap, may leave the tablet behind until the next one (`muddled` in
`ResynchronisedFace`); reports of link and worker that meet may leave a stale
presence (`contended` in `PresenceIsTrue`); a lost answer to a token refresh, a
save of the token file that fails after it emptied it, and two saves that mix
sign Ron out (`losses` in `OnceAndStillSignedIn`); a memory whose deletion met a
pulled drive is reported forgotten and its file returns (`stranded` in
`OnlyTheConfirmedIsForgotten`, the case of `storage_forget`); a helper that acts
and does not answer is not compensated, and a change the user makes is
overwritten by the rollback (`unanswered`, `touches` in `RestoredAsBefore`); a
worker slower than the join of three seconds writes after stop (`rushed` in
`RecordsAreKept`). A reply whose playback fails while the model goes on fills
the queue of twelve and blocks its thread with the turn lock held
(`speech.py:560`): the model has that state. The nearest sentence of the
documents is a criterion for accepting voice on the target computer
(`docs/VOICE_ARCHITECTURE.md:199`: terminal input survives every simulated voice
failure), a goal and not a description of the code, so no run refutes it.

### Bounds, and why they are enough

* `scheduler`: three threads, three priorities, four calls. Lost wake-ups need
  one holder and two sleepers; the fourth call overtakes.
* `tasks`: two tasks with a plan of two reversible steps and one that may ask,
  one restart. Three steps are the least in which two undos have an order; two
  tasks let one close, trim or be submitted while the other runs. The queue holds
  one, so that it fills.
* `tasks_journal`: three tasks of one step, retention of one, one failing journal
  call, one restart: trimming needs three tasks, numbering again over lost rows
  needs the failure.
* `tasks_live`: two tasks of one step and one stop.
* `storage`: two paths, a queue for one of them, two saves over all paths (both
  paths, or one again after its deletion), two drives, two exchanges (in and out,
  or home to stranger), one failing call, one death.
* `reminders`: two reminders, due before or after the longest sleep of two ticks,
  one end of the worker (stop, exception or death).
* `components`: two plans, two tasks and three turns (ask, answer, ask again)
  with windows of one and two ticks and one restart; two requests, one
  microphone failure; two replies of one and two sentences over a queue of one,
  a short phrase and an interruption; two publishers with two publications
  (an expression, a beginning or an end of speech) over a queue of one, one lost
  link, one event at the tablet; five expressions, one
  of each way to move eyes and mouth; four reports over three ages; three facts
  (one a secret, one passing), two memories, two drive changes, one death;
  replies of two tokens, histories of one and two turns; three tokens, one
  poll for a device; rates below, at and above the target, frames shorter and longer than
  the ring, a queue of two; levels 0 to 2 with a relative step that overshoots,
  two steps; seven prompts and three deeds over a context of two actions that
  lasts one tick, one prepared plan, three turns and two successes, so that an
  action can succeed before and after the agent reads its key; an archive queue
  of two with four records, which is what a second full queue needs, and two
  signals. Each history is long enough for its loop
  to close once and begin again with the leftovers of the first round.
* `voice_switch`: two requests.
* `task_locks`: two callers and the worker over two records.

### Fairness

* Scheduler: each thread is scheduled when it can move, and operations end since
  clients put timeouts on requests. New requests and Ctrl+C owe nothing.
* Tasks: the worker moves when the locks it needs are free, since handlers are
  bounded by deadlines, and `stop` walks its list to the end. Weak fairness of
  the worker promises nothing in the circle of two locks: there its next step is
  not enabled, and the two properties exempt the circle by name. Users and
  crashes owe nothing.
* Storage: the monitor looks again every `check_interval_seconds`, as long as its
  thread lives, and calls that began return. Saves, deletions and exchanges need
  not happen; `QueueDrains` assumes that the bound drive is in place from some
  moment on.
* Reminders: the worker is scheduled and the clock runs. A create that has
  committed need not come to its notify.
* The components are checked for safety only.

## 4. Proofs

`InferenceSchedulerProofs` proves, for any threads, priorities and number of
calls, under `SchedulerAssumption`:

* `TypeCorrect`, `MutualExclusion` (`OneOperation`), `PriorityRespected`
  (`HolderWasMostUrgent`), `WakeupsKept` (`NoLostWakeup`);
* `GateImplemented`: the protocol implements `PriorityGate`.

`NoLostWakeup` is not inductive alone: that the head's owner is awake after a
release needs that sleepers own exactly one ticket each. The invariant `IInv`
adds `TicketsInv` (tickets in the heap are older than the counter, distinct in
number, and every thread inside `wait` owns exactly its own) and `HolderInv`
(the holder's ticket is older than the counter at its entry). One lemma per
action preserves it; two facts about the order of tickets (`BeatsTotal`,
`TicketFields`) are shared.

`AgentTaskManagerProofs` proves, for any number of tasks, plans, stops, restarts
and failing journal calls, under `ManagerAssumption`:

* `TypeCorrect`, `PromiseKept` (`CancelKeepsPromise`);
* `SagaImplemented`: the manager implements `Saga`.

The invariant is `TypeOK /\ WorkerInv /\ QueueInv /\ PromiseInv`. `WorkerInv`
ties the worker's place in the code to the step, the handlers run so far and the
undos still to come; `QueueInv` says that a queued number is a task that has not
run and occurs once, which is what "at most once" rests on; `PromiseInv` says
that a promised task carries its cancel flag or can no longer reach its first
step. The step lemmas are grouped by who acts (`OutsideStep`, `FetchStep`,
`ExecutionStep`), and refinement follows step by step.

The second half of the module goes on from that invariant: `OpenIsTracked`
(`OpenTaskIsTracked`), `JournalKeepsUp` (`JournalAhead`), `OutcomeIsJournalled`
(`OutcomeJournalled`), `OneLastWord` (`OutcomeAnnouncedOnce`),
`RecoveredNeverRuns` (`NeverResumed`), `ClosedStaysClosed` (`ClosedIsFinal`) and
`ChangesAreUndone` (`RolledBack`). What they need beside `IInv` is `OInv`:

* `LifeInv`: a queued task has not started, or is cancelled with its flag up; a
  task in the worker's hands is `RUNNING` until it is over; a recovered one is
  neither. Trimming can then meet no open record.
* `ChangeInv`: each change of the running task is among the results to be undone,
  among the undos to come or done, or in flight. It is what makes "no change left"
  follow from "the list of undos is empty".
* `RowInv`, `JournalInv`: rows follow records while no journal call failed;
  between the record's change and its row only the worker's own place stands.
* `NoticeInv`: an announced outcome is the last entry, its task is in nobody's
  hands, and its row is closed, so that no restart tells the user again.

`ReminderManagerProofs` (`ReminderAssumption`): `TypeCorrect`,
`AnnouncedAtMostOnce` (`AnnouncedOnce`), `CancelledIsFinal` (`CancelledStays`),
`FiredOnTime` (`OnTime`). `PickedInv` and `HeardInv` tie the worker's place to the
row: whoever was announced has a row that is over, and only the conditional UPDATE
makes it so. `NapInv` carries `FiredOnTime`: a worker about to wait, or waiting,
wakes in time for every pending row, or has a notification to see, or the create
of that row has not notified yet. That is the comparison of versions under the
condition.

`StorageManagerProofs` (`StorageAssumption`; the paths are a finite set):
`TypeCorrect` (`TypeOK`), `NothingIsLost` (`Durable`), `ReadsAreTrue`
(`ReadsWhatWasSaved`), `ForgottenStaysForgotten` (`NoResurrection`),
`OnlyTheBoundDrive` (`StrangerRefused`). `QueueInv` says that a row and its copy
are those of the newest save and a tombstone that of a deletion that has
returned; `CallInv` and `SyncInv` say who owns the queue lock in the middle of a
call or a sync and what was read under it, so that no sync deletes a file saved
after its tombstone or writes old data over new; `DriveInv` says that whoever
may write knows a binding, and that the bound drive, or none, is in place when
no exchange is unseen and the manager has a root, a refresh goes on, or a call
that is not `late` is about to write. `Durable` is a consequence and not
inductive: it does not say why the copy on the drive is that of the newest save.

`AgentProofs`, of the service (`AgentAssumption`): `AgentTypeCorrect`, `OneRunForOneYes`
(`OneRunPerConsent`), `OnlySuccessIsRepeated` (`RepeatsASuccess`). The number of
runs is at most the number of yeses only if the yes in hand has not been used:
`ConsentInv` follows one from the moment it is given in time, through the places of
the turn, to the run, and says that the confirmation in the slot is the one the
user was asked for until the turn has taken it out. `RepeatInv` says that a plan
is remembered for its own task and that a report of completion is about a plan
that succeeded, whichever of submission and report comes first.

The same module, of the planner (`PlanningAssumption`): `PlanningTypeCorrect`,
`ReferencesAreFresh` (`NewestIsMeant`), and `RouterPlanIsUsed` (`PlanIsReused`: a short command is put to
the model twice in one turn only if an action succeeded in between), which is a
theorem only; no run needs it. `ContextInv` says that the context is a suffix of
the successes without a gap, which is why its newest entry of a kind is the newest
there was; `CacheInv` that a prepared plan of the present version is faithful and a
lookup under way finds one of its own version or none; `ReuseInv` that the
router's plan is there for the agent.

`ComponentProofs` has one part for each of nine components; each part has its
invariant, one lemma per action or group of actions, and a theorem.

| Theorem | Property | The strengthening |
|---|---|---|
| `StillSignedIn` | `OnceAndStillSignedIn` | `OnceInv`: a call that has not ended has changed nothing. `SignedInInv`: of a service that replaces refresh tokens the newest is in one caller's hand, in that caller's save, in the file, or among the `losses` |
| `MemoriesAreKept` | `OnlyTheConfirmedIsForgotten` | `CreatedInv`: who is saving has an indexed file to himself, and nobody can have asked to forget it. `AskedInv`: what the turn deletes is what the last question named |
| `PresenceIsKept` | `PresenceIsTrue` | `ToldInv`: what is to be published is the state of the device. `OnlineInv`: the same agreement in the middle of a report |
| `DevicesAreRestored` | `RestoredAsBefore` | `RestoreInv`: the first change of a device found it as it was at the start; undone in reverse, that one comes last |
| `HistoryIsTrue` | `HistoryIsWhatWasSaid` | `StreamInv`: what a provider streamed is what the user saw. `KeptInv`, `LimitInv`: over any cut of the oldest turns |
| `RecordsReachTheArchive` | `RecordsAreKept` | `WrittenInv`: what has left the queue is its first records in order. `QueuedInv`: the rest is in the queue, the sentinel behind what was accepted before it |
| `FaceRests` | `FaceComesToRest` | `AsleepInv`: only a sleeping face closes its eyes for good, and nothing else moves them |
| `TurnsAreTaken` | `RequestsTakeTurns` | `TurnInv`: the two flags say where the one turn is. `WaitingInv`: the request in the listening thread's hand is nowhere else |
| `InterruptionsArrive` | `InterruptionReaches` | `LockInv`: the stop event in force belongs to the holder of the speech lock |
| `RepliesAreSpoken` | `NothingIsLeftUnsaid` | `SentenceInv`: queue and look-ahead number the sentences after the one in hand, up to the end of the stream. `PaceInv`, `EndInv`: nothing is dropped between hand, look-ahead and player |

Its assumptions are those of the nine modules: counts and limits are numbers,
queues hold at least one, the expressions include those the code names. The
invariants of four of the nine did not need all of their types; `ChatTypesKept`,
`LifeBoundsKept`, `VoiceTypesKept` and `SpeechTypesKept` add what is left: the
length of what streams; the services that are up, and that each record in the
archive's queue, which has its capacity, is of a turn that began; the switches of
the voice handlers; the length of a reply and of the queue between its threads.

`InterfaceProofs`, of the tablet (`TabletAssumption`): `TabletTypeCorrect`,
`FaceIsResynchronised` (`ResynchronisedFace`). What the tablet will show is a fold
over the messages on the wire, in the worker's hand and in the queue. A fold is an
induction, so `EndsAs(messages, last, shown, end)` says instead that there is a
sequence of faces, one after each message, that begins with the one shown, or
with a snapshot on the way that makes it irrelevant, and ends with `end`; lemmas
append a message, take the first one off and leave out what is dropped as old. `TabletInv` is

* `UpInv`: a connection that is up for Ron is up for the tablet, has nothing of an
  older one on its wire, and carries no number above the last one taken. That is
  why a restart, which numbers from one again, is harmless: the greeting resets the
  tablet's number before a message of the new run can arrive;
* `MarksInv`: a greeting on the wire is followed by the end of its connection,
  unless it is the one waited for;
* `NumInv`: what has been numbered and not sent has a number that was taken;
* `ClearInv`: without an overlap, the state changes between no look and its number;
* `ClaimInv`: on a connection that needs no further snapshot, the messages coming
  lead from the face shown to one that is the face wanted as soon as those who
  hold a number have queued it, and while a tap is on its way the tablet is awake.

The same module, of the microphone (`AudioAssumption`): `AudioTypeCorrect`,
`TimelineIsOne` (`OneTimeline`). `ClockInv` says that the samples read, those in
the queue, frame by frame, and those in the callback's hand follow each other on
the clock, whichever frame a full queue drops. `ResampleInv` says where the
resampler stands: its next position is that of the first output sample that needs
one not read yet, and its last sample is the last one read. The arithmetic of
positions is a handful of lemmas about rounding (`Rounded`, `CeilingMonotone`,
`ReachedIs`), each used where a product of two variables would stop the prover.
`PrerollInv` compares the ring with the newest part of what it was given.
The concatenation of the chunks is a recursive function of the library. `Tiles`
says at which place of the whole each chunk begins, and `FlattenIs` that the
concatenation is then the whole; in place of the library's induction, which takes
an operator as a parameter, it uses `AllOfThem`: a set that has the first number of
an interval and with each number the next has them all, since otherwise there
were a least one missing (`LeastExists`, by finite sets).

`CompositionProofs`: `TypesAreKept` (`TypesOK`), of the specification that the run
`components` checks. Its invariant is that of every component at once (`AllInv`).
`EachMovesOrRests` says that a step of the composition is, for each component, one
of its own steps or none, and the lemmas of the three modules before do the rest.

Model-checked only:

* liveness (`WaiterIsServed`, `TaskSettles`, `WorkerStops`, `QueueDrains`,
  `DueIsAnnounced`): the prover does neither `ENABLED` nor fairness;
* the five properties that the code violates.


## 5. Not modelled, and why

* Normalisation, prompts and reports, and the patterns of the router and the
  planner as texts: functions without state. `AgentService` takes the planner's
  result as a choice, `PromptPlanning` the shape of a prompt.
* Argument validation, tool schemas, settings, the requests of the HTTP clients,
  the search ranking of memory, drawing on the tablet: data and input/output.
* Wake word, voice activity and speech recognition: `VoiceService` takes every
  outcome they can have.
* Free disk space, file sizes and checksums as numbers: a call fails or not.
* The first authorisation with Spotify in a browser and the encryption of the
  token file; the choice between LAN and USB for the tablet; quick actions.
* Tools that are a single call of Windows or of a service.
* The desktop preview and other scripts, which the assistant does not run.
* Two processes at once: the program is not meant to run twice.
* A changing system clock: reminders compare wall-clock times and sleep at most
  30 seconds, so a jump delays by that much; the model's clock only moves on.

## 6. Plan

Done: the modules above. Every invariant and every action property that a run
expects to hold is a theorem, and so are the two refinements. Left:

1. Liveness stays with TLC.
2. The parts of section 5 that have state: the choice between LAN and USB, and
   quick actions on the tablet. They need a model of the desktop's side first.
3. The five disagreements of section 3: when the code changes, their runs turn into
   passing ones, and their properties into theorems.
